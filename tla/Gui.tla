---------------------------------- MODULE Gui ----------------------------------
(* The tabs of the window (GuiTabs) and the subagents of one tab           *)
(* (GuiAgents), side by side.  They share no state.                        *)
EXTENDS GuiTabs

CONSTANTS MaxAgentCalls, MaxSessions

VARIABLES
    aSession, aCall, aSub, aLast, aQuiet, aLog, aPath, aHeard, aParent, aKnown, aTable,
    aPending, aShown, aLulls

agentVars == <<aSession, aCall, aSub, aLast, aQuiet, aLog, aPath, aHeard, aParent, aKnown,
               aTable, aPending, aShown, aLulls>>

Agents == INSTANCE GuiAgents WITH
    MaxCalls <- MaxAgentCalls,
    session <- aSession, call <- aCall, sub <- aSub, last <- aLast, quiet <- aQuiet,
    log <- aLog, path <- aPath, heard <- aHeard, parent <- aParent, known <- aKnown,
    table <- aTable, pending <- aPending, shown <- aShown, lulls <- aLulls

ASSUME GuiAssumption == Agents!GuiAgentsAssumption

(* A result that came before the scan saw the subagent's file is not lost  *)
(* (subagent_tracker.py).                                                  *)
ResultMarksDone == Agents!ResultMarksDone
=============================================================================
