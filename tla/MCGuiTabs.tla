------------------------------- MODULE MCGuiTabs -------------------------------
(* The tabs of the window, one saved and one the user may open, and the    *)
(* subagents of one tab, in one run of TLC: a behaviour is of the one or   *)
(* of the other.                                                           *)
EXTENDS Gui, TLC

CONSTANTS tabA, tabC

VARIABLE half \* whose behaviour it is

MCSaved == <<tabA>>
MCNew == {tabC}
MCSymmetry == Permutations(Calls) \cup Permutations(Requests)

MCInit == half \in {"tabs", "agents"} /\ Init /\ Agents!Init

MCNext ==
    \/ half = "tabs" /\ Next /\ UNCHANGED <<half, agentVars>>
    \/ half = "agents" /\ Agents!Claude /\ UNCHANGED <<half, vars>>
    \/ half = "agents" /\ Agents!Clear /\ UNCHANGED <<half, vars>>
    \/ half = "agents" /\ Agents!Attach /\ UNCHANGED <<half, vars>>
    \/ half = "agents" /\ Agents!Deliver /\ UNCHANGED <<half, vars>>
    \/ half = "agents" /\ Agents!Scan /\ UNCHANGED <<half, vars>>
    \/ half = "agents" /\ Agents!Snapshot /\ UNCHANGED <<half, vars>>

MCSpec == MCInit /\ [][MCNext]_<<half, vars, agentVars>>
=============================================================================
