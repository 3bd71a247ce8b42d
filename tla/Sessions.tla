------------------------------- MODULE Sessions -------------------------------
(* What the hooks make of sessions: the chains of one session (HookChain), *)
(* how rules.md is made of several (CompassRules) and how it reaches them, *)
(* with their other files (SessionFiles).  They share no state, so that a  *)
(* behaviour is of one of the three.                                       *)
EXTENDS Integers

CONSTANTS
    Tools, Pairs, SubTools, MaxTurns, MaxApi, MaxPaired, MaxMishaps,
    RuleSessions, Jobs, MinPairs, MaxCall, RulePrompts, RuleDays,
    FileSessions, PinEvery, MaxHistory, FlagDays, IdentityDays, FileDays, FilePrompts,
    Nothing

VARIABLES
    part, \* whose behaviour it is
    phase, turn, lines, apis, slots, flags, baseline, log, logging, sample, window,
    told, lost, spoiled, mishaps,
    rToday, said, cut, turning, stop, cursor, pairs, written, heur, events, rules, job,
    rSpoiled, rMishaps,
    today, chain, startup, counter, identity, recent, lastSession, lastSweep,
    prompts, since, fMishaps

hookVars == <<phase, turn, lines, apis, slots, flags, baseline, log, logging, sample, window,
              told, lost, spoiled, mishaps>>
ruleVars == <<rToday, said, cut, turning, stop, cursor, pairs, written, heur, events, rules, job,
              rSpoiled, rMishaps>>
flagVars == <<today, chain, startup, counter, identity, recent, lastSession, lastSweep,
              prompts, since, fMishaps>>

Hooks == INSTANCE HookChain WITH None <- Nothing, d <- slots

Compass == INSTANCE CompassRules WITH
    None <- Nothing, Sessions <- RuleSessions, MaxPrompts <- RulePrompts, MaxDays <- RuleDays,
    today <- rToday, spoiled <- rSpoiled, mishaps <- rMishaps

Flags == INSTANCE SessionFiles WITH
    None <- Nothing, Sessions <- FileSessions, MaxDays <- FileDays, MaxPrompts <- FilePrompts,
    mishaps <- fMishaps

ASSUME SessionsAssumption == Hooks!HookChainAssumption /\ Flags!SessionFilesAssumption

(* What is said of the flag files excepts those a mishap has left behind;  *)
(* such a behaviour is followed to the second prompt.                      *)
Followed == fMishaps = 0 \/ prompts < 2

SessionsInit ==
    /\ part \in {"chains", "rules", "files"}
    /\ Hooks!Init /\ Compass!Init /\ Flags!Init

SessionsNext ==
    \/ part = "chains" /\ Hooks!Next /\ UNCHANGED <<part, ruleVars, flagVars>>
    \/ part = "rules" /\ Compass!Next /\ UNCHANGED <<part, hookVars, flagVars>>
    \/ part = "files" /\ Followed /\ Flags!Next /\ UNCHANGED <<part, hookVars, ruleVars>>

SessionsSpec == SessionsInit /\ [][SessionsNext]_<<part, hookVars, ruleVars, flagVars>>

(* A call that a gate condemns never runs, unless that gate failed or its  *)
(* dispatcher died (dispatch.py run_chain).                                *)
CondemnedCallNeverRuns == Hooks!CondemnedCallNeverRuns

(* What a once-per-session flag records as told was told, is on its way,   *)
(* or went with a block, an interrupt or a dead dispatcher (dispatch.py    *)
(* run_chain and the hooks' flag files).                                   *)
FlagMeansTold == Hooks!FlagMeansTold

(* No API call is billed twice (pre_tool_use.py, stop_session.py).         *)
BilledOnce == Hooks!BilledOnce

(* Every prompt is logged once, with the text it answers (turns.py         *)
(* update_from_transcript).                                                *)
PairsFaithful == Compass!PairsFaithful

(* With nothing pending and nothing at work, rules.md says what the events *)
(* files say (classify.py cmd_catch_up, rules.py build).                   *)
RulesCurrent == Compass!RulesCurrent

(* Never more than PinEvery - 1 prompts pass without the rules reaching    *)
(* the model (compass_rules._pin, session.py sweep_stale_session_files).   *)
RulesWithinReach == Flags!RulesWithinReach
=============================================================================
