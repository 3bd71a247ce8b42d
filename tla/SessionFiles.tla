---------------------------- MODULE SessionFiles ----------------------------
(***************************************************************************)
(* The files a session leaves under session-tmp/ and sessions/, as the     *)
(* UserPromptSubmit hooks (startup_prompt, compass_rules) and the Stop     *)
(* hook save_transcript write them and the daily sweep removes them.       *)
(* Sessions of one repository run side by side, are interrupted, left      *)
(* alone for days and resumed.  rules.md exists and never changes here.    *)
(***************************************************************************)
EXTENDS Integers, Sequences, SequencesExt

CONSTANTS
    Sessions,
    PinEvery,      \* PIN_EVERY: every so many prompts the rules are pinned
    MaxHistory,    \* MAX_HISTORY
    FlagDays,      \* FLAG_MAX_AGE_DAYS
    IdentityDays,  \* IDENTITY_MAX_AGE_DAYS
    MaxDays, MaxPrompts, MaxMishaps,
    None

(* Some prompt pins the rules; ages are days, and None is neither a day nor  *)
(* a counter.                                                              *)
SessionFilesAssumption ==
    /\ PinEvery \in Nat \ {0} /\ FlagDays \in Nat
    /\ None \notin Nat /\ None \notin [count : Nat, day : Nat]

VARIABLES
    today,
    chain,       \* where each session's hook chain stands
    startup,     \* startup_prompt_done: the day it was written, or None
    counter,     \* compass_pin_count: its count and day, or None
    identity,    \* identity-<sid>.json: the day it was written, or None
    recent,      \* history.json
    lastSession, \* last-session.json
    lastSweep,   \* the day of .last_sweep
    prompts,     \* prompts so far
    since,       \* prompts since the rules were last delivered    (history)
    mishaps      \* hooks killed and counters not written          (history)

flagFiles == <<startup, counter, identity>>
records == <<recent, lastSession>>
vars == <<today, chain, flagFiles, records, lastSweep, prompts, since, mishaps>>

Quiet == [at |-> "idle", rules |-> FALSE, todo |-> {}]
At(s, step) == chain[s].at = step
Goto(s, step) == chain' = [chain EXCEPT ![s].at = step]

Init ==
    /\ today = 1
    /\ chain = [s \in Sessions |-> Quiet]
    /\ startup = [s \in Sessions |-> None] /\ counter = [s \in Sessions |-> None]
    /\ identity = [s \in Sessions |-> None]
    /\ recent = <<>> /\ lastSession = None /\ lastSweep = 0
    /\ prompts = 0 /\ since = [s \in Sessions |-> 0] /\ mishaps = 0

-----------------------------------------------------------------------------
(* UserPromptSubmit.                                                       *)

Prompt(s) ==
    /\ At(s, "idle") /\ prompts < MaxPrompts
    /\ prompts' = prompts + 1
    /\ chain' = [chain EXCEPT ![s] = [Quiet EXCEPT !.at = "startup"]]
    /\ UNCHANGED <<today, flagFiles, records, lastSweep, since, mishaps>>

(* The run-once guard, and its flag before anything is built.              *)
Startup(s) ==
    /\ At(s, "startup")
    /\ IF startup[s] # None THEN Goto(s, "pin") /\ UNCHANGED startup
       ELSE Goto(s, "init") /\ startup' = [startup EXCEPT ![s] = today]
    /\ UNCHANGED <<today, counter, identity, records, lastSweep, prompts, since, mishaps>>

(* run_init writes the identity; the block carries the whole rule table.   *)
StartupBlock(s) ==
    /\ At(s, "init")
    /\ identity' = [identity EXCEPT ![s] = today]
    /\ chain' = [chain EXCEPT ![s].at = "pin", ![s].rules = TRUE]
    /\ UNCHANGED <<today, startup, counter, records, lastSweep, prompts, since, mishaps>>

(* A counter that cannot be read counts from zero again.                   *)
Bumped(s) == IF counter[s] = None THEN 1 ELSE counter[s].count + 1

Pin(s) ==
    /\ At(s, "pin")
    /\ \/ /\ counter' = [counter EXCEPT ![s] = [count |-> Bumped(s), day |-> today]]
          /\ UNCHANGED mishaps
       \/ /\ mishaps < MaxMishaps /\ mishaps' = mishaps + 1      \* not written
          /\ UNCHANGED counter
    /\ chain' = [chain EXCEPT ![s].at = "submit",
                              ![s].rules = @ \/ Bumped(s) % PinEvery = 0]
    /\ UNCHANGED <<today, startup, identity, records, lastSweep, prompts, since>>

(* The chain's one response reaches the model.                             *)
Submit(s) ==
    /\ At(s, "submit")
    /\ since' = [since EXCEPT ![s] = IF chain[s].rules THEN 0 ELSE @ + 1]
    /\ Goto(s, "answer")
    /\ UNCHANGED <<today, flagFiles, records, lastSweep, prompts, mishaps>>

-----------------------------------------------------------------------------
(* The turn ends: an interrupted one without a Stop event.                 *)

EndTurn(s) ==
    /\ At(s, "answer")
    /\ Goto(s, "history") \/ Goto(s, "idle")
    /\ UNCHANGED <<today, flagFiles, records, lastSweep, prompts, since, mishaps>>

(* Under history.json's lock: the session's entry moves to the end.        *)
AppendToHistory(s) ==
    /\ At(s, "history")
    /\ LET entries == Append(SelectSeq(recent, LAMBDA t : t # s), s)
           extra == IF Len(entries) > MaxHistory THEN Len(entries) - MaxHistory ELSE 0
       IN  recent' = SubSeq(entries, extra + 1, Len(entries))
    /\ Goto(s, "last")
    /\ UNCHANGED <<today, flagFiles, lastSession, lastSweep, prompts, since, mishaps>>

Flags == {"startup", "counter"} \X Sessions

WriteLast(s) ==
    /\ At(s, "last")
    /\ lastSession' = s
    /\ chain' = [chain EXCEPT ![s] = IF lastSweep = today THEN Quiet
                                     ELSE [@ EXCEPT !.at = "sweep", !.todo = Flags]]
    /\ UNCHANGED <<today, flagFiles, recent, lastSweep, prompts, since, mishaps>>

Old(day, days) == day # None /\ today - day > days

(* The sweep looks at one flag file after the other, in no particular      *)
(* order, then at the identity files.                                      *)
(* Mutant: its pattern does not match the startup flag.                    *)
SweepKeepsStartup(s) ==
    /\ At(s, "sweep") /\ chain[s].todo # {}
    /\ \E f \in chain[s].todo :
         /\ chain' = [chain EXCEPT ![s].todo = @ \ {f}]
         /\ counter' = [t \in Sessions |->
              IF f = <<"counter", t>> /\ counter[t] # None /\ Old(counter[t].day, FlagDays)
              THEN None ELSE counter[t]]
    /\ UNCHANGED <<today, startup, identity, records, lastSweep, prompts, since, mishaps>>

Sweep(s) ==
    /\ At(s, "sweep") /\ chain[s].todo # {}
    /\ \E f \in chain[s].todo :
         /\ chain' = [chain EXCEPT ![s].todo = @ \ {f}]
         /\ startup' = [t \in Sessions |->
              IF f = <<"startup", t>> /\ Old(startup[t], FlagDays) THEN None ELSE startup[t]]
         /\ counter' = [t \in Sessions |->
              IF f = <<"counter", t>> /\ counter[t] # None /\ Old(counter[t].day, FlagDays)
              THEN None ELSE counter[t]]
    /\ UNCHANGED <<today, identity, records, lastSweep, prompts, since, mishaps>>

Swept(s) ==
    /\ At(s, "sweep") /\ chain[s].todo = {}
    /\ lastSweep' = today
    /\ identity' = [t \in Sessions |->
                      IF Old(identity[t], IdentityDays) THEN None ELSE identity[t]]
    /\ chain' = [chain EXCEPT ![s] = Quiet]
    /\ UNCHANGED <<today, startup, counter, records, prompts, since, mishaps>>

-----------------------------------------------------------------------------
(* A dispatcher killed by its timeout: the prompt goes on without context, *)
(* the turn ends all the same.                                             *)
Killed(s) ==
    /\ chain[s].at \notin {"idle", "answer"}
    /\ mishaps < MaxMishaps /\ mishaps' = mishaps + 1
    /\ LET prompting == chain[s].at \in {"startup", "init", "pin", "submit"}
       IN  /\ chain' = [chain EXCEPT ![s] =
                          IF prompting THEN [Quiet EXCEPT !.at = "answer"] ELSE Quiet]
           /\ since' = IF prompting THEN [since EXCEPT ![s] = @ + 1] ELSE since
    /\ UNCHANGED <<today, flagFiles, records, lastSweep, prompts>>

NextDay ==
    /\ today < MaxDays /\ \A s \in Sessions : chain[s].at \in {"idle", "answer"}
    /\ today' = today + 1
    /\ UNCHANGED <<chain, flagFiles, records, lastSweep, prompts, since, mishaps>>

Next ==
    \/ NextDay
    \/ \E s \in Sessions :
         \/ Prompt(s) \/ Startup(s) \/ StartupBlock(s) \/ Pin(s) \/ Submit(s)
         \/ EndTurn(s) \/ AppendToHistory(s) \/ WriteLast(s) \/ Sweep(s) \/ Swept(s)
         \/ Killed(s)

Spec == Init /\ [][Next]_vars

-----------------------------------------------------------------------------
(* Properties.                                                             *)

(* Never more than PinEvery - 1 prompts pass without the rules reaching    *)
(* the model, although the sweep of one session removes the flags another  *)
(* one still counts with: a counter old enough to go takes the startup     *)
(* flag with it, and the next prompt brings the whole table again - unless *)
(* the session is resumed while the sweep is between the two.  Killed      *)
(* hooks and failed writes are excepted.                                   *)
Sweeping == \E s \in Sessions : At(s, "sweep")

RulesWithinReach ==
    mishaps = 0 => \A s \in Sessions : At(s, "answer") =>
        since[s] < PinEvery \/ startup[s] = None \/ Sweeping

TypeOK ==
    /\ today \in 1..MaxDays /\ prompts \in 0..MaxPrompts /\ mishaps \in 0..MaxMishaps
    /\ \A s \in Sessions :
         /\ since[s] \in 0..MaxPrompts
         /\ counter[s] # None => counter[s].count \in 1..MaxPrompts /\ counter[s].day \in 1..today
         /\ startup[s] # None => startup[s] \in 1..today
         /\ identity[s] # None => identity[s] \in 1..today
         /\ recent \in Seq(Sessions) /\ lastSession \in Sessions \cup {None}
=============================================================================
