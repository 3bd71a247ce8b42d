------------------------------ MODULE HookChain ------------------------------
(***************************************************************************)
(* One Claude session of a bootstrapped repository as its hooks see it:    *)
(* core/hooks/dispatch.py runs the chain of an event in one process, each  *)
(* hook keeps once-per-session flag files under session-tmp/, and the      *)
(* budgeter's three hooks bill API calls against a baseline file.          *)
(*                                                                         *)
(* The session's own behaviour is the environment: prompts, API calls that *)
(* add lines to the transcript, one or two tool calls per API call whose   *)
(* dispatchers run in parallel, a subagent's call while an Agent call      *)
(* runs, interrupts (no Stop event follows one), compaction.  One API call *)
(* costs one token, so a number of tokens is a number of API calls.  What  *)
(* the push gates and the prose gate say of a call is part of the call.    *)
(***************************************************************************)
EXTENDS Integers, FiniteSets, Sequences, SequencesExt, FiniteSetsExt

CONSTANTS
    Tools,       \* the tools the session calls
    Pairs,       \* pairs of tools one API call may use in parallel
    SubTools,    \* the tools a subagent calls
    MaxTurns,    \* user prompts
    MaxApi,      \* API calls
    MaxPaired,   \* the last API call that may use two tools at once
    MaxMishaps,  \* raising hooks, dead dispatchers, interrupts, compactions,
                 \* toggles of the log and new usage windows, together
    None

HookChainAssumption == None \notin {"PreToolUse", "PostToolUse", "Stop", "running"}

(* The registry.  The chain of UserPromptSubmit and the Stop hooks after   *)
(* the budgeter's are in modules SessionFiles, CompassRules, Telephone.    *)
Chain(event) ==
    CASE event = "PreToolUse" ->
           <<"drift_check", "inject_session", "learnings_inject",
             "research_reminder", "compass_rules", "pre_push_doc_conformer",
             "pre_push_secret_scan", "budgeter_pre", "remind_standards",
             "prose_check">>
      [] event = "PostToolUse" -> <<"context_rule_error_reminder", "budgeter_post">>
      [] event = "Stop" -> <<"budgeter_stop">>

Monitored == {"Agent", "Bash", "Read", "Write"}

(* What each matcher accepts; a hook without one takes every call.         *)
Matcher(hook) ==
    CASE hook = "learnings_inject" -> {"Edit", "Write", "Bash"}
      [] hook = "research_reminder" -> {"WebSearch", "WebFetch", "Agent", "Task"}
      [] hook = "compass_rules" -> {"Agent", "Task", "AskUserQuestion"}
      [] hook \in {"pre_push_doc_conformer", "pre_push_secret_scan",
                   "context_rule_error_reminder"} -> {"Bash"}
      [] hook \in {"budgeter_pre", "budgeter_post"} -> Monitored
      [] hook = "remind_standards" -> {"Write", "Edit"}
      [] hook = "prose_check" -> {"Write", "Edit", "Bash"}
      [] OTHER -> Tools \cup {None}

VARIABLES
    phase,      \* "user" waits for a prompt, "model" works on one
    turn,       \* prompts so far
    lines,      \* the transcript: 0 a prompt, n > 0 a line of API call n
    apis,       \* API calls made
    d,          \* tool calls, the Stop event and their dispatchers, by slot
    flags,      \* once-per-session flag files
    baseline,   \* the budgeter's baseline file, or None
    log,        \* the budgeter's log
    logging,    \* the budgeter-log flag
    sample,     \* the newest usage sample: the window it saw run low, or 0
    window,     \* the account's current usage window
    told,       \* what the model has been given            (history)
    lost,       \* recorded as given, but never delivered   (history)
    spoiled,    \* which mishaps this session has had       (history)
    mishaps     \* how many of them

session == <<phase, turn, lines, apis>>
files == <<flags, baseline, log, sample>>
world == <<logging, window, spoiled, mishaps>>
vars == <<session, d, files, world, told, lost>>

Slots == {"stop", "c1", "c2"}
Idle == [event |-> None, tool |-> None, agent |-> "main", bad |-> None,
         at |-> 0, ctx |-> {}, read |-> None, stage |-> 0]

(* The next hook of the chain that takes this call, past the end if none.  *)
NextAt(event, tool, i) ==
    LET later == {j \in (i + 1)..Len(Chain(event)) : tool \in Matcher(Chain(event)[j])}
    IN  IF later = {} THEN Len(Chain(event)) + 1 ELSE Min(later)

Start(event, tool, agent, bad) ==
    [Idle EXCEPT !.event = event, !.tool = tool, !.agent = agent,
                 !.bad = bad, !.at = NextAt(event, tool, 0)]

Dispatching(s) == d[s].event \in {"PreToolUse", "PostToolUse", "Stop"}
InChain(s) == Dispatching(s) /\ d[s].at <= Len(Chain(d[s].event))
Hook(s) == Chain(d[s].event)[d[s].at]
At(s, hook) == InChain(s) /\ Hook(s) = hook

(* Tokens and turn number as logger.py counts them: an API call counts     *)
(* once however many lines repeat its id.                                  *)
(* Mutant: every line of the transcript is counted.                        *)
TokensPerLine(ls) == Cardinality({i \in DOMAIN ls : ls[i] # 0})

Tokens(ls) == Cardinality({ls[i] : i \in DOMAIN ls} \ {0})
TurnNumber(ls) == Cardinality({i \in DOMAIN ls : ls[i] = 0})

Init ==
    /\ phase = "user" /\ turn = 0 /\ lines = <<>> /\ apis = 0
    /\ d = [s \in Slots |-> Idle]
    /\ flags = {} /\ baseline = None /\ log = <<>> /\ sample = 0
    /\ logging = TRUE /\ window = 1 /\ told = {} /\ lost = {}
    /\ spoiled = {} /\ mishaps = 0

Mishap(kinds) ==
    /\ mishaps < MaxMishaps /\ mishaps' = mishaps + 1
    /\ spoiled' = spoiled \cup kinds

-----------------------------------------------------------------------------
(* The dispatcher.                                                         *)

(* The hook has said what it has to say: the loop goes on.                 *)
Continue(s, context) ==
    d' = [d EXCEPT ![s].at = NextAt(d[s].event, d[s].tool, d[s].at),
                   ![s].ctx = @ \cup context, ![s].read = None, ![s].stage = 0]

(* A block_reason ends the chain and the call; the contexts of the hooks   *)
(* before it are dropped.                                                  *)
Block(s, context) ==
    /\ d' = [d EXCEPT ![s] = Idle]
    /\ lost' = lost \cup d[s].ctx \cup context

(* A hook that raises is logged, and the chain goes on without it.         *)
(* Mutant: its exception ends the chain.                                   *)
RaiseEndsChain(s) ==
    /\ InChain(s) /\ d[s].stage = 0 /\ Hook(s) # "budgeter_stop"
    /\ Mishap({Hook(s)})
    /\ d' = [d EXCEPT ![s].at = Len(Chain(d[s].event)) + 1, ![s].ctx = {}]
    /\ UNCHANGED <<session, files, logging, window, told, lost>>

Raise(s) ==
    /\ InChain(s) /\ d[s].stage = 0 /\ Hook(s) # "budgeter_stop"
    /\ Mishap({Hook(s)})
    /\ Continue(s, {})
    /\ UNCHANGED <<session, files, logging, window, told, lost>>

(* After the chain a call may run; after the Stop chain the user has the   *)
(* floor again.                                                            *)
Ended(s) ==
    /\ d' = [d EXCEPT ![s] = IF @.event # "PreToolUse" THEN Idle
                             ELSE [@ EXCEPT !.event = "running", !.ctx = {},
                                            !.read = None, !.stage = 0]]
    /\ phase' = IF d[s].event = "Stop" THEN "user" ELSE phase

(* One response with every context the chain gathered.                     *)
Deliver(s) ==
    /\ Dispatching(s) /\ ~InChain(s)
    /\ Ended(s)
    /\ told' = told \cup d[s].ctx
    /\ UNCHANGED <<turn, lines, apis, files, world, lost>>

(* The entry of a PRE is logged, its new baseline not yet saved.           *)
HalfBilled(s) == IF d[s].stage = 2 THEN {"half billed"} ELSE {}

(* The process dies: no response, hence no objection and no context.       *)
Die(s) ==
    /\ Dispatching(s)
    /\ Mishap({"died", d[s].event} \cup HalfBilled(s))
    /\ Ended(s)
    /\ lost' = lost \cup d[s].ctx
    /\ UNCHANGED <<turn, lines, apis, files, logging, window, told>>

-----------------------------------------------------------------------------
(* Hooks that speak once: the flag file first, then the context.           *)

(* Learnings and the hook-point rule are kept per agent, the other flags   *)
(* per session.                                                            *)
PerAgent(s, flag) == IF d[s].agent = "main" THEN flag ELSE flag \o "_sub"

Say(s, flag) ==
    /\ flags' = flags \cup {flag}
    /\ Continue(s, {flag} \ flags)
    /\ UNCHANGED <<session, baseline, log, sample, world, told, lost>>

(* There is a learning and a standard for every write, and every rule a    *)
(* tool asks for is in the rules file.                                     *)
InjectSession(s) == At(s, "inject_session") /\ Say(s, "session")
LearningsInject(s) == At(s, "learnings_inject") /\ Say(s, PerAgent(s, "learning"))
ResearchReminder(s) == At(s, "research_reminder") /\ Say(s, "research")
RemindStandards(s) == At(s, "remind_standards") /\ Say(s, "standards")

ToolRule(s) ==
    /\ At(s, "compass_rules") /\ d[s].tool \in {"Agent", "Task"}
    /\ Say(s, PerAgent(s, "J5"))

(* The drift check speaks to the user's terminal, never to the model.      *)
DriftCheck(s) ==
    /\ At(s, "drift_check")
    /\ flags' = flags \cup {"drift"}
    /\ Continue(s, {})
    /\ UNCHANGED <<session, baseline, log, sample, world, told, lost>>

(* O3 goes out before every AskUserQuestion: no flag.                      *)
AskRule(s) ==
    /\ At(s, "compass_rules") /\ d[s].tool = "AskUserQuestion"
    /\ Continue(s, {"O3"})
    /\ UNCHANGED <<session, files, world, told, lost>>

PushGates == {"pre_push_doc_conformer", "pre_push_secret_scan"}

Gate(s, hook) ==
    /\ At(s, hook)
    /\ IF d[s].bad = hook THEN Block(s, {}) ELSE Continue(s, {}) /\ UNCHANGED lost
    /\ UNCHANGED <<session, files, world, told>>

DocConformer(s) == Gate(s, "pre_push_doc_conformer")
SecretScan(s) == Gate(s, "pre_push_secret_scan")

(* The prose rules once per session, then the findings; with the gate on   *)
(* an error blocks the write, the reminder included.  A Bash call is only  *)
(* looked at when it adds a note.                                          *)
ProseCheck(s) ==
    /\ At(s, "prose_check")
    /\ \E looked \in IF d[s].tool = "Bash" THEN BOOLEAN ELSE {TRUE} :
         LET reminder == IF looked THEN {"prose"} \ flags ELSE {}
         IN  /\ flags' = flags \cup reminder
             /\ IF d[s].bad = "prose_check"
                THEN Block(s, reminder)
                ELSE Continue(s, reminder) /\ UNCHANGED lost
    /\ UNCHANGED <<session, baseline, log, sample, world, told>>

(* An error in the check itself, once the reminder is recorded, takes the  *)
(* reminder with it.                                                       *)
ProseRaises(s) ==
    /\ At(s, "prose_check") /\ Mishap({"prose_check"})
    /\ flags' = flags \cup {"prose"}
    /\ lost' = lost \cup ({"prose"} \ flags)
    /\ Continue(s, {})
    /\ UNCHANGED <<session, baseline, log, sample, logging, window, told>>

(* After a failed Bash call; a doc-shaped failure files a todo once per    *)
(* session and command and says whether that worked.                       *)
ErrorReminder(s) ==
    /\ At(s, "context_rule_error_reminder")
    /\ \E docShaped \in BOOLEAN :
         LET todo == IF docShaped THEN {"doc_todo"} \ flags ELSE {}
         IN  flags' = flags \cup todo /\ Continue(s, todo)
    /\ UNCHANGED <<session, baseline, log, sample, world, told, lost>>

-----------------------------------------------------------------------------
(* The budgeter.                                                           *)

(* The cost of the last tool: everything since the baseline, unless that   *)
(* tool was an Agent, no API call was made since, or the count shrank.     *)
CostEntry(base, tokens) ==
    [tool |-> base.prev, delta |-> tokens - base.tokens, task |-> base.task, during |-> turn]
Logged(entry) == Append(log, entry)
WithEntry(base, tokens) ==
    IF logging /\ base # None /\ base.prev # "Agent" /\ tokens > base.tokens
    THEN Logged(CostEntry(base, tokens)) ELSE log

(* A PRE reads the transcript and the baseline, then logs, then saves.     *)
PreReads(s) ==
    /\ At(s, "budgeter_pre") /\ d[s].stage = 0
    /\ d' = [d EXCEPT ![s].stage = 1,
                      ![s].read = [tokens |-> Tokens(lines),
                                   number |-> TurnNumber(lines), base |-> baseline]]
    /\ spoiled' = spoiled \cup {"overlap" : o \in {o \in Slots \ {s} : d[o].stage > 0}}
    /\ UNCHANGED <<session, files, logging, window, mishaps, told, lost>>

PreLogs(s) ==
    /\ At(s, "budgeter_pre") /\ d[s].stage = 1
    /\ log' = WithEntry(d[s].read.base, d[s].read.tokens)
    /\ d' = [d EXCEPT ![s].stage = 2]
    /\ UNCHANGED <<session, flags, baseline, sample, world, told, lost>>

(* A new turn opens a new task; within a turn the task stays.              *)
TaskTurn(now) ==
    IF now.base = None \/ now.number > now.base.number THEN now.number
    ELSE now.base.task

(* save_baseline: what a PRE leaves for the next hook.                     *)
Saved(now, tool) == [tokens |-> now.tokens, prev |-> tool,
                     number |-> now.number, task |-> TaskTurn(now)]

(* The nudge for a window running low; its sentinel file holds the window  *)
(* it fired for, so that the next window arms it again.                    *)
UsageFlag == [w \in 1..2 |-> IF w = 1 THEN "usage_1" ELSE "usage_2"]
Nudge == IF sample = window THEN {UsageFlag[window]} \ flags ELSE {}

PreSaves(s) ==
    /\ At(s, "budgeter_pre") /\ d[s].stage = 2
    /\ baseline' = Saved(d[s].read, d[s].tool)
    /\ flags' = IF Nudge = {} THEN flags ELSE (flags \ Range(UsageFlag)) \cup Nudge
    /\ Continue(s, Nudge)
    /\ UNCHANGED <<session, log, sample, world, told, lost>>

(* An Agent's own API calls are elsewhere: its POST logs their total, kept *)
(* here as an entry that bills nothing of this transcript.                 *)
PostLogs(s) ==
    /\ At(s, "budgeter_post")
    /\ log' = IF d[s].tool = "Agent" /\ logging
              THEN Logged([tool |-> "Agent", delta |-> 0, during |-> turn,
                           task |-> IF baseline = None THEN 0 ELSE baseline.task])
              ELSE log
    /\ Continue(s, {})
    /\ UNCHANGED <<session, flags, baseline, sample, world, told, lost>>

(* The newest sample at the end of a turn: no new one was due or could be   *)
(* taken, or it saw the limits far, or the window running low.             *)
Sampled == {sample, 0, window}

(* Stop bills the rest of the turn to its last tool, samples the usage     *)
(* limits when a sample is due, and removes the baseline even when its     *)
(* logging raised.                                                         *)
StopLogs(s) ==
    /\ At(s, "budgeter_stop")
    /\ \/ log' = WithEntry(baseline, Tokens(lines)) /\ UNCHANGED <<spoiled, mishaps>>
       \/ Mishap({"budgeter_stop"}) /\ UNCHANGED log
    /\ baseline' = None
    /\ sample' \in Sampled
    /\ Continue(s, {})
    /\ UNCHANGED <<session, flags, logging, window, told, lost>>

-----------------------------------------------------------------------------
(* The session.                                                            *)

Busy == \E s \in Slots : d[s] # Idle

Prompt ==
    /\ phase = "user" /\ turn < MaxTurns
    /\ phase' = "model" /\ turn' = turn + 1 /\ lines' = Append(lines, 0)
    /\ UNCHANGED <<apis, d, files, world, told, lost>>

(* What a gate would say of the call, None for no objection.               *)
Verdicts(tool) ==
    CASE tool = "Bash" -> PushGates \cup {None}
      [] tool \in {"Write", "Edit"} -> {"prose_check", None}
      [] OTHER -> {None}

(* One API call: one line of the transcript, or two for every other call,  *)
(* then the turn's end, one tool call, or two in parallel.                 *)
ApiCall ==
    /\ phase = "model" /\ ~Busy /\ apis < MaxApi
    /\ apis' = apis + 1
    /\ lines' = lines \o [i \in 1..(1 + (apis' % 2)) |-> apis']
    /\ \/ d' = [d EXCEPT !["stop"] = Start("Stop", None, "main", None)]
       \/ \E t \in Tools : \E bad \in Verdicts(t) :
            d' = [d EXCEPT !["c1"] = Start("PreToolUse", t, "main", bad)]
       \/ apis < MaxPaired /\ \E p \in Pairs :
            d' = [d EXCEPT !["c1"] = Start("PreToolUse", p[1], "main", None),
                           !["c2"] = Start("PreToolUse", p[2], "main", None)]
    /\ UNCHANGED <<phase, turn, files, world, told, lost>>

(* A subagent's call fires the same hooks, with the parent's session id and *)
(* transcript and an agent id of its own.                                  *)
SubCall ==
    /\ d["c1"].event = "running" /\ d["c1"].tool = "Agent" /\ d["c2"] = Idle
    /\ \E t \in SubTools : d' = [d EXCEPT !["c2"] = Start("PreToolUse", t, "sub", None)]
    /\ UNCHANGED <<session, files, world, told, lost>>

(* The tool has run; an Agent ends after its subagent's calls.             *)
ToolDone(s) ==
    /\ d[s].event = "running"
    /\ s = "c1" => d["c2"].agent = "main"
    /\ d' = [d EXCEPT ![s] = Start("PostToolUse", d[s].tool, d[s].agent, None)]
    /\ UNCHANGED <<session, files, world, told, lost>>

(* The user stops the turn: no Stop event, and what the dispatchers under  *)
(* way still had to do is not done.                                        *)
Interrupt ==
    /\ phase = "model" /\ d["stop"] = Idle
    /\ Mishap({"interrupted"} \cup UNION {HalfBilled(s) : s \in Slots})
    /\ phase' = "user" /\ d' = [s \in Slots |-> Idle]
    /\ lost' = lost \cup UNION {d[s].ctx : s \in Slots}
    /\ UNCHANGED <<turn, lines, apis, files, logging, window, told>>

(* Claude rewrites the transcript, keeping its end.                        *)
Compact ==
    /\ ~Busy /\ Mishap({"compacted"})
    /\ \E k \in 2..Len(lines) : lines' = SubSeq(lines, k, Len(lines))
    /\ UNCHANGED <<phase, turn, apis, d, files, logging, window, told, lost>>

(* The user toggles the log at any time; the usage window rolls over.      *)
Toggle ==
    /\ Mishap({}) /\ logging' = ~logging
    /\ UNCHANGED <<session, d, files, window, told, lost>>

RollOver ==
    /\ window = 1 /\ Mishap({}) /\ window' = 2
    /\ UNCHANGED <<session, d, files, logging, told, lost>>

Next ==
    \/ Prompt \/ ApiCall \/ SubCall \/ Interrupt \/ Compact \/ Toggle \/ RollOver
    \/ \E s \in Slots :
         \/ InjectSession(s) \/ LearningsInject(s)
         \/ ResearchReminder(s) \/ RemindStandards(s) \/ ToolRule(s) \/ AskRule(s)
         \/ DriftCheck(s) \/ DocConformer(s) \/ SecretScan(s) \/ ProseCheck(s)
         \/ ProseRaises(s) \/ ErrorReminder(s) \/ PreReads(s) \/ PreLogs(s) \/ PreSaves(s)
         \/ PostLogs(s) \/ StopLogs(s)
         \/ Raise(s) \/ Deliver(s) \/ Die(s) \/ ToolDone(s)

Spec == Init /\ [][Next]_vars

-----------------------------------------------------------------------------
(* Properties.                                                             *)

(* Once-per-session flags are written before the text they stand for is    *)
(* delivered.  What is recorded as given has been given, is on its way in  *)
(* a dispatcher, or went with a gate's block, an interrupt or a dead       *)
(* dispatcher: a hook that fails never loses another hook's text.          *)
FlagMeansTold ==
    flags \ {"drift"} \subseteq told \cup lost \cup UNION {d[s].ctx : s \in Slots}

(* A call that a gate condemns never runs, whatever the other hooks of the *)
(* chain do; when that gate itself fails or the dispatcher dies, the chain *)
(* is open by design.                                                      *)
CondemnedCallNeverRuns ==
    \A s \in Slots : d[s].event = "running" /\ d[s].bad # None =>
        {d[s].bad, "died"} \cap spoiled # {}

(* The log never bills more API calls than were made after the first (the  *)
(* first only sets the baseline), although the lines of a call repeat its  *)
(* usage, parallel calls see the same transcript, Stop bills what the next *)
(* PRE would have, and a compaction shrinks the count.  Excepted are two   *)
(* PREs that overlap and one cut off between its entry and its baseline.   *)
Billed == FoldSeq(LAMBDA e, n : e.delta + n, 0, log)
BilledOnce == spoiled \cap {"overlap", "half billed"} = {} => Billed = 0 \/ Billed < apis

(* An entry is filed under the task of the turn that logs it - an Agent's, *)
(* when no baseline was left to name one, under none.  An interrupted turn *)
(* or a dead Stop dispatcher leaves its baseline to the next turn; a       *)
(* compacted transcript has lost the prompts that turns are counted by.    *)
EntriesNameTheirTurn ==
    spoiled \cap {"interrupted", "compacted", "Stop"} = {} =>
        \A i \in DOMAIN log :
            \/ log[i].task = log[i].during
            \/ log[i].tool = "Agent" /\ log[i].task = 0

TypeOK ==
    /\ phase \in {"user", "model"} /\ turn \in 0..MaxTurns /\ apis \in 0..MaxApi
    /\ lines \in Seq(0..MaxApi) /\ logging \in BOOLEAN
    /\ baseline = None \/ baseline.tokens \in 0..MaxApi
    /\ \A i \in DOMAIN log : log[i].delta \in 0..MaxApi
    /\ window \in 1..2 /\ sample \in 0..2 /\ mishaps \in 0..MaxMishaps
=============================================================================
