------------------------------ MODULE HardenSkill ------------------------------
(***************************************************************************)
(* The attack-defend loop of the /harden skill: the subcommands of         *)
(* harden/orchestrate.py, the validators they run and the round file, as a *)
(* session calls them in the order of harden/commands/harden.md.  The      *)
(* agents answer whatever they like and edit the worktree; the session may *)
(* be interrupted between two commands, and a later run of the same        *)
(* session finds the worktree, the branch and the round file as they are.  *)
(***************************************************************************)
EXTENDS Integers, FiniteSets

CONSTANTS
    Findings,  \* what attackers can raise: pairs of a lens and a place
    Nobody,    \* a source id that no attacker raised
    MaxRounds, \* plan --rounds
    MaxRuns,   \* runs of the session
    None       \* no defender, no answer yet

HardenAssumption ==
    /\ Nobody \notin Findings
    /\ MaxRounds \in Nat \ {0}
    /\ MaxRuns \in Nat
    /\ None \notin Nat

LensOf(f) == f[1]
PlaceOf(f) == f[2]
Lenses == {LensOf(f) : f \in Findings}
Groups == {G \in SUBSET Findings : G # {} /\ \A f, g \in G : PlaceOf(f) = PlaceOf(g)}

MaxValidationAttempts == 2

VARIABLES
    run,      \* number of runs begun in this session
    pc,       \* the command the session is at
    plan,     \* plan_<sid>.json
    round,    \* the session's round, N in harden.md
    count,    \* round_<sid>.json: rounds closed
    defender, \* round_<sid>.json: run whose defender is stored
    worktree, \* whether the worktree exists
    branch,   \* whether its branch exists
    edits,    \* what it holds: changes of tracked files, new files
    attempt,  \* number of the validation attempt, by lens
    raised,   \* validated findings of the lenses so far
    out,      \* lenses that are through, and which of them were dropped
    settled,  \* the round's consolidated findings
    reply,    \* the defender's validated response
    queue,    \* notes that file-todos still has to add
    failed,   \* one of them could not be added
    filed     \* notes added by this run, with their round

roundVars == <<attempt, raised, out, settled, reply>>
treeVars == <<worktree, branch, edits>>
noteVars == <<queue, failed, filed>>
vars == <<run, pc, plan, round, count, defender, worktree, branch, edits,
          attempt, raised, out, settled, reply, queue, failed, filed>>

Path == {"legacy", "single-lens", "multi-lens"}
Plan == [path : Path, code : BOOLEAN]
NoFindings == [accepted |-> {}, rejected |-> {}]
NoReply == [actions |-> <<>>, todos |-> {}]

Init ==
    /\ run = 0
    /\ pc = "idle"
    /\ plan = None
    /\ round = 0
    /\ count = 0
    /\ defender = None
    /\ worktree = FALSE
    /\ branch = FALSE
    /\ edits = {}
    /\ attempt = [l \in Lenses |-> 1]
    /\ raised = {}
    /\ out = [through |-> {}, dropped |-> {}]
    /\ settled = NoFindings
    /\ reply = NoReply
    /\ queue = {}
    /\ failed = FALSE
    /\ filed = {}

Goto(l) == pc' = l
Stop == Goto("idle")
-----------------------------------------------------------------------------
(* Steps 1 and 2 of harden.md: plan, worktree check, round start, worktree
   create. *)

MakePlan ==
    /\ pc = "idle"
    /\ run < MaxRuns
    /\ run' = run + 1
    /\ \E path \in Path, code \in BOOLEAN :
         /\ code = FALSE => path = "legacy"
         /\ plan' = [path |-> path, code |-> code]
    /\ Goto("check")
    /\ UNCHANGED <<round, count, defender, treeVars, roundVars, noteVars>>

(* A target has uncommitted changes. *)
CheckRefuses ==
    /\ pc = "check" /\ plan.code
    /\ Stop
    /\ UNCHANGED <<run, plan, round, count, defender, treeVars, roundVars, noteVars>>

FreshRoundFile == count' = 0 /\ defender' = None

RoundStart ==
    /\ pc = "check"
    /\ FreshRoundFile
    /\ filed' = {}
    /\ Goto("create")
    /\ UNCHANGED <<run, plan, round, treeVars, roundVars, queue, failed>>

BeginRound(n) ==
    /\ round' = n
    /\ attempt' = [l \in Lenses |-> 1]
    /\ raised' = {}
    /\ out' = [through |-> {}, dropped |-> {}]
    /\ settled' = NoFindings
    /\ reply' = NoReply

(* git worktree add -b refuses a branch or a directory that is there. *)
CreateRefused ==
    /\ pc = "create" /\ plan.code
    /\ worktree \/ branch
    /\ Stop
    /\ UNCHANGED <<run, plan, round, count, defender, treeVars, roundVars, noteVars>>

WorktreeCreate ==
    /\ pc = "create"
    /\ plan.code => ~worktree /\ ~branch
    /\ worktree' = (worktree \/ plan.code)
    /\ branch' = (branch \/ plan.code)
    /\ BeginRound(1)
    /\ Goto("attack")
    /\ UNCHANGED <<run, plan, count, defender, edits, noteVars>>
-----------------------------------------------------------------------------
(* Steps 3a to 3c: the attackers, one by lens, and the referee. *)

Attackers ==
    IF plan.path = "multi-lens" THEN Lenses ELSE {CHOOSE l \in Lenses : TRUE}

FallbackAction(kind) ==
    CASE kind = "consolidation" -> "degrade"
      [] kind = "findings" /\ plan.path # "legacy" -> "drop"
      [] OTHER -> "ask"

ValidateFindings(l) ==
    /\ pc = "attack"
    /\ l \in Attackers \ out.through
    /\ \E F \in SUBSET {f \in Findings : LensOf(f) = l} : raised' = raised \cup F
    /\ out' = [out EXCEPT !.through = @ \cup {l}]
    /\ UNCHANGED <<run, pc, plan, round, count, defender, treeVars, attempt,
                   settled, reply, noteVars>>

(* The output is no JSON array of findings, or names a file that is not in
   the repository (validate_findings.validate). *)
FindingsRefused(l) ==
    /\ pc = "attack"
    /\ l \in Attackers \ out.through
    /\ IF attempt[l] < MaxValidationAttempts
       THEN attempt' = [attempt EXCEPT ![l] = @ + 1] /\ UNCHANGED <<pc, out>>
       ELSE /\ UNCHANGED attempt
            /\ IF FallbackAction("findings") = "drop"
               THEN /\ out' = [through |-> out.through \cup {l}, dropped |-> out.dropped \cup {l}]
                    /\ UNCHANGED pc
               ELSE Goto("ask") /\ UNCHANGED out
    /\ UNCHANGED <<run, plan, round, count, defender, treeVars, raised, settled,
                   reply, noteVars>>

(* validate_consolidation.validate: every dispatched finding is in exactly
   one entry, and nothing else is. *)
Entries(a, f) == Cardinality({e \in a.accepted : f \in e}) + Cardinality({e \in a.rejected : f \in e})

(* Mutant: a finding in no entry is not noticed. *)
NoDuplicates(a) ==
    /\ \A f \in raised : Entries(a, f) <= 1
    /\ UNION (a.accepted \cup a.rejected) \subseteq raised

CoversOnce(a) ==
    /\ \A f \in raised : Entries(a, f) = 1
    /\ UNION (a.accepted \cup a.rejected) \subseteq raised

(* validate_consolidation.degrade_dedup *)
ByPlace == {{f \in raised : PlaceOf(f) = p} : p \in {PlaceOf(f) : f \in raised}}

Singles(F) == {{f} : f \in F}
Consolidations ==
    [accepted : SUBSET (Groups \cap SUBSET raised), rejected : SUBSET Singles(raised \cup {Nobody})]

(* The paths with one attacker take its findings as they are. *)
SettleDirectly ==
    /\ pc = "attack"
    /\ plan.path # "multi-lens"
    /\ out.through = Attackers
    /\ settled' = [accepted |-> Singles(raised), rejected |-> {}]
    /\ Goto("settled")
    /\ UNCHANGED <<run, plan, round, count, defender, treeVars, attempt, raised,
                   out, reply, noteVars>>

CallReferee ==
    /\ pc = "attack"
    /\ plan.path = "multi-lens"
    /\ out.through = Attackers
    /\ attempt' = [l \in Lenses |-> 1]
    /\ Goto("referee")
    /\ UNCHANGED <<run, plan, round, count, defender, treeVars, raised, out,
                   settled, reply, noteVars>>

Tries == CHOOSE n \in {attempt[l] : l \in Lenses} : TRUE

RefereeAccepted ==
    /\ pc = "referee"
    /\ \E a \in Consolidations : CoversOnce(a) /\ settled' = a
    /\ Goto("settled")
    /\ UNCHANGED <<run, plan, round, count, defender, treeVars, attempt, raised,
                   out, reply, noteVars>>

RefereeRefused ==
    /\ pc = "referee"
    /\ IF Tries < MaxValidationAttempts
       THEN attempt' = [l \in Lenses |-> Tries + 1] /\ UNCHANGED <<pc, settled>>
       ELSE /\ settled' = [accepted |-> ByPlace, rejected |-> {}]
            /\ Goto("settled")
            /\ UNCHANGED attempt
    /\ UNCHANGED <<run, plan, round, count, defender, treeVars, raised, out,
                   reply, noteVars>>
-----------------------------------------------------------------------------
(* Steps 3d to 3f: nothing found, or the defender. *)

(* A round without findings is reported clean and is the last. *)
NothingFound ==
    /\ pc = "settled"
    /\ settled.accepted = {}
    /\ count' = count + 1
    /\ Goto("present")
    /\ UNCHANGED <<run, plan, round, defender, treeVars, roundVars, noteVars>>

(* A new defender is spawned in round 1; later the stored one is called,
   and without one the command fails. *)
CallDefender ==
    /\ pc = "settled"
    /\ settled.accepted # {}
    /\ IF round = 1 THEN defender' = run ELSE UNCHANGED defender
    /\ IF round > 1 /\ defender = None THEN Stop ELSE Goto("defend")
    /\ attempt' = [l \in Lenses |-> 1]
    /\ UNCHANGED <<run, plan, round, count, treeVars, raised, out, settled,
                   reply, noteVars>>

(* A continued defender is gone: the run is over. *)
DefenderGone ==
    /\ pc = "defend" /\ round > 1
    /\ Stop
    /\ UNCHANGED <<run, plan, round, count, defender, treeVars, roundVars, noteVars>>

DefenderEdits ==
    /\ pc = "defend" /\ plan.code /\ worktree
    /\ \E e \in {"tracked", "new"} \ edits : edits' = edits \cup {e}
    /\ UNCHANGED <<run, pc, plan, round, count, defender, worktree, branch,
                   roundVars, noteVars>>

(* Items of the response's todos: objects with a content, as defender.md
   asks for, or bare texts. *)
Object == {<<"todo", "object">>}
Text == {<<"todo", "text">>}
Todo == {Object, Text}
Replies == [actions : UNION {[D -> {"fixed", "deferred"}] : D \in SUBSET settled.accepted},
            todos : SUBSET Todo]

(* validate_response.validate: each expected finding is answered, and a todo
   is an object. *)
ReplyValid(r) == DOMAIN r.actions = settled.accepted /\ r.todos \subseteq {Object}

(* What file-todos adds (cmd_file_todos, _deferred_todos). *)
Deferred(r) == {e \in DOMAIN r.actions : r.actions[e] = "deferred"}
Contents(r) == (r.todos \cap {Text}) \cup Deferred(r)

ResponseAccepted ==
    /\ pc = "defend"
    /\ \E r \in Replies :
         /\ ReplyValid(r)
         /\ reply' = r
         /\ queue' = Contents(r)
    /\ failed' = FALSE
    /\ Goto("file")
    /\ UNCHANGED <<run, plan, round, count, defender, treeVars, attempt, raised,
                   out, settled, filed>>

(* Anything else, and a change of a file that exists in the worktree only:
   the files are looked up in the repository. *)
ResponseRefused ==
    /\ pc = "defend"
    /\ IF Tries < MaxValidationAttempts
       THEN attempt' = [l \in Lenses |-> Tries + 1] /\ UNCHANGED pc
       ELSE Goto("ask") /\ UNCHANGED attempt
    /\ UNCHANGED <<run, plan, round, count, defender, treeVars, raised, out,
                   settled, reply, noteVars>>

(* The user decides: on with the next round, or present what there is. *)
Ask ==
    /\ pc = "ask"
    /\ \/ round < MaxRounds /\ BeginRound(round + 1) /\ Goto("attack")
       \/ Goto("present") /\ UNCHANGED <<round, roundVars>>
    /\ UNCHANGED <<run, plan, count, defender, treeVars, noteVars>>
-----------------------------------------------------------------------------
(* Step 3g: file-todos, round tick, budget check. *)

FileTodo ==
    /\ pc = "file"
    /\ \E n \in queue :
         /\ queue' = queue \ {n}
         /\ \/ filed' = filed \cup {<<round, n>>} /\ UNCHANGED failed
            \/ failed' = TRUE /\ UNCHANGED filed
    /\ UNCHANGED <<run, pc, plan, round, count, defender, treeVars, roundVars>>

TodosFailed == failed

FileTodosDone ==
    /\ pc = "file"
    /\ queue = {}
    /\ IF TodosFailed THEN Stop ELSE Goto("tick")
    /\ UNCHANGED <<run, plan, round, count, defender, treeVars, roundVars, noteVars>>

RoundTick ==
    /\ pc = "tick"
    /\ count' = count + 1
    /\ Goto("budget")
    /\ UNCHANGED <<run, plan, round, defender, treeVars, roundVars, noteVars>>

AllDeferred == Deferred(reply) = DOMAIN reply.actions

(* The budget is exceeded or not; what the defender's continuations spent
   is not seen. *)
BudgetCheck ==
    /\ pc = "budget"
    /\ \/ Goto("present") /\ UNCHANGED <<round, roundVars>>
       \/ /\ round < MaxRounds
          /\ ~(AllDeferred /\ round > 1)
          /\ BeginRound(round + 1)
          /\ Goto("attack")
    /\ UNCHANGED <<run, plan, count, defender, treeVars, noteVars>>
-----------------------------------------------------------------------------
(* Steps 4 and 5: the result is kept or discarded, the summary saved. *)

Keep ==
    /\ pc = "present"
    /\ Goto("save")
    /\ UNCHANGED <<run, plan, round, count, defender, treeVars, roundVars, noteVars>>

(* git worktree remove refuses a worktree with changes or new files. *)
Discard ==
    /\ pc = "present" /\ plan.code
    /\ IF worktree /\ edits = {}
       THEN /\ worktree' = FALSE
            /\ branch' \in {branch, FALSE}
            /\ Goto("save")
       ELSE Goto("unremoved") /\ UNCHANGED <<worktree, branch>>
    /\ UNCHANGED <<run, plan, round, count, defender, edits, roundVars, noteVars>>

ShowAndStop ==
    /\ pc = "unremoved"
    /\ Stop
    /\ UNCHANGED <<run, plan, round, count, defender, treeVars, roundVars, noteVars>>

SaveSummary ==
    /\ pc = "save"
    /\ \/ Goto("reset")
       \/ Stop
    /\ UNCHANGED <<run, plan, round, count, defender, treeVars, roundVars, noteVars>>

RoundReset ==
    /\ pc = "reset"
    /\ FreshRoundFile
    /\ Stop
    /\ UNCHANGED <<run, plan, round, treeVars, roundVars, noteVars>>

(* /harden cancel *)
Cancel ==
    /\ FreshRoundFile
    /\ Stop
    /\ UNCHANGED <<run, plan, round, treeVars, roundVars, noteVars>>

Interrupt ==
    /\ pc # "idle"
    /\ Stop
    /\ UNCHANGED <<run, plan, round, count, defender, treeVars, roundVars, noteVars>>
-----------------------------------------------------------------------------
Prepare == MakePlan \/ CheckRefuses \/ RoundStart \/ CreateRefused \/ WorktreeCreate
Attack ==
    \/ \E l \in Lenses : ValidateFindings(l) \/ FindingsRefused(l)
    \/ SettleDirectly \/ CallReferee \/ RefereeAccepted \/ RefereeRefused
Defend ==
    \/ NothingFound \/ CallDefender \/ DefenderGone \/ DefenderEdits
    \/ ResponseAccepted \/ ResponseRefused \/ Ask
Close == FileTodo \/ FileTodosDone \/ RoundTick \/ BudgetCheck
Finish == Keep \/ Discard \/ ShowAndStop \/ SaveSummary \/ RoundReset \/ Cancel \/ Interrupt

Next == Prepare \/ Attack \/ Defend \/ Close \/ Finish

Spec == Init /\ [][Next]_vars
-----------------------------------------------------------------------------
TypeOK ==
    /\ run \in 0..MaxRuns
    /\ pc \in {"idle", "check", "create", "attack", "referee", "settled", "defend",
              "ask", "file", "tick", "budget", "present", "unremoved", "save", "reset"}
    /\ plan \in Plan \cup {None}
    /\ round \in 0..MaxRounds
    /\ count \in 0..MaxRounds
    /\ defender \in 1..MaxRuns \cup {None}
    /\ {worktree, branch, failed} \subseteq BOOLEAN
    /\ edits \subseteq {"tracked", "new"}
    /\ attempt \in [Lenses -> 1..MaxValidationAttempts]
    /\ raised \subseteq Findings
    /\ out.dropped \subseteq out.through /\ out.through \subseteq Lenses
    /\ settled.accepted \subseteq SUBSET Findings /\ settled.rejected \subseteq SUBSET Findings
    /\ DOMAIN reply.actions \subseteq settled.accepted
    /\ reply.todos \subseteq Todo
    /\ queue \subseteq (SUBSET Findings) \cup Todo
    /\ \A n \in filed : n[1] \in 1..MaxRounds /\ n[2] \in (SUBSET Findings) \cup Todo

(***************************************************************************)
(* Nothing an attacker raised is lost on the way through the referee, its  *)
(* deterministic replacement and the defender: when a round is closed each *)
(* finding of a lens that was not dropped stands in exactly one entry, and *)
(* each accepted entry has an answer (validate_consolidation.py:172,       *)
(* degrade_dedup, validate_response.py).                                   *)
(***************************************************************************)
NoFindingLost ==
    pc \in {"file", "tick", "budget"} =>
        /\ \A f \in raised : Entries(settled, f) = 1
        /\ settled.accepted = DOMAIN reply.actions

(***************************************************************************)
(* A round is counted only when every finding it deferred has its note: a  *)
(* note that cannot be added stops the run (orchestrate.py:1188), also     *)
(* when others of the round were added.                                    *)
(***************************************************************************)
DeferredHaveNotes ==
    pc = "budget" => \A e \in Deferred(reply) : <<round, e>> \in filed

(***************************************************************************)
(* The agent that a later round continues is one this run spawned, not the *)
(* one an interrupted run left in the round file (round_counter.py:43),    *)
(* also when the first round was skipped.                                  *)
(***************************************************************************)
ContinuesItsOwnDefender == pc = "defend" => defender = run

(***************************************************************************)
(* CLAIM of orchestrate.py:1358, file-todos: "File Defender todos and      *)
(* deferred findings as scribe todos".                                     *)
(***************************************************************************)
TodosFiled ==
    pc = "budget" => \A t \in reply.todos : <<round, t>> \in filed

(***************************************************************************)
(* CLAIM of harden.md, step 4: a discarded run's worktree is removed.      *)
(***************************************************************************)
DiscardRemoves == pc # "unremoved"

(***************************************************************************)
(* CLAIM of harden.md, step 3d: a round without findings looks clean.      *)
(***************************************************************************)
CleanMeansExamined ==
    pc = "present" /\ settled.accepted = {} /\ count = round => out.through # out.dropped
=============================================================================
