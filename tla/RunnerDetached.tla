---------------------------- MODULE RunnerDetached ----------------------------
(***************************************************************************)
(* The detached orchestrator: `python -m runner.run --detached`, started   *)
(* by cron, takes one ticket through the six stages in a git worktree of   *)
(* its own.  What survives an invocation is on disk: the backlog and       *)
(* intake directories, the runner branch and worktree of a ticket, its     *)
(* lockfile, its tracker and the artifacts the stages leave.  An           *)
(* invocation can crash between any two of its steps, several may overlap  *)
(* (cron does not serialise them), and the operator's maintenance          *)
(* commands (--abort, --cleanup, mark-done) and reviews run in between.    *)
(*                                                                         *)
(* Abstractions.  Tickets are numbered by age.  A stage is one step whose  *)
(* outcome is chosen, constrained by the artifacts it needs and producing  *)
(* the ones it writes; stage 4 is detailed in RunnerExecutor.  The tokens  *)
(* of a stage are a small number.  Git commands fail only where an action  *)
(* says so.                                                                *)
(***************************************************************************)
EXTENDS Integers, FiniteSets

CONSTANTS
  NumTickets,     \* tickets in the backlog, 1 the oldest
  Invocation,     \* runner processes that may run at the same time
  Oversized,      \* tickets the usher rejects
  MaxRestarts,    \* detached.max_restarts
  MaxUnreviewed,  \* detached.max_unreviewed
  TokenCap,       \* detached.token_cap
  Cost,           \* what a stage that calls the model may report; 0: no usage
  MaxCrashes,     \* bound on crashes
  Nobody,         \* model value: the lock's process is dead
  May             \* what the environment may do (see Hazard)

Ticket == 1..NumTickets

\* cut: a stage is killed by its timeout or by a signal; setup: `git worktree`
\* fails; remove: the worktree cannot be removed; slow: a stage uses up its
\* timeout; explicit: runs with --intake; cleanup, markdone: operator commands.
Hazard == {"cut", "setup", "remove", "slow", "explicit", "cleanup", "markdone"}

ASSUME DetachedAssumption ==
  /\ NumTickets \in Nat \ {0}
  /\ IsFiniteSet(Invocation)
  /\ Oversized \subseteq Ticket
  /\ MaxRestarts \in Nat \ {0}
  /\ MaxUnreviewed \in Nat \ {0}
  /\ TokenCap \in Nat
  /\ Cost \subseteq Nat
  /\ MaxCrashes \in Nat
  /\ Nobody \notin Invocation
  /\ May \subseteq Hazard

VARIABLES
  backlog, intake,  \* tickets with a file in the directory
  branch,           \* runner branch: none, base (no commit of its own), ahead
  code,             \* how much of the ticket's change is on its branch
  wt,               \* worktree: none, registered, orphan (directory only)
  lock,             \* lockfile: none, held or corrupt; its owner; heartbeat fresh
  tracker,          \* attempts, tokens, ok: the last attempt was recorded "ok"
  art,              \* stage artifacts: spec, plan, exec, harden
  pc, job, from, at, used, prior, ok, doomed, \* one invocation's locals
  crashes,
  delivered,        \* history: tickets an invocation ended "ok" on
  hollow,           \* history: those whose change was not whole on the branch
  cutShort,         \* history: tickets whose executor was killed midway
  discarded         \* history: tickets whose work a command deleted

disk   == <<backlog, intake, branch, code, wt, lock, tracker, art>>
locals == <<pc, job, from, at, used, prior, ok, doomed>>
past   == <<delivered, hollow, cutShort, discarded>>
vars   == <<disk, locals, crashes, past>>

NoLock == [state |-> "none", owner |-> Nobody, fresh |-> TRUE]
NoRuns == [attempts |-> 0, tokens |-> 0, ok |-> FALSE]
NoArtifacts == [spec |-> "none", plan |-> "none", exec |-> "none", harden |-> "none"]

Init ==
  /\ backlog = Ticket /\ intake = {}
  /\ branch = [t \in Ticket |-> "none"] /\ code = [t \in Ticket |-> "none"]
  /\ wt = [t \in Ticket |-> "none"]
  /\ lock = [t \in Ticket |-> NoLock]
  /\ tracker = [t \in Ticket |-> NoRuns]
  /\ art = [t \in Ticket |-> NoArtifacts]
  /\ pc = [p \in Invocation |-> "idle"] /\ job = [p \in Invocation |-> 1]
  /\ from = [p \in Invocation |-> "backlog"] /\ at = [p \in Invocation |-> 1]
  /\ used = [p \in Invocation |-> 0] /\ prior = [p \in Invocation |-> 0]
  /\ ok = [p \in Invocation |-> FALSE] /\ doomed = [p \in Invocation |-> {}]
  /\ crashes = 0
  /\ delivered = {} /\ hollow = {} /\ cutShort = {} /\ discarded = {}

Goto(p, l) == pc' = [pc EXCEPT ![p] = l]

(* run_lock.is_stale, and the corrupt files scan_stale reports. *)
Stale(t) ==
  \/ lock[t].state = "corrupt"
  \/ lock[t].state = "held" /\ (lock[t].owner = Nobody \/ ~lock[t].fresh)

SomeStale == \E t \in Ticket : Stale(t)

InFlight(t) == \E p \in Invocation : pc[p] \notin {"idle", "prune", "hygiene", "pick"} /\ job[p] = t

-----------------------------------------------------------------------------
(* Before the run: stale gate, prune, hygiene, pick, gates. *)

(* Mutant: worktrees with commits of their own are pruned too. *)
StartDoomsAll(p) ==
  /\ pc[p] = "idle" /\ ~SomeStale
  /\ Goto(p, "prune")
  /\ doomed' = [doomed EXCEPT ![p] = {t \in Ticket : wt[t] = "registered"}]
  /\ UNCHANGED <<disk, job, from, at, used, prior, ok, crashes, past>>

(* _dispatch_maintenance: no run starts while a stale lock is around.  The *)
(* worktrees to prune are those whose branch has no commits of its own.    *)
Start(p) ==
  /\ pc[p] = "idle" /\ ~SomeStale
  /\ Goto(p, "prune")
  /\ doomed' = [doomed EXCEPT ![p] =
                 {t \in Ticket : wt[t] = "registered" /\ branch[t] # "ahead"}]
  /\ UNCHANGED <<disk, job, from, at, used, prior, ok, crashes, past>>

(* A branch leaves with the commits only it had. *)
CodeWithout(doomedTickets) ==
  code' = [t \in Ticket |->
            IF t \in doomedTickets /\ branch[t] = "ahead" THEN "none" ELSE code[t]]

(* Mutant: the branch of a pruned worktree stays. *)
PruneKeepsBranch(p) ==
  /\ pc[p] = "prune"
  /\ wt' = [t \in Ticket |-> IF t \in doomed[p] \/ wt[t] = "orphan" THEN "none" ELSE wt[t]]
  /\ doomed' = [doomed EXCEPT ![p] = {}]
  /\ Goto(p, "hygiene")
  /\ UNCHANGED <<backlog, intake, branch, code, lock, tracker, art, job, from, at, used,
                 prior, ok, crashes, past>>

(* prune_stale_worktrees: remove them with their branches, and the         *)
(* directories git does not know.                                          *)
Prune(p) ==
  /\ pc[p] = "prune"
  /\ wt' = [t \in Ticket |-> IF t \in doomed[p] \/ wt[t] = "orphan" THEN "none" ELSE wt[t]]
  /\ branch' = [t \in Ticket |-> IF t \in doomed[p] THEN "none" ELSE branch[t]]
  /\ CodeWithout(doomed[p])
  /\ doomed' = [doomed EXCEPT ![p] = {}]
  /\ Goto(p, "hygiene")
  /\ UNCHANGED <<backlog, intake, lock, tracker, art, job, from, at, used, prior, ok,
                 crashes, past>>

(* list_unmerged_runner_branches: `git branch` marks a branch checked out  *)
(* in another worktree with "+", which the parsing does not strip.         *)
Unreviewed == {t \in Ticket : branch[t] = "ahead" /\ wt[t] # "registered"}

Hygiene(p) ==
  /\ pc[p] = "hygiene"
  /\ Goto(p, IF Cardinality(Unreviewed) >= MaxUnreviewed THEN "idle" ELSE "pick")
  /\ UNCHANGED <<disk, job, from, at, used, prior, ok, doomed, crashes, past>>

Oldest(S) == CHOOSE t \in S : \A u \in S : t <= u

(* run_tracker.get_resume_stage: an artifact is a resume point when its    *)
(* predicate holds; 1 stands for no resume point.                          *)
ResumeAt(t) ==
  IF art[t].harden # "none" THEN 6
  ELSE IF art[t].exec = "completed" THEN 5
  ELSE IF art[t].plan = "valid" THEN 4
  ELSE IF art[t].spec # "none" THEN 3
  ELSE 1

(* pick_backlog_item: no runner branch carries the ticket's uuid. *)
Unclaimed == {t \in backlog : branch[t] = "none"}

(* _pick_resumable_intake *)
Resumable ==
  {t \in intake : /\ tracker[t].attempts \in 1..(MaxRestarts - 1)
                  /\ ~tracker[t].ok
                  /\ ResumeAt(t) # 1}

Pick(p) ==
  /\ pc[p] = "pick"
  /\ \/ /\ Unclaimed # {}
        /\ job' = [job EXCEPT ![p] = Oldest(Unclaimed)]
        /\ from' = [from EXCEPT ![p] = "backlog"]
        /\ Goto(p, "gate")
     \/ /\ Unclaimed = {} /\ Resumable # {}
        /\ job' = [job EXCEPT ![p] = Oldest(Resumable)]
        /\ from' = [from EXCEPT ![p] = "intake"]
        /\ Goto(p, "gate")
     \/ /\ Unclaimed = {} /\ Resumable = {}
        /\ Goto(p, "idle") /\ UNCHANGED <<job, from>>
     \/ /\ "explicit" \in May
        /\ \E t \in intake \ delivered : job' = [job EXCEPT ![p] = t]
        /\ from' = [from EXCEPT ![p] = "intake"]
        /\ Goto(p, "gate")
  /\ UNCHANGED <<disk, at, used, prior, ok, doomed, crashes, past>>

(* _detached_load_intake, _detached_usher_gate and _detached_tracker_gate. *)
FileThere(p) == IF from[p] = "backlog" THEN job[p] \in backlog ELSE job[p] \in intake

(* Mutant: the restarts are not checked. *)
AdmittedAlways(t) == t \notin Oversized /\ tracker[t].tokens < TokenCap

Admitted(t) ==
  /\ t \notin Oversized
  /\ tracker[t].attempts < MaxRestarts
  /\ tracker[t].tokens < TokenCap

Gate(p) ==
  /\ pc[p] = "gate"
  /\ prior' = [prior EXCEPT ![p] = tracker[job[p]].tokens]
  /\ used' = [used EXCEPT ![p] = tracker[job[p]].tokens]
  /\ Goto(p, IF FileThere(p) /\ Admitted(job[p]) THEN "setup" ELSE "idle")
  /\ UNCHANGED <<disk, job, from, at, ok, doomed, crashes, past>>

Recorded(t, spend, isOk) ==
  [attempts |-> tracker[t].attempts + 1, tokens |-> tracker[t].tokens + spend, ok |-> isOk]

(* _detached_create_worktree: git_worktree_reuse, else git_worktree_create *)
(* from master; a failure is recorded as an attempt.                       *)
Setup(p) ==
  /\ pc[p] = "setup"
  /\ \/ /\ wt' = [wt EXCEPT ![job[p]] = "registered"]
        /\ branch' = [branch EXCEPT ![job[p]] = IF @ = "none" THEN "base" ELSE @]
        /\ Goto(p, "lock") /\ UNCHANGED tracker
     \/ /\ "setup" \in May
        /\ tracker' = [tracker EXCEPT ![job[p]] = Recorded(job[p], 0, FALSE)]
        /\ Goto(p, "idle") /\ UNCHANGED <<wt, branch>>
  /\ UNCHANGED <<backlog, intake, code, lock, art, job, from, at, used, prior, ok, doomed,
                 crashes, past>>

-----------------------------------------------------------------------------
(* The run. *)

Held(p) == [state |-> "held", owner |-> p, fresh |-> TRUE]

(* run_lock.write overwrites whatever is there; get_resume_stage.          *)
WriteLock(p) ==
  /\ pc[p] = "lock"
  /\ lock' = [lock EXCEPT ![job[p]] = Held(p)]
  /\ at' = [at EXCEPT ![p] = ResumeAt(job[p])]
  /\ Goto(p, IF from[p] = "backlog" THEN "promote" ELSE "stage")
  /\ UNCHANGED <<backlog, intake, branch, code, wt, tracker, art, job, from, used, prior,
                 ok, doomed, crashes, past>>

(* Mutant: the backlog file is moved away before the copy. *)
PromoteRemovesFirst(p) ==
  /\ pc[p] = "promote"
  /\ job[p] \in backlog
  /\ backlog' = backlog \ {job[p]}
  /\ Goto(p, "unlink")
  /\ UNCHANGED <<intake, branch, code, wt, lock, tracker, art, job, from, at, used, prior,
                 ok, doomed, crashes, past>>

(* _promote_intake: copy into intake, then unlink the backlog file.  The   *)
(* copy fails when the backlog file is gone; the run ends through the      *)
(* finally block with the initial exit_status "ok", without an attempt.    *)
Promote(p) ==
  /\ pc[p] = "promote"
  /\ job[p] \in backlog
  /\ intake' = intake \cup {job[p]}
  /\ Goto(p, "unlink")
  /\ UNCHANGED <<backlog, branch, code, wt, lock, tracker, art, job, from, at, used, prior,
                 ok, doomed, crashes, past>>

PromoteRaises(p) ==
  /\ pc[p] = "promote"
  /\ job[p] \notin backlog
  /\ wt' = [wt EXCEPT ![job[p]] = "none"]
  /\ lock' = [lock EXCEPT ![job[p]] = NoLock]
  /\ Goto(p, "idle")
  /\ UNCHANGED <<backlog, intake, branch, code, tracker, art, job, from, at, used, prior,
                 ok, doomed, crashes, past>>

Unlink(p) ==
  /\ pc[p] = "unlink"
  /\ backlog' = backlog \ {job[p]}
  /\ Goto(p, "stage")
  /\ UNCHANGED <<intake, branch, code, wt, lock, tracker, art, job, from, at, used, prior,
                 ok, doomed, crashes, past>>

(* run_lock.update before each stage: refreshes the heartbeat of whatever  *)
(* readable lockfile the ticket has.                                       *)
BeginStage(p) ==
  /\ pc[p] = "stage"
  /\ lock' = [lock EXCEPT ![job[p]].fresh = TRUE]
  /\ Goto(p, "running")
  /\ UNCHANGED <<backlog, intake, branch, code, wt, tracker, art, job, from, at, used,
                 prior, ok, doomed, crashes, past>>

AtLeast(amount) ==
  CASE amount = "none" -> {"none", "partial", "full"}
    [] amount = "partial" -> {"partial", "full"}
    [] amount = "full" -> {"full"}

(* What a stage that exits 0 needs and leaves, on ticket t. *)
UsherPasses(t) == t \in intake /\ UNCHANGED <<art, code, branch>>

RefinePasses(t) ==
  /\ t \in intake
  /\ art' = [art EXCEPT ![t].spec = "valid"]
  /\ UNCHANGED <<code, branch>>

PlanPasses(t) ==
  /\ art[t].spec = "valid"
  /\ art' = [art EXCEPT ![t].plan = "valid"]
  /\ UNCHANGED <<code, branch>>

ExecutePasses(t) ==
  /\ art[t].plan = "valid"
  /\ art' = [art EXCEPT ![t].exec = "completed"]
  /\ code' = [code EXCEPT ![t] = "full"]
  /\ branch' = [branch EXCEPT ![t] = "ahead"]

(* A verdict of any kind is a success of this stage. *)
HardenPasses(t) ==
  /\ art[t].exec = "completed" /\ branch[t] # "none"
  /\ \E verdict \in {"clean", "pending", "defender_failed"} :
       art' = [art EXCEPT ![t].harden = verdict]
  /\ UNCHANGED <<code, branch>>

(* In a worktree the merge is deferred, so no branch changes. *)
ApprovalPasses(t) ==
  /\ t \in intake /\ art[t].exec # "none"
  /\ art[t].harden \in {"clean", "pending"}
  /\ UNCHANGED <<art, code, branch>>

StageSucceeds(s, t) ==
  /\ wt[t] = "registered"
  /\ \/ s = 1 /\ UsherPasses(t)
     \/ s = 2 /\ RefinePasses(t)
     \/ s = 3 /\ PlanPasses(t)
     \/ s = 4 /\ ExecutePasses(t)
     \/ s = 5 /\ HardenPasses(t)
     \/ s = 6 /\ ApprovalPasses(t)

(* A failing refinement or planning may leave its best attempt, marked     *)
(* invalid (retry_until_valid).                                            *)
BestAttemptLeft(s, t) ==
  /\ \/ s = 2 /\ art' = [art EXCEPT ![t].spec = "invalid"]
     \/ s = 3 /\ art[t].spec = "valid" /\ art' = [art EXCEPT ![t].plan = "invalid"]
  /\ UNCHANGED <<code, branch>>

(* What an executor that did not finish left: its log, and commits. *)
PartOfTheWork(t, status) ==
  /\ art[t].plan = "valid" /\ wt[t] = "registered"
  /\ art' = [art EXCEPT ![t].exec = status]
  /\ \E amount \in AtLeast(code[t]) :
       /\ code' = [code EXCEPT ![t] = amount]
       /\ branch' = [branch EXCEPT ![t] = IF amount = "none" THEN @ ELSE "ahead"]

StageFails(s, t) ==
  \/ UNCHANGED <<art, code, branch>>
  \/ BestAttemptLeft(s, t)
  \/ s = 4 /\ PartOfTheWork(t, "aborted")

(* A stage killed midway; the executor's log reads "completed" by then.    *)
StageCut(s, t) == StageFails(s, t) \/ (s = 4 /\ PartOfTheWork(t, "completed"))

CallsModel(s) == s \in 2..5

(* Mutant: a failed stage does not end the run. *)
AfterStageRegardless(p, succeeded, cost) ==
  LET sum == used[p] + cost
      goesOn == sum <= TokenCap
  IN /\ used' = [used EXCEPT ![p] = sum]
     /\ ok' = [ok EXCEPT ![p] = goesOn]
     /\ at' = [at EXCEPT ![p] = IF goesOn /\ @ < 6 THEN @ + 1 ELSE @]
     /\ Goto(p, IF goesOn /\ at[p] < 6 THEN "stage" ELSE "commit")

(* _detached_stage_loop after a stage: missing usage, then the token cap,  *)
(* then the stage's own failure end the run.                               *)
AfterStage(p, succeeded, cost) ==
  LET sum == used[p] + cost
      goesOn == succeeded /\ (CallsModel(at[p]) => cost > 0) /\ sum <= TokenCap
  IN /\ used' = [used EXCEPT ![p] = sum]
     /\ ok' = [ok EXCEPT ![p] = goesOn]
     /\ at' = [at EXCEPT ![p] = IF goesOn /\ @ < 6 THEN @ + 1 ELSE @]
     /\ Goto(p, IF goesOn /\ at[p] < 6 THEN "stage" ELSE "commit")

EndStage(p) ==
  /\ pc[p] = "running"
  /\ \/ \E cost \in IF CallsModel(at[p]) THEN Cost ELSE {0} :
          \/ StageSucceeds(at[p], job[p]) /\ AfterStage(p, TRUE, cost)
          \/ StageFails(at[p], job[p]) /\ AfterStage(p, FALSE, cost)
     \/ /\ "cut" \in May
        /\ StageCut(at[p], job[p]) /\ AfterStage(p, FALSE, 0)
  /\ cutShort' = IF at[p] = 4 /\ ~ok'[p] /\ art'[job[p]].exec = "completed"
                   THEN cutShort \cup {job[p]} ELSE cutShort
  /\ UNCHANGED <<backlog, intake, wt, lock, tracker, job, from, prior, doomed, crashes,
                 delivered, hollow, discarded>>

(* git_commit_all_in: --allow-empty, so the branch gets a commit of its    *)
(* own even when no stage made one.                                        *)
CommitAll(p) ==
  /\ pc[p] = "commit"
  /\ \/ /\ wt[job[p]] = "registered"
        /\ branch' = [branch EXCEPT ![job[p]] = "ahead"]
        /\ UNCHANGED ok
     \/ /\ ok' = [ok EXCEPT ![p] = FALSE]
        /\ UNCHANGED branch
  /\ Goto(p, "teardown")
  /\ UNCHANGED <<backlog, intake, code, wt, lock, tracker, art, job, from, at, used, prior,
                 doomed, crashes, past>>

(* The finally block: the worktree goes only after a clean run; the lock   *)
(* always does, whoever wrote it.                                          *)
Teardown(p) ==
  /\ pc[p] = "teardown"
  /\ \/ /\ ok[p]
        /\ wt' = [wt EXCEPT ![job[p]] = "none"]
        /\ UNCHANGED ok
     \/ /\ ok[p] /\ "remove" \in May
        /\ wt' = [wt EXCEPT ![job[p]] = "orphan"]
        /\ ok' = [ok EXCEPT ![p] = FALSE]
     \/ /\ ~ok[p] /\ UNCHANGED <<wt, ok>>
  /\ lock' = [lock EXCEPT ![job[p]] = NoLock]
  /\ Goto(p, "record")
  /\ UNCHANGED <<backlog, intake, branch, code, tracker, art, job, from, at, used, prior,
                 doomed, crashes, past>>

(* run_tracker.record_attempt *)
RecordAttempt(p) ==
  /\ pc[p] = "record"
  /\ tracker' = [tracker EXCEPT ![job[p]] = Recorded(job[p], used[p] - prior[p], ok[p])]
  /\ IF ok[p]
       THEN /\ delivered' = delivered \cup {job[p]}
            /\ hollow' = IF code[job[p]] = "full" THEN hollow ELSE hollow \cup {job[p]}
            /\ Goto(p, "untrack")
       ELSE Goto(p, "idle") /\ UNCHANGED <<delivered, hollow>>
  /\ UNCHANGED <<backlog, intake, branch, code, wt, lock, art, job, from, at, used, prior,
                 ok, doomed, crashes, cutShort, discarded>>

(* run_tracker.delete after a clean run. *)
Untrack(p) ==
  /\ pc[p] = "untrack"
  /\ tracker' = [tracker EXCEPT ![job[p]] = NoRuns]
  /\ Goto(p, "idle")
  /\ UNCHANGED <<backlog, intake, branch, code, wt, lock, art, job, from, at, used, prior,
                 ok, doomed, crashes, past>>

-----------------------------------------------------------------------------
(* The environment. *)

(* A hard kill or a reboot.  Lock writes are not atomic: one in progress   *)
(* leaves a file that does not parse.                                      *)
Crash(p) ==
  /\ pc[p] # "idle" /\ crashes < MaxCrashes
  /\ crashes' = crashes + 1
  /\ Goto(p, "idle")
  /\ \E torn \in {FALSE} \cup {pc[p] \in {"lock", "stage"}} :
       lock' = [t \in Ticket |->
                 IF torn /\ t = job[p] THEN [NoLock EXCEPT !.state = "corrupt"]
                 ELSE IF lock[t].owner = p THEN [lock[t] EXCEPT !.owner = Nobody]
                 ELSE lock[t]]
  /\ doomed' = [doomed EXCEPT ![p] = {}]
  /\ UNCHANGED <<backlog, intake, branch, code, wt, tracker, art, job, from, at, used, prior,
                 ok, past>>

(* The last heartbeat is from the start of the last stage: a stage that    *)
(* used up its timeout makes the lock of a live run look abandoned.        *)
HeartbeatAges(p) ==
  /\ "slow" \in May
  /\ pc[p] \in {"running", "commit", "teardown"}
  /\ lock[job[p]].owner = p
  /\ lock' = [lock EXCEPT ![job[p]].fresh = FALSE]
  /\ UNCHANGED <<backlog, intake, branch, code, wt, tracker, art, locals, crashes, past>>

NoteDiscarded(t) ==
  discarded' = IF branch[t] = "ahead" /\ code[t] # "none" THEN discarded \cup {t} ELSE discarded

(* abort_run.  Artifacts are copied to the crash archive and stay where    *)
(* they are.  A corrupt lock does not name the worktree: it stays, and its *)
(* branch cannot be deleted while it is checked out.                       *)
AbortRun(t) ==
  /\ Stale(t)
  /\ lock' = [lock EXCEPT ![t] = NoLock]
  /\ IF lock[t].state = "held" \/ wt[t] # "registered"
       THEN /\ wt' = [wt EXCEPT ![t] = IF @ = "registered" THEN "none" ELSE @]
            /\ branch' = [branch EXCEPT ![t] = "none"]
            /\ CodeWithout({t}) /\ NoteDiscarded(t)
       ELSE UNCHANGED <<wt, branch, code, discarded>>
  /\ UNCHANGED <<backlog, intake, tracker, art, locals, crashes, delivered, hollow, cutShort>>

(* run_cleanup, on a ticket that is not running: worktree, branch, and the *)
(* execution log moves to the archive.                                     *)
Cleanup(t) ==
  /\ "cleanup" \in May
  /\ ~SomeStale /\ ~InFlight(t) /\ (branch[t] # "none" \/ art[t].exec # "none")
  /\ wt' = [wt EXCEPT ![t] = IF @ = "registered" THEN "none" ELSE @]
  /\ branch' = [branch EXCEPT ![t] = "none"]
  /\ CodeWithout({t})
  /\ art' = [art EXCEPT ![t].exec = "none"]
  /\ NoteDiscarded(t)
  /\ UNCHANGED <<backlog, intake, lock, tracker, locals, crashes, delivered, hollow,
                 cutShort>>

(* cmd_mark_done on a backlog file. *)
MarkDone(t) ==
  /\ "markdone" \in May
  /\ t \in backlog
  /\ backlog' = backlog \ {t}
  /\ UNCHANGED <<intake, branch, code, wt, lock, tracker, art, locals, crashes, past>>

(* The operator finds the branch in the review queue, merges and deletes it. *)
Review(t) ==
  /\ t \in Unreviewed /\ ~InFlight(t)
  /\ branch' = [branch EXCEPT ![t] = "none"]
  /\ UNCHANGED <<backlog, intake, code, wt, lock, tracker, art, locals, crashes, past>>

Run(p) ==
  \/ Prune(p) \/ Hygiene(p) \/ Pick(p) \/ Gate(p) \/ Setup(p)
  \/ WriteLock(p) \/ Promote(p) \/ PromoteRaises(p) \/ Unlink(p)
  \/ BeginStage(p) \/ EndStage(p)
  \/ CommitAll(p) \/ Teardown(p) \/ RecordAttempt(p) \/ Untrack(p)

Operator(t) == AbortRun(t) \/ Cleanup(t) \/ MarkDone(t) \/ Review(t)

Next ==
  \/ \E p \in Invocation : Start(p) \/ Run(p) \/ Crash(p) \/ HeartbeatAges(p)
  \/ \E t \in Ticket : Operator(t)

Spec == Init /\ [][Next]_vars

(* Cron starts the runner again and again, a started process runs on, and  *)
(* the operator reads the message a stale lock produces and reviews what   *)
(* was delivered.                                                          *)
FairSpec ==
  /\ Spec
  /\ \A p \in Invocation : WF_vars(Start(p)) /\ WF_vars(Run(p))
  /\ \A t \in Ticket : WF_vars(AbortRun(t)) /\ WF_vars(Review(t))

-----------------------------------------------------------------------------
LockFile == [state : {"none", "held", "corrupt"}, owner : Invocation \cup {Nobody},
             fresh : BOOLEAN]
Tracker == [attempts : Nat, tokens : Nat, ok : BOOLEAN]
Artifacts == [spec : {"none", "invalid", "valid"}, plan : {"none", "invalid", "valid"},
              exec : {"none", "aborted", "completed"},
              harden : {"none", "clean", "pending", "defender_failed"}]

TypeOK ==
  /\ backlog \subseteq Ticket /\ intake \subseteq Ticket
  /\ branch \in [Ticket -> {"none", "base", "ahead"}]
  /\ code \in [Ticket -> {"none", "partial", "full"}]
  /\ wt \in [Ticket -> {"none", "registered", "orphan"}]
  /\ lock \in [Ticket -> LockFile]
  /\ tracker \in [Ticket -> Tracker]
  /\ art \in [Ticket -> Artifacts]
  /\ pc \in [Invocation -> {"idle", "prune", "hygiene", "pick", "gate", "setup", "lock", "promote",
                            "unlink", "stage", "running", "commit", "teardown", "record", "untrack"}]
  /\ job \in [Invocation -> Ticket]
  /\ from \in [Invocation -> {"backlog", "intake"}]
  /\ at \in [Invocation -> 1..6]
  /\ used \in [Invocation -> Nat] /\ prior \in [Invocation -> Nat]
  /\ ok \in [Invocation -> BOOLEAN]
  /\ doomed \in [Invocation -> SUBSET Ticket]
  /\ crashes \in 0..MaxCrashes
  /\ delivered \subseteq Ticket /\ hollow \subseteq Ticket
  /\ cutShort \subseteq Ticket /\ discarded \subseteq Ticket

Resting == \A p \in Invocation : pc[p] = "idle"

(* The most one stage reports. *)
MaxCost == CHOOSE c \in Cost : \A d \in Cost : d <= c

(* SAFETY.  Runs are bounded over any number of nights: no ticket is       *)
(* attempted more than max_restarts times, and its recorded spend exceeds  *)
(* the token cap by less than what one stage can use, although the cap is  *)
(* read at the gate, spent in the loop and recorded after the lock is      *)
(* released (_detached_tracker_gate, _detached_stage_loop).                *)
RestartsAndTokensBounded ==
  \A t \in Ticket : /\ tracker[t].attempts <= MaxRestarts
                     /\ tracker[t].tokens <= TokenCap + MaxCost

(* SAFETY.  A run ends "ok" without the whole change on the branch only    *)
(* where the executor had been killed midway or a command had deleted the  *)
(* branch before; no combination of failures, crashes, resumes and reused  *)
(* worktrees does it by itself (get_resume_stage, git_worktree_reuse).     *)
OkWithoutWorkOnlyAfterInterference == hollow \subseteq cutShort \cup discarded

(* ACTION.  Commits the executor made leave a branch only through --abort  *)
(* or --cleanup: no night's pruning, reuse or teardown loses them          *)
(* (prune_stale_worktrees preserves branches beyond master).               *)
CommittedWorkKept ==
  [][\A t \in Ticket : code[t] # "none" /\ code'[t] = "none"
        => AbortRun(t) \/ Cleanup(t)]_vars

(* ACTION.  A ticket stays somewhere the runner or the operator finds it,  *)
(* in the backlog or in intake, whatever crashed in between: it leaves     *)
(* both only when the operator marks it done (_promote_intake copies       *)
(* before it unlinks, cmd_mark_done).                                      *)
TicketKept ==
  [][\A t \in Ticket : t \in backlog \cup intake /\ t \notin backlog' \cup intake'
        => MarkDone(t)]_vars

(* SAFETY.  With overlapping invocations each of them may have passed the  *)
(* gate on the same count: the restarts are overshot by at most one per    *)
(* other invocation, never more (_detached_tracker_gate, record_attempt).  *)
OvershootBounded ==
  \A t \in Ticket : tracker[t].attempts < MaxRestarts + Cardinality(Invocation)

(* SAFETY.  Stages only ever run on a ticket that is in intake: one marked *)
(* done before it was promoted is not run behind the operator's back, even *)
(* when two invocations race for it (cmd_mark_done, _promote_intake).      *)
StagesHaveTheirTicket ==
  \A p \in Invocation :
    pc[p] \in {"stage", "running", "commit", "teardown", "record"} => job[p] \in intake

(* LIVENESS.  Every ticket the usher lets through leaves the backlog:      *)
(* worktrees and branches a crash left behind do not claim it forever, and *)
(* retries do not starve it (prune_stale_worktrees, pick_backlog_item).    *)
BacklogDrains == \A t \in Ticket \ Oversized : <>(t \notin backlog)

(* LIVENESS.  No ticket is retried forever: from some night on each is     *)
(* delivered, out of restarts, out of tokens or without a resume point     *)
(* (record_attempt counts the failures of the setup too).                  *)
RetriesEnd == \A t \in Ticket : <>[](t \notin Resumable)

(* CLAIM of prune_stale_worktrees: one hard kill does not permanently      *)
(* block the scheduled retry path.  At rest, with no stale lock left, a    *)
(* ticket is still in the backlog, delivered, or has a recorded attempt    *)
(* that lets a later night retry or give it up.                            *)
CrashedTicketStillScheduled ==
  Resting /\ ~SomeStale =>
    \A t \in Ticket : t \in backlog \/ t \in delivered \/ tracker[t].attempts >= 1
=============================================================================
