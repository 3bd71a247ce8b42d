---------------------------- MODULE RunnerExecutor ----------------------------
(***************************************************************************)
(* Stage 4 of the runner: runner/executor.py drives the steps of a valid   *)
(* plan, one model subprocess per step, commits each step on the run's     *)
(* branch and rewrites the execution log after every change of state.  The *)
(* module covers one ticket across its invocations: the stage can be       *)
(* killed at any point (stage timeout, Ctrl-C), a later invocation         *)
(* reconciles git with the log before it resumes, and in detached mode the *)
(* orchestrator decides from the log alone which stage comes next.         *)
(*                                                                         *)
(* Abstractions.  Steps are numbered in the order topo_sort returns them.  *)
(* A file's content is reduced to who left uncommitted changes in it, and  *)
(* to whether HEAD and the index have it.  A deleted file keeps counting   *)
(* as one HEAD has.  The model's answer, the post-conditions and the       *)
(* commit hooks are nondeterministic.  The branch "Dependency failed or   *)
(* was skipped" of execute_plan is unreachable (every failure returns at   *)
(* once) and has no action.                                                *)
(***************************************************************************)
EXTENDS Integers, FiniteSets

CONSTANTS
  NumSteps,      \* number of steps of the plan
  Modifying,     \* steps whose action is create, modify or delete
  HasPost,       \* steps that declare post_conditions
  File,          \* paths of the working tree that matter
  InHead,        \* those the base commit has
  FilesOf,       \* the files each step declares
  MaxFeedback,   \* MAX_FEEDBACK_RETRIES: unmet post-conditions, rejected commits
  MaxNoChange,   \* MAX_NO_CHANGE_RETRIES
  MaxLaunches,   \* invocations of the stage (detached.max_restarts)
  Modes,         \* "detached": in an orchestrator worktree, "interactive": in the
                 \* operator's checkout
  KillAllowed    \* may the stage be killed midway

Step == 1..NumSteps

ASSUME ExecutorAssumption ==
  /\ NumSteps \in Nat \ {0}
  /\ Modifying \subseteq Step
  /\ HasPost \subseteq Step
  /\ InHead \subseteq File
  /\ FilesOf \in [Step -> SUBSET File]
  /\ MaxFeedback \in Nat
  /\ MaxNoChange \in Nat
  /\ MaxLaunches \in Nat
  /\ Modes \subseteq {"interactive", "detached"}
  /\ KillAllowed \in BOOLEAN

Entry  == {"absent", "started", "passed", "failed", "skipped"}
Status == {"none", "completed", "aborted"}
\* Whose uncommitted changes a file holds.
Dirt == {"clean", "runner", "operator"}

VARIABLES
  pc,          \* where the stage is
  cur,         \* the step execute_plan is at
  feedback,    \* feedback_attempts of run_step_with_commit
  nochange,    \* no_change_attempts of run_step_with_commit
  log,         \* the execution log on disk
  commits,     \* steps with a "runner/<uuid> step N:" commit on the branch
  dirty,       \* uncommitted changes per file
  staged,      \* files whose index entry differs from HEAD
  tracked,     \* files HEAD has
  touched,     \* files some step commit on the branch changed
  mode,        \* the mode of the run the invocations belong to
  launches,    \* invocations so far
  exit,        \* how the last invocation ended
  nextStage,   \* the stage the next invocation starts with
  subsumed,    \* history: steps accepted as passed without a commit
  interrupted, \* history: steps whose model call was cut short by a kill
  stolen       \* history: kinds of operator work that went into a step commit

worktree == <<dirty, staged, tracked>>
branch   == <<commits, touched>>
runEnd   == <<mode, launches, exit, nextStage>>
history  == <<subsumed, interrupted, stolen>>
vars == <<pc, cur, feedback, nochange, log, worktree, branch, runEnd, history>>

EmptyLog == [s \in Step |-> "absent"]

(* A step that has files and modifies them ends in a commit. *)
Committing(s) == s \in Modifying /\ FilesOf[s] # {}

Init ==
  /\ pc = "idle" /\ cur = 1 /\ feedback = 0 /\ nochange = 0
  /\ log = [status |-> "none", steps |-> EmptyLog]
  /\ commits = {}
  /\ dirty = [f \in File |-> "clean"]
  /\ staged = {} /\ tracked = InHead /\ touched = {}
  /\ mode \in Modes /\ launches = 0 /\ exit = "none" /\ nextStage = "executor"
  /\ subsumed = {} /\ interrupted = {} /\ stolen = {}

-----------------------------------------------------------------------------
(* Reconciling git with the previous log: validate_resume_state.  Every    *)
(* disagreement, and every step that was interrupted, refuses the resume.  *)

(* Mutant: an interrupted step is not reported. *)
DisagreesButStarted(s) ==
  /\ s \in Modifying
  /\ \/ log.steps[s] = "passed" /\ s \notin commits
     \/ log.steps[s] \in {"failed", "skipped"} /\ s \in commits

Disagrees(s) ==
  LET entry == log.steps[s] IN
    \/ entry = "started"
    \/ /\ s \in Modifying
       /\ \/ entry = "passed" /\ s \notin commits
          \/ entry \in {"failed", "skipped"} /\ s \in commits

(* The in-memory log of this invocation.  It starts empty and is on disk   *)
(* from the first write on, which happens while the first step is handled. *)
Logged == IF cur = 1 THEN EmptyLog ELSE log.steps

(* persist_execution_log: the whole log is replaced atomically.  The       *)
(* top-level status reads "completed" from the first write on.             *)
Persist(status, s, entry) ==
  log' = [status |-> status, steps |-> [Logged EXCEPT ![s] = entry]]

(* _mark_remaining_skipped together with the final write of an abort. *)
PersistAbort ==
  log' = [status |-> "aborted",
          steps  |-> [s \in Step |-> IF s < cur THEN Logged[s]
                                     ELSE IF s = cur THEN "failed" ELSE "skipped"]]

Abort ==
  /\ PersistAbort
  /\ pc' = "exited" /\ exit' = "fail"

(* git_worktree_reuse: a preserved worktree is reset before it is reused. *)
ResetOnReuse ==
  IF mode = "detached"
    THEN dirty' = [f \in File |-> "clean"] /\ staged' = {}
    ELSE UNCHANGED <<dirty, staged>>

(* main up to execute_plan: load the plan, get on the branch, read git and *)
(* the previous log.  Loading the plan or the checkout may fail.           *)
Launch ==
  /\ pc = "idle" /\ nextStage = "executor"
  /\ launches < MaxLaunches
  /\ launches' = launches + 1
  /\ ResetOnReuse
  /\ cur' = 1 /\ feedback' = 0 /\ nochange' = 0
  /\ \/ pc' = "exited" /\ exit' = "fail"
     \/ /\ \E s \in Step : Disagrees(s)
        /\ pc' = "exited" /\ exit' = "refused"
     \/ /\ \A s \in Step : ~Disagrees(s)
        /\ pc' = "next" /\ exit' = "none"
  /\ UNCHANGED <<log, tracked, branch, mode, nextStage, history>>

-----------------------------------------------------------------------------
(* execute_plan: one step at a time. *)

(* The step's commit is already on the branch. *)
CarryForward ==
  /\ pc = "next" /\ cur \in Step /\ cur \in commits
  /\ Persist("completed", cur, "passed")
  /\ cur' = cur + 1
  /\ UNCHANGED <<pc, feedback, nochange, branch, worktree, runEnd, history>>

(* assert_files_clean: `git diff HEAD` reports staged and unstaged changes *)
(* of the files git knows, and nothing of an untracked file.               *)
(* Mutant: only the index is compared with HEAD. *)
FilesCleanInIndex(s) == FilesOf[s] \cap staged = {}

FilesClean(s) ==
  \A f \in FilesOf[s] : dirty[f] = "clean" \/ f \notin tracked \cup staged

RefuseDirtyFiles ==
  /\ pc = "next" /\ cur \in Modifying \ commits
  /\ ~FilesClean(cur)
  /\ Abort
  /\ UNCHANGED <<cur, feedback, nochange, branch, worktree, mode, launches, nextStage, history>>

(* The "started" stub is on disk before the model runs. *)
StepMayRun(s) == s \in Modifying => FilesClean(s)

BeginStep ==
  /\ pc = "next" /\ cur \in Step \ commits
  /\ StepMayRun(cur)
  /\ Persist("completed", cur, "started")
  /\ pc' = "model" /\ feedback' = 0 /\ nochange' = 0
  /\ UNCHANGED <<cur, branch, worktree, runEnd, history>>

(* What a model call leaves behind.  Work of the operator stays the        *)
(* operator's even if the model writes to the same file.                   *)
Touched(edits) ==
  [f \in File |-> IF f \in edits /\ dirty[f] = "clean" THEN "runner" ELSE dirty[f]]

(* assert_no_unexpected_writes compares porcelain lines before and after   *)
(* the call: a file is reported when its line changes, so a write to a     *)
(* file that was already modified in the working tree is not seen.         *)
Unexpected(s, edits) ==
  IF s \in Modifying
    THEN {f \in edits \ FilesOf[s] : dirty[f] = "clean" \/ f \in staged}
    ELSE {}

ModelPasses ==
  /\ pc = "model"
  /\ \E edits \in SUBSET File :
       /\ Unexpected(cur, edits) = {}
       /\ dirty' = Touched(edits)
  /\ Persist("completed", cur, "passed")
  /\ pc' = "gate"
  /\ UNCHANGED <<cur, feedback, nochange, staged, tracked, branch, runEnd, history>>

(* The call itself failed (execute_step exhausted its attempts). *)
ModelFails ==
  /\ pc = "model"
  /\ \E edits \in SUBSET File : dirty' = Touched(edits)
  /\ Abort
  /\ UNCHANGED <<cur, feedback, nochange, staged, tracked, branch, mode, launches, nextStage, history>>

(* The call passed but wrote where the plan did not say. *)
UnexpectedWrite ==
  /\ pc = "model"
  /\ \E edits \in SUBSET File :
       /\ Unexpected(cur, edits) # {}
       /\ dirty' = Touched(edits)
  /\ Abort
  /\ UNCHANGED <<cur, feedback, nochange, staged, tracked, branch, mode, launches, nextStage, history>>

(* arm_feedback_retry: the shared budget of unmet post-conditions and      *)
(* rejected commits.                                                       *)
FeedbackRetry ==
  /\ feedback < MaxFeedback
  /\ feedback' = feedback + 1
  /\ pc' = "model"
  /\ UNCHANGED <<log, exit>>

FeedbackExhausted ==
  /\ feedback >= MaxFeedback
  /\ feedback' = feedback + 1
  /\ Abort

PostConditionMissed ==
  /\ pc = "gate" /\ cur \in HasPost
  /\ FeedbackRetry \/ FeedbackExhausted
  /\ UNCHANGED <<cur, nochange, branch, worktree, mode, launches, nextStage, history>>

(* test and verify steps, and steps without files, end here. *)
PassWithoutCommit ==
  /\ pc = "gate" /\ ~Committing(cur)
  /\ pc' = "next" /\ cur' = cur + 1
  /\ subsumed' = IF cur \in Modifying THEN subsumed \cup {cur} ELSE subsumed
  /\ UNCHANGED <<feedback, nochange, log, branch, worktree, runEnd, interrupted, stolen>>

-----------------------------------------------------------------------------
(* commit_files: `git add` the step's files, then `git commit`, which      *)
(* takes the whole index with it.                                          *)

Changed(s) == {f \in FilesOf[s] : dirty[f] # "clean"}
InCommit(s) == Changed(s) \cup staged

(* What was the operator's in it: changes to a file HEAD had, to a file    *)
(* the step declares and HEAD did not have, or to one staged on the side.  *)
OperatorKinds(s) ==
  {IF f \notin FilesOf[s] THEN "staged" ELSE IF f \in tracked THEN "edited" ELSE "untracked" :
     f \in {g \in InCommit(s) : dirty[g] = "operator"}}

CommitStep ==
  /\ pc = "gate" /\ Committing(cur) /\ Changed(cur) # {}
  /\ commits' = commits \cup {cur}
  /\ touched' = touched \cup InCommit(cur)
  /\ dirty' = [f \in File |-> IF f \in InCommit(cur) THEN "clean" ELSE dirty[f]]
  /\ staged' = {}
  /\ tracked' = tracked \cup InCommit(cur)
  /\ stolen' = stolen \cup OperatorKinds(cur)
  /\ pc' = "next" /\ cur' = cur + 1
  /\ UNCHANGED <<feedback, nochange, log, runEnd, subsumed, interrupted>>

(* A hook, or _assert_action_matches_staged, refused the commit: what was  *)
(* staged for it stays staged.                                             *)
CommitRejected ==
  /\ pc = "gate" /\ Committing(cur) /\ Changed(cur) # {}
  /\ FeedbackRetry \/ FeedbackExhausted
  /\ staged' = staged \cup Changed(cur)
  /\ UNCHANGED <<cur, nochange, dirty, tracked, branch, mode, launches, nextStage, history>>

(* NoChangesError where the end state is right whoever produced it: the    *)
(* declared post-conditions hold, or earlier steps committed every file    *)
(* (files_touched_by_prior_steps).                                         *)
Subsume ==
  /\ pc = "gate" /\ Committing(cur) /\ Changed(cur) = {}
  /\ cur \in HasPost \/ FilesOf[cur] \subseteq touched
  /\ subsumed' = subsumed \cup {cur}
  /\ pc' = "next" /\ cur' = cur + 1
  /\ UNCHANGED <<feedback, nochange, log, branch, worktree, runEnd, interrupted, stolen>>

(* Mutant: a step without changes counts as done. *)
NoChangeAccepted ==
  /\ pc = "gate" /\ Committing(cur) /\ Changed(cur) = {}
  /\ cur \notin HasPost /\ ~(FilesOf[cur] \subseteq touched)
  /\ pc' = "next" /\ cur' = cur + 1
  /\ UNCHANGED <<feedback, nochange, log, branch, worktree, runEnd, history>>

(* Mutant: the nudges are not counted. *)
NoChangeUncounted ==
  /\ pc = "gate" /\ Committing(cur) /\ Changed(cur) = {}
  /\ cur \notin HasPost /\ ~(FilesOf[cur] \subseteq touched)
  /\ pc' = "model"
  /\ UNCHANGED <<cur, feedback, nochange, log, branch, worktree, runEnd, history>>

(* NoChangesError otherwise: nudge the model, then give up. *)
NoChange ==
  /\ pc = "gate" /\ Committing(cur) /\ Changed(cur) = {}
  /\ cur \notin HasPost /\ ~(FilesOf[cur] \subseteq touched)
  /\ nochange' = nochange + 1
  /\ \/ /\ nochange' <= MaxNoChange
        /\ pc' = "model" /\ UNCHANGED <<log, exit>>
     \/ /\ nochange' > MaxNoChange
        /\ Abort
  /\ UNCHANGED <<cur, feedback, branch, worktree, mode, launches, nextStage, history>>

Finish ==
  /\ pc = "next" /\ cur > NumSteps
  /\ log' = [status |-> "completed", steps |-> Logged]
  /\ pc' = "exited" /\ exit' = "ok"
  /\ UNCHANGED <<cur, feedback, nochange, branch, worktree, mode, launches, nextStage, history>>

-----------------------------------------------------------------------------
(* Around the stage. *)

(* run_stage kills the stage when it exceeds stage_timeout; an interactive *)
(* run ends the same way on Ctrl-C.                                        *)
Kill ==
  /\ KillAllowed
  /\ pc \in {"next", "model", "gate"}
  /\ pc' = "exited" /\ exit' = "killed"
  /\ interrupted' = IF pc = "model" THEN interrupted \cup {cur} ELSE interrupted
  /\ UNCHANGED <<cur, feedback, nochange, log, branch, worktree, mode, launches, nextStage,
                 subsumed, stolen>>

(* Mutant: any log counts, whatever it says. *)
ExecutionLogged == log.status # "none"

(* _execution_completed: the predicate get_resume_stage applies to the log. *)
ExecutionCompleted == log.status = "completed"

(* The end of an invocation.  A detached run commits whatever the worktree *)
(* holds (git_commit_all_in: add -A, commit --allow-empty) and leaves the  *)
(* choice of the next stage to the artifacts; an interactive one stops and *)
(* prints the stage to resume from.                                        *)
EndInvocation ==
  /\ pc = "exited"
  /\ pc' = "idle"
  /\ IF mode = "detached"
       THEN /\ dirty' = [f \in File |-> "clean"] /\ staged' = {}
            /\ tracked' = tracked \cup {f \in File : dirty[f] # "clean"}
       ELSE UNCHANGED worktree
  /\ nextStage' = IF exit = "ok" \/ (mode = "detached" /\ ExecutionCompleted)
                    THEN "auto_harden" ELSE "executor"
  /\ UNCHANGED <<cur, feedback, nochange, log, branch, mode, launches, exit, history>>

(* The operator works in the checkout between two invocations: edits a     *)
(* file, stages it, or cleans up by committing or discarding.              *)
OperatorWorks ==
  /\ mode = "interactive" /\ pc = "idle" /\ nextStage = "executor"
  /\ \E f \in File :
       \/ dirty' = [dirty EXCEPT ![f] = "operator"] /\ UNCHANGED staged
       \/ dirty' = [dirty EXCEPT ![f] = "operator"] /\ staged' = staged \cup {f}
       \/ dirty' = [dirty EXCEPT ![f] = "clean"] /\ staged' = staged \ {f}
  /\ UNCHANGED <<pc, cur, feedback, nochange, log, tracked, branch, runEnd, history>>

(* Nothing is left to do: the work was handed on, or the restarts are used up. *)
Done ==
  /\ pc = "idle" /\ (nextStage = "auto_harden" \/ launches = MaxLaunches)
  /\ UNCHANGED vars

StageStep ==
  \/ CarryForward \/ RefuseDirtyFiles \/ BeginStep
  \/ ModelPasses \/ ModelFails \/ UnexpectedWrite
  \/ PostConditionMissed \/ PassWithoutCommit
  \/ CommitStep \/ CommitRejected \/ Subsume \/ NoChange \/ Finish

Next == Launch \/ StageStep \/ Kill \/ EndInvocation \/ OperatorWorks \/ Done

Spec == Init /\ [][Next]_vars

(* The stage is a process that runs until it exits, and the orchestrator   *)
(* waits for it: each is scheduled for as long as it can move.             *)
FairSpec == Spec /\ WF_vars(StageStep) /\ WF_vars(EndInvocation)

-----------------------------------------------------------------------------
TypeOK ==
  /\ pc \in {"idle", "next", "model", "gate", "exited"}
  /\ cur \in 1..(NumSteps + 1)
  /\ feedback \in 0..(MaxFeedback + 1)
  /\ nochange \in 0..(MaxNoChange + 1)
  /\ log \in [status : Status, steps : [Step -> Entry]]
  /\ commits \subseteq Step
  /\ dirty \in [File -> Dirt]
  /\ staged \subseteq File /\ tracked \subseteq File /\ touched \subseteq File
  /\ mode \in Modes /\ launches \in 0..MaxLaunches
  /\ exit \in {"none", "ok", "fail", "killed", "refused"}
  /\ nextStage \in {"executor", "auto_harden"}
  /\ subsumed \subseteq Step
  /\ interrupted \subseteq Step
  /\ stolen \subseteq {"edited", "untracked", "staged"}

(* A step landed: it is on the branch, or it was accepted because the end  *)
(* state was already there, or it never commits.                           *)
Landed(s) == s \in commits \/ s \in subsumed \/ s \notin Modifying

(* SAFETY.  When the executor reports success, whatever was retried,       *)
(* killed and resumed before, its log has an entry "passed" for every step *)
(* of the plan and every step landed: nothing is skipped on the way to     *)
(* hardening (execute_plan, run_step_with_commit, prepare_resume).         *)
SuccessMeansEveryStepLanded ==
  exit = "ok" => \A s \in Step : log.steps[s] = "passed" /\ Landed(s)

(* SAFETY.  Commits land in plan order: a step is on the branch only if    *)
(* every earlier step landed, so a step never builds on work that is not   *)
(* there, over any number of aborted and resumed invocations.              *)
CommitsFollowPlanOrder ==
  \A s \in commits : \A p \in 1..(s - 1) : Landed(p)

(* SAFETY.  The model is never asked to redo a committing step that a kill *)
(* cut short in an earlier invocation, even when the kill hit a retry of   *)
(* it: its leftovers could be anything (validate_resume_state, #244).      *)
InterruptedStepNotRedone ==
  pc = "model" /\ cur \in Modifying => cur \notin interrupted

(* SAFETY.  Changes the operator made to a file HEAD has never go into a   *)
(* step commit unless the operator had staged them (assert_files_clean,    *)
(* #235), whatever failed and was retried in between.                      *)
UnstagedWorkNotCommitted == "edited" \notin stolen

(* SAFETY.  Unless the stage was killed, the orchestrator moves on to      *)
(* hardening only with every step logged "passed" and landed, over aborted *)
(* and refused invocations alike (get_resume_stage, _execution_completed). *)
HandedOverWhole ==
  nextStage = "auto_harden" /\ exit # "killed"
    => \A s \in Step : log.steps[s] = "passed" /\ Landed(s)

(* LIVENESS.  Whatever the model, the post-conditions and the hooks        *)
(* answer, an invocation ends: the two retry budgets share one loop and    *)
(* neither can be refilled by the other (run_step_with_commit).            *)
InvocationEnds == (pc # "idle") ~> (pc = "idle")

(* CLAIM of runner/run_tracker.py: a log is a resume point past the        *)
(* executor only when the stage actually completed.                        *)
HardenOnlyAfterEveryStep ==
  nextStage = "auto_harden" => \A s \in Step : log.steps[s] = "passed"
=============================================================================
