------------------------- MODULE RunnerExecutorProofs -------------------------
(***************************************************************************)
(* What the executor guarantees for every plan, every set of files and     *)
(* every value of the retry budgets.  The invariants the runs check are    *)
(* not inductive: each says what holds when a step commits, a stage        *)
(* succeeds or a model is called, and rests on what holds on the way       *)
(* there, from the launch of an invocation to the step it has reached.     *)
(***************************************************************************)
EXTENDS RunnerExecutor, TLAPS

(* An invocation is past its launch and has not exited. *)
Running == pc \in {"next", "model", "gate"}

(* The steps before the current one landed. *)
EarlierStepsLanded == Running => \A p \in Step : p < cur => Landed(p)

(* The log of a running invocation says so, and nothing else of the steps  *)
(* it has reached; the last way an invocation exited is not its own.       *)
LogFollowsTheRun ==
  /\ pc = "exited" => exit # "none"
  /\ Running => /\ exit = "none"
                /\ \A p \in Step : p < cur => log.steps[p] = "passed"
  /\ pc = "model" => cur \in Step /\ log.steps[cur] \in {"started", "passed"}
  /\ pc = "gate" => cur \in Step /\ log.steps[cur] = "passed"

(* A detached stage that ended without a kill and short of success, now or *)
(* in the invocation before, did not leave a log that reads "completed".   *)
FailureIsLogged ==
  /\ nextStage = "auto_harden" => pc = "idle"
  /\ mode = "detached"
     /\ \/ pc = "idle" /\ nextStage = "executor"
        \/ pc = "exited" /\ exit \in {"fail", "refused"}
     => log.status # "completed"

(* A modifying step whose model call was cut short makes every later       *)
(* invocation refuse.                                                      *)
InterruptionSticks ==
  /\ pc \in {"model", "gate"} => cur \notin commits
  /\ \A s \in interrupted \cap Modifying : pc \in {"idle", "exited"} /\ Disagrees(s)

(* From its start to its commit, no file of a modifying step that HEAD has *)
(* holds changes of the operator.                                          *)
StepFilesAreRunners ==
  pc \in {"model", "gate"} /\ cur \in Modifying =>
    \A f \in FilesOf[cur] \cap tracked : dirty[f] # "operator"

-----------------------------------------------------------------------------
(* Type correctness. *)

USE DEF Step, Entry, Status, Dirt

(* The log a write starts from is a log, and each write leaves one: first  *)
(* the entries of the steps before the current one (persist_execution_log, *)
(* _mark_remaining_skipped).                                               *)
LEMMA LoggedType ==
  ASSUME TypeOK
  PROVE  Logged \in [Step -> Entry]
BY DEF TypeOK, Logged, EmptyLog

(* _persist_log writes a log entry of a step. *)
LEMMA PersistType ==
  ASSUME TypeOK, NEW status \in Status, NEW entry \in Entry,
         Persist(status, cur, entry)
  PROVE  log' \in [status : Status, steps : [Step -> Entry]]
BY LoggedType DEF Persist

(* So does the interrupt handler. *)
LEMMA AbortType ==
  ASSUME TypeOK, PersistAbort
  PROVE  log' \in [status : Status, steps : [Step -> Entry]]
BY LoggedType DEF PersistAbort

(* A model call turns clean files into the runner's (execute_step). *)
LEMMA TouchedType ==
  ASSUME TypeOK, NEW edits \in SUBSET File
  PROVE  Touched(edits) \in [File -> Dirt]
BY DEF TypeOK, Touched

(* While a step is worked on it is a step of the plan, and no budget is    *)
(* exceeded: the counter that goes past its bound ends the invocation.     *)
WithinBudgets ==
  pc \in {"model", "gate"} =>
    cur \in Step /\ feedback <= MaxFeedback /\ nochange <= MaxNoChange

TypeInv == TypeOK /\ WithinBudgets

(* A retry raises the shared counter by one, and only below the bound does *)
(* the model run again (arm_feedback_retry).                               *)
LEMMA FeedbackType ==
  ASSUME TypeInv, pc = "gate", FeedbackRetry \/ FeedbackExhausted
  PROVE  /\ feedback' \in 0..(MaxFeedback + 1)
         /\ pc' \in {"model", "exited"}
         /\ pc' = "model" => feedback' <= MaxFeedback
         /\ exit' \in {"none", "ok", "fail", "killed", "refused"}
         /\ log' \in [status : Status, steps : [Step -> Entry]]
<1>1. CASE FeedbackRetry
  BY <1>1, ExecutorAssumption DEF FeedbackRetry, TypeInv, TypeOK
<1>2. CASE FeedbackExhausted
  <2>1. log' \in [status : Status, steps : [Step -> Entry]]
    BY <1>2, AbortType DEF FeedbackExhausted, Abort, TypeInv
  <2>2. feedback = MaxFeedback
    BY <1>2, ExecutorAssumption DEF FeedbackExhausted, TypeInv, TypeOK, WithinBudgets
  <2> QED BY <1>2, <2>1, <2>2, ExecutorAssumption DEF FeedbackExhausted, Abort
<1> QED BY <1>1, <1>2

(* Types hold at first. *)
LEMMA TypeInit == ASSUME Init PROVE TypeInv
BY ExecutorAssumption DEF Init, TypeInv, TypeOK, WithinBudgets, EmptyLog

(* Every step keeps them, and the budgets' counters below their limits. *)
LEMMA TypeNext ==
  ASSUME TypeInv, [Next]_vars
  PROVE  TypeInv'
<1> USE ExecutorAssumption DEF TypeInv
<1>1. CASE Launch
  <2>1. dirty' \in [File -> Dirt] /\ staged' \subseteq File
    BY <1>1 DEF Launch, ResetOnReuse, TypeOK
  <2>2. launches' \in 0..MaxLaunches
    BY <1>1 DEF Launch, TypeOK
  <2>3. pc' \in {"next", "exited"} /\ exit' \in {"none", "fail", "refused"}
    BY <1>1 DEF Launch
  <2> QED BY <1>1, <2>1, <2>2, <2>3 DEF Launch, TypeOK, WithinBudgets, branch, history
<1>2. CASE CarryForward
  <2>1. log' \in [status : Status, steps : [Step -> Entry]]
    BY <1>2, PersistType DEF CarryForward
  <2> QED BY <1>2, <2>1 DEF CarryForward, TypeOK, WithinBudgets, branch, worktree, runEnd, history
<1>3. CASE RefuseDirtyFiles
  <2>1. log' \in [status : Status, steps : [Step -> Entry]]
    BY <1>3, AbortType DEF RefuseDirtyFiles, Abort
  <2> QED BY <1>3, <2>1 DEF RefuseDirtyFiles, Abort, TypeOK, WithinBudgets, branch, worktree, history
<1>4. CASE BeginStep
  <2>1. log' \in [status : Status, steps : [Step -> Entry]]
    BY <1>4, PersistType DEF BeginStep
  <2> QED BY <1>4, <2>1 DEF BeginStep, TypeOK, WithinBudgets, branch, worktree, runEnd, history
<1>5. CASE ModelPasses
  <2>1. log' \in [status : Status, steps : [Step -> Entry]]
    BY <1>5, PersistType DEF ModelPasses
  <2>2. dirty' \in [File -> Dirt]
    BY <1>5, TouchedType DEF ModelPasses
  <2> QED BY <1>5, <2>1, <2>2 DEF ModelPasses, TypeOK, WithinBudgets, branch, runEnd, history
<1>6. CASE ModelFails \/ UnexpectedWrite
  <2>1. log' \in [status : Status, steps : [Step -> Entry]]
    BY <1>6, AbortType DEF ModelFails, UnexpectedWrite, Abort
  <2>2. dirty' \in [File -> Dirt]
    BY <1>6, TouchedType DEF ModelFails, UnexpectedWrite
  <2> QED BY ZenonT(60), <1>6, <2>1, <2>2
       DEF ModelFails, UnexpectedWrite, Abort, TypeOK, WithinBudgets, branch, history
<1>7. CASE PostConditionMissed
  BY <1>7, FeedbackType
    DEF PostConditionMissed, TypeOK, WithinBudgets, branch, worktree, history
<1>8. CASE PassWithoutCommit \/ Subsume
  <2>1. cur \in Step /\ cur' = cur + 1 /\ pc' = "next"
    BY <1>8 DEF PassWithoutCommit, Subsume, WithinBudgets
  <2>2. cur' \in 1..(NumSteps + 1)
    BY <2>1
  <2>3. subsumed' \subseteq Step
    BY <1>8, <2>1 DEF PassWithoutCommit, Subsume, TypeOK
  <2> QED BY <1>8, <2>1, <2>2, <2>3
       DEF PassWithoutCommit, Subsume, TypeOK, WithinBudgets, branch, worktree, runEnd
<1>9. CASE CommitStep
  <2>1. cur \in Step /\ FilesOf[cur] \subseteq File
    BY <1>9 DEF CommitStep, WithinBudgets
  <2>2. InCommit(cur) \subseteq File
    BY <2>1 DEF InCommit, Changed, TypeOK
  <2>3. dirty' \in [File -> Dirt]
    BY <1>9 DEF CommitStep, TypeOK
  <2>4. stolen' \subseteq {"edited", "untracked", "staged"}
    BY <1>9 DEF CommitStep, OperatorKinds, TypeOK
  <2> QED BY <1>9, <2>1, <2>2, <2>3, <2>4 DEF CommitStep, TypeOK, WithinBudgets, runEnd
<1>10. CASE CommitRejected
  <2>1. cur \in Step /\ FilesOf[cur] \subseteq File
    BY <1>10 DEF CommitRejected, WithinBudgets
  <2>2. staged' \subseteq File
    BY <1>10, <2>1 DEF CommitRejected, Changed, TypeOK
  <2>3. /\ feedback' \in 0..(MaxFeedback + 1)
        /\ pc' \in {"model", "exited"}
        /\ pc' = "model" => feedback' <= MaxFeedback
        /\ exit' \in {"none", "ok", "fail", "killed", "refused"}
        /\ log' \in [status : Status, steps : [Step -> Entry]]
    BY <1>10, FeedbackType DEF CommitRejected
  <2> QED BY <1>10, <2>2, <2>3 DEF CommitRejected, TypeOK, WithinBudgets, branch, history
<1>11. CASE NoChange
  <2>1. nochange' \in 0..(MaxNoChange + 1)
    BY <1>11 DEF NoChange, TypeOK, WithinBudgets
  <2>2. CASE Abort
    BY <1>11, <2>1, <2>2, AbortType
      DEF NoChange, Abort, TypeOK, WithinBudgets, branch, worktree, history
  <2>3. CASE ~Abort
    BY <1>11, <2>1, <2>3 DEF NoChange, TypeOK, WithinBudgets, branch, worktree, history
  <2> QED BY <2>2, <2>3
<1>12. CASE Finish
  BY <1>12, LoggedType DEF Finish, TypeOK, WithinBudgets, branch, worktree, history
<1>13. CASE Kill
  BY <1>13 DEF Kill, TypeOK, WithinBudgets, branch, worktree
<1>14. CASE EndInvocation
  BY <1>14 DEF EndInvocation, TypeOK, WithinBudgets, branch, worktree, history
<1>15. CASE OperatorWorks
  BY <1>15 DEF OperatorWorks, TypeOK, WithinBudgets, branch, runEnd, history
<1>16. CASE UNCHANGED vars
  BY <1>16 DEF TypeOK, WithinBudgets, vars, worktree, branch, runEnd, history
<1> QED BY <1>1, <1>2, <1>3, <1>4, <1>5, <1>6, <1>7, <1>8, <1>9, <1>10, <1>11, <1>12,
           <1>13, <1>14, <1>15, <1>16 DEF Next, StageStep, Done

(* Every state the executor reaches is well typed, and no retry counter    *)
(* runs past its budget (run_step_with_commit).                            *)
THEOREM TypeInvCorrect == Spec => []TypeInv
BY TypeInit, TypeNext, PTL DEF Spec

(* Every variable of the executor keeps its type (run_executor). *)
THEOREM TypeCorrect == Spec => []TypeOK
BY TypeInvCorrect, PTL DEF TypeInv

-----------------------------------------------------------------------------
(* Commits land in plan order. *)

OrderInv == EarlierStepsLanded /\ CommitsFollowPlanOrder

(* Nothing that landed is taken back. *)
LEMMA LandedStays ==
  ASSUME [Next]_vars, NEW s \in Step, Landed(s)
  PROVE  Landed(s)'
<1>1. commits \subseteq commits' /\ subsumed \subseteq subsumed'
  BY DEF Next, StageStep, Launch, CarryForward, RefuseDirtyFiles, BeginStep, ModelPasses,
         ModelFails, UnexpectedWrite, PostConditionMissed, PassWithoutCommit, CommitStep,
         CommitRejected, Subsume, NoChange, Finish, Kill, EndInvocation, OperatorWorks, Done,
         vars, branch, history
<1> QED BY <1>1 DEF Landed

(* The only steps that change what the run is at: the step it works on     *)
(* landed, or it is the same step, or the run starts or ends.              *)
LEMMA CurrentMovesOn ==
  ASSUME TypeInv, [Next]_vars, Running'
  PROVE  \/ cur' = 1
         \/ Running /\ cur' = cur
         \/ Running /\ \E c \in Step : c = cur /\ cur' = c + 1 /\ Landed(c)'
<1>1. CASE Launch
  BY <1>1 DEF Launch
<1>2. CASE CarryForward
  BY <1>2 DEF CarryForward, Running, Landed, branch
<1>3. CASE PassWithoutCommit \/ Subsume \/ CommitStep
  <2>1. pc = "gate" /\ cur \in Step /\ cur' = cur + 1
    BY <1>3 DEF PassWithoutCommit, Subsume, CommitStep, TypeInv, WithinBudgets
  <2>2. PICK c \in Step : c = cur
    BY <2>1
  <2>3. Landed(c)'
    BY <1>3, <2>2 DEF PassWithoutCommit, Subsume, CommitStep, Landed
  <2> QED BY <2>1, <2>2, <2>3 DEF Running
<1>4. CASE \/ BeginStep \/ ModelPasses \/ PostConditionMissed \/ CommitRejected \/ NoChange
  BY <1>4 DEF BeginStep, ModelPasses, PostConditionMissed, CommitRejected, NoChange, Running
<1>5. CASE \/ RefuseDirtyFiles \/ ModelFails \/ UnexpectedWrite \/ Finish \/ Kill
           \/ EndInvocation \/ OperatorWorks
  BY <1>5 DEF RefuseDirtyFiles, ModelFails, UnexpectedWrite, Finish, Kill, EndInvocation,
              OperatorWorks, Abort, Running
<1>6. CASE UNCHANGED vars
  BY <1>6 DEF vars, Running
<1> QED BY <1>1, <1>2, <1>3, <1>4, <1>5, <1>6 DEF Next, StageStep, Done

(* A step commits only once the steps before it have landed. *)
LEMMA OrderNext ==
  ASSUME TypeInv, TypeInv', OrderInv, [Next]_vars
  PROVE  OrderInv'
<1>1. EarlierStepsLanded'
  <2> SUFFICES ASSUME Running', NEW p \in Step, p < cur'
               PROVE  Landed(p)'
    BY DEF EarlierStepsLanded
  <2>1. cur \in 1..(NumSteps + 1) /\ NumSteps \in Nat
    BY ExecutorAssumption DEF TypeInv, TypeOK
  <2>2. CASE cur' = 1
    BY <2>2
  <2>3. CASE Running /\ cur' = cur
    BY <2>3, LandedStays DEF OrderInv, EarlierStepsLanded
  <2>4. CASE Running /\ \E c \in Step : c = cur /\ cur' = c + 1 /\ Landed(c)'
    <3>1. PICK c \in Step : c = cur /\ cur' = c + 1 /\ Landed(c)'
      BY <2>4
    <3>2. p < cur \/ p = c
      BY <2>1, <3>1
    <3>3. p < cur => Landed(p)
      BY <2>4 DEF OrderInv, EarlierStepsLanded
    <3> QED BY <3>1, <3>2, <3>3, LandedStays
  <2> QED BY <2>2, <2>3, <2>4, CurrentMovesOn
<1>2. CommitsFollowPlanOrder'
  <2> SUFFICES ASSUME NEW s \in commits', NEW p \in 1..(s - 1)
               PROVE  Landed(p)'
    BY DEF CommitsFollowPlanOrder
  <2>1. s \in Step /\ p \in Step /\ p < s
    BY ExecutorAssumption DEF TypeInv, TypeOK
  <2>2. s \in commits \/ (CommitStep /\ s = cur)
    BY DEF Next, StageStep, Launch, CarryForward, RefuseDirtyFiles, BeginStep, ModelPasses,
           ModelFails, UnexpectedWrite, PostConditionMissed, PassWithoutCommit, CommitStep,
           CommitRejected, Subsume, NoChange, Finish, Kill, EndInvocation, OperatorWorks, Done,
           vars, branch
  <2>3. Landed(p)
    <3>1. CASE s \in commits
      BY <3>1 DEF OrderInv, CommitsFollowPlanOrder
    <3>2. CASE CommitStep /\ s = cur
      BY <2>1, <3>2 DEF OrderInv, EarlierStepsLanded, CommitStep, Running
    <3> QED BY <2>2, <3>1, <3>2
  <2> QED BY <2>1, <2>3, LandedStays
<1> QED BY <1>1, <1>2 DEF OrderInv

(* Over any number of aborted, killed and resumed invocations a step is on *)
(* the branch only if every earlier step landed (execute_plan, commit_files). *)
THEOREM CommitsInPlanOrder == Spec => []CommitsFollowPlanOrder
<1>1. Init => OrderInv
  BY DEF Init, OrderInv, EarlierStepsLanded, CommitsFollowPlanOrder, Running
<1>2. TypeInv /\ TypeInv' /\ OrderInv /\ [Next]_vars => OrderInv'
  BY OrderNext
<1>3. OrderInv => CommitsFollowPlanOrder
  BY DEF OrderInv
<1> QED BY <1>1, <1>2, <1>3, TypeInvCorrect, PTL DEF Spec

-----------------------------------------------------------------------------
(* Success is complete, and so is what is handed over to hardening. *)

AllPassedAndLanded == \A s \in Step : log.steps[s] = "passed" /\ Landed(s)

SuccessInv ==
  /\ LogFollowsTheRun
  /\ FailureIsLogged
  /\ SuccessMeansEveryStepLanded
  /\ HandedOverWhole

(* An abort says so in the log and ends the invocation. *)
LEMMA AbortsAreLogged ==
  ASSUME TypeInv, SuccessInv, pc \in {"next", "model", "gate"},
         Abort, UNCHANGED <<cur, mode, nextStage>>
  PROVE  SuccessInv'
<1>1. pc' = "exited" /\ exit' = "fail" /\ log'.status = "aborted"
  BY DEF Abort, PersistAbort
<1>2. nextStage' # "auto_harden"
  BY DEF SuccessInv, FailureIsLogged, TypeInv, TypeOK
<1> QED BY <1>1, <1>2 DEF SuccessInv, LogFollowsTheRun, FailureIsLogged,
           SuccessMeansEveryStepLanded, HandedOverWhole, Running

(* A write that goes on touches the entry of the current step only. *)
LEMMA PersistKeeps ==
  ASSUME TypeInv, SuccessInv, Running, cur \in Step, NEW entry \in Entry,
         Persist("completed", cur, entry)
  PROVE  /\ log'.steps[cur] = entry
         /\ \A p \in Step : p < cur => log'.steps[p] = "passed"
<1>1. Logged \in [Step -> Entry] /\ log'.steps = [Logged EXCEPT ![cur] = entry]
  BY LoggedType DEF TypeInv, Persist
<1>2. \A p \in Step : p < cur => cur # 1 /\ Logged[p] = "passed"
  BY ExecutorAssumption DEF Logged, SuccessInv, LogFollowsTheRun
<1>3. \A p \in Step : p < cur => p # cur
  BY ExecutorAssumption
<1> QED BY <1>1, <1>2, <1>3

(* The log follows the run, and the hand-over follows the log. *)
LEMMA SuccessNext ==
  ASSUME TypeInv, TypeInv', OrderInv, SuccessInv, [Next]_vars
  PROVE  SuccessInv'
<1>1. CASE Launch
  <2>1. cur' = 1 /\ pc' \in {"next", "exited"} /\ nextStage' = "executor" /\ log' = log
    BY <1>1 DEF Launch
  <2>2. \A p \in Step : ~(p < cur')
    BY <2>1, ExecutorAssumption
  <2>3. (pc' = "next" => exit' = "none") /\ (pc' = "exited" => exit' # "none")
    BY <1>1 DEF Launch
  <2>4. exit' # "ok"
    BY <1>1 DEF Launch
  <2>5. FailureIsLogged'
    BY <1>1, <2>1 DEF Launch, SuccessInv, FailureIsLogged
  <2> QED BY <2>1, <2>2, <2>3, <2>4, <2>5
       DEF SuccessInv, LogFollowsTheRun, SuccessMeansEveryStepLanded, HandedOverWhole, Running
<1>2. CASE CarryForward
  <2>1. cur \in Step /\ Running /\ pc' = "next" /\ cur' = cur + 1 /\ exit' = exit
        /\ nextStage' = nextStage /\ mode' = mode
    BY <1>2 DEF CarryForward, Running, runEnd
  <2>2. /\ log'.steps[cur] = "passed"
        /\ \A p \in Step : p < cur => log'.steps[p] = "passed"
    BY <1>2, <2>1, PersistKeeps DEF CarryForward
  <2>3. \A p \in Step : p < cur' => p < cur \/ p = cur
    BY <2>1, ExecutorAssumption
  <2> QED BY <2>1, <2>2, <2>3
       DEF SuccessInv, LogFollowsTheRun, FailureIsLogged, SuccessMeansEveryStepLanded,
           HandedOverWhole, Running
<1>3. CASE \/ RefuseDirtyFiles \/ ModelFails \/ UnexpectedWrite
           \/ (PostConditionMissed /\ FeedbackExhausted)
           \/ (CommitRejected /\ FeedbackExhausted)
           \/ (NoChange /\ Abort)
  <2>1. /\ pc \in {"next", "model", "gate"} /\ Abort
        /\ UNCHANGED <<cur, mode, nextStage>>
    BY <1>3 DEF RefuseDirtyFiles, ModelFails, UnexpectedWrite, PostConditionMissed,
                CommitRejected, NoChange, FeedbackExhausted
  <2> QED BY <2>1, AbortsAreLogged
<1>4. CASE BeginStep
  <2>1. cur \in Step /\ Running /\ pc' = "model" /\ UNCHANGED <<cur, exit, mode, nextStage>>
    BY <1>4 DEF BeginStep, Running, runEnd
  <2>2. /\ log'.steps[cur] = "started"
        /\ \A p \in Step : p < cur => log'.steps[p] = "passed"
    BY <1>4, <2>1, PersistKeeps DEF BeginStep
  <2> QED BY <2>1, <2>2
       DEF SuccessInv, LogFollowsTheRun, FailureIsLogged, SuccessMeansEveryStepLanded,
           HandedOverWhole, Running
<1>5. CASE ModelPasses
  <2>1. cur \in Step /\ Running /\ pc' = "gate" /\ UNCHANGED <<cur, exit, mode, nextStage>>
    BY <1>5 DEF ModelPasses, Running, runEnd, TypeInv, WithinBudgets
  <2>2. /\ log'.steps[cur] = "passed"
        /\ \A p \in Step : p < cur => log'.steps[p] = "passed"
    BY <1>5, <2>1, PersistKeeps DEF ModelPasses
  <2> QED BY <2>1, <2>2
       DEF SuccessInv, LogFollowsTheRun, FailureIsLogged, SuccessMeansEveryStepLanded,
           HandedOverWhole, Running
<1>6. CASE PassWithoutCommit \/ Subsume \/ CommitStep
  <2>1. /\ pc = "gate" /\ pc' = "next" /\ cur \in Step /\ cur' = cur + 1
        /\ UNCHANGED <<log, exit, mode, nextStage>>
    BY <1>6 DEF PassWithoutCommit, Subsume, CommitStep, runEnd, TypeInv, WithinBudgets
  <2>2. \A p \in Step : p < cur' => p < cur \/ p = cur
    BY <2>1, ExecutorAssumption
  <2> QED BY <2>1, <2>2
       DEF SuccessInv, LogFollowsTheRun, FailureIsLogged, SuccessMeansEveryStepLanded,
           HandedOverWhole, Running
<1>7. CASE \/ (PostConditionMissed /\ FeedbackRetry)
           \/ (CommitRejected /\ FeedbackRetry)
           \/ (NoChange /\ ~Abort)
  <2>1. /\ pc = "gate" /\ pc' = "model" /\ UNCHANGED <<cur, log, exit, mode, nextStage>>
    BY <1>7 DEF PostConditionMissed, CommitRejected, NoChange, FeedbackRetry
  <2> QED BY <2>1
       DEF SuccessInv, LogFollowsTheRun, FailureIsLogged, SuccessMeansEveryStepLanded,
           HandedOverWhole, Running
<1>8. CASE Finish
  <2>1. /\ pc = "next" /\ cur > NumSteps /\ pc' = "exited" /\ exit' = "ok"
        /\ UNCHANGED <<commits, subsumed, mode, nextStage>>
    BY <1>8 DEF Finish, branch, history
  <2>2. cur # 1 /\ \A p \in Step : p < cur
    BY <2>1, ExecutorAssumption DEF TypeInv, TypeOK
  <2>3. log'.steps = log.steps
    BY <1>8, <2>2 DEF Finish, Logged
  <2>4. \A p \in Step : log'.steps[p] = "passed" /\ Landed(p)'
    BY <2>1, <2>2, <2>3
      DEF SuccessInv, LogFollowsTheRun, OrderInv, EarlierStepsLanded, Running, Landed
  <2>5. nextStage' # "auto_harden"
    BY <2>1 DEF SuccessInv, FailureIsLogged, TypeInv, TypeOK
  <2> QED BY <2>1, <2>4, <2>5
       DEF SuccessInv, LogFollowsTheRun, FailureIsLogged, SuccessMeansEveryStepLanded,
           HandedOverWhole, Running
<1>9. CASE Kill
  <2>1. pc # "idle" /\ pc' = "exited" /\ exit' = "killed" /\ UNCHANGED <<mode, nextStage>>
    BY <1>9 DEF Kill
  <2> QED BY <2>1
       DEF SuccessInv, LogFollowsTheRun, FailureIsLogged, SuccessMeansEveryStepLanded,
           HandedOverWhole, Running
<1>10. CASE EndInvocation
  <2>1. /\ pc = "exited" /\ pc' = "idle"
        /\ UNCHANGED <<log, commits, subsumed, exit, mode>>
        /\ nextStage' = IF exit = "ok" \/ (mode = "detached" /\ log.status = "completed")
                          THEN "auto_harden" ELSE "executor"
    BY <1>10 DEF EndInvocation, ExecutionCompleted, branch, history
  <2>2. exit \in {"fail", "refused"} /\ mode = "detached" => log.status # "completed"
    BY <2>1 DEF SuccessInv, FailureIsLogged
  <2>3. LogFollowsTheRun' /\ FailureIsLogged'
    BY <2>1 DEF LogFollowsTheRun, FailureIsLogged, Running
  <2>4. SuccessMeansEveryStepLanded'
    BY <2>1 DEF SuccessInv, SuccessMeansEveryStepLanded, Landed
  <2>5. HandedOverWhole'
    <3>1. exit # "none"
      BY <2>1 DEF SuccessInv, LogFollowsTheRun
    <3> QED BY <2>1, <2>2, <2>4, <3>1
         DEF HandedOverWhole, SuccessMeansEveryStepLanded, TypeInv, TypeOK
  <2> QED BY <2>3, <2>4, <2>5 DEF SuccessInv
<1>11. CASE OperatorWorks \/ UNCHANGED vars
  <2>1. UNCHANGED <<pc, cur, log, commits, subsumed, mode, exit, nextStage>>
    BY <1>11 DEF OperatorWorks, vars, branch, runEnd, history
  <2> QED BY <2>1
       DEF SuccessInv, LogFollowsTheRun, FailureIsLogged, SuccessMeansEveryStepLanded,
           HandedOverWhole, Running, Landed
<1>12. CASE PostConditionMissed \/ CommitRejected
  BY <1>3, <1>7, <1>12 DEF PostConditionMissed, CommitRejected
<1> QED BY <1>1, <1>2, <1>3, <1>4, <1>5, <1>6, <1>7, <1>8, <1>9, <1>10, <1>11, <1>12
         DEF Next, StageStep, Done

(* So the log tells what the branch holds. *)
LEMMA SuccessInvCorrect == Spec => []SuccessInv
<1>1. Init => OrderInv /\ SuccessInv
  BY DEF Init, OrderInv, EarlierStepsLanded, CommitsFollowPlanOrder, SuccessInv,
         LogFollowsTheRun, FailureIsLogged, SuccessMeansEveryStepLanded, HandedOverWhole,
         Running
<1>2. TypeInv /\ TypeInv' /\ OrderInv /\ SuccessInv /\ [Next]_vars => OrderInv' /\ SuccessInv'
  BY OrderNext, SuccessNext
<1> QED BY <1>1, <1>2, TypeInvCorrect, PTL DEF Spec

(* The executor reports success only with every step of the plan logged    *)
(* "passed" and landed, over every history of retries, kills and resumes   *)
(* (execute_plan, prepare_resume).                                         *)
THEOREM SuccessIsComplete == Spec => []SuccessMeansEveryStepLanded
<1>1. SuccessInv => SuccessMeansEveryStepLanded
  BY DEF SuccessInv
<1> QED BY <1>1, SuccessInvCorrect, PTL

(* Short of a kill, hardening is only ever handed a complete plan          *)
(* (get_resume_stage applying _execution_completed to the log).            *)
THEOREM HandedOverComplete == Spec => []HandedOverWhole
<1>1. SuccessInv => HandedOverWhole
  BY DEF SuccessInv
<1> QED BY <1>1, SuccessInvCorrect, PTL

-----------------------------------------------------------------------------
(* Interrupted steps are not redone. *)

(* No step after an interruption hands the ticket over. *)
LEMMA InterruptNext ==
  ASSUME TypeInv, SuccessInv, InterruptionSticks, [Next]_vars
  PROVE  InterruptionSticks'
<1>1. CASE Launch
  <2>1. pc = "idle" /\ pc' \in {"next", "exited"} /\ UNCHANGED <<log, commits, interrupted>>
    BY <1>1 DEF Launch, branch, history
  <2>2. CASE \A s \in Step : ~Disagrees(s)
    <3>1. interrupted \cap Modifying = {}
      BY <2>2 DEF InterruptionSticks, TypeInv, TypeOK
    <3> QED BY <2>1, <3>1 DEF InterruptionSticks
  <2>3. CASE ~ \A s \in Step : ~Disagrees(s)
    <3>1. pc' = "exited"
      BY <1>1, <2>3 DEF Launch
    <3> QED BY <2>1, <3>1 DEF InterruptionSticks, Disagrees
  <2> QED BY <2>2, <2>3
<1>2. CASE StageStep
  <2>1. pc \in {"next", "model", "gate"} /\ interrupted' = interrupted
    BY <1>2 DEF StageStep, CarryForward, RefuseDirtyFiles, BeginStep, ModelPasses, ModelFails,
                UnexpectedWrite, PostConditionMissed, PassWithoutCommit, CommitStep,
                CommitRejected, Subsume, NoChange, Finish, history
  <2>2. interrupted \cap Modifying = {}
    BY <2>1 DEF InterruptionSticks
  <2>3. pc' \in {"model", "gate"} => cur' \notin commits'
    BY <1>2 DEF InterruptionSticks, StageStep, CarryForward, RefuseDirtyFiles, BeginStep,
                ModelPasses, ModelFails, UnexpectedWrite, PostConditionMissed,
                PassWithoutCommit, CommitStep, CommitRejected, Subsume, NoChange, Finish,
                Abort, FeedbackRetry, FeedbackExhausted, branch
  <2> QED BY <2>1, <2>2, <2>3 DEF InterruptionSticks
<1>3. CASE Kill
  <2>1. pc \in {"next", "model", "gate"} /\ pc' = "exited" /\ UNCHANGED <<log, commits>>
    BY <1>3 DEF Kill, branch
  <2>2. interrupted \cap Modifying = {}
    BY <2>1 DEF InterruptionSticks
  <2>3. \A s \in interrupted' \cap Modifying : s = cur /\ pc = "model"
    BY <1>3, <2>2 DEF Kill
  <2>4. pc = "model" /\ cur \in Modifying => Disagrees(cur)
    BY DEF InterruptionSticks, SuccessInv, LogFollowsTheRun, Disagrees
  <2>5. \A s \in interrupted' \cap Modifying : Disagrees(s)'
    BY <2>1, <2>3, <2>4 DEF Disagrees
  <2> QED BY <2>1, <2>5 DEF InterruptionSticks
<1>4. CASE EndInvocation \/ OperatorWorks \/ UNCHANGED vars
  <2>1. /\ pc' = pc \/ (pc = "exited" /\ pc' = "idle")
        /\ UNCHANGED <<cur, log, commits, interrupted>>
    BY <1>4 DEF EndInvocation, OperatorWorks, vars, branch, history
  <2> QED BY <2>1 DEF InterruptionSticks, Disagrees
<1> QED BY <1>1, <1>2, <1>3, <1>4 DEF Next, Done

(* A step a kill cut short is never given to the model again, even if the  *)
(* kill hit a retry whose log already read "passed" (validate_resume_state). *)
THEOREM InterruptedNeverRedone == Spec => []InterruptedStepNotRedone
<1>1. Init => InterruptionSticks
  BY DEF Init, InterruptionSticks
<1>2. TypeInv /\ SuccessInv /\ InterruptionSticks /\ [Next]_vars => InterruptionSticks'
  BY InterruptNext
<1>3. InterruptionSticks => InterruptedStepNotRedone
  BY DEF InterruptionSticks, InterruptedStepNotRedone
<1> QED BY <1>1, <1>2, <1>3, TypeInvCorrect, SuccessInvCorrect, PTL DEF Spec

-----------------------------------------------------------------------------
(* Unstaged work of the operator stays out of the step commits. *)

OperatorInv == StepFilesAreRunners /\ UnstagedWorkNotCommitted

(* A commit takes no file the operator has touched. *)
LEMMA OperatorNext ==
  ASSUME TypeInv, OperatorInv, [Next]_vars
  PROVE  OperatorInv'
<1>1. CASE BeginStep
  <2>1. \A f \in FilesOf[cur] \cap tracked : cur \in Modifying => dirty[f] = "clean"
    BY <1>1 DEF BeginStep, StepMayRun, FilesClean
  <2> QED BY <1>1, <2>1 DEF BeginStep, OperatorInv, StepFilesAreRunners,
             UnstagedWorkNotCommitted, worktree, history
<1>2. CASE ModelPasses
  <2>1. PICK edits \in SUBSET File : dirty' = Touched(edits)
    BY <1>2 DEF ModelPasses
  <2>2. \A f \in File : dirty'[f] = "operator" => dirty[f] = "operator"
    BY <2>1 DEF Touched
  <2>3. tracked \subseteq File
    BY DEF TypeInv, TypeOK
  <2> QED BY <1>2, <2>2, <2>3 DEF ModelPasses, OperatorInv, StepFilesAreRunners,
             UnstagedWorkNotCommitted, history
<1>3. CASE PostConditionMissed \/ CommitRejected \/ NoChange
  <2>1. pc = "gate" /\ UNCHANGED <<cur, dirty, tracked, stolen>>
    BY <1>3 DEF PostConditionMissed, CommitRejected, NoChange, worktree, history
  <2> QED BY <2>1 DEF OperatorInv, StepFilesAreRunners, UnstagedWorkNotCommitted
<1>4. CASE CommitStep
  <2>1. \A f \in FilesOf[cur] \cap tracked : dirty[f] # "operator"
    BY <1>4 DEF CommitStep, Committing, OperatorInv, StepFilesAreRunners
  <2>2. "edited" \notin OperatorKinds(cur)
    BY <2>1 DEF OperatorKinds
  <2> QED BY <1>4, <2>2 DEF CommitStep, OperatorInv, StepFilesAreRunners,
             UnstagedWorkNotCommitted
<1>5. CASE \/ Launch \/ CarryForward \/ RefuseDirtyFiles \/ ModelFails \/ UnexpectedWrite
           \/ PassWithoutCommit \/ Subsume \/ Finish \/ Kill \/ EndInvocation
           \/ OperatorWorks
  <2>1. pc' \in {"next", "exited", "idle"} /\ stolen' = stolen
    BY <1>5 DEF Launch, CarryForward, RefuseDirtyFiles, ModelFails, UnexpectedWrite,
                PassWithoutCommit, Subsume, Finish, Kill, EndInvocation, OperatorWorks, Abort,
                history
  <2> QED BY <2>1 DEF OperatorInv, StepFilesAreRunners, UnstagedWorkNotCommitted
<1>6. CASE UNCHANGED vars
  BY <1>6 DEF vars, worktree, history, OperatorInv, StepFilesAreRunners,
              UnstagedWorkNotCommitted
<1> QED BY <1>1, <1>2, <1>3, <1>4, <1>5, <1>6 DEF Next, StageStep, Done

(* What the operator changed in a file HEAD has and did not stage never    *)
(* goes into a step commit, whatever was retried (assert_files_clean).     *)
THEOREM UnstagedWorkStaysOut == Spec => []UnstagedWorkNotCommitted
<1>1. Init => OperatorInv
  BY DEF Init, OperatorInv, StepFilesAreRunners, UnstagedWorkNotCommitted
<1>2. TypeInv /\ OperatorInv /\ [Next]_vars => OperatorInv'
  BY OperatorNext
<1>3. OperatorInv => UnstagedWorkNotCommitted
  BY DEF OperatorInv
<1> QED BY <1>1, <1>2, <1>3, TypeInvCorrect, PTL DEF Spec
=============================================================================
