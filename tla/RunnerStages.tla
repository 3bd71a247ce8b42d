----------------------------- MODULE RunnerStages -----------------------------
(***************************************************************************)
(* The inside of the runner's model-driven stages, for one ticket: the     *)
(* attempt loop that refine and plan share (stage_lib.py), the executor as *)
(* a single step, the attack-defend rounds of auto_harden.py and the       *)
(* decision of approval.py, with git reduced to the commits of the run's   *)
(* branch, the uncommitted edits of the checkout and what reached master.  *)
(* Runs are repeated: by the operator, who follows the resume command that *)
(* the stopped run printed (run.py), and by the night's scheduled run,     *)
(* which goes by the artifacts it finds (run_tracker.py).                  *)
(***************************************************************************)
EXTENDS Integers, FiniteSets, Sequences

CONSTANTS
    MaxAttempts, \* auto_refine.MAX_RETRIES, auto_plan.MAX_RETRIES
    MaxRounds,   \* auto_harden.MAX_ROUNDS
    MaxFindings, \* findings in a round
    MaxRuns,     \* runs of the ticket
    None         \* no artifact, no stage

Stages == <<"auto_refine", "auto_plan", "executor", "auto_harden", "approval">>
StageNames == {Stages[i] : i \in DOMAIN Stages}

ASSUME RunnerStagesAssumption ==
    /\ MaxAttempts \in Nat \ {0}
    /\ MaxRounds \in Nat \ {0}
    /\ MaxFindings \in Nat \ {0}
    /\ MaxRuns \in Nat
    /\ None \notin StageNames

Drafted == {"auto_refine", "auto_plan"}

Faults == 0..2       \* errors the validator finds in an artifact
Id == 1..MaxFindings \* assign_ids numbers the findings of every round from 1
Run == 1..MaxRuns

Artifact == [made : Run, faults : Faults, valid : {"unset", "no", "yes"}]

\* The branches of the ticket: runner/<uuid> and, for scheduled runs,
\* runner/<slug>-<uuid>.
Branches == {"hand", "night"}
Execution == [status : {"completed", "aborted"}, plan : Artifact, changed : BOOLEAN,
              by : Branches]

\* Round 0 of a run stands for the executor's commits, the others for fixes.
Commit == [run : Run, round : 0..MaxRounds]
Edit == [fix : Commit, overlaps : BOOLEAN, staged : BOOLEAN]

Action == {"fixed", "deferred", "unresolved"}
Round == [resolutions : UNION {[F -> Action] : F \in SUBSET Id}, answered : BOOLEAN]
Verdict == {"all_resolved", "has_unresolved", "attacker_failed", "defender_failed"}
Harden == [verdict : Verdict, rounds : Seq(Round), edits : SUBSET Commit,
           by : Branches]
Landing == [commits : SUBSET Commit, by : Harden]

Maybe(S) == S \cup {None}

VARIABLES
    run,     \* number of runs begun
    night,   \* whether the current one is scheduled, in a worktree
    stage,   \* its stage
    at,      \* where in the stage it is; "idle" between runs
    hint,    \* the stage the operator resumes from, None when nothing is left
    attempt, \* attempt of the stage, round of the hardener
    best,    \* the artifact with the fewest errors so far
    art,     \* spec and plan artifacts on disk, by the stage that makes them
    exec,    \* execution log
    rounds,  \* rounds of the hardener so far
    tired,   \* the attacker gave no findings
    harden,  \* harden result
    branch,  \* commits of either branch
    loose,   \* edits of the defender that are not committed
    where,   \* branch checked out where the stages work
    origin,  \* branch the hardener found checked out
    edits,   \* fixes the defender made in this hardening
    master   \* what was squashed into master, and on which harden result

retryVars == <<attempt, best, art>>
hardenVars == <<rounds, tired, harden, origin, edits>>
gitVars == <<branch, loose, where, master>>
vars == <<run, night, stage, at, hint, attempt, best, art, exec,
          rounds, tired, harden, branch, loose, where, origin, edits, master>>

Init ==
    /\ run = 0
    /\ night = FALSE
    /\ stage = "auto_refine"
    /\ at = "idle"
    /\ hint = "auto_refine"
    /\ attempt = 1
    /\ best = None
    /\ art = [s \in Drafted |-> None]
    /\ exec = None
    /\ rounds = <<>>
    /\ tired = FALSE
    /\ harden = None
    /\ branch = [b \in Branches |-> {}]
    /\ loose = {}
    /\ where = "master"
    /\ origin = "master"
    /\ edits = {}
    /\ master = None
-----------------------------------------------------------------------------
(* The sequence of stages (run.py, run_tracker.py). *)

IsValid(a) == a # None /\ a.valid = "yes"

(* run_tracker.get_resume_stage: the latest artifact that counts. *)
ResumeStage ==
    IF harden # None THEN "approval"
    ELSE IF exec # None /\ exec.status = "completed" THEN "auto_harden"
    ELSE IF IsValid(art["auto_plan"]) THEN "executor"
    ELSE IF art["auto_refine"] # None THEN "auto_plan"
    ELSE "auto_refine"

EntryPoint(s) ==
    CASE s \in Drafted -> "call"
      [] s = "executor" -> "execute"
      [] s = "auto_harden" -> "checkout"
      [] s = "approval" -> "decide"

Enter(s) ==
    /\ stage' = s
    /\ at' = EntryPoint(s)
    /\ attempt' = 1
    /\ best' = None

Owner == IF night THEN "night" ELSE "hand"

Add(b, C) == [branch EXCEPT ![b] = @ \cup C]

(* A scheduled run commits what its stages left in the worktree (run.py,
   _run_detached_impl), which a hook may refuse; what is not committed then
   the next scheduled run resets. *)
LeaveCheckout(places) ==
    IF night
    THEN /\ loose' = {}
         /\ where' = "master"
         /\ branch' \in {branch, Add(where, {e.fix : e \in loose})}
    ELSE where' \in places /\ UNCHANGED <<loose, branch>>

EndRun(next) ==
    /\ at' = "idle"
    /\ hint' = next
    /\ UNCHANGED <<run, night, stage, attempt, best>>

(* The stage exits with an error; the run prints how to resume. *)
Fail == EndRun(stage) /\ LeaveCheckout({where})

PassOn ==
    /\ Enter(Stages[1 + CHOOSE i \in DOMAIN Stages : Stages[i] = stage])
    /\ UNCHANGED <<run, night, hint>>

StartRun ==
    /\ at = "idle"
    /\ hint # None
    /\ run < MaxRuns
    /\ run' = run + 1
    /\ \/ /\ night' = FALSE
          /\ Enter(hint)
          /\ UNCHANGED where
       \/ /\ night' = TRUE
          /\ loose = {} /\ where = "master"
          /\ Enter(ResumeStage)
          /\ where' = "night"
    /\ UNCHANGED <<hint, art, exec, hardenVars, branch, loose, master>>

(* The stage times out, is interrupted or its process is killed.  The
   executor has checked the branch out by then or not. *)
Kill ==
    /\ at # "idle"
    /\ EndRun(stage)
    /\ LeaveCheckout(IF at = "execute" THEN {where, Owner} ELSE {where})
    /\ UNCHANGED <<art, exec, hardenVars, master>>
-----------------------------------------------------------------------------
(* stage_lib.retry_until_valid, for auto_refine and auto_plan. *)

InputAccepted == stage = "auto_plan" => IsValid(art["auto_refine"])

(* auto_plan._read_spec *)
RefuseInput ==
    /\ at = "call"
    /\ ~InputAccepted
    /\ Fail
    /\ UNCHANGED <<art, exec, hardenVars, master>>

(* The attempts are used up: the best one is kept on disk, marked. *)
GiveUp(b) ==
    /\ Fail
    /\ art' = IF b = None THEN art ELSE [art EXCEPT ![stage] = [b EXCEPT !.valid = "no"]]

TryAgain(b) ==
    IF attempt = MaxAttempts THEN GiveUp(b)
    ELSE /\ at' = "call"
         /\ attempt' = attempt + 1
         /\ best' = b
         /\ UNCHANGED <<run, night, stage, hint, art, branch, loose, where>>

(* The model times out, fails or answers with something that is not JSON. *)
CallInVain ==
    /\ at = "call"
    /\ InputAccepted
    /\ TryAgain(best)
    /\ UNCHANGED <<exec, hardenVars, master>>

ClaudeMissing ==
    /\ at = "call"
    /\ Fail
    /\ UNCHANGED <<art, exec, hardenVars, master>>

(* Mutant: the artifact is written as accepted and corrected afterwards. *)
MarkedEarly(k) == [made |-> run, faults |-> k, valid |-> "yes"]

Unmarked(k) == [made |-> run, faults |-> k, valid |-> "unset"]

(* An artifact comes back and is written before it is validated. *)
CallModel ==
    /\ at = "call"
    /\ InputAccepted
    /\ \E k \in Faults : art' = [art EXCEPT ![stage] = Unmarked(k)]
    /\ at' = "validate"
    /\ UNCHANGED <<run, night, stage, hint, attempt, best, exec, hardenVars,
                   branch, loose, where, master>>

Better(a) == IF best = None \/ a.faults < best.faults THEN a ELSE best

Validate ==
    /\ at = "validate"
    /\ IF art[stage].faults = 0
       THEN /\ art' = [art EXCEPT ![stage].valid = "yes"]
            /\ PassOn
            /\ UNCHANGED <<branch, loose, where>>
       ELSE TryAgain(Better(art[stage]))
    /\ UNCHANGED <<exec, hardenVars, master>>
-----------------------------------------------------------------------------
(* executor.py as one step: a step whose number has a commit is skipped. *)

Overlapping == \E e \in loose : e.overlaps

HasSteps(b) == \E c \in branch[b] : c.round = 0

(* validate_resume_state: the log has steps that the branch has not. *)
Inconsistent ==
    /\ exec # None
    /\ exec.changed /\ exec.by # Owner
    /\ ~HasSteps(Owner)

PlanAccepted == IsValid(art["auto_plan"]) /\ ~Overlapping /\ ~Inconsistent

RefusePlan ==
    /\ at = "execute"
    /\ ~PlanAccepted
    /\ Fail
    /\ UNCHANGED <<art, exec, hardenVars, master>>

Executed(status, changed) ==
    [status |-> status, plan |-> art["auto_plan"], changed |-> changed, by |-> Owner]

Execute ==
    /\ at = "execute"
    /\ PlanAccepted
    /\ \E changed \in BOOLEAN :
         /\ HasSteps(Owner) => changed
         /\ exec' = Executed("completed", changed)
         /\ branch' = IF changed /\ ~HasSteps(Owner)
                      THEN Add(Owner, {[run |-> run, round |-> 0]}) ELSE branch
    /\ where' = Owner
    /\ PassOn
    /\ UNCHANGED <<art, hardenVars, loose, master>>

(* A step fails, with or without a commit before it. *)
Abort ==
    /\ at = "execute"
    /\ PlanAccepted
    /\ \E changed \in BOOLEAN : exec' = Executed("aborted", changed)
    /\ Fail
    /\ UNCHANGED <<art, hardenVars, master>>
-----------------------------------------------------------------------------
(* auto_harden.py *)

(* compute_verdict *)
Unresolved(rs) ==
    UNION {{f \in DOMAIN rs[i].resolutions : rs[i].resolutions[f] # "fixed"} : i \in DOMAIN rs}

(* Mutant: unresolved findings are looked for before an absent defender. *)
UnresolvedFirst(rs, failed) ==
    IF Unresolved(rs) # {} THEN "has_unresolved"
    ELSE IF failed THEN "attacker_failed"
    ELSE "all_resolved"

ComputeVerdict(rs, failed) ==
    IF \E i \in DOMAIN rs : ~rs[i].answered THEN "defender_failed"
    ELSE IF Unresolved(rs) # {} THEN "has_unresolved"
    ELSE IF failed THEN "attacker_failed"
    ELSE "all_resolved"

RefuseExecution ==
    /\ at = "checkout"
    /\ \/ exec = None \/ exec.status = "aborted"
       \/ exec.changed /\ where # exec.by /\ Overlapping
    /\ Fail
    /\ UNCHANGED <<art, exec, hardenVars, master>>

NothingToHarden ==
    /\ at = "checkout"
    /\ exec # None /\ exec.status = "completed" /\ ~exec.changed
    /\ harden' = [verdict |-> "all_resolved", rounds |-> <<>>, edits |-> {}, by |-> exec.by]
    /\ PassOn
    /\ UNCHANGED <<art, exec, rounds, tired, origin, edits, gitVars>>

CheckOut ==
    /\ at = "checkout"
    /\ exec # None /\ exec.status = "completed" /\ exec.changed
    /\ where # exec.by => ~Overlapping
    /\ origin' = where
    /\ where' = exec.by
    /\ at' = "attack"
    /\ rounds' = <<>> /\ tired' = FALSE /\ edits' = {}
    /\ UNCHANGED <<run, night, stage, hint, retryVars, exec, harden,
                   branch, loose, master>>

(* Both tries of the attacker fail: the rounds end. *)
AttackerFails ==
    /\ at = "attack"
    /\ tired' = TRUE
    /\ at' = "return"
    /\ UNCHANGED <<run, night, stage, hint, retryVars, exec, rounds, harden,
                   origin, edits, gitVars>>

AttackFinds ==
    /\ at = "attack"
    /\ \E n \in 0..MaxFindings :
         /\ rounds' = Append(rounds, [resolutions |-> [f \in 1..n |-> "unresolved"],
                                      answered |-> n = 0])
         /\ at' = IF n = 0 THEN "return" ELSE "defend"
    /\ UNCHANGED <<run, night, stage, hint, retryVars, exec, tired, harden,
                   origin, edits, gitVars>>

ThisFix == [run |-> run, round |-> Len(rounds)]

(* The defender edits files before it answers. *)
DefenderEdits ==
    /\ at = "defend"
    /\ ThisFix \notin edits
    /\ edits' = edits \cup {ThisFix}
    /\ \E o \in BOOLEAN :
         loose' = loose \cup {[fix |-> ThisFix, overlaps |-> o, staged |-> FALSE]}
    /\ UNCHANGED <<run, night, stage, at, hint, retryVars, exec, rounds, tired,
                   harden, origin, branch, where, master>>

(* Both its answers are refused by validate_response, or it fails. *)
DefenderFails ==
    /\ at = "defend"
    /\ at' = "return"
    /\ UNCHANGED <<run, night, stage, hint, retryVars, exec, hardenVars, gitVars>>

(* The answers name every finding once.  The fixes are committed; when the
   commit is refused they stay staged, and the round counts all the same. *)
DefenderAnswers ==
    /\ at = "defend"
    /\ \E r \in [DOMAIN rounds[Len(rounds)].resolutions -> {"fixed", "deferred"}] :
         /\ (\E f \in DOMAIN r : r[f] = "fixed") => ThisFix \in edits
         /\ rounds' = [rounds EXCEPT ![Len(rounds)] = [resolutions |-> r, answered |-> TRUE]]
    /\ at' = IF Len(rounds) = MaxRounds THEN "return" ELSE "attack"
    /\ \/ branch' = Add(where, {e.fix : e \in loose}) /\ loose' = {}
       \/ loose # {} /\ loose' = {[e EXCEPT !.staged = TRUE] : e \in loose} /\ UNCHANGED branch
    /\ UNCHANGED <<run, night, stage, hint, retryVars, exec, tired, harden,
                   origin, edits, where, master>>

(* The branch found at the start is checked out again, which edits to files
   that differ between the two prevent; then no result is written. *)
ReturnBlocked ==
    /\ at = "return"
    /\ origin # where /\ Overlapping
    /\ Fail
    /\ UNCHANGED <<art, exec, hardenVars, master>>

WriteResult ==
    /\ at = "return"
    /\ origin # where => ~Overlapping
    /\ where' = origin
    /\ harden' = [verdict |-> ComputeVerdict(rounds, tired), rounds |-> rounds, edits |-> edits,
                by |-> where]
    /\ PassOn
    /\ UNCHANGED <<art, exec, rounds, tired, origin, edits, branch, loose, master>>
-----------------------------------------------------------------------------
(* approval.py *)

Complete(next) ==
    /\ EndRun(next)
    /\ LeaveCheckout({where})
    /\ UNCHANGED master

(* merge_or_defer: git knows the branch as merged only when it has no commit
   of its own.  A worktree cannot check master out. *)
Merging == branch[harden.by]
AlreadyMerged == Merging = {} /\ Complete(None)
DeferMerge == Merging # {} /\ night /\ Complete("approval")

(* master cannot be checked out, the merge conflicts, or its commit is
   refused; in the last case the merge stays staged. *)
MergeFails ==
    /\ Merging # {} /\ ~night
    /\ EndRun("approval")
    /\ where' = IF Overlapping THEN where ELSE "master"
    /\ UNCHANGED <<branch, loose, master>>

Merge ==
    /\ Merging # {} /\ ~night /\ ~Overlapping
    /\ master = None
    /\ master' = [commits |-> Merging \cup {e.fix : e \in {x \in loose : x.staged}},
                  by |-> harden]
    /\ loose' = {e \in loose : ~e.staged}
    /\ where' = "master"
    /\ EndRun(None)
    /\ UNCHANGED branch

MergeOrDefer == AlreadyMerged \/ DeferMerge \/ MergeFails \/ Merge

(* collect_deferrals goes by the findings' ids, whatever their round. *)
Deferrals ==
    UNION {{f \in DOMAIN harden.rounds[i].resolutions :
              harden.rounds[i].resolutions[f] = "deferred"} : i \in DOMAIN harden.rounds}

Decide ==
    /\ at = "decide"
    /\ \/ harden = None /\ Fail /\ UNCHANGED master
       \/ /\ harden # None
          /\ \/ harden.verdict = "all_resolved" /\ MergeOrDefer
             \/ harden.verdict = "defender_failed" /\ Fail /\ UNCHANGED master
             \/ harden.verdict = "attacker_failed" /\ Complete(None)
             \/ harden.verdict = "has_unresolved" /\ Complete(None)
             \/ harden.verdict = "has_unresolved" /\ Deferrals # {} /\ MergeOrDefer
    /\ UNCHANGED <<art, exec, hardenVars>>
-----------------------------------------------------------------------------
Draft == RefuseInput \/ CallInVain \/ ClaudeMissing \/ CallModel \/ Validate
RunExecutor == RefusePlan \/ Execute \/ Abort
RunHardener ==
    \/ RefuseExecution \/ NothingToHarden \/ CheckOut
    \/ AttackerFails \/ AttackFinds
    \/ DefenderEdits \/ DefenderFails \/ DefenderAnswers
    \/ ReturnBlocked \/ WriteResult

Next == StartRun \/ Kill \/ Draft \/ RunExecutor \/ RunHardener \/ Decide

Spec == Init /\ [][Next]_vars
-----------------------------------------------------------------------------
TypeOK ==
    /\ run \in 0..MaxRuns
    /\ night \in BOOLEAN
    /\ stage \in StageNames
    /\ at \in {"idle", "call", "validate", "execute", "checkout", "attack",
              "defend", "return", "decide"}
    /\ hint \in Maybe(StageNames)
    /\ attempt \in 1..MaxAttempts
    /\ best \in Maybe(Artifact)
    /\ art \in [Drafted -> Maybe(Artifact)]
    /\ exec \in Maybe(Execution)
    /\ rounds \in Seq(Round) /\ Len(rounds) <= MaxRounds
    /\ tired \in BOOLEAN
    /\ harden \in Maybe(Harden)
    /\ branch \in [Branches -> SUBSET Commit]
    /\ loose \subseteq Edit
    /\ {where, origin} \subseteq {"master"} \cup Branches
    /\ edits \subseteq Commit
    /\ master \in Maybe(Landing)

(***************************************************************************)
(* Whatever is executed was accepted by the validator, as it stands on     *)
(* disk: not a plan left by a run that was killed between writing and      *)
(* validating it (stage_lib.py:294), not the best attempt of a stage that  *)
(* gave up, and not one planned from a specification that was refused.     *)
(***************************************************************************)
OnlyAcceptedPlansExecuted ==
    /\ exec # None => exec.plan.valid = "yes" /\ exec.plan.faults = 0
    /\ IsValid(art["auto_plan"]) => art["auto_refine"] # None /\ art["auto_refine"].faults = 0

(***************************************************************************)
(* A branch is merged without a human only when the defender answered      *)
(* every round of its hardening, so that each finding was fixed or         *)
(* deferred.  The ids start again in every round and the deferrals are     *)
(* collected by id (approval.py:147), so the triage of one round's         *)
(* deferrals must not carry another round's silence (auto_harden.py:316).  *)
(***************************************************************************)
NothingUnansweredMerged ==
    master # None =>
        \A i \in DOMAIN master.by.rounds :
            LET r == master.by.rounds[i]
            IN  /\ r.answered
                /\ \A f \in DOMAIN r.resolutions : r.resolutions[f] # "unresolved"

(***************************************************************************)
(* CLAIM of run_tracker.py:77: a failed stage's artifact is no resume      *)
(* point, the lookup falls through to the stage that must be run again.    *)
(***************************************************************************)
ResumedStageAcceptsItsInput ==
    /\ ResumeStage = "auto_plan" => art["auto_refine"].valid # "no"
    /\ ResumeStage = "executor" => IsValid(art["auto_plan"])

(***************************************************************************)
(* CLAIM of auto_harden.py:9: "all_resolved: safe to auto-merge".  When a  *)
(* run ends with that verdict, what the defender fixed is on the branch or *)
(* on master.                                                              *)
(***************************************************************************)
ResolvedMeansCommitted ==
    at = "idle" /\ harden # None /\ harden.verdict = "all_resolved"
        => harden.edits \subseteq branch[harden.by] \cup (IF master = None THEN {} ELSE master.commits)
=============================================================================
