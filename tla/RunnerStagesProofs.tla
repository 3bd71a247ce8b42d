--------------------------- MODULE RunnerStagesProofs ---------------------------
(***************************************************************************)
(* What the runner's stages keep of a ticket, for every number of attempts, *)
(* rounds, findings and runs, whatever fails, is killed and is run again   *)
(* by hand or at night: only accepted plans are executed, and nothing is   *)
(* merged that the defender left without an answer.  Then what the /harden *)
(* skill keeps: no finding is lost on the way to its answer, no deferred   *)
(* one goes without a note, no other run's defender is continued.          *)
(***************************************************************************)
EXTENDS Hardening, FiniteSetTheorems, SequenceTheorems, TLAPS

Places == {"idle", "call", "validate", "execute", "checkout", "attack", "defend", "return",
           "decide"}

(* Where a run is in its stage, and what it has at hand there.             *)
InStage ==
    /\ at # "idle" => run \in Run
    /\ at \in {"call", "validate"} => stage \in Drafted
    /\ at = "validate" => art[stage] \in Artifact
    /\ at = "execute" => stage = "executor"
    /\ at \in {"checkout", "attack", "defend", "return"} => stage = "auto_harden"
    /\ at = "decide" => stage = "approval"
    /\ at = "attack" => Len(rounds) < MaxRounds
    /\ at = "defend" => Len(rounds) > 0
    /\ at \in {"attack", "defend", "return"} => where \in Branches

TypeInv == TypeOK /\ InStage

-----------------------------------------------------------------------------
(* Stages are entered and left.                                            *)

(* The stages by name. *)
LEMMA TheStages ==
    /\ StageNames = {"auto_refine", "auto_plan", "executor", "auto_harden", "approval"}
    /\ DOMAIN Stages = 1..5
    /\ Stages[1] = "auto_refine" /\ Stages[2] = "auto_plan" /\ Stages[3] = "executor"
    /\ Stages[4] = "auto_harden" /\ Stages[5] = "approval"
BY DEF Stages, StageNames

(* A stage is entered at its first step. *)
LEMMA Entering ==
    ASSUME NEW s \in StageNames, Enter(s)
    PROVE  /\ stage' = s /\ attempt' = 1 /\ best' = None
           /\ \/ s \in Drafted /\ at' = "call"
              \/ s = "executor" /\ at' = "execute"
              \/ s = "auto_harden" /\ at' = "checkout"
              \/ s = "approval" /\ at' = "decide"
BY TheStages DEF Enter, EntryPoint, Drafted

(* The next stage. *)
LEMMA Passing ==
    ASSUME stage \in StageNames, stage # "approval", PassOn
    PROVE  /\ attempt' = 1 /\ best' = None /\ UNCHANGED <<run, night, hint>>
           /\ \/ stage = "auto_refine" /\ stage' = "auto_plan" /\ at' = "call"
              \/ stage = "auto_plan" /\ stage' = "executor" /\ at' = "execute"
              \/ stage = "executor" /\ stage' = "auto_harden" /\ at' = "checkout"
              \/ stage = "auto_harden" /\ stage' = "approval" /\ at' = "decide"
<1> DEFINE i == CHOOSE k \in DOMAIN Stages : Stages[k] = stage
<1>1. i \in 1..4 /\ Stages[i] = stage
    BY TheStages
<1>2. Enter(Stages[1 + i]) /\ UNCHANGED <<run, night, hint>>
    BY DEF PassOn
<1> HIDE DEF i
<1>3. Stages[1 + i] \in StageNames
    BY <1>1, TheStages
<1>4. /\ stage' = Stages[1 + i] /\ attempt' = 1 /\ best' = None
      /\ \/ stage' \in Drafted /\ at' = "call"
         \/ stage' = "executor" /\ at' = "execute"
         \/ stage' = "auto_harden" /\ at' = "checkout"
         \/ stage' = "approval" /\ at' = "decide"
    BY <1>2, <1>3, Entering
<1> QED BY <1>1, <1>2, <1>4, TheStages DEF Drafted

(* Commits are added to a branch. *)
LEMMA Adding ==
    ASSUME TypeOK, NEW b, NEW C \in SUBSET Commit
    PROVE  Add(b, C) \in [Branches -> SUBSET Commit]
BY DEF Add, TypeOK

(* What the stages leave in the checkout when a run stops. *)
LEMMA Leaving ==
    ASSUME TypeOK, NEW places \in SUBSET ({"master"} \cup Branches), LeaveCheckout(places)
    PROVE  /\ loose' \subseteq Edit /\ where' \in {"master"} \cup Branches
           /\ branch' \in [Branches -> SUBSET Commit]
<1>1. {e.fix : e \in loose} \in SUBSET Commit
    BY DEF TypeOK, Edit
<1>2. Add(where, {e.fix : e \in loose}) \in [Branches -> SUBSET Commit]
    BY <1>1, Adding
<1> QED BY <1>2 DEF LeaveCheckout, TypeOK

(* A run stops. *)
Stops(next) ==
    /\ EndRun(next)
    /\ loose' \subseteq Edit /\ where' \in {"master"} \cup Branches
    /\ branch' \in [Branches -> SUBSET Commit]

(* A failed stage stops the ticket where it is. *)
LEMMA Failing ==
    ASSUME TypeOK, Fail
    PROVE  Stops(stage)
<1>1. {where} \in SUBSET ({"master"} \cup Branches)
    BY DEF TypeOK
<1>2. EndRun(stage) /\ LeaveCheckout({where})
    BY DEF Fail
<1> QED BY <1>1, <1>2, Leaving DEF Stops

(* A ticket that stops keeps every type. *)
LEMMA StoppedType ==
    ASSUME TypeInv, NEW next \in Maybe(StageNames), Stops(next),
           art' \in [Drafted -> Maybe(Artifact)], exec' \in Maybe(Execution),
           master' \in Maybe(Landing), UNCHANGED hardenVars
    PROVE  TypeInv'
BY DEF TypeInv, TypeOK, InStage, Stops, EndRun, hardenVars

-----------------------------------------------------------------------------
(* Type correctness.                                                       *)

(* The stages where a run can be resumed. *)
LEMMA ResumeStageType == ResumeStage \in StageNames
BY TheStages DEF ResumeStage

(* A run begins where the operator resumes, or the artifacts say. *)
LEMMA StartRunType ==
    ASSUME TypeInv, StartRun
    PROVE  TypeInv'
<1>1. PICK s \in StageNames : Enter(s) /\ night' \in BOOLEAN /\ where' \in {where, "night"}
    BY ResumeStageType DEF StartRun, TypeInv, TypeOK, Maybe
<1>2. run' \in Run /\ run' \in 0..MaxRuns
    BY RunnerStagesAssumption DEF StartRun, TypeInv, TypeOK, Run
<1>3. /\ stage' = s /\ attempt' = 1 /\ best' = None
      /\ \/ s \in Drafted /\ at' = "call"
         \/ s = "executor" /\ at' = "execute"
         \/ s = "auto_harden" /\ at' = "checkout"
         \/ s = "approval" /\ at' = "decide"
    BY <1>1, Entering
<1>4. UNCHANGED <<hint, art, exec, rounds, tired, harden, origin, edits, branch, loose, master>>
    BY DEF StartRun, hardenVars
<1>5. TypeOK'
    BY <1>1, <1>2, <1>3, <1>4, RunnerStagesAssumption DEF TypeInv, TypeOK, Branches, Maybe
<1>6. InStage'
    BY <1>2, <1>3, <1>4 DEF TypeInv, InStage, Drafted
<1> QED BY <1>5, <1>6 DEF TypeInv

(* A run is killed. *)
LEMMA KillType ==
    ASSUME TypeInv, Kill
    PROVE  TypeInv'
<1>1. Stops(stage)
    <2>1. \A places \in SUBSET ({"master"} \cup Branches) :
             LeaveCheckout(places) => /\ loose' \subseteq Edit /\ where' \in {"master"} \cup Branches
                                      /\ branch' \in [Branches -> SUBSET Commit]
        BY Leaving DEF TypeInv
    <2>2. (IF at = "execute" THEN {where, Owner} ELSE {where}) \in SUBSET ({"master"} \cup Branches)
        BY DEF TypeInv, TypeOK, Owner, Branches
    <2> QED BY <2>1, <2>2 DEF Kill, Stops
<1>2. stage \in Maybe(StageNames) /\ UNCHANGED <<art, exec, hardenVars, master>>
    BY DEF Kill, TypeInv, TypeOK, Maybe
<1> QED BY <1>1, <1>2, StoppedType DEF TypeInv, TypeOK

(* A stage stops the run with nothing written. *)
LEMMA RefusalType ==
    ASSUME TypeInv, Fail, UNCHANGED <<art, exec, hardenVars, master>>
    PROVE  TypeInv'
<1>1. Stops(stage)
    BY Failing DEF TypeInv
<1>2. stage \in Maybe(StageNames)
    BY DEF TypeInv, TypeOK, Maybe
<1> QED BY <1>1, <1>2, StoppedType DEF TypeInv, TypeOK

(* The next attempt, or none. *)
LEMMA TryAgainType ==
    ASSUME TypeInv, at \in {"call", "validate"}, NEW b \in Maybe(Artifact), TryAgain(b),
           UNCHANGED <<exec, hardenVars, master>>
    PROVE  TypeInv'
<1>1. CASE attempt = MaxAttempts
    <2>1. GiveUp(b)
        BY <1>1 DEF TryAgain
    <2>2. art' \in [Drafted -> Maybe(Artifact)]
        <3>1. CASE b = None
            BY <2>1, <3>1 DEF GiveUp, TypeInv, TypeOK
        <3>2. CASE b # None
            <4> DEFINE x == [b EXCEPT !.valid = "no"]
            <4>1. b \in Artifact
                BY <3>2 DEF Maybe
            <4>2. x \in Maybe(Artifact)
                BY <4>1 DEF Artifact, Maybe
            <4>3. art' = [art EXCEPT ![stage] = x]
                BY <2>1, <3>2 DEF GiveUp
            <4> HIDE DEF x
            <4> QED BY <4>2, <4>3 DEF TypeInv, TypeOK
        <3> QED BY <3>1, <3>2
    <2>3. Stops(stage) /\ stage \in Maybe(StageNames)
        BY <2>1, Failing DEF GiveUp, TypeInv, TypeOK, Maybe
    <2> QED BY <2>2, <2>3, StoppedType DEF TypeInv, TypeOK
<1>2. CASE attempt # MaxAttempts
    <2>1. /\ at' = "call" /\ attempt' = attempt + 1 /\ best' = b
          /\ UNCHANGED <<run, night, stage, hint, art, branch, loose, where>>
        BY <1>2 DEF TryAgain
    <2>2. attempt + 1 \in 1..MaxAttempts
        BY <1>2, RunnerStagesAssumption DEF TypeInv, TypeOK
    <2>3. TypeOK'
        BY <2>1, <2>2 DEF TypeInv, TypeOK, hardenVars
    <2>4. InStage'
        BY <2>1 DEF TypeInv, InStage, hardenVars
    <2> QED BY <2>3, <2>4 DEF TypeInv
<1> QED BY <1>1, <1>2

(* auto_refine and auto_plan. *)
LEMMA DraftType ==
    ASSUME TypeInv, Draft
    PROVE  TypeInv'
<1>1. CASE RefuseInput \/ ClaudeMissing
    BY <1>1, RefusalType DEF RefuseInput, ClaudeMissing
<1>2. CASE CallInVain
    BY <1>2, TryAgainType DEF CallInVain, TypeInv, TypeOK
<1>3. CASE CallModel
    <2>1. PICK k \in Faults : art' = [art EXCEPT ![stage] = Unmarked(k)]
        BY <1>3 DEF CallModel
    <2>2. stage \in Drafted /\ run \in Run
        BY <1>3 DEF CallModel, TypeInv, InStage
    <2>3. Unmarked(k) \in Artifact
        BY <2>2 DEF Unmarked, Artifact
    <2>4. art' \in [Drafted -> Maybe(Artifact)] /\ art'[stage] \in Artifact
        BY <2>1, <2>2, <2>3 DEF TypeInv, TypeOK, Maybe
    <2>5. /\ at' = "validate"
          /\ UNCHANGED <<run, night, stage, hint, attempt, best, exec, rounds, tired, harden,
                         origin, edits, branch, loose, where, master>>
        BY <1>3 DEF CallModel, hardenVars
    <2>6. TypeOK'
        BY <2>4, <2>5 DEF TypeInv, TypeOK
    <2>7. InStage'
        BY <2>2, <2>4, <2>5 DEF TypeInv, InStage
    <2> QED BY <2>6, <2>7 DEF TypeInv
<1>4. CASE Validate
    <2>1. stage \in Drafted /\ art[stage] \in Artifact /\ run \in Run /\ UNCHANGED <<exec, hardenVars, master>>
        BY <1>4 DEF Validate, TypeInv, InStage
    <2>2. CASE art[stage].faults = 0
        <3> DEFINE x == [art[stage] EXCEPT !.valid = "yes"]
        <3>1. x \in Maybe(Artifact)
            BY <2>1 DEF Artifact, Maybe
        <3>2. art' = [art EXCEPT ![stage] = x] /\ PassOn /\ UNCHANGED <<branch, loose, where>>
            BY <1>4, <2>1, <2>2 DEF Validate, TypeInv, TypeOK
        <3> HIDE DEF x
        <3>3. art' \in [Drafted -> Maybe(Artifact)]
            BY <3>1, <3>2 DEF TypeInv, TypeOK
        <3>4. /\ attempt' = 1 /\ best' = None /\ UNCHANGED <<run, night, hint>>
              /\ \/ stage' = "auto_plan" /\ at' = "call"
                 \/ stage' = "executor" /\ at' = "execute"
            BY <2>1, <3>2, Passing DEF TypeInv, TypeOK, Drafted
        <3>5. TypeOK'
            BY <2>1, <3>2, <3>3, <3>4, TheStages, RunnerStagesAssumption
            DEF TypeInv, TypeOK, hardenVars, Maybe
        <3>6. InStage'
            BY <2>1, <3>4 DEF InStage, Drafted
        <3> QED BY <3>5, <3>6 DEF TypeInv
    <2>3. CASE art[stage].faults # 0
        <3>1. TryAgain(Better(art[stage])) /\ at \in {"call", "validate"}
            BY <1>4, <2>3 DEF Validate
        <3>2. Better(art[stage]) \in Maybe(Artifact)
            BY <2>1 DEF Better, TypeInv, TypeOK, Maybe
        <3> QED BY <2>1, <3>1, <3>2, TryAgainType
    <2> QED BY <2>2, <2>3
<1> QED BY <1>1, <1>2, <1>3, <1>4 DEF Draft

(* The executor. *)
LEMMA ExecutorType ==
    ASSUME TypeInv, RunExecutor
    PROVE  TypeInv'
<1>1. Owner \in Branches
    BY DEF Owner, Branches
<1>2. ASSUME PlanAccepted, NEW status \in {"completed", "aborted"}, NEW changed \in BOOLEAN
      PROVE  Executed(status, changed) \in Execution
    <2>1. art["auto_plan"] \in Artifact
        BY <1>2 DEF PlanAccepted, IsValid, TypeInv, TypeOK, Drafted, Maybe
    <2> QED BY <1>1, <2>1 DEF Executed, Execution
<1>3. CASE RefusePlan
    BY <1>3, RefusalType DEF RefusePlan
<1>4. CASE Abort
    <2>1. exec' \in Maybe(Execution)
        BY <1>2, <1>4 DEF Abort, Maybe
    <2>2. Stops(stage) /\ stage \in Maybe(StageNames) /\ UNCHANGED <<art, hardenVars, master>>
        BY <1>4, Failing DEF Abort, TypeInv, TypeOK, Maybe
    <2> QED BY <2>1, <2>2, StoppedType DEF TypeInv, TypeOK
<1>5. CASE Execute
    <2>1. run \in Run /\ stage = "executor"
        BY <1>5 DEF Execute, TypeInv, InStage
    <2>2. exec' \in Maybe(Execution)
        BY <1>2, <1>5 DEF Execute, Maybe
    <2>3. {[run |-> run, round |-> 0]} \in SUBSET Commit
        BY <2>1, RunnerStagesAssumption DEF Commit
    <2>4. branch' \in [Branches -> SUBSET Commit]
        <3>1. Add(Owner, {[run |-> run, round |-> 0]}) \in [Branches -> SUBSET Commit]
            BY <2>3, Adding DEF TypeInv
        <3>2. branch' = Add(Owner, {[run |-> run, round |-> 0]}) \/ branch' = branch
            BY <1>5 DEF Execute
        <3> QED BY <3>1, <3>2 DEF TypeInv, TypeOK
    <2>5. PassOn /\ where' = Owner /\ UNCHANGED <<art, rounds, tired, harden, origin, edits, loose, master>>
        BY <1>5 DEF Execute, hardenVars
    <2>6. /\ attempt' = 1 /\ best' = None /\ UNCHANGED <<run, night, hint>>
          /\ stage' = "auto_harden" /\ at' = "checkout"
        BY <2>1, <2>5, Passing, TheStages
    <2>7. TypeOK'
        BY <1>1, <2>2, <2>4, <2>5, <2>6, TheStages, RunnerStagesAssumption DEF TypeInv, TypeOK, Maybe
    <2>8. InStage'
        BY <2>1, <2>6 DEF InStage
    <2> QED BY <2>7, <2>8 DEF TypeInv
<1> QED BY <1>3, <1>4, <1>5 DEF RunExecutor

(* One more round, with nothing settled yet. *)
LEMMA RoundType ==
    ASSUME NEW n \in 0..MaxFindings
    PROVE  [resolutions |-> [f \in 1..n |-> "unresolved"], answered |-> n = 0] \in Round
<1>1. 1..n \in SUBSET Id
    BY RunnerStagesAssumption DEF Id
<1>2. [f \in 1..n |-> "unresolved"] \in [1..n -> Action]
    BY DEF Action
<1>3. [f \in 1..n |-> "unresolved"] \in UNION {[F -> Action] : F \in SUBSET Id}
    BY <1>1, <1>2
<1>4. (n = 0) \in BOOLEAN
    OBVIOUS
<1> QED BY <1>3, <1>4 DEF Round

(* The round the defender answered. *)
LEMMA AnswerType ==
    ASSUME TypeInv, at = "defend",
           NEW r \in [DOMAIN rounds[Len(rounds)].resolutions -> {"fixed", "deferred"}],
           rounds' = [rounds EXCEPT ![Len(rounds)] = [resolutions |-> r, answered |-> TRUE]]
    PROVE  /\ rounds' \in Seq(Round) /\ Len(rounds') = Len(rounds)
           /\ \A i \in DOMAIN rounds' :
                 \/ rounds'[i] = rounds[i] /\ i \in DOMAIN rounds
                 \/ rounds'[i].resolutions = r /\ rounds'[i].answered
<1>1. rounds \in Seq(Round) /\ Len(rounds) \in 1..Len(rounds) /\ DOMAIN rounds = 1..Len(rounds)
    BY DEF TypeInv, TypeOK, InStage
<1>2. rounds[Len(rounds)] \in Round
    BY <1>1
<1>3. PICK F \in SUBSET Id : rounds[Len(rounds)].resolutions \in [F -> Action]
    <2>1. \A x \in Round : x.resolutions \in UNION {[F -> Action] : F \in SUBSET Id}
        BY DEF Round
    <2>2. PICK S \in {[F -> Action] : F \in SUBSET Id} : rounds[Len(rounds)].resolutions \in S
        BY <1>2, <2>1, Zenon
    <2> QED BY <2>2
<1>4. r \in UNION {[G -> Action] : G \in SUBSET Id}
    <2>1. DOMAIN rounds[Len(rounds)].resolutions = F
        BY <1>3
    <2>2. r \in [F -> Action]
        BY <2>1 DEF Action
    <2> QED BY <2>2
<1> DEFINE x == [resolutions |-> r, answered |-> TRUE]
<1>5. x \in Round
    BY <1>4 DEF Round
<1>6. x.resolutions = r /\ x.answered
    OBVIOUS
<1>7. rounds' = [rounds EXCEPT ![Len(rounds)] = x]
    OBVIOUS
<1> HIDE DEF x
<1>8. /\ [rounds EXCEPT ![Len(rounds)] = x] \in Seq(Round)
      /\ Len([rounds EXCEPT ![Len(rounds)] = x]) = Len(rounds)
    BY <1>1, <1>5, ExceptSeq
<1>9. \A i \in DOMAIN rounds' : i \in DOMAIN rounds /\ (rounds'[i] = rounds[i] \/ rounds'[i] = x)
    BY <1>7
<1> QED BY <1>6, <1>7, <1>8, <1>9

(* This round's fix is a commit to be. *)
LEMMA FixType ==
    ASSUME TypeInv, at = "defend"
    PROVE  ThisFix \in Commit
<1>1. Len(rounds) \in 0..MaxRounds
    BY RunnerStagesAssumption DEF TypeInv, TypeOK
<1> QED BY <1>1 DEF ThisFix, Commit, TypeInv, InStage

(* The hardener. *)
LEMMA HardenerType ==
    ASSUME TypeInv, RunHardener
    PROVE  TypeInv'
<1>1. CASE RefuseExecution \/ ReturnBlocked
    BY <1>1, RefusalType DEF RefuseExecution, ReturnBlocked
<1>2. ASSUME PassOn, stage = "auto_harden", harden' \in Maybe(Harden),
             where' \in {"master"} \cup Branches,
             UNCHANGED <<art, exec, rounds, tired, origin, edits, branch, loose, master>>
      PROVE  TypeInv'
    <2>1. /\ attempt' = 1 /\ best' = None /\ UNCHANGED <<run, night, hint>>
          /\ stage' = "approval" /\ at' = "decide"
        BY <1>2, Passing, TheStages
    <2>2. TypeOK'
        BY <1>2, <2>1, TheStages, RunnerStagesAssumption DEF TypeInv, TypeOK, Maybe
    <2>3. at # "idle" => InStage'
        BY <1>2, <2>1 DEF TypeInv, InStage
    <2>4. at # "idle"
        BY DEF RunHardener, RefuseExecution, NothingToHarden, CheckOut, AttackerFails, AttackFinds,
               DefenderEdits, DefenderFails, DefenderAnswers, ReturnBlocked, WriteResult
    <2> QED BY <2>2, <2>3, <2>4 DEF TypeInv
<1>3. CASE NothingToHarden
    <2>1. exec \in Execution
        BY <1>3 DEF NothingToHarden, TypeInv, TypeOK, Maybe
    <2>2. harden' \in Harden
        <3>1. exec.by \in Branches
            BY <2>1 DEF Execution
        <3>2. <<>> \in Seq(Round) /\ {} \in SUBSET Commit /\ "all_resolved" \in Verdict
            BY DEF Verdict
        <3> QED BY <1>3, <3>1, <3>2 DEF NothingToHarden, Harden
    <2>3. /\ PassOn /\ stage = "auto_harden"
          /\ where' = where /\ UNCHANGED <<art, exec, rounds, tired, origin, edits, branch, loose, master>>
        BY <1>3 DEF NothingToHarden, TypeInv, InStage, gitVars
    <2> QED BY <1>2, <2>2, <2>3 DEF Maybe, TypeInv, TypeOK
<1>4. CASE CheckOut
    <2>1. exec.by \in Branches
        BY <1>4 DEF CheckOut, TypeInv, TypeOK, Maybe, Execution
    <2>2. /\ at = "checkout" /\ origin' = where /\ where' = exec.by /\ at' = "attack"
          /\ rounds' = <<>> /\ tired' = FALSE /\ edits' = {}
          /\ UNCHANGED <<run, night, stage, hint, attempt, best, art, exec, harden, branch, loose, master>>
        BY <1>4 DEF CheckOut, retryVars
    <2>3. rounds' \in Seq(Round) /\ Len(rounds') = 0
        BY <2>2
    <2>4. rounds' \in Seq(Round) /\ Len(rounds') <= MaxRounds /\ Len(rounds') < MaxRounds
        BY <2>3, RunnerStagesAssumption
    <2>5. TypeOK'
        BY <2>1, <2>2, <2>4 DEF TypeInv, TypeOK
    <2>6. InStage'
        BY <2>1, <2>2, <2>4 DEF TypeInv, InStage
    <2> QED BY <2>5, <2>6 DEF TypeInv
<1>5. CASE AttackerFails \/ DefenderFails
    <2>1. /\ at \in {"attack", "defend"} /\ at' = "return" /\ tired' \in BOOLEAN
          /\ UNCHANGED <<run, night, stage, hint, retryVars, exec, rounds, harden, origin, edits, gitVars>>
        BY <1>5 DEF AttackerFails, DefenderFails, hardenVars, TypeInv, TypeOK
    <2>2. TypeOK'
        BY <2>1 DEF TypeInv, TypeOK, retryVars, gitVars
    <2>3. InStage'
        BY <2>1 DEF TypeInv, InStage, gitVars
    <2> QED BY <2>2, <2>3 DEF TypeInv
<1>6. CASE AttackFinds
    <2>1. PICK n \in 0..MaxFindings :
            /\ rounds' = Append(rounds, [resolutions |-> [f \in 1..n |-> "unresolved"],
                                         answered |-> n = 0])
            /\ at' = IF n = 0 THEN "return" ELSE "defend"
        BY <1>6 DEF AttackFinds
    <2> DEFINE x == [resolutions |-> [f \in 1..n |-> "unresolved"], answered |-> n = 0]
    <2>2. x \in Round
        BY RoundType
    <2>3. rounds' = Append(rounds, x)
        BY <2>1
    <2> HIDE DEF x
    <2>4. rounds' \in Seq(Round) /\ Len(rounds') = Len(rounds) + 1 /\ Len(rounds) \in Nat
        BY <2>2, <2>3 DEF TypeInv, TypeOK
    <2>5. Len(rounds) < MaxRounds /\ at = "attack"
          /\ UNCHANGED <<run, night, stage, hint, retryVars, exec, tired, harden, origin, edits, gitVars>>
        BY <1>6 DEF AttackFinds, TypeInv, InStage
    <2>6. TypeOK'
        BY <2>1, <2>4, <2>5, RunnerStagesAssumption DEF TypeInv, TypeOK, retryVars, gitVars
    <2>7. InStage'
        BY <2>1, <2>4, <2>5 DEF TypeInv, InStage, gitVars
    <2> QED BY <2>6, <2>7 DEF TypeInv
<1>7. CASE DefenderEdits
    <2>1. ThisFix \in Commit
        BY <1>7, FixType DEF DefenderEdits
    <2>2. edits' \in SUBSET Commit /\ loose' \in SUBSET Edit
        <3>1. PICK o \in BOOLEAN :
                loose' = loose \cup {[fix |-> ThisFix, overlaps |-> o, staged |-> FALSE]}
            BY <1>7 DEF DefenderEdits
        <3>2. [fix |-> ThisFix, overlaps |-> o, staged |-> FALSE] \in Edit
            BY <2>1 DEF Edit
        <3>3. edits' = edits \cup {ThisFix}
            BY <1>7 DEF DefenderEdits
        <3> QED BY <2>1, <3>1, <3>2, <3>3 DEF TypeInv, TypeOK
    <2>3. TypeOK'
        BY <1>7, <2>2 DEF DefenderEdits, TypeInv, TypeOK, retryVars
    <2>4. InStage'
        BY <1>7 DEF DefenderEdits, TypeInv, InStage, retryVars
    <2> QED BY <2>3, <2>4 DEF TypeInv
<1>8. CASE DefenderAnswers
    <2>1. rounds' \in Seq(Round) /\ Len(rounds') = Len(rounds)
        BY <1>8, AnswerType DEF DefenderAnswers
    <2>2. at' = (IF Len(rounds) = MaxRounds THEN "return" ELSE "attack") /\ at = "defend"
          /\ UNCHANGED <<run, night, stage, hint, retryVars, exec, tired, harden, origin, edits, where, master>>
        BY <1>8 DEF DefenderAnswers
    <2>3. branch' \in [Branches -> SUBSET Commit]
        <3>1. {e.fix : e \in loose} \in SUBSET Commit
            BY DEF TypeInv, TypeOK, Edit
        <3>2. Add(where, {e.fix : e \in loose}) \in [Branches -> SUBSET Commit]
            BY <3>1, Adding DEF TypeInv
        <3> QED BY <1>8, <3>2 DEF DefenderAnswers, TypeInv, TypeOK
    <2>4. loose' \subseteq Edit
        <3>1. \A e \in Edit : [e EXCEPT !.staged = TRUE] \in Edit
            BY DEF Edit
        <3>2. {[e EXCEPT !.staged = TRUE] : e \in loose} \subseteq Edit
            BY <3>1 DEF TypeInv, TypeOK
        <3> QED BY <1>8, <3>2 DEF DefenderAnswers
    <2>5. TypeOK'
        BY <2>1, <2>2, <2>3, <2>4 DEF TypeInv, TypeOK, retryVars
    <2>6. InStage'
        BY <2>1, <2>2, RunnerStagesAssumption DEF TypeInv, TypeOK, InStage, retryVars
    <2> QED BY <2>5, <2>6 DEF TypeInv
<1>9. CASE WriteResult
    <2>1. ComputeVerdict(rounds, tired) \in Verdict
        BY DEF ComputeVerdict, Verdict
    <2>2. harden' \in Maybe(Harden) /\ where' \in {"master"} \cup Branches
        BY <1>9, <2>1 DEF WriteResult, Harden, Maybe, TypeInv, TypeOK, InStage
    <2> QED BY <1>2, <1>9, <2>2 DEF WriteResult, TypeInv, InStage
<1> QED BY <1>1, <1>3, <1>4, <1>5, <1>6, <1>7, <1>8, <1>9 DEF RunHardener

(* The decision. *)
LEMMA DecideType ==
    ASSUME TypeInv, Decide
    PROVE  TypeInv'
<1>1. ASSUME NEW next, Complete(next) PROVE Stops(next) /\ UNCHANGED master
    <2>1. {where} \in SUBSET ({"master"} \cup Branches)
        BY DEF TypeInv, TypeOK
    <2> QED BY <1>1, <2>1, Leaving DEF Complete, Stops, TypeInv
<1>2. ASSUME harden # None, MergeOrDefer
      PROVE  (Stops(None) \/ Stops("approval")) /\ master' \in Maybe(Landing)
    <2>1. CASE AlreadyMerged \/ DeferMerge
        BY <1>1, <2>1 DEF AlreadyMerged, DeferMerge, TypeInv, TypeOK
    <2>2. CASE MergeFails
        BY <2>2 DEF MergeFails, Stops, TypeInv, TypeOK
    <2>3. CASE Merge
        <3>1. Merging \in SUBSET Commit
            BY <1>2 DEF Merging, TypeInv, TypeOK, Maybe, Harden
        <3>2. {e.fix : e \in {x \in loose : x.staged}} \in SUBSET Commit
            BY DEF TypeInv, TypeOK, Edit
        <3>3. harden \in Harden
            BY <1>2 DEF TypeInv, TypeOK, Maybe
        <3>4. master' \in Maybe(Landing)
            BY <2>3, <3>1, <3>2, <3>3 DEF Merge, Landing, Maybe
        <3>5. Stops(None)
            BY <2>3 DEF Merge, Stops, TypeInv, TypeOK
        <3> QED BY <3>4, <3>5
    <2> QED BY <1>2, <2>1, <2>2, <2>3 DEF MergeOrDefer
<1>3. Fail => Stops(stage)
    BY Failing DEF TypeInv
<1>4. (Stops(stage) \/ Stops(None) \/ Stops("approval")) /\ master' \in Maybe(Landing)
    BY <1>1, <1>2, <1>3 DEF Decide, TypeInv, TypeOK
<1>5. stage \in Maybe(StageNames) /\ None \in Maybe(StageNames) /\ "approval" \in Maybe(StageNames)
    BY TheStages DEF Maybe, TypeInv, TypeOK
<1> QED BY <1>4, <1>5, StoppedType DEF Decide, TypeInv, TypeOK

(* No run has begun at first. *)
LEMMA TypeInit == Init => TypeInv
<1> SUFFICES ASSUME Init PROVE TypeInv
    OBVIOUS
<1>1. TypeOK
    <2>1. rounds \in Seq(Round) /\ Len(rounds) <= MaxRounds
        BY RunnerStagesAssumption DEF Init
    <2>2. art \in [Drafted -> Maybe(Artifact)]
        BY DEF Init, Maybe
    <2>3. branch \in [Branches -> SUBSET Commit]
        BY DEF Init
    <2>4. run \in 0..MaxRuns /\ attempt \in 1..MaxAttempts
        BY RunnerStagesAssumption DEF Init
    <2>5. /\ stage \in StageNames /\ hint \in Maybe(StageNames) /\ best \in Maybe(Artifact)
          /\ exec \in Maybe(Execution) /\ harden \in Maybe(Harden) /\ master \in Maybe(Landing)
        BY TheStages DEF Init, Maybe
    <2> QED BY <2>1, <2>2, <2>3, <2>4, <2>5 DEF Init, TypeOK
<1>2. InStage
    BY DEF Init, InStage
<1> QED BY <1>1, <1>2 DEF TypeInv

(* Types are kept. *)
LEMMA TypeNext == TypeInv /\ [Next]_vars => TypeInv'
<1>1. TypeInv /\ UNCHANGED vars => TypeInv'
    BY DEF vars, TypeInv, TypeOK, InStage
<1> QED BY <1>1, StartRunType, KillType, DraftType, ExecutorType, HardenerType, DecideType DEF Next

(* TypeOK: type correctness, with the rounds of a hardening and the        *)
(* attempts of a stage within their bounds (auto_harden.py, stage_lib.py). *)
THEOREM TypeCorrect == Spec => []TypeOK
<1>1. TypeInv => TypeOK
    BY DEF TypeInv
<1> QED BY <1>1, TypeInit, TypeNext, PTL DEF Spec
-----------------------------------------------------------------------------
(* What is executed was accepted.                                          *)

(* An artifact that says it is valid was found without errors.             *)
MarksAreTrue == \A s \in Drafted : IsValid(art[s]) => art[s].faults = 0

(* The specification is accepted before the plan is made, and is not       *)
(* drafted again once there is a plan: neither by a night's run, nor by    *)
(* the operator, whose way back leads into the stage that stopped.         *)
SpecificationFirst ==
    /\ art["auto_plan"] # None => IsValid(art["auto_refine"])
    /\ stage = "auto_refine" => art["auto_plan"] = None
    /\ at = "idle" /\ hint = "auto_refine" => art["auto_plan"] = None
    /\ at = "validate" /\ stage = "auto_plan" => IsValid(art["auto_refine"])

ExecutedAccepted == exec # None => exec.plan.valid = "yes" /\ exec.plan.faults = 0

AcceptedInv == MarksAreTrue /\ SpecificationFirst /\ ExecutedAccepted

(* An answered round leaves no finding unresolved. *)
AnswersAreWhole(rs) ==
    \A i \in DOMAIN rs :
        rs[i].answered =>
            \A f \in DOMAIN rs[i].resolutions : rs[i].resolutions[f] # "unresolved"

AllAnswered(rs) == \A i \in DOMAIN rs : rs[i].answered

(* The verdict tells whether the defender was silent.                      *)
AnsweredInv ==
    /\ AnswersAreWhole(rounds)
    /\ harden # None =>
          /\ AnswersAreWhole(harden.rounds)
          /\ harden.verdict # "defender_failed" => AllAnswered(harden.rounds)
    /\ master # None => AnswersAreWhole(master.by.rounds) /\ AllAnswered(master.by.rounds)

(* A run that stops leaves the way back into its own stage, or a later one. *)
LEMMA StoppedAccepted ==
    ASSUME AcceptedInv, NEW next, next = "auto_refine" => next = stage, EndRun(next),
           UNCHANGED art, ExecutedAccepted'
    PROVE  AcceptedInv'
<1>1. at' = "idle" /\ hint' = next /\ stage' = stage
    BY DEF EndRun
<1>2. MarksAreTrue'
    BY DEF AcceptedInv, MarksAreTrue, IsValid
<1>3. SpecificationFirst'
    BY <1>1 DEF AcceptedInv, SpecificationFirst, IsValid
<1> QED BY <1>2, <1>3 DEF AcceptedInv

(* A run that goes on in a stage leaves the artifacts as they are. *)
LEMMA GoesOnAccepted ==
    ASSUME AcceptedInv, at' \notin {"idle", "validate"}, UNCHANGED art, ExecutedAccepted',
           stage' = "auto_refine" => art["auto_plan"] = None
    PROVE  AcceptedInv'
<1>1. MarksAreTrue'
    BY DEF AcceptedInv, MarksAreTrue, IsValid
<1>2. SpecificationFirst'
    BY DEF AcceptedInv, SpecificationFirst, IsValid
<1> QED BY <1>1, <1>2 DEF AcceptedInv

(* The attempts that fail end in an artifact that is marked, or in none. *)
LEMMA TryAgainAccepted ==
    ASSUME TypeInv, AcceptedInv, stage \in Drafted, NEW b \in Maybe(Artifact), TryAgain(b),
           stage = "auto_plan" => IsValid(art["auto_refine"]), UNCHANGED exec
    PROVE  AcceptedInv'
<1>1. ExecutedAccepted'
    BY DEF AcceptedInv, ExecutedAccepted
<1>2. CASE attempt # MaxAttempts
    BY <1>1, <1>2, GoesOnAccepted DEF TryAgain, AcceptedInv, SpecificationFirst
<1>3. CASE attempt = MaxAttempts /\ b = None
    BY <1>1, <1>3, StoppedAccepted DEF TryAgain, GiveUp, Fail
<1>4. CASE attempt = MaxAttempts /\ b # None
    <2> DEFINE x == [b EXCEPT !.valid = "no"]
    <2>1. b \in Artifact
        BY <1>4 DEF Maybe
    <2>2. x.valid = "no"
        BY <2>1 DEF Artifact
    <2>3. EndRun(stage) /\ art' = [art EXCEPT ![stage] = x]
        BY <1>4 DEF TryAgain, GiveUp, Fail
    <2> HIDE DEF x
    <2>4. /\ art'[stage] = x
          /\ \A s \in Drafted : s # stage => art'[s] = art[s]
        BY <2>3 DEF TypeInv, TypeOK
    <2>5. MarksAreTrue'
        BY <2>2, <2>4 DEF AcceptedInv, MarksAreTrue, IsValid
    <2>6. at' = "idle" /\ hint' = stage /\ stage' = stage
        BY <2>3 DEF EndRun
    <2>7. ASSUME stage = "auto_refine" PROVE SpecificationFirst'
        BY <2>4, <2>6, <2>7 DEF AcceptedInv, SpecificationFirst, IsValid, Drafted
    <2>8. ASSUME stage = "auto_plan" PROVE SpecificationFirst'
        BY <2>4, <2>6, <2>8 DEF AcceptedInv, SpecificationFirst, IsValid, Drafted
    <2>9. SpecificationFirst'
        BY <2>7, <2>8 DEF Drafted
    <2> QED BY <1>1, <2>5, <2>9 DEF AcceptedInv
<1> QED BY <1>2, <1>3, <1>4

(* auto_refine and auto_plan. *)
LEMMA DraftAccepted ==
    ASSUME TypeInv, AcceptedInv, Draft
    PROVE  AcceptedInv'
<1>1. /\ stage \in Drafted /\ UNCHANGED exec
      /\ ExecutedAccepted'
    <2>1. at \in {"call", "validate"} /\ UNCHANGED exec
        BY DEF Draft, RefuseInput, CallInVain, ClaudeMissing, CallModel, Validate
    <2> QED BY <2>1 DEF TypeInv, InStage, AcceptedInv, ExecutedAccepted
<1>2. CASE RefuseInput \/ ClaudeMissing
    BY <1>1, <1>2, StoppedAccepted DEF RefuseInput, ClaudeMissing, Fail
<1>3. CASE CallInVain
    BY <1>1, <1>3, TryAgainAccepted DEF CallInVain, InputAccepted, TypeInv, TypeOK
<1>4. CASE CallModel
    <2>1. PICK k \in Faults : art' = [art EXCEPT ![stage] = Unmarked(k)]
        BY <1>4 DEF CallModel
    <2>2. /\ art'[stage].valid = "unset"
          /\ \A s \in Drafted : s # stage => art'[s] = art[s]
        BY <1>1, <2>1 DEF TypeInv, TypeOK, Unmarked
    <2>3. at' = "validate" /\ stage' = stage /\ (stage = "auto_plan" => IsValid(art["auto_refine"]))
        BY <1>4 DEF CallModel, InputAccepted
    <2>4. MarksAreTrue'
        BY <2>2 DEF AcceptedInv, MarksAreTrue, IsValid
    <2>5. ASSUME stage = "auto_refine" PROVE SpecificationFirst'
        BY <2>2, <2>3, <2>5 DEF AcceptedInv, SpecificationFirst, IsValid, Drafted
    <2>6. ASSUME stage = "auto_plan" PROVE SpecificationFirst'
        BY <2>2, <2>3, <2>6 DEF AcceptedInv, SpecificationFirst, IsValid, Drafted
    <2> QED BY <1>1, <2>4, <2>5, <2>6 DEF AcceptedInv, Drafted
<1>5. CASE Validate /\ art[stage].faults # 0
    <2>1. TryAgain(Better(art[stage])) /\ at = "validate"
        BY <1>5 DEF Validate
    <2>2. art[stage] \in Artifact /\ (stage = "auto_plan" => IsValid(art["auto_refine"]))
        BY <2>1 DEF TypeInv, InStage, AcceptedInv, SpecificationFirst
    <2>3. Better(art[stage]) \in Maybe(Artifact)
        BY <2>2 DEF Better, TypeInv, TypeOK, Maybe
    <2> QED BY <1>1, <2>1, <2>2, <2>3, TryAgainAccepted
<1>6. CASE Validate /\ art[stage].faults = 0
    <2> DEFINE x == [art[stage] EXCEPT !.valid = "yes"]
    <2>1. art[stage] \in Artifact /\ (stage = "auto_plan" => IsValid(art["auto_refine"]))
        BY <1>6 DEF Validate, TypeInv, InStage, AcceptedInv, SpecificationFirst
    <2>2. x.valid = "yes" /\ x.faults = 0
        BY <1>6, <2>1 DEF Artifact
    <2>3. art' = [art EXCEPT ![stage] = x] /\ PassOn
        BY <1>1, <1>6 DEF Validate, TypeInv, TypeOK
    <2> HIDE DEF x
    <2>4. /\ art'[stage] = x
          /\ \A s \in Drafted : s # stage => art'[s] = art[s]
        BY <1>1, <2>3 DEF TypeInv, TypeOK
    <2>5. MarksAreTrue'
        BY <2>2, <2>4 DEF AcceptedInv, MarksAreTrue, IsValid
    <2>6. /\ stage = "auto_refine" => stage' = "auto_plan" /\ at' = "call"
          /\ stage = "auto_plan" => stage' = "executor" /\ at' = "execute"
        BY <1>1, <2>3, Passing, TheStages DEF Drafted
    <2>7. ASSUME stage = "auto_refine" PROVE SpecificationFirst'
        BY <2>4, <2>6, <2>7 DEF AcceptedInv, SpecificationFirst, Drafted
    <2>8. ASSUME stage = "auto_plan" PROVE SpecificationFirst'
        BY <2>1, <2>4, <2>6, <2>8 DEF AcceptedInv, SpecificationFirst, IsValid, Drafted
    <2> QED BY <1>1, <2>5, <2>7, <2>8 DEF AcceptedInv, Drafted
<1> QED BY <1>2, <1>3, <1>4, <1>5, <1>6 DEF Draft

(* At first there is nothing. *)
LEMMA AcceptedInit == Init => AcceptedInv
<1> SUFFICES ASSUME Init PROVE AcceptedInv
    OBVIOUS
<1>1. /\ \A s \in Drafted : art[s] = None
      /\ art["auto_plan"] = None /\ exec = None /\ at = "idle" /\ hint = "auto_refine"
    BY DEF Init, Drafted
<1>2. MarksAreTrue
    BY <1>1 DEF MarksAreTrue, IsValid
<1> QED BY <1>1, <1>2 DEF AcceptedInv, SpecificationFirst, ExecutedAccepted

(* Nothing else writes an artifact, and the executor reads the plan. *)
LEMMA AcceptedNext == TypeInv /\ AcceptedInv /\ [Next]_vars => AcceptedInv'
<1> SUFFICES ASSUME TypeInv, AcceptedInv, [Next]_vars PROVE AcceptedInv'
    OBVIOUS
<1>1. UNCHANGED exec => ExecutedAccepted'
    BY DEF AcceptedInv, ExecutedAccepted
<1>2. CASE UNCHANGED vars
    BY <1>2 DEF vars, AcceptedInv, MarksAreTrue, SpecificationFirst, ExecutedAccepted, IsValid
<1>3. CASE StartRun
    <2>1. PICK s \in StageNames : Enter(s) /\ s \in {hint, ResumeStage} /\ (s = hint \/ s = ResumeStage)
        BY <1>3, ResumeStageType DEF StartRun, TypeInv, TypeOK, Maybe
    <2>2. UNCHANGED <<art, exec>> /\ at = "idle"
        BY <1>3 DEF StartRun
    <2>3. at' \notin {"idle", "validate"} /\ stage' = s
        BY <2>1, Entering
    <2>4. s = "auto_refine" => art["auto_plan"] = None
        <3>1. ResumeStage = "auto_refine" => art["auto_refine"] = None
            BY DEF ResumeStage
        <3> QED BY <2>1, <2>2, <3>1 DEF AcceptedInv, SpecificationFirst, IsValid
    <2> QED BY <1>1, <2>2, <2>3, <2>4, GoesOnAccepted
<1>4. CASE Kill
    BY <1>1, <1>4, StoppedAccepted DEF Kill
<1>5. CASE Draft
    BY <1>5, DraftAccepted
<1>6. CASE RunExecutor
    <2>1. stage = "executor" /\ UNCHANGED art
        BY <1>6 DEF RunExecutor, RefusePlan, Execute, Abort, TypeInv, InStage
    <2>2. ExecutedAccepted'
        <3>1. CASE UNCHANGED exec
            BY <1>1, <3>1
        <3>2. CASE PlanAccepted /\ \E status, changed : exec' = Executed(status, changed)
            <4>1. exec'.plan = art["auto_plan"]
                BY <3>2 DEF Executed
            <4>2. art["auto_plan"].valid = "yes" /\ art["auto_plan"].faults = 0
                BY <3>2 DEF PlanAccepted, IsValid, AcceptedInv, MarksAreTrue, Drafted
            <4> QED BY <4>1, <4>2 DEF ExecutedAccepted
        <3> QED BY <1>6, <3>1, <3>2 DEF RunExecutor, RefusePlan, Execute, Abort
    <2>3. CASE Fail
        BY <2>1, <2>2, <2>3, StoppedAccepted DEF Fail
    <2>4. CASE PassOn
        <3>1. stage' = "auto_harden" /\ at' = "checkout"
            BY <2>1, <2>4, Passing, TheStages
        <3> QED BY <2>1, <2>2, <3>1, GoesOnAccepted
    <2> QED BY <1>6, <2>3, <2>4 DEF RunExecutor, RefusePlan, Execute, Abort
<1>7. CASE RunHardener
    <2>1. stage = "auto_harden" /\ UNCHANGED <<art, exec>>
        BY <1>7 DEF RunHardener, RefuseExecution, NothingToHarden, CheckOut, AttackerFails,
            AttackFinds, DefenderEdits, DefenderFails, DefenderAnswers, ReturnBlocked, WriteResult,
            TypeInv, InStage, retryVars
    <2>2. CASE Fail
        BY <1>1, <2>1, <2>2, StoppedAccepted DEF Fail
    <2>3. CASE PassOn
        <3>1. stage' = "approval" /\ at' = "decide"
            BY <2>1, <2>3, Passing, TheStages
        <3> QED BY <1>1, <2>1, <3>1, GoesOnAccepted
    <2>4. CASE at' \in {"attack", "defend", "return"} /\ stage' = stage
        BY <1>1, <2>1, <2>4, GoesOnAccepted
    <2> QED BY <1>7, <2>2, <2>3, <2>4
        DEF RunHardener, RefuseExecution, NothingToHarden, CheckOut, AttackerFails,
            AttackFinds, DefenderEdits, DefenderFails, DefenderAnswers, ReturnBlocked, WriteResult
<1>8. CASE Decide
    <2>1. stage = "approval" /\ UNCHANGED <<art, exec>>
        BY <1>8 DEF Decide, TypeInv, InStage
    <2>2. EndRun(stage) \/ EndRun(None) \/ EndRun("approval")
        BY <1>8 DEF Decide, Fail, Complete, MergeOrDefer, AlreadyMerged, DeferMerge, MergeFails, Merge
    <2>3. None # "auto_refine"
        BY TheStages, RunnerStagesAssumption
    <2> QED BY <1>1, <2>1, <2>2, <2>3, StoppedAccepted
<1> QED BY <1>2, <1>3, <1>4, <1>5, <1>6, <1>7, <1>8 DEF Next

(* OnlyAcceptedPlansExecuted: a plan is executed only as the validator     *)
(* accepted it, made from a specification that was accepted, whatever the  *)
(* runs that were killed or gave up have left on disk (stage_lib.py,       *)
(* run_tracker.py).                                                        *)
THEOREM AcceptedPlans == Spec => []OnlyAcceptedPlansExecuted
<1>1. AcceptedInv => OnlyAcceptedPlansExecuted
    BY DEF AcceptedInv, MarksAreTrue, SpecificationFirst, ExecutedAccepted,
           OnlyAcceptedPlansExecuted, IsValid, Drafted
<1> QED BY <1>1, TypeInit, TypeNext, AcceptedInit, AcceptedNext, PTL DEF Spec
-----------------------------------------------------------------------------
(* What is merged was answered.                                            *)

(* The rounds of the hardening are those of before, but for the last one. *)
Grows(x) ==
    \A i \in DOMAIN rounds' : (i \in DOMAIN rounds /\ rounds'[i] = rounds[i]) \/ rounds'[i] = x

(* A round added to whole rounds is whole when it is answered in full. *)
LEMMA GrownWhole ==
    ASSUME AnswersAreWhole(rounds), NEW x, Grows(x),
           x.answered => \A f \in DOMAIN x.resolutions : x.resolutions[f] # "unresolved"
    PROVE  AnswersAreWhole(rounds)'
BY DEF AnswersAreWhole, Grows

(* The verdict of a hardening is defender_failed when a round has no answer. *)
LEMMA SilenceShows ==
    ASSUME NEW rs, NEW failed, ComputeVerdict(rs, failed) # "defender_failed"
    PROVE  AllAnswered(rs)
BY DEF ComputeVerdict, AllAnswered

(* Only a hardening's rounds, its result and the merge matter. *)
LEMMA AnsweredStays ==
    ASSUME AnsweredInv, UNCHANGED <<rounds, harden, master>>
    PROVE  AnsweredInv'
BY DEF AnsweredInv, AnswersAreWhole, AllAnswered

(* The rounds of the hardener. *)
LEMMA HardenerAnswered ==
    ASSUME TypeInv, AnsweredInv, RunHardener
    PROVE  AnsweredInv'
<1>1. ASSUME UNCHANGED <<harden, master>>, AnswersAreWhole(rounds)'
      PROVE  AnsweredInv'
    BY <1>1 DEF AnsweredInv, AnswersAreWhole, AllAnswered
<1>2. ASSUME UNCHANGED <<rounds, master>>, NEW rs, AnswersAreWhole(rs),
             harden'.rounds = rs, harden'.verdict # "defender_failed" => AllAnswered(rs)
      PROVE  AnsweredInv'
    BY <1>2 DEF AnsweredInv, AnswersAreWhole, AllAnswered
<1>3. CASE RefuseExecution \/ ReturnBlocked \/ AttackerFails \/ DefenderFails \/ DefenderEdits
    BY <1>3, AnsweredStays
    DEF RefuseExecution, ReturnBlocked, AttackerFails, DefenderFails, DefenderEdits, hardenVars, gitVars
<1>4. CASE CheckOut
    <2>1. rounds' = <<>> /\ UNCHANGED <<harden, master>>
        BY <1>4 DEF CheckOut
    <2>2. DOMAIN rounds' = {}
        BY <2>1
    <2> QED BY <1>1, <2>1, <2>2 DEF AnswersAreWhole
<1>5. CASE AttackFinds
    <2>1. PICK n \in 0..MaxFindings :
            rounds' = Append(rounds, [resolutions |-> [f \in 1..n |-> "unresolved"],
                                      answered |-> n = 0])
        BY <1>5 DEF AttackFinds
    <2> DEFINE x == [resolutions |-> [f \in 1..n |-> "unresolved"], answered |-> n = 0]
    <2>2. x.answered => DOMAIN x.resolutions = {}
        <3>1. x.answered = (n = 0) /\ DOMAIN x.resolutions = 1..n
            OBVIOUS
        <3>2. n = 0 => 1..n = {}
            OBVIOUS
        <3> QED BY <3>1, <3>2, Zenon
    <2>3. rounds' = Append(rounds, x)
        BY <2>1
    <2>4. x \in Round
        BY RoundType
    <2> HIDE DEF x
    <2>5. Grows(x)
        BY <2>3, <2>4 DEF Grows, TypeInv, TypeOK
    <2>6. AnswersAreWhole(rounds)'
        BY <2>2, <2>5, GrownWhole DEF AnsweredInv
    <2>7. UNCHANGED <<harden, master>>
        BY <1>5 DEF AttackFinds, gitVars
    <2> QED BY <1>1, <2>6, <2>7
<1>6. CASE DefenderAnswers
    <2>1. PICK r \in [DOMAIN rounds[Len(rounds)].resolutions -> {"fixed", "deferred"}] :
            rounds' = [rounds EXCEPT ![Len(rounds)] = [resolutions |-> r, answered |-> TRUE]]
        BY <1>6 DEF DefenderAnswers
    <2> DEFINE x == [resolutions |-> r, answered |-> TRUE]
    <2>2. \A f \in DOMAIN x.resolutions : x.resolutions[f] # "unresolved"
        OBVIOUS
    <2>3. rounds' = [rounds EXCEPT ![Len(rounds)] = x]
        BY <2>1
    <2> HIDE DEF x
    <2>4. Grows(x)
        BY <2>3 DEF Grows
    <2>5. AnswersAreWhole(rounds)'
        BY <2>2, <2>4, GrownWhole DEF AnsweredInv
    <2>6. UNCHANGED <<harden, master>>
        BY <1>6 DEF DefenderAnswers
    <2> QED BY <1>1, <2>5, <2>6
<1>7. CASE NothingToHarden
    <2>1. /\ harden'.rounds = <<>> /\ harden'.verdict = "all_resolved"
          /\ UNCHANGED <<rounds, master>>
        BY <1>7 DEF NothingToHarden, gitVars
    <2>2. AnswersAreWhole(<<>>) /\ AllAnswered(<<>>)
        BY DEF AnswersAreWhole, AllAnswered
    <2> QED BY <1>2, <2>1, <2>2
<1>8. CASE WriteResult
    <2>1. /\ harden'.rounds = rounds /\ harden'.verdict = ComputeVerdict(rounds, tired)
          /\ UNCHANGED <<rounds, master>>
        BY <1>8 DEF WriteResult
    <2>2. harden'.verdict # "defender_failed" => AllAnswered(rounds)
        BY <2>1, SilenceShows
    <2> QED BY <1>2, <2>1, <2>2 DEF AnsweredInv
<1> QED BY <1>3, <1>4, <1>5, <1>6, <1>7, <1>8 DEF RunHardener

(* The decision merges what has a verdict other than defender_failed. *)
LEMMA DecideAnswered ==
    ASSUME AnsweredInv, Decide
    PROVE  AnsweredInv'
<1>1. UNCHANGED <<rounds, harden>>
    BY DEF Decide, hardenVars
<1>2. CASE UNCHANGED master
    BY <1>1, <1>2, AnsweredStays
<1>3. CASE Merge /\ harden # None /\ harden.verdict \in {"all_resolved", "has_unresolved"}
    <2>1. master'.by = harden
        BY <1>3 DEF Merge
    <2>2. AnswersAreWhole(harden.rounds) /\ AllAnswered(harden.rounds)
        BY <1>3 DEF AnsweredInv
    <2>3. AnswersAreWhole(master'.by.rounds) /\ AllAnswered(master'.by.rounds)
        BY <2>1, <2>2
    <2> QED BY <1>1, <2>3 DEF AnsweredInv, AnswersAreWhole, AllAnswered
<1> QED BY <1>2, <1>3 DEF Decide, Fail, Complete, MergeOrDefer, AlreadyMerged, DeferMerge, MergeFails

(* At first nothing was hardened. *)
LEMMA AnsweredInit == Init => AnsweredInv
BY DEF Init, AnsweredInv, AnswersAreWhole

(* Every other step leaves rounds, result and merge alone. *)
LEMMA AnsweredNext == TypeInv /\ AnsweredInv /\ [Next]_vars => AnsweredInv'
<1> SUFFICES ASSUME TypeInv, AnsweredInv, [Next]_vars PROVE AnsweredInv'
    OBVIOUS
<1>1. CASE UNCHANGED vars \/ StartRun \/ Kill
    BY <1>1, AnsweredStays DEF vars, StartRun, Kill, hardenVars
<1>2. CASE Draft \/ RunExecutor
    BY <1>2, AnsweredStays
    DEF Draft, RefuseInput, CallInVain, ClaudeMissing, CallModel, Validate,
        RunExecutor, RefusePlan, Execute, Abort, hardenVars
<1> QED BY <1>1, <1>2, HardenerAnswered, DecideAnswered DEF Next

(* NothingUnansweredMerged: whatever rounds, silences and refused answers   *)
(* the hardenings have had, and however often the ticket was run, what     *)
(* reached master was hardened with an answer to every finding             *)
(* (auto_harden.py:316, approval.py:147).                                   *)
THEOREM AnsweredBeforeMerge == Spec => []NothingUnansweredMerged
<1>1. AnsweredInv => NothingUnansweredMerged
    BY DEF AnsweredInv, AnswersAreWhole, AllAnswered, NothingUnansweredMerged
<1> QED BY <1>1, TypeInit, TypeNext, AnsweredInit, AnsweredNext, PTL DEF Spec
-----------------------------------------------------------------------------
(* The /harden skill: what its attackers raised.                           *)

(* Consolidated findings are those raised, each once, until the round is   *)
(* over, and its answers are answers to them.                              *)
Consolidated ==
    sPc \in {"settled", "defend", "file", "tick", "budget"} => \A f \in sRaised : Skill!Entries(sSettled, f) = 1
Answered == sPc \in {"file", "tick", "budget"} => sSettled.accepted = DOMAIN sReply.actions

(* The skill counts as everyone does. *)
LEMMA SameCount == ASSUME NEW S PROVE Skill!Cardinality(S) = Cardinality(S)
BY Zenon DEF Cardinality, Skill!Cardinality

(* A finding that is in one accepted entry and in no rejected one. *)
LEMMA OneEntry ==
    ASSUME NEW f, NEW accepted, NEW e, {d \in accepted : f \in d} = {e}
    PROVE  Skill!Entries([accepted |-> accepted, rejected |-> {}], f) = 1
<1>1. Cardinality({e}) = 1 /\ Cardinality({}) = 0
    BY FS_Singleton, FS_EmptySet
<1> DEFINE a == [accepted |-> accepted, rejected |-> {}]
<1>2. a.accepted = accepted /\ a.rejected = {}
    OBVIOUS
<1> HIDE DEF a
<1>3. {d \in a.accepted : f \in d} = {e} /\ {d \in a.rejected : f \in d} = {}
    BY <1>2
<1>4. Skill!Entries(a, f) = 1
    <2>1. Skill!Entries(a, f) = Cardinality({d \in a.accepted : f \in d})
                              + Cardinality({d \in a.rejected : f \in d})
        BY SameCount DEF Skill!Entries
    <2>2. Cardinality({d \in a.accepted : f \in d}) = 1 /\ Cardinality({d \in a.rejected : f \in d}) = 0
        BY <1>1, <1>3, Zenon
    <2> QED BY <2>1, <2>2
<1> QED BY <1>4 DEF a

(* Taken as they are, findings are entries of their own. *)
LEMMA SinglesCover ==
    ASSUME NEW f \in sRaised
    PROVE  Skill!Entries([accepted |-> Skill!Singles(sRaised), rejected |-> {}], f) = 1
<1>1. {d \in Skill!Singles(sRaised) : f \in d} = {{f}}
    BY DEF Skill!Singles
<1> QED BY <1>1, OneEntry

(* By place: the deterministic replacement of the referee. *)
LEMMA ByPlaceCovers ==
    ASSUME NEW f \in sRaised
    PROVE  Skill!Entries([accepted |-> Skill!ByPlace, rejected |-> {}], f) = 1
<1> DEFINE here == {g \in sRaised : Skill!PlaceOf(g) = Skill!PlaceOf(f)}
<1>1. here \in Skill!ByPlace /\ f \in here
    BY DEF Skill!ByPlace
<1>2. ASSUME NEW d \in Skill!ByPlace, f \in d PROVE d = here
    <2>1. PICK p \in {Skill!PlaceOf(g) : g \in sRaised} : d = {g \in sRaised : Skill!PlaceOf(g) = p}
        BY DEF Skill!ByPlace
    <2>2. p = Skill!PlaceOf(f)
        BY <1>2, <2>1
    <2> QED BY <2>1, <2>2
<1> HIDE DEF here
<1>3. {d \in Skill!ByPlace : f \in d} = {here}
    BY <1>1, <1>2
<1> QED BY <1>3, OneEntry

(* Every step of the skill. *)
LEMMA SkillNext ==
    ASSUME Consolidated, Answered, [Skill!Next]_(Skill!vars)
    PROVE  Consolidated' /\ Answered'
<1>1. CASE UNCHANGED Skill!vars
    BY <1>1 DEF Skill!vars, Consolidated, Answered, Skill!Entries
<1>2. CASE sPc' \notin {"settled", "defend", "file", "tick", "budget"}
    BY <1>2 DEF Consolidated, Answered
<1>3. CASE Skill!SettleDirectly
    <2>1. sSettled' = [accepted |-> Skill!Singles(sRaised), rejected |-> {}] /\ sRaised' = sRaised /\ sPc' = "settled"
        BY <1>3 DEF Skill!SettleDirectly, Skill!Goto
    <2>2. \A f \in sRaised' : Skill!Entries(sSettled', f) = 1
        BY <2>1, SinglesCover
    <2> QED BY <2>1, <2>2 DEF Consolidated, Answered, Skill!Entries
<1>4. CASE Skill!RefereeAccepted
    <2>1. Skill!CoversOnce(sSettled') /\ sRaised' = sRaised /\ sPc' = "settled"
        BY <1>4 DEF Skill!RefereeAccepted, Skill!Goto
    <2>2. \A f \in sRaised' : Skill!Entries(sSettled', f) = 1
        BY <2>1 DEF Skill!CoversOnce
    <2> QED BY <2>1, <2>2 DEF Consolidated, Answered, Skill!Entries
<1>5. CASE Skill!RefereeRefused /\ sPc' = "settled"
    <2>1. sSettled' = [accepted |-> Skill!ByPlace, rejected |-> {}] /\ sRaised' = sRaised
        BY <1>5 DEF Skill!RefereeRefused, Skill!Goto
    <2>2. \A f \in sRaised' : Skill!Entries(sSettled', f) = 1
        BY <2>1, ByPlaceCovers
    <2> QED BY <1>5, <2>1, <2>2 DEF Consolidated, Answered, Skill!Entries
<1>6. ASSUME UNCHANGED <<sRaised, sSettled>>, sPc \in {"settled", "defend", "file", "tick", "budget"}
      PROVE  Consolidated'
    BY <1>6 DEF Consolidated, Skill!Entries
<1>7. CASE Skill!ResponseAccepted
    <2>1. PICK r \in Skill!Replies : Skill!ReplyValid(r) /\ sReply' = r
        BY <1>7 DEF Skill!ResponseAccepted
    <2>2. sPc = "defend" /\ UNCHANGED <<sRaised, sSettled>>
        BY <1>7 DEF Skill!ResponseAccepted
    <2> QED BY <1>6, <2>1, <2>2 DEF Skill!ReplyValid, Answered
<1>8. CASE Skill!CallDefender \/ Skill!DefenderEdits \/ Skill!ResponseRefused
    <2>1. /\ sPc \in {"settled", "defend"} /\ UNCHANGED <<sRaised, sSettled>>
          /\ sPc' \notin {"file", "tick", "budget"}
        BY <1>8 DEF Skill!CallDefender, Skill!DefenderEdits, Skill!ResponseRefused,
            Skill!Goto, Skill!Stop, Skill!roundVars
    <2> QED BY <1>6, <2>1 DEF Answered
<1>9. CASE Skill!FileTodo \/ Skill!FileTodosDone \/ Skill!RoundTick
    <2>1. sPc \in {"file", "tick"} /\ UNCHANGED <<sRaised, sSettled, sReply>>
        BY <1>9 DEF Skill!FileTodo, Skill!FileTodosDone, Skill!RoundTick, Skill!roundVars
    <2> QED BY <1>6, <2>1 DEF Answered
<1>10. CASE Skill!RefereeRefused /\ sPc' # "settled"
    BY <1>2, <1>10 DEF Skill!RefereeRefused, Skill!Goto
<1>11. CASE Skill!Prepare
    BY <1>2, <1>11 DEF Skill!Prepare, Skill!MakePlan, Skill!CheckRefuses, Skill!RoundStart,
        Skill!CreateRefused, Skill!WorktreeCreate, Skill!Goto, Skill!Stop
<1>12. CASE \E l \in Skill!Lenses : Skill!ValidateFindings(l) \/ Skill!FindingsRefused(l)
    BY <1>2, <1>12 DEF Skill!ValidateFindings, Skill!FindingsRefused, Skill!Goto
<1>13. CASE Skill!CallReferee \/ Skill!NothingFound \/ Skill!DefenderGone \/ Skill!Ask \/ Skill!BudgetCheck
    BY <1>2, <1>13 DEF Skill!CallReferee, Skill!NothingFound, Skill!DefenderGone,
        Skill!Ask, Skill!BudgetCheck, Skill!Goto, Skill!Stop
<1>14. CASE Skill!Finish
    BY <1>2, <1>14 DEF Skill!Finish, Skill!Keep, Skill!Discard, Skill!ShowAndStop, Skill!SaveSummary,
        Skill!RoundReset, Skill!Cancel, Skill!Interrupt, Skill!Goto, Skill!Stop
<1>15. CASE Skill!Next
    BY <1>3, <1>4, <1>5, <1>7, <1>8, <1>9, <1>10, <1>11, <1>12, <1>13, <1>14, <1>15
    DEF Skill!Next, Skill!Attack, Skill!Defend, Skill!Close
<1> QED BY <1>1, <1>15

(* NoFindingLost: whatever attackers, referee and defender answer, every     *)
(* finding raised in a round is in exactly one entry of what is settled, and *)
(* every accepted entry has an answer, once the response is accepted         *)
(* (validate_consolidation.py, validate_response.py).                        *)
THEOREM FindingsKept == Skill!Spec => []NoFindingLost
<1>1. Skill!Init => Consolidated /\ Answered
    BY DEF Skill!Init, Consolidated, Answered
<1>2. Consolidated /\ Answered => NoFindingLost
    BY DEF Consolidated, Answered, NoFindingLost, Skill!NoFindingLost
<1> QED BY <1>1, <1>2, SkillNext, PTL DEF Skill!Spec

(* The notes of a round are being added, were added, or one of them failed. *)
InHand ==
    sPc = "file" =>
        \A n \in Skill!Contents(sReply) : n \in sQueue \/ <<sRound, n>> \in sFiled \/ sFailed
AllNoted ==
    sPc \in {"tick", "budget"} => \A n \in Skill!Contents(sReply) : <<sRound, n>> \in sFiled

LEMMA NotesNext ==
    ASSUME InHand, AllNoted, [Skill!Next]_(Skill!vars)
    PROVE  InHand' /\ AllNoted'
<1>1. CASE UNCHANGED Skill!vars
    BY <1>1 DEF Skill!vars, InHand, AllNoted
<1>2. CASE sPc' \notin {"file", "tick", "budget"}
    BY <1>2 DEF InHand, AllNoted
<1>3. CASE Skill!ResponseAccepted
    BY <1>3 DEF Skill!ResponseAccepted, Skill!Goto, InHand, AllNoted
<1>4. CASE Skill!FileTodo
    <2>1. PICK n \in sQueue :
            /\ sQueue' = sQueue \ {n}
            /\ \/ sFiled' = sFiled \cup {<<sRound, n>>} /\ UNCHANGED sFailed
               \/ sFailed' = TRUE /\ UNCHANGED sFiled
        BY <1>4 DEF Skill!FileTodo
    <2>2. sPc = "file" /\ UNCHANGED <<sPc, sRound, sReply>>
        BY <1>4 DEF Skill!FileTodo, Skill!roundVars
    <2>3. Skill!Contents(sReply)' = Skill!Contents(sReply)
        BY <2>2 DEF Skill!Contents, Skill!Deferred
    <2>4. AllNoted'
        BY <2>2 DEF AllNoted
    <2>5. \A m \in Skill!Contents(sReply) : m \in sQueue \/ <<sRound, m>> \in sFiled \/ sFailed
        BY <2>2 DEF InHand
    <2>6. CASE sFailed' = TRUE
        BY <2>4, <2>6 DEF InHand
    <2>7. CASE sFiled' = sFiled \cup {<<sRound, n>>} /\ UNCHANGED sFailed
        BY <2>1, <2>2, <2>3, <2>4, <2>5, <2>7 DEF InHand
    <2> QED BY <2>1, <2>6, <2>7
<1>5. CASE Skill!FileTodosDone /\ sPc' = "tick"
    <2>1. sPc = "file" /\ sQueue = {} /\ ~sFailed /\ UNCHANGED <<sRound, sReply, sFiled>>
        BY <1>5 DEF Skill!FileTodosDone, Skill!TodosFailed, Skill!Stop, Skill!Goto, Skill!roundVars, Skill!noteVars
    <2>2. Skill!Contents(sReply)' = Skill!Contents(sReply)
        BY <2>1 DEF Skill!Contents, Skill!Deferred
    <2> QED BY <1>5, <2>1, <2>2 DEF InHand, AllNoted
<1>6. CASE Skill!RoundTick
    <2>1. sPc = "tick" /\ sPc' = "budget" /\ UNCHANGED <<sRound, sReply, sFiled>>
        BY <1>6 DEF Skill!RoundTick, Skill!Goto, Skill!roundVars, Skill!noteVars
    <2>2. Skill!Contents(sReply)' = Skill!Contents(sReply)
        BY <2>1 DEF Skill!Contents, Skill!Deferred
    <2> QED BY <2>1, <2>2 DEF InHand, AllNoted
<1>7. CASE Skill!FileTodosDone /\ sPc' # "tick"
    BY <1>2, <1>7 DEF Skill!FileTodosDone, Skill!Stop, Skill!Goto
<1>8. CASE Skill!Prepare
    BY <1>2, <1>8 DEF Skill!Prepare, Skill!MakePlan, Skill!CheckRefuses, Skill!RoundStart,
        Skill!CreateRefused, Skill!WorktreeCreate, Skill!Goto, Skill!Stop
<1>9. CASE Skill!Attack
    BY <1>2, <1>9 DEF Skill!Attack, Skill!ValidateFindings, Skill!FindingsRefused, Skill!SettleDirectly,
        Skill!CallReferee, Skill!RefereeAccepted, Skill!RefereeRefused, Skill!Goto
<1>10. CASE Skill!NothingFound \/ Skill!CallDefender \/ Skill!DefenderGone \/ Skill!DefenderEdits
            \/ Skill!ResponseRefused \/ Skill!Ask \/ Skill!BudgetCheck
    BY <1>2, <1>10 DEF Skill!NothingFound, Skill!CallDefender, Skill!DefenderGone, Skill!DefenderEdits,
        Skill!ResponseRefused, Skill!Ask, Skill!BudgetCheck, Skill!Goto, Skill!Stop
<1>11. CASE Skill!Finish
    BY <1>2, <1>11 DEF Skill!Finish, Skill!Keep, Skill!Discard, Skill!ShowAndStop, Skill!SaveSummary,
        Skill!RoundReset, Skill!Cancel, Skill!Interrupt, Skill!Goto, Skill!Stop
<1>12. CASE Skill!Next
    BY <1>3, <1>4, <1>5, <1>6, <1>7, <1>8, <1>9, <1>10, <1>11, <1>12
    DEF Skill!Next, Skill!Defend, Skill!Close
<1> QED BY <1>1, <1>12

(* DeferredHaveNotes: a round is counted only when every finding it deferred *)
(* has its note, however many could not be added (orchestrate.py:1188).      *)
THEOREM DeferredNoted == Skill!Spec => []Skill!DeferredHaveNotes
<1>1. Skill!Init => InHand /\ AllNoted
    BY DEF Skill!Init, InHand, AllNoted
<1>2. AllNoted => Skill!DeferredHaveNotes
    BY DEF AllNoted, Skill!DeferredHaveNotes, Skill!Contents
<1> QED BY <1>1, <1>2, NotesNext, PTL DEF Skill!Spec

(* A stored defender is this run's. *)
OwnDefender ==
    /\ sRun \in Nat /\ sRound \in Nat
    /\ sPc \notin {"idle", "check"} => sDefender \in {None, sRun}
    /\ sPc \notin {"idle", "check", "create"} => sRound >= 1
    /\ sPc = "defend" => sDefender = sRun

LEMMA DefenderNext ==
    ASSUME OwnDefender, [Skill!Next]_(Skill!vars)
    PROVE  OwnDefender'
<1>1. CASE UNCHANGED Skill!vars
    BY <1>1 DEF Skill!vars, OwnDefender
<1>2. SkillRounds \in Nat /\ SkillRuns \in Nat
    BY HardeningAssumption DEF Skill!HardenAssumption
<1>3. CASE Skill!Prepare
    BY <1>2, <1>3 DEF OwnDefender, Skill!Prepare, Skill!MakePlan, Skill!CheckRefuses, Skill!RoundStart,
        Skill!CreateRefused, Skill!WorktreeCreate, Skill!BeginRound, Skill!FreshRoundFile,
        Skill!Goto, Skill!Stop
<1>4. CASE Skill!Attack
    BY <1>4 DEF OwnDefender, Skill!Attack, Skill!ValidateFindings, Skill!FindingsRefused,
        Skill!SettleDirectly, Skill!CallReferee, Skill!RefereeAccepted, Skill!RefereeRefused, Skill!Goto
<1>5. CASE Skill!CallDefender
    BY <1>5 DEF OwnDefender, Skill!CallDefender, Skill!Goto, Skill!Stop
<1>6. CASE Skill!NothingFound \/ Skill!DefenderGone \/ Skill!DefenderEdits \/ Skill!ResponseAccepted
           \/ Skill!ResponseRefused \/ Skill!Ask
    BY <1>6 DEF OwnDefender, Skill!NothingFound, Skill!DefenderGone, Skill!DefenderEdits,
        Skill!ResponseAccepted, Skill!ResponseRefused, Skill!Ask, Skill!BeginRound, Skill!roundVars,
        Skill!Goto, Skill!Stop
<1>7. CASE Skill!Close
    BY <1>7 DEF OwnDefender, Skill!Close, Skill!FileTodo, Skill!FileTodosDone, Skill!RoundTick,
        Skill!BudgetCheck, Skill!BeginRound, Skill!roundVars, Skill!noteVars, Skill!Goto, Skill!Stop
<1>8. CASE Skill!Finish
    BY <1>8 DEF OwnDefender, Skill!Finish, Skill!Keep, Skill!Discard, Skill!ShowAndStop,
        Skill!SaveSummary, Skill!RoundReset, Skill!Cancel, Skill!Interrupt, Skill!FreshRoundFile,
        Skill!Goto, Skill!Stop
<1>9. CASE Skill!Next
    BY <1>3, <1>4, <1>5, <1>6, <1>7, <1>8, <1>9 DEF Skill!Next, Skill!Defend
<1> QED BY <1>1, <1>9

(* ContinuesItsOwnDefender: the agent that a later round continues is one    *)
(* this run spawned, whatever an earlier run was interrupted at              *)
(* (round_counter.py:43).                                                    *)
THEOREM OwnDefenderContinues == Skill!Spec => []Skill!ContinuesItsOwnDefender
<1>1. Skill!Init => OwnDefender
    BY DEF Skill!Init, OwnDefender
<1>2. OwnDefender => Skill!ContinuesItsOwnDefender
    BY DEF OwnDefender, Skill!ContinuesItsOwnDefender
<1> QED BY <1>1, <1>2, DefenderNext, PTL DEF Skill!Spec
=============================================================================
