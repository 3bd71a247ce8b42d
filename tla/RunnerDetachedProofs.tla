------------------------ MODULE RunnerDetachedProofs ------------------------
(***************************************************************************)
(* What the detached runner guarantees for every number of tickets, of     *)
(* invocations that overlap and of crashes, and for every budget.  Two of  *)
(* the results need one invocation at a time, which cron does not enforce: *)
(* the theorems say so in their hypothesis.                                *)
(***************************************************************************)
EXTENDS RunnerDetached, FiniteSetTheorems, WellFoundedInduction, TLAPS

(* What an invocation will add to a ticket's tokens is never negative: a   *)
(* run spends on top of what the tracker said at its gate.                 *)
SpentOnTop == \A p \in Invocation : prior[p] <= used[p]

TypeInv == TypeOK /\ SpentOnTop

-----------------------------------------------------------------------------
(* Lemmas about the operators of the model.                                *)

(* pick_backlog_item and _pick_resumable_intake take a ticket of the list. *)
LEMMA OldestIn ==
  ASSUME NEW S \in SUBSET Ticket, S # {}
  PROVE  Oldest(S) \in S
<1>1. S \subseteq Nat /\ Ticket \subseteq Nat
  BY DetachedAssumption DEF Ticket
<1>2. PICK t \in S : \A u \in S : <<u, t>> \notin OpToRel(<, Nat)
  BY <1>1, WFMin, NatLessThanWellFounded
<1>3. ASSUME NEW u \in S, u < t PROVE FALSE
  <2>1. <<u, t>> \in Nat \X Nat /\ <<u, t>>[1] < <<u, t>>[2]
    BY <1>1, <1>3
  <2>2. <<u, t>> \in OpToRel(<, Nat)
    BY <2>1 DEF OpToRel
  <2> QED BY <1>2, <2>2
<1>4. \A u \in S : t <= u
  BY <1>1, <1>3
<1> QED BY <1>4 DEF Oldest

(* A heartbeat, a crash: one field of a lockfile changes. *)
LEMMA LockUpdate ==
  ASSUME NEW l \in LockFile
  PROVE  /\ \A b \in BOOLEAN : [l EXCEPT !.fresh = b] \in LockFile
         /\ [l EXCEPT !.owner = Nobody] \in LockFile
         /\ [l EXCEPT !.state = "corrupt"] \in LockFile
BY DEF LockFile

(* A stage, or the archiving of a log: one artifact changes. *)
LEMMA ArtifactUpdate ==
  ASSUME NEW a \in Artifacts
  PROVE  /\ \A v \in {"none", "aborted", "completed"} : [a EXCEPT !.exec = v] \in Artifacts
         /\ \A v \in {"clean", "pending", "defender_failed"} :
              [a EXCEPT !.harden = v] \in Artifacts
         /\ \A v \in {"invalid", "valid"} : /\ [a EXCEPT !.spec = v] \in Artifacts
                                            /\ [a EXCEPT !.plan = v] \in Artifacts
BY DEF Artifacts

Amounts == {"none", "partial", "full"}

(* What an executor that was stopped leaves (record, then commits) is of   *)
(* its kinds, and no other ticket is touched.                              *)
LEMMA PartType ==
  ASSUME TypeOK, NEW t \in Ticket, NEW status \in {"aborted", "completed"},
         PartOfTheWork(t, status)
  PROVE  /\ art' \in [Ticket -> Artifacts]
         /\ code' \in [Ticket -> Amounts]
         /\ branch' \in [Ticket -> {"none", "base", "ahead"}]
<1>1. art' \in [Ticket -> Artifacts]
  BY ArtifactUpdate DEF TypeOK, PartOfTheWork
<1>2. PICK amount \in AtLeast(code[t]) :
        /\ code' = [code EXCEPT ![t] = amount]
        /\ branch' = [branch EXCEPT ![t] = IF amount = "none" THEN @ ELSE "ahead"]
  BY DEF PartOfTheWork
<1>3. code \in [Ticket -> Amounts] /\ branch \in [Ticket -> {"none", "base", "ahead"}]
  BY DEF TypeOK, Amounts
<1>4. amount \in Amounts
  BY <1>3 DEF AtLeast, Amounts
<1> QED BY <1>1, <1>2, <1>3, <1>4

(* So does a stage that ends, however it does.                             *)
LEMMA StageType ==
  ASSUME TypeOK, NEW s \in 1..6, NEW t \in Ticket,
         StageSucceeds(s, t) \/ StageFails(s, t) \/ StageCut(s, t)
  PROVE  /\ art' \in [Ticket -> Artifacts]
         /\ code' \in [Ticket -> Amounts]
         /\ branch' \in [Ticket -> {"none", "base", "ahead"}]
<1>1. /\ art \in [Ticket -> Artifacts]
      /\ code \in [Ticket -> Amounts]
      /\ branch \in [Ticket -> {"none", "base", "ahead"}]
  BY DEF TypeOK, Amounts
<1>2. ASSUME UsherPasses(t) \/ ApprovalPasses(t) \/ UNCHANGED <<art, code, branch>>
      PROVE  UNCHANGED <<art, code, branch>>
  BY <1>2 DEF UsherPasses, ApprovalPasses
<1>3. ASSUME RefinePasses(t) \/ PlanPasses(t) \/ BestAttemptLeft(s, t)
      PROVE  art' \in [Ticket -> Artifacts] /\ UNCHANGED <<code, branch>>
  <2>1. CASE RefinePasses(t)
    BY <1>1, <2>1, ArtifactUpdate DEF RefinePasses
  <2>2. CASE PlanPasses(t)
    BY <1>1, <2>2, ArtifactUpdate DEF PlanPasses
  <2>3. CASE BestAttemptLeft(s, t)
    <3>1. art' = [art EXCEPT ![t].spec = "invalid"] \/ art' = [art EXCEPT ![t].plan = "invalid"]
      BY <2>3 DEF BestAttemptLeft
    <3>2. [art[t] EXCEPT !.spec = "invalid"] \in Artifacts
          /\ [art[t] EXCEPT !.plan = "invalid"] \in Artifacts
      BY <1>1, ArtifactUpdate
    <3>3. art' \in [Ticket -> Artifacts]
      BY <1>1, <3>1, <3>2
    <3> QED BY <2>3, <3>3 DEF BestAttemptLeft
  <2> QED BY <1>3, <2>1, <2>2, <2>3
<1>4. ASSUME ExecutePasses(t)
      PROVE  /\ art' \in [Ticket -> Artifacts]
             /\ code' \in [Ticket -> Amounts]
             /\ branch' \in [Ticket -> {"none", "base", "ahead"}]
  <2>1. art' \in [Ticket -> Artifacts]
    BY <1>1, <1>4, ArtifactUpdate DEF ExecutePasses
  <2> QED BY <1>1, <1>4, <2>1 DEF ExecutePasses, Amounts
<1>5. ASSUME HardenPasses(t)
      PROVE  art' \in [Ticket -> Artifacts] /\ UNCHANGED <<code, branch>>
  <2>1. PICK verdict \in {"clean", "pending", "defender_failed"} :
          art' = [art EXCEPT ![t].harden = verdict]
    BY <1>5 DEF HardenPasses
  <2>2. art' \in [Ticket -> Artifacts]
    BY <1>1, <2>1, ArtifactUpdate
  <2> QED BY <1>5, <2>2 DEF HardenPasses
<1>6. CASE StageSucceeds(s, t)
  BY <1>1, <1>2, <1>3, <1>4, <1>5, <1>6 DEF StageSucceeds
<1>7. CASE StageFails(s, t)
  BY <1>1, <1>2, <1>3, <1>7, PartType DEF StageFails
<1>8. CASE StageCut(s, t)
  BY <1>7, <1>8, PartType DEF StageCut
<1> QED BY <1>6, <1>7, <1>8

(* Deleting branches leaves the changes of the other tickets alone.        *)
LEMMA WithoutType ==
  ASSUME TypeOK, NEW S, CodeWithout(S)
  PROVE  code' \in [Ticket -> {"none", "partial", "full"}]
BY DEF TypeOK, CodeWithout

-----------------------------------------------------------------------------
(* Type correctness.                                                       *)

(* Types hold at first. *)
LEMMA TypeInit == ASSUME Init PROVE TypeInv
<1>1. NoLock \in LockFile /\ NoRuns \in Tracker /\ NoArtifacts \in Artifacts
  BY DEF NoLock, LockFile, NoRuns, Tracker, NoArtifacts, Artifacts
<1> QED BY <1>1, DetachedAssumption DEF Init, TypeInv, TypeOK, SpentOnTop, Ticket

(* Every step keeps them, and what a night has spent is spent in all. *)
LEMMA TypeNext == ASSUME TypeInv, [Next]_vars PROVE TypeInv'
<1> USE DEF TypeInv, TypeOK, SpentOnTop, Goto
<1>1. ASSUME NEW p \in Invocation, Start(p) PROVE TypeInv'
  BY <1>1 DEF Start, disk, past
<1>2. ASSUME NEW p \in Invocation, Prune(p) PROVE TypeInv'
  <2>1. code' \in [Ticket -> {"none", "partial", "full"}]
    BY <1>2, WithoutType DEF Prune
  <2>2. wt' \in [Ticket -> {"none", "registered", "orphan"}]
    BY <1>2 DEF Prune
  <2>3. branch' \in [Ticket -> {"none", "base", "ahead"}]
    BY <1>2 DEF Prune
  <2> QED BY <1>2, <2>1, <2>2, <2>3 DEF Prune, past
<1>3. ASSUME NEW p \in Invocation, Hygiene(p) PROVE TypeInv'
  BY <1>3 DEF Hygiene, disk, past
<1>4. ASSUME NEW p \in Invocation, Pick(p) PROVE TypeInv'
  <2>1. /\ Unclaimed # {} => Oldest(Unclaimed) \in Ticket
        /\ Resumable # {} => Oldest(Resumable) \in Ticket
    <3>1. Unclaimed \in SUBSET Ticket /\ Resumable \in SUBSET Ticket
      BY DEF Unclaimed, Resumable
    <3> QED BY <3>1, OldestIn
  <2>2. job' \in [Invocation -> Ticket]
    BY <1>4, <2>1 DEF Pick
  <2>3. from' \in [Invocation -> {"backlog", "intake"}]
    BY <1>4 DEF Pick
  <2>4. \E l \in {"gate", "idle"} : pc' = [pc EXCEPT ![p] = l]
    BY <1>4 DEF Pick
  <2> QED BY <1>4, <2>2, <2>3, <2>4 DEF Pick, disk, past
<1>5. ASSUME NEW p \in Invocation, Gate(p) PROVE TypeInv'
  <2>1. tracker[job[p]].tokens \in Nat
    BY DEF Tracker
  <2> QED BY <1>5, <2>1 DEF Gate, disk, past
<1>6. ASSUME NEW p \in Invocation, Setup(p) PROVE TypeInv'
  <2>1. Recorded(job[p], 0, FALSE) \in Tracker
    BY DEF Recorded, Tracker
  <2>2. tracker' \in [Ticket -> Tracker]
    BY ZenonT(60), <1>6, <2>1 DEF Setup
  <2>3. wt' \in [Ticket -> {"none", "registered", "orphan"}]
    BY <1>6 DEF Setup
  <2>4. branch' \in [Ticket -> {"none", "base", "ahead"}]
    <3>1. (IF branch[job[p]] = "none" THEN "base" ELSE branch[job[p]]) \in {"none", "base", "ahead"}
      OBVIOUS
    <3> QED BY <1>6, <3>1 DEF Setup
  <2>5. \E l \in {"lock", "idle"} : pc' = [pc EXCEPT ![p] = l]
    BY <1>6 DEF Setup
  <2> QED BY <1>6, <2>2, <2>3, <2>4, <2>5 DEF Setup, past
<1>7. ASSUME NEW p \in Invocation, WriteLock(p) PROVE TypeInv'
  <2>1. Held(p) \in LockFile
    BY DEF Held, LockFile
  <2>2. ResumeAt(job[p]) \in 1..6
    BY DEF ResumeAt
  <2> QED BY <1>7, <2>1, <2>2 DEF WriteLock, past
<1>8. ASSUME NEW p \in Invocation, Promote(p) PROVE TypeInv'
  BY <1>8 DEF Promote, past
<1>9. ASSUME NEW p \in Invocation, PromoteRaises(p) PROVE TypeInv'
  <2>1. NoLock \in LockFile
    BY DEF NoLock, LockFile
  <2> QED BY <1>9, <2>1 DEF PromoteRaises, past
<1>10. ASSUME NEW p \in Invocation, Unlink(p) PROVE TypeInv'
  BY <1>10 DEF Unlink, past
<1>11. ASSUME NEW p \in Invocation, BeginStage(p) PROVE TypeInv'
  <2>1. lock' \in [Ticket -> LockFile]
    BY <1>11, LockUpdate DEF BeginStage
  <2> QED BY <1>11, <2>1 DEF BeginStage, past
<1>12. ASSUME NEW p \in Invocation, EndStage(p) PROVE TypeInv'
  <2>1. /\ art' \in [Ticket -> Artifacts]
        /\ code' \in [Ticket -> {"none", "partial", "full"}]
        /\ branch' \in [Ticket -> {"none", "base", "ahead"}]
    BY <1>12, StageType DEF EndStage, Amounts
  <2>2. PICK cost \in Nat, succeeded \in BOOLEAN : AfterStage(p, succeeded, cost)
    BY <1>12, DetachedAssumption DEF EndStage
  <2>3. PICK goesOn \in BOOLEAN :
          /\ used' = [used EXCEPT ![p] = used[p] + cost]
          /\ ok' = [ok EXCEPT ![p] = goesOn]
          /\ at' = [at EXCEPT ![p] = IF goesOn /\ @ < 6 THEN @ + 1 ELSE @]
          /\ pc' = [pc EXCEPT ![p] = IF goesOn /\ at[p] < 6 THEN "stage" ELSE "commit"]
    BY <2>2, Zenon DEF AfterStage
  <2>4. used' \in [Invocation -> Nat] /\ \A q \in Invocation : used[q] <= used'[q]
    BY <2>3
  <2>5. at' \in [Invocation -> 1..6]
    BY <2>3
  <2>6. \E l \in {"stage", "commit"} : pc' = [pc EXCEPT ![p] = l]
    BY <2>3
  <2>7. ok' \in [Invocation -> BOOLEAN]
    BY <2>3
  <2>8. cutShort' \subseteq Ticket
    BY <1>12 DEF EndStage
  <2>9. UNCHANGED <<backlog, intake, wt, lock, tracker, job, from, prior, doomed, crashes,
                    delivered, hollow, discarded>>
    BY <1>12 DEF EndStage
  <2>10. SpentOnTop'
    BY <2>4, <2>9
  <2>11. pc' \in [Invocation -> {"idle", "prune", "hygiene", "pick", "gate", "setup", "lock",
                                 "promote", "unlink", "stage", "running", "commit", "teardown",
                                 "record", "untrack"}]
    BY <2>6
  <2> QED BY <2>1, <2>4, <2>5, <2>7, <2>8, <2>9, <2>10, <2>11
<1>13. ASSUME NEW p \in Invocation, CommitAll(p) PROVE TypeInv'
  <2>1. branch' \in [Ticket -> {"none", "base", "ahead"}]
    BY <1>13 DEF CommitAll
  <2>2. ok' \in [Invocation -> BOOLEAN]
    BY <1>13 DEF CommitAll
  <2> QED BY <1>13, <2>1, <2>2 DEF CommitAll, past
<1>14. ASSUME NEW p \in Invocation, Teardown(p) PROVE TypeInv'
  <2>1. NoLock \in LockFile
    BY DEF NoLock, LockFile
  <2>2. wt' \in [Ticket -> {"none", "registered", "orphan"}]
    BY <1>14 DEF Teardown
  <2>3. ok' \in [Invocation -> BOOLEAN]
    BY <1>14 DEF Teardown
  <2> QED BY <1>14, <2>1, <2>2, <2>3 DEF Teardown, past
<1>15. ASSUME NEW p \in Invocation, RecordAttempt(p) PROVE TypeInv'
  <2>1. used[p] - prior[p] \in Nat
    OBVIOUS
  <2>2. Recorded(job[p], used[p] - prior[p], ok[p]) \in Tracker
    BY <2>1 DEF Recorded, Tracker
  <2>3. tracker' \in [Ticket -> Tracker]
    BY <1>15, <2>2 DEF RecordAttempt
  <2>4. \E l \in {"untrack", "idle"} : pc' = [pc EXCEPT ![p] = l]
    BY <1>15 DEF RecordAttempt
  <2>5. delivered' \subseteq Ticket /\ hollow' \subseteq Ticket
    BY <1>15 DEF RecordAttempt
  <2> QED BY <1>15, <2>3, <2>4, <2>5 DEF RecordAttempt
<1>16. ASSUME NEW p \in Invocation, Untrack(p) PROVE TypeInv'
  <2>1. NoRuns \in Tracker
    BY DEF NoRuns, Tracker
  <2> QED BY <1>16, <2>1 DEF Untrack, past
<1>17. ASSUME NEW p \in Invocation, Crash(p) PROVE TypeInv'
  <2>1. lock' \in [Ticket -> LockFile]
    <3>1. [NoLock EXCEPT !.state = "corrupt"] \in LockFile
      BY LockUpdate DEF NoLock, LockFile
    <3>2. \A t \in Ticket : [lock[t] EXCEPT !.owner = Nobody] \in LockFile
      BY LockUpdate
    <3> QED BY <1>17, <3>1, <3>2 DEF Crash
  <2>2. crashes' \in 0..MaxCrashes
    BY <1>17, DetachedAssumption DEF Crash
  <2> QED BY <1>17, <2>1, <2>2 DEF Crash, past
<1>18. ASSUME NEW p \in Invocation, HeartbeatAges(p) PROVE TypeInv'
  <2>1. lock' \in [Ticket -> LockFile]
    BY <1>18, LockUpdate DEF HeartbeatAges
  <2> QED BY <1>18, <2>1 DEF HeartbeatAges, locals, past
<1>19. ASSUME NEW t \in Ticket, AbortRun(t) PROVE TypeInv'
  <2>1. NoLock \in LockFile
    BY DEF NoLock, LockFile
  <2>2. /\ wt' \in [Ticket -> {"none", "registered", "orphan"}]
        /\ branch' \in [Ticket -> {"none", "base", "ahead"}]
    BY <1>19 DEF AbortRun
  <2>3. code' \in [Ticket -> {"none", "partial", "full"}]
    BY <1>19, WithoutType DEF AbortRun
  <2>4. discarded' \subseteq Ticket
    BY <1>19 DEF AbortRun, NoteDiscarded
  <2> QED BY <1>19, <2>1, <2>2, <2>3, <2>4 DEF AbortRun, locals
<1>20. ASSUME NEW t \in Ticket, Cleanup(t) PROVE TypeInv'
  <2>1. art' \in [Ticket -> Artifacts]
    BY <1>20, ArtifactUpdate DEF Cleanup
  <2>2. code' \in [Ticket -> {"none", "partial", "full"}]
    BY <1>20, WithoutType DEF Cleanup
  <2>3. discarded' \subseteq Ticket
    BY <1>20 DEF Cleanup, NoteDiscarded
  <2>4. /\ wt' \in [Ticket -> {"none", "registered", "orphan"}]
        /\ branch' \in [Ticket -> {"none", "base", "ahead"}]
    BY <1>20 DEF Cleanup
  <2> QED BY <1>20, <2>1, <2>2, <2>3, <2>4 DEF Cleanup, locals
<1>21. ASSUME NEW t \in Ticket, MarkDone(t) PROVE TypeInv'
  BY <1>21 DEF MarkDone, locals, past
<1>22. ASSUME NEW t \in Ticket, Review(t) PROVE TypeInv'
  BY <1>22 DEF Review, locals, past
<1>23. CASE UNCHANGED vars
  BY <1>23 DEF vars, disk, locals, past
<1> QED
  BY <1>1, <1>2, <1>3, <1>4, <1>5, <1>6, <1>7, <1>8, <1>9, <1>10, <1>11, <1>12, <1>13,
     <1>14, <1>15, <1>16, <1>17, <1>18, <1>19, <1>20, <1>21, <1>22, <1>23
  DEF Next, Run, Operator

(* Whatever overlaps, crashes and is resumed: the state stays well-formed, *)
(* and what a run records as spent is never negative.                      *)
THEOREM TypeCorrect == Spec => []TypeOK
<1>1. Spec => []TypeInv
  BY TypeInit, TypeNext, PTL DEF Spec
<1>2. TypeInv => TypeOK
  BY DEF TypeInv
<1> QED BY <1>1, <1>2, PTL

-----------------------------------------------------------------------------
(* What a step may disturb.                                                *)

(* An invocation's step leaves the locals of the others alone.             *)
LEMMA OthersStay ==
  ASSUME TypeOK, NEW p \in Invocation, NEW q \in Invocation, q # p,
         Start(p) \/ Run(p) \/ Crash(p) \/ HeartbeatAges(p)
  PROVE  /\ pc'[q] = pc[q] /\ job'[q] = job[q] /\ from'[q] = from[q] /\ at'[q] = at[q]
         /\ used'[q] = used[q] /\ prior'[q] = prior[q] /\ ok'[q] = ok[q]
         /\ doomed'[q] = doomed[q]
<1> USE DEF TypeOK, Goto
<1>1. CASE Start(p) \/ Prune(p) \/ Hygiene(p)
  BY <1>1 DEF Start, Prune, Hygiene
<1>2. CASE Pick(p)
  BY <1>2 DEF Pick
<1>3. CASE Gate(p)
  BY <1>3 DEF Gate
<1>4. CASE Setup(p)
  BY ZenonT(60), <1>4 DEF Setup
<1>5. CASE WriteLock(p) \/ Promote(p) \/ PromoteRaises(p) \/ Unlink(p) \/ BeginStage(p)
  BY <1>5 DEF WriteLock, Promote, PromoteRaises, Unlink, BeginStage
<1>6. CASE EndStage(p)
  BY <1>6 DEF EndStage, AfterStage
<1>7. CASE CommitAll(p) \/ Teardown(p)
  BY <1>7 DEF CommitAll, Teardown
<1>8. CASE RecordAttempt(p) \/ Untrack(p)
  BY <1>8 DEF RecordAttempt, Untrack
<1>9. CASE Crash(p)
  BY <1>9 DEF Crash
<1>10. CASE HeartbeatAges(p)
  BY <1>10 DEF HeartbeatAges, locals
<1> QED BY <1>1, <1>2, <1>3, <1>4, <1>5, <1>6, <1>7, <1>8, <1>9, <1>10 DEF Run

(* The operator's commands touch neither a run nor its records.            *)
LEMMA OperatorApart ==
  ASSUME NEW t \in Ticket, Operator(t)
  PROVE  UNCHANGED <<intake, tracker, locals, hollow, delivered>>
BY DEF Operator, AbortRun, Cleanup, MarkDone, Review, locals, past

-----------------------------------------------------------------------------
(* A ticket stays where it is found.                                       *)

Promoted == {"unlink", "stage", "running", "commit", "teardown", "record"}

(* From the copy into intake to the end, a run's ticket is in intake; so   *)
(* is one picked there, from the start.                                    *)
TicketInHand ==
  \A p \in Invocation :
    \/ pc[p] \in Promoted
    \/ pc[p] \in {"gate", "setup", "lock"} /\ from[p] = "intake"
    => job[p] \in intake

(* Nothing leaves intake.                                                  *)
LEMMA IntakeGrows ==
  ASSUME [Next]_vars
  PROVE  intake \subseteq intake'
<1>1. ASSUME NEW p \in Invocation, Start(p) \/ Run(p) \/ Crash(p) \/ HeartbeatAges(p)
      PROVE  intake \subseteq intake'
  BY <1>1 DEF Run, Start, Prune, Hygiene, Pick, Gate, Setup, WriteLock, Promote, PromoteRaises,
              Unlink, BeginStage, EndStage, CommitAll, Teardown, RecordAttempt, Untrack, Crash,
              HeartbeatAges, disk
<1>2. ASSUME NEW t \in Ticket, Operator(t) PROVE intake \subseteq intake'
  BY <1>2, OperatorApart
<1>3. CASE UNCHANGED vars
  BY <1>3 DEF vars, disk
<1> QED BY <1>1, <1>2, <1>3 DEF Next

(* A ticket in hand stays in hand while its stages run. *)
LEMMA TicketInHandNext ==
  ASSUME TypeInv, TicketInHand, [Next]_vars
  PROVE  TicketInHand'
<1>1. ASSUME NEW p \in Invocation, Start(p) \/ Run(p) \/ Crash(p) \/ HeartbeatAges(p)
      PROVE  TicketInHand'
  <2> SUFFICES ASSUME NEW q \in Invocation,
                      \/ pc'[q] \in Promoted
                      \/ pc'[q] \in {"gate", "setup", "lock"} /\ from'[q] = "intake"
               PROVE  job'[q] \in intake'
    BY DEF TicketInHand, Promoted
  <2>1. CASE q # p
    BY <1>1, <2>1, OthersStay, IntakeGrows DEF TicketInHand, TypeInv, Next
  <2>2. CASE q = p
    <3> USE <2>2 DEF TypeInv, TypeOK, Goto, Promoted, TicketInHand
    <3>1. CASE Start(p) \/ Prune(p) \/ Hygiene(p)
      BY <3>1 DEF Start, Prune, Hygiene
    <3>2. CASE Pick(p)
      <4>1. Resumable # {} => Oldest(Resumable) \in Resumable
        BY OldestIn DEF Resumable
      <4> QED BY <3>2, <4>1 DEF Pick, Resumable, disk
    <3>3. CASE Gate(p)
      BY <3>3 DEF Gate, disk
    <3>4. CASE Setup(p)
      <4>1. pc[p] = "setup" /\ UNCHANGED <<intake, job, from>>
        BY <3>4 DEF Setup
      <4>2. Goto(p, "lock") \/ Goto(p, "idle")
        BY <3>4, Zenon DEF Setup
      <4> QED BY <4>1, <4>2
    <3>5. CASE WriteLock(p)
      BY <3>5 DEF WriteLock
    <3>6. CASE Promote(p)
      BY <3>6 DEF Promote
    <3>12. CASE PromoteRaises(p) \/ Unlink(p)
      BY <3>12 DEF PromoteRaises, Unlink
    <3>7. CASE BeginStage(p) \/ CommitAll(p)
      BY <3>7 DEF BeginStage, CommitAll
    <3>8. CASE EndStage(p)
      BY <3>8 DEF EndStage
    <3>9. CASE Teardown(p) \/ RecordAttempt(p) \/ Untrack(p)
      BY <3>9 DEF Teardown, RecordAttempt, Untrack
    <3>10. CASE Crash(p)
      BY <3>10 DEF Crash
    <3>11. CASE HeartbeatAges(p)
      BY <3>11 DEF HeartbeatAges, locals
    <3> QED BY <1>1, <3>1, <3>2, <3>3, <3>4, <3>5, <3>6, <3>7, <3>8, <3>9, <3>10, <3>11, <3>12
       DEF Run
  <2> QED BY <2>1, <2>2
<1>2. ASSUME NEW t \in Ticket, Operator(t) PROVE TicketInHand'
  BY <1>2, OperatorApart DEF TicketInHand, locals
<1>3. CASE UNCHANGED vars
  BY <1>3 DEF TicketInHand, vars, disk, locals
<1> QED BY <1>1, <1>2, <1>3 DEF Next

(* Stages run on tickets that are in intake only, whatever the operator    *)
(* marks done meanwhile and however many invocations race for one          *)
(* (cmd_mark_done, _promote_intake).                                       *)
THEOREM StagesOnIntake == Spec => []StagesHaveTheirTicket
<1>1. Init => TicketInHand
  BY DEF Init, TicketInHand, Promoted
<1>2. TicketInHand => StagesHaveTheirTicket
  BY DEF TicketInHand, StagesHaveTheirTicket, Promoted
<1>3. Spec => [](TypeInv /\ TicketInHand)
  BY <1>1, TypeInit, TypeNext, TicketInHandNext, PTL DEF Spec
<1> QED BY <1>2, <1>3, PTL

(* A step takes a ticket out of the backlog only when it is in intake, or  *)
(* when the operator marks it done.                                        *)
LEMMA TicketStays ==
  ASSUME TypeInv, TicketInHand, [Next]_vars, NEW t \in Ticket,
         t \in backlog \cup intake, t \notin backlog' \cup intake'
  PROVE  MarkDone(t)
<1>1. t \in backlog /\ t \notin backlog' /\ t \notin intake
  BY IntakeGrows
<1>2. ASSUME NEW p \in Invocation, Start(p) \/ Run(p) \/ Crash(p) \/ HeartbeatAges(p)
      PROVE  FALSE
  <2>1. ~Unlink(p)
    BY <1>1 DEF Unlink, TicketInHand, Promoted
  <2> QED BY <1>1, <1>2, <2>1
       DEF Run, Start, Prune, Hygiene, Pick, Gate, Setup, WriteLock, Promote, PromoteRaises,
           BeginStage, EndStage, CommitAll, Teardown, RecordAttempt, Untrack, Crash,
           HeartbeatAges, disk
<1>3. ASSUME NEW u \in Ticket, Operator(u) PROVE MarkDone(t)
  <2>1. MarkDone(u) => u = t
    BY <1>1 DEF MarkDone
  <2> QED BY <1>1, <1>3, <2>1 DEF Operator, AbortRun, Cleanup, Review
<1> QED BY <1>1, <1>2, <1>3 DEF Next, vars, disk

(* No ticket gets lost between the backlog and intake: a crash at any      *)
(* point, or another invocation, leaves it in one of the two               *)
(* (_promote_intake copies before it unlinks).                             *)
THEOREM NoTicketLost == Spec => TicketKept
<1>1. Init => TicketInHand
  BY DEF Init, TicketInHand, Promoted
<1>2. Spec => [](TypeInv /\ TicketInHand)
  BY <1>1, TypeInit, TypeNext, TicketInHandNext, PTL DEF Spec
<1>3. TypeInv /\ TicketInHand /\ [Next]_vars
        => [\A t \in Ticket : t \in backlog \cup intake /\ t \notin backlog' \cup intake'
              => MarkDone(t)]_vars
  BY TicketStays
<1> QED BY <1>2, <1>3, PTL DEF Spec, TicketKept

-----------------------------------------------------------------------------
(* The restarts are overshot by one per other invocation at most.          *)

Spending == {"setup", "lock", "promote", "unlink", "stage", "running", "commit", "teardown",
             "record"}

(* The invocations that passed the gate for a ticket and will record an    *)
(* attempt.                                                                *)
Pending(t) == {p \in Invocation : pc[p] \in Spending /\ job[p] = t}

(* Each of them passed the gate when an attempt was left, so the recorded  *)
(* and the coming attempts together stay below the bound.                  *)
RestartsLeft ==
  \A t \in Ticket :
    tracker[t].attempts + Cardinality(Pending(t)) < MaxRestarts + Cardinality(Invocation)

(* As many stages can be pending on a ticket as there are invocations. *)
LEMMA PendingFinite ==
  ASSUME NEW t
  PROVE  /\ IsFiniteSet(Pending(t)) /\ Cardinality(Pending(t)) \in Nat
         /\ Cardinality(Invocation) \in Nat
         /\ Cardinality(Pending(t)) <= Cardinality(Invocation)
<1>1. Pending(t) \subseteq Invocation
  BY DEF Pending
<1> QED BY <1>1, DetachedAssumption, FS_Subset, FS_CardinalityType

(* A step that neither records an attempt nor passes the gate.             *)
LEMMA NoNewPending ==
  ASSUME TypeInv, RestartsLeft, UNCHANGED tracker,
         \A t \in Ticket : Pending(t)' \subseteq Pending(t)
  PROVE  RestartsLeft'
<1> SUFFICES ASSUME NEW t \in Ticket
             PROVE  tracker[t].attempts + Cardinality(Pending(t)')
                      < MaxRestarts + Cardinality(Invocation)
  BY DEF RestartsLeft
<1>1. /\ Cardinality(Pending(t)') \in Nat
      /\ Cardinality(Pending(t)') <= Cardinality(Pending(t))
  BY PendingFinite, FS_Subset, FS_CardinalityType
<1>2. tracker[t].attempts \in Nat
  BY DEF TypeInv, TypeOK, Tracker
<1> QED BY <1>1, <1>2, PendingFinite, DetachedAssumption DEF RestartsLeft

(* A step that records an attempt is the recording invocation's last on    *)
(* the ticket.                                                             *)
LEMMA RecordedOnce ==
  ASSUME TypeInv, RestartsLeft, NEW p \in Invocation, NEW spend, NEW isOk,
         pc[p] \in Spending, pc'[p] \notin Spending, UNCHANGED job,
         \A q \in Invocation : q # p => pc'[q] = pc[q],
         tracker' = [tracker EXCEPT ![job[p]] = Recorded(job[p], spend, isOk)]
  PROVE  RestartsLeft'
<1> SUFFICES ASSUME NEW t \in Ticket
             PROVE  tracker'[t].attempts + Cardinality(Pending(t)')
                      < MaxRestarts + Cardinality(Invocation)
  BY DEF RestartsLeft
<1>1. tracker[t].attempts \in Nat
  BY DEF TypeInv, TypeOK, Tracker
<1>2. CASE t = job[p]
  <2>1. p \in Pending(t) /\ Pending(t)' = Pending(t) \ {p}
    BY <1>2 DEF Pending, Spending
  <2>2. Cardinality(Pending(t)') = Cardinality(Pending(t)) - 1
    BY <2>1, PendingFinite, FS_RemoveElement
  <2>3. tracker'[t].attempts = tracker[t].attempts + 1
    BY <1>2 DEF Recorded, TypeInv, TypeOK
  <2> QED BY <1>1, <2>2, <2>3, PendingFinite, DetachedAssumption DEF RestartsLeft
<1>3. CASE t # job[p]
  <2>1. Pending(t)' = Pending(t)
    BY <1>3 DEF Pending, Spending
  <2>2. tracker'[t] = tracker[t]
    BY <1>3 DEF TypeInv, TypeOK
  <2> QED BY <1>1, <2>1, <2>2, PendingFinite, DetachedAssumption DEF RestartsLeft
<1> QED BY <1>2, <1>3

(* The gate restarts a ticket only below the limit, and every restart it has let through is counted once. *)
LEMMA RestartsLeftNext ==
  ASSUME TypeInv, RestartsLeft, [Next]_vars
  PROVE  RestartsLeft'
<1> USE DEF TypeInv, TypeOK, Goto
<1>1. ASSUME NEW p \in Invocation, Gate(p) PROVE RestartsLeft'
  <2>1. UNCHANGED <<tracker, job>>
    BY <1>1 DEF Gate, disk
  <2>2. CASE Admitted(job[p])
    <3>1. ASSUME NEW t \in Ticket
          PROVE  tracker[t].attempts + Cardinality(Pending(t)')
                   < MaxRestarts + Cardinality(Invocation)
      <4>1. tracker[t].attempts \in Nat
        BY DEF Tracker
      <4>2. CASE t = job[p]
        <5>1. tracker[t].attempts < MaxRestarts
          BY <2>2, <4>2 DEF Admitted
        <5>2. /\ Cardinality(Pending(t)') \in Nat
              /\ Cardinality(Pending(t)') <= Cardinality(Invocation)
          <6>1. Pending(t)' \subseteq Invocation
            BY DEF Pending
          <6>2. IsFiniteSet(Pending(t)')
            BY <6>1, DetachedAssumption, FS_Subset
          <6> QED BY <6>1, <6>2, DetachedAssumption, FS_Subset, FS_CardinalityType
        <5>3. Cardinality(Invocation) \in Nat /\ MaxRestarts \in Nat
          BY DetachedAssumption, FS_CardinalityType
        <5> QED BY <4>1, <5>1, <5>2, <5>3
      <4>3. CASE t # job[p]
        <5>1. Pending(t)' = Pending(t)
          BY <1>1, <2>1, <4>3 DEF Gate, Pending, Spending
        <5> QED BY <5>1 DEF RestartsLeft
      <4> QED BY <4>2, <4>3
    <3> QED BY <2>1, <3>1 DEF RestartsLeft
  <2>3. CASE ~Admitted(job[p])
    <3>1. ASSUME NEW t \in Ticket PROVE Pending(t)' \subseteq Pending(t)
      BY <1>1, <2>1, <2>3 DEF Gate, Pending, Spending
    <3> QED BY <2>1, <3>1, NoNewPending
  <2> QED BY <2>2, <2>3
<1>2. ASSUME NEW p \in Invocation, Setup(p) PROVE RestartsLeft'
  <2>1. CASE UNCHANGED tracker
    <3>1. Goto(p, "lock") \/ Goto(p, "idle")
      BY <1>2, Zenon DEF Setup
    <3>2. pc[p] = "setup" /\ UNCHANGED job
      BY <1>2 DEF Setup
    <3>3. ASSUME NEW t \in Ticket PROVE Pending(t)' \subseteq Pending(t)
      BY <3>1, <3>2 DEF Pending, Spending
    <3> QED BY <2>1, <3>3, NoNewPending
  <2>2. CASE ~UNCHANGED tracker
    <3>1. /\ pc[p] = "setup" /\ UNCHANGED job
          /\ Goto(p, "idle")
          /\ tracker' = [tracker EXCEPT ![job[p]] = Recorded(job[p], 0, FALSE)]
      BY <1>2, <2>2, Zenon DEF Setup
    <3>2. /\ pc[p] \in Spending /\ pc'[p] \notin Spending
          /\ \A q \in Invocation : q # p => pc'[q] = pc[q]
      BY <3>1 DEF Spending
    <3> QED BY <3>1, <3>2, RecordedOnce, Zenon
  <2> QED BY <2>1, <2>2
<1>3. ASSUME NEW p \in Invocation, RecordAttempt(p) PROVE RestartsLeft'
  <2>1. Goto(p, "untrack") \/ Goto(p, "idle")
    BY <1>3, Zenon DEF RecordAttempt
  <2>2. /\ pc[p] = "record" /\ UNCHANGED job
        /\ tracker' = [tracker EXCEPT ![job[p]] =
                        Recorded(job[p], used[p] - prior[p], ok[p])]
    BY <1>3 DEF RecordAttempt
  <2>3. /\ pc[p] \in Spending /\ pc'[p] \notin Spending
        /\ \A q \in Invocation : q # p => pc'[q] = pc[q]
    BY <2>1, <2>2 DEF Spending
  <2> QED BY <2>2, <2>3, RecordedOnce, Zenon
<1>4. ASSUME NEW p \in Invocation, Untrack(p) PROVE RestartsLeft'
  <2>1. ASSUME NEW t \in Ticket PROVE Pending(t)' = Pending(t)
    BY <1>4 DEF Untrack, Pending, Spending
  <2>2. ASSUME NEW t \in Ticket
        PROVE  tracker'[t].attempts \in Nat /\ tracker'[t].attempts <= tracker[t].attempts
    BY <1>4 DEF Untrack, NoRuns, Tracker
  <2>3. ASSUME NEW t \in Ticket
        PROVE  tracker'[t].attempts + Cardinality(Pending(t)')
                 < MaxRestarts + Cardinality(Invocation)
    <3>1. tracker[t].attempts \in Nat
      BY DEF Tracker
    <3> QED BY <2>1, <2>2, <3>1, PendingFinite, DetachedAssumption DEF RestartsLeft
  <2> QED BY <2>3 DEF RestartsLeft
<1>5. ASSUME NEW p \in Invocation,
             Start(p) \/ Prune(p) \/ Hygiene(p) \/ WriteLock(p) \/ Promote(p) \/ PromoteRaises(p)
               \/ Unlink(p) \/ BeginStage(p)
      PROVE  RestartsLeft'
  <2>1. /\ UNCHANGED <<tracker, job>>
        /\ pc'[p] \in Spending => pc[p] \in Spending
    BY <1>5 DEF Start, Prune, Hygiene, WriteLock, Promote, PromoteRaises, Unlink, BeginStage,
                disk, Spending
  <2>2. \A q \in Invocation : q # p => pc'[q] = pc[q]
    BY <1>5, OthersStay DEF Run
  <2>3. ASSUME NEW t \in Ticket PROVE Pending(t)' \subseteq Pending(t)
    BY <2>1, <2>2 DEF Pending, Spending
  <2> QED BY <2>1, <2>3, NoNewPending
<1>6. ASSUME NEW p \in Invocation, Pick(p) PROVE RestartsLeft'
  <2>1. UNCHANGED tracker /\ pc'[p] \notin Spending
    BY <1>6 DEF Pick, disk, Spending
  <2>2. \A q \in Invocation : q # p => pc'[q] = pc[q] /\ job'[q] = job[q]
    BY <1>6, OthersStay DEF Run
  <2>3. ASSUME NEW t \in Ticket PROVE Pending(t)' \subseteq Pending(t)
    BY <2>1, <2>2 DEF Pending, Spending
  <2> QED BY <2>1, <2>3, NoNewPending
<1>7. ASSUME NEW p \in Invocation,
             EndStage(p) \/ CommitAll(p) \/ Teardown(p) \/ Crash(p) \/ HeartbeatAges(p)
      PROVE  RestartsLeft'
  <2>1. UNCHANGED <<tracker, job>>
    BY <1>7 DEF EndStage, CommitAll, Teardown, Crash, HeartbeatAges, locals
  <2>2. pc'[p] \in Spending => pc[p] \in Spending
    BY ZenonT(60), <1>7 DEF EndStage, CommitAll, Teardown, Crash, HeartbeatAges, locals, Spending
  <2>3. \A q \in Invocation : q # p => pc'[q] = pc[q]
    BY <1>7, OthersStay DEF Run
  <2>4. ASSUME NEW t \in Ticket PROVE Pending(t)' \subseteq Pending(t)
    BY <2>1, <2>2, <2>3 DEF Pending, Spending
  <2> QED BY <2>1, <2>4, NoNewPending
<1>8. ASSUME NEW t \in Ticket, Operator(t) PROVE RestartsLeft'
  BY <1>8, OperatorApart DEF RestartsLeft, Pending, locals
<1>9. CASE UNCHANGED vars
  BY <1>9 DEF RestartsLeft, Pending, vars, disk, locals
<1> QED BY <1>1, <1>2, <1>3, <1>4, <1>5, <1>6, <1>7, <1>8, <1>9 DEF Next, Run

(* However many invocations overlap, a ticket's recorded attempts exceed   *)
(* max_restarts by fewer than their number (_detached_tracker_gate reads   *)
(* the count at the start of a run, record_attempt raises it at the end).  *)
THEOREM OvershootIsBounded == Spec => []OvershootBounded
<1>1. Init => RestartsLeft
  <2> SUFFICES ASSUME Init PROVE RestartsLeft
    OBVIOUS
  <2>1. ASSUME NEW t \in Ticket PROVE Pending(t) = {} /\ tracker[t].attempts = 0
    BY <2>1 DEF Init, Pending, Spending, NoRuns
  <2> QED BY <2>1, PendingFinite, FS_EmptySet, DetachedAssumption DEF RestartsLeft
<1>2. TypeInv /\ RestartsLeft => OvershootBounded
  <2> SUFFICES ASSUME TypeInv, RestartsLeft, NEW t \in Ticket
               PROVE  tracker[t].attempts < MaxRestarts + Cardinality(Invocation)
    BY DEF OvershootBounded
  <2>1. tracker[t].attempts \in Nat
    BY DEF TypeInv, TypeOK, Tracker
  <2> QED BY <2>1, PendingFinite, DetachedAssumption DEF RestartsLeft
<1>3. Spec => [](TypeInv /\ RestartsLeft)
  BY <1>1, TypeInit, TypeNext, RestartsLeftNext, PTL DEF Spec
<1> QED BY <1>2, <1>3, PTL

-----------------------------------------------------------------------------
(* One invocation at a time.                                               *)

Alone == \A p, q \in Invocation : p = q

(* What a stage that ends does to the change and the artifacts: no change  *)
(* shrinks, the executor's log is stage 4's, and a verdict is stage 5's,   *)
(* given on an executor that completed.                                    *)
Lasting(s, t) ==
  /\ \A u \in Ticket : /\ code[u] # "none" => code'[u] # "none"
                       /\ code[u] = "full" => code'[u] = "full"
  /\ \A u \in Ticket \ {t} : art'[u] = art[u]
  /\ s # 4 => art'[t].exec = art[t].exec
  /\ art'[t].harden # art[t].harden => s = 5 /\ art[t].exec = "completed"

(* What a stage leaves on a ticket, however it ends. *)
LEMMA StageEffect ==
  ASSUME TypeOK, NEW s \in 1..6, NEW t \in Ticket,
         StageSucceeds(s, t) \/ StageFails(s, t) \/ StageCut(s, t)
  PROVE  Lasting(s, t)
<1>1. art \in [Ticket -> Artifacts] /\ code \in [Ticket -> Amounts]
  BY DEF TypeOK, Amounts
<1>2. ASSUME NEW status, PartOfTheWork(t, status), s = 4 PROVE Lasting(s, t)
  <2>1. PICK amount \in AtLeast(code[t]) : code' = [code EXCEPT ![t] = amount]
    BY <1>2 DEF PartOfTheWork
  <2>2. (code[t] # "none" => amount # "none") /\ (code[t] = "full" => amount = "full")
    BY <1>1, <2>1 DEF AtLeast, Amounts
  <2>3. art' = [art EXCEPT ![t].exec = status]
    BY <1>2 DEF PartOfTheWork
  <2>4. (\A u \in Ticket \ {t} : art'[u] = art[u]) /\ art'[t].harden = art[t].harden
    BY <1>1, <2>3 DEF Artifacts
  <2> QED BY <1>1, <1>2, <2>1, <2>2, <2>4 DEF Lasting
<1>3. ASSUME UNCHANGED code, UNCHANGED art PROVE Lasting(s, t)
  BY <1>3 DEF Lasting
<1>4. ASSUME UNCHANGED code, NEW v,
             art' = [art EXCEPT ![t].spec = v] \/ art' = [art EXCEPT ![t].plan = v]
      PROVE  Lasting(s, t)
  <2>1. /\ \A u \in Ticket \ {t} : art'[u] = art[u]
        /\ art'[t].exec = art[t].exec /\ art'[t].harden = art[t].harden
    BY <1>1, <1>4 DEF Artifacts
  <2> QED BY <1>4, <2>1 DEF Lasting
<1>5. ASSUME s = 4, ExecutePasses(t) PROVE Lasting(s, t)
  <2>1. (\A u \in Ticket \ {t} : art'[u] = art[u]) /\ art'[t].harden = art[t].harden
    BY <1>1, <1>5 DEF ExecutePasses, Artifacts
  <2>2. \A u \in Ticket : /\ code[u] # "none" => code'[u] # "none"
                          /\ code[u] = "full" => code'[u] = "full"
    BY <1>1, <1>5 DEF ExecutePasses
  <2> QED BY <1>5, <2>1, <2>2 DEF Lasting
<1>6. ASSUME s = 5, HardenPasses(t) PROVE Lasting(s, t)
  <2>1. PICK verdict : art' = [art EXCEPT ![t].harden = verdict]
    BY <1>6 DEF HardenPasses
  <2>2. (\A u \in Ticket \ {t} : art'[u] = art[u]) /\ art'[t].exec = art[t].exec
    BY <1>1, <2>1 DEF Artifacts
  <2> QED BY <1>6, <2>2 DEF HardenPasses, Lasting
<1>7. CASE StageSucceeds(s, t)
  <2>1. CASE UsherPasses(t) \/ ApprovalPasses(t)
    BY <1>3, <2>1 DEF UsherPasses, ApprovalPasses
  <2>2. CASE RefinePasses(t) \/ PlanPasses(t)
    BY <1>4, <2>2 DEF RefinePasses, PlanPasses
  <2> QED BY <1>5, <1>6, <1>7, <2>1, <2>2 DEF StageSucceeds
<1>8. CASE StageFails(s, t)
  <2>1. CASE BestAttemptLeft(s, t)
    <3>1. /\ UNCHANGED code
          /\ art' = [art EXCEPT ![t].spec = "invalid"] \/ art' = [art EXCEPT ![t].plan = "invalid"]
      BY <2>1 DEF BestAttemptLeft
    <3> QED BY <1>4, <3>1
  <2> QED BY <1>2, <1>3, <1>8, <2>1 DEF StageFails
<1>9. CASE StageCut(s, t)
  BY <1>2, <1>8, <1>9 DEF StageCut
<1> QED BY <1>7, <1>8, <1>9

(* The worktrees found for pruning have no commits of their own, and none  *)
(* appear before they are pruned: nobody else is at work.                  *)
DoomedIsBare ==
  \A p \in Invocation : /\ pc[p] # "prune" => doomed[p] = {}
                        /\ \A t \in doomed[p] : branch[t] # "ahead"

(* With nobody else at work, no commit lands on a worktree found for pruning. *)
LEMMA BareNext ==
  ASSUME Alone, TypeInv, DoomedIsBare, [Next]_vars
  PROVE  DoomedIsBare'
<1> USE DEF TypeInv, TypeOK, Goto
<1>1. ASSUME NEW p \in Invocation, Start(p) \/ Run(p) \/ Crash(p) \/ HeartbeatAges(p)
      PROVE  /\ pc'[p] # "prune" => doomed'[p] = {}
             /\ \A t \in doomed'[p] : branch'[t] # "ahead"
  <2>1. CASE Start(p)
    BY <2>1 DEF Start, disk
  <2>2. CASE Prune(p) \/ Crash(p)
    BY <2>2 DEF Prune, Crash
  <2>3. CASE HeartbeatAges(p)
    BY <2>3 DEF HeartbeatAges, locals, DoomedIsBare
  <2>4. CASE Run(p) /\ ~Prune(p)
    <3>1. pc[p] # "prune" /\ doomed' = doomed
      BY <2>4 DEF Run, Hygiene, Pick, Gate, Setup, WriteLock, Promote, PromoteRaises, Unlink,
                  BeginStage, EndStage, CommitAll, Teardown, RecordAttempt, Untrack
    <3> QED BY <3>1 DEF DoomedIsBare
  <2> QED BY <1>1, <2>1, <2>2, <2>3, <2>4
<1>2. ASSUME NEW t \in Ticket, Operator(t) PROVE DoomedIsBare'
  <2>1. UNCHANGED locals
    BY <1>2, OperatorApart
  <2>2. \A u \in Ticket : branch'[u] = "ahead" => branch[u] = "ahead"
    BY <1>2 DEF Operator, AbortRun, Cleanup, MarkDone, Review
  <2> QED BY <2>1, <2>2 DEF DoomedIsBare, locals
<1>3. CASE UNCHANGED vars
  BY <1>3 DEF DoomedIsBare, vars, disk, locals
<1>4. ASSUME NEW p \in Invocation, Start(p) \/ Run(p) \/ Crash(p) \/ HeartbeatAges(p)
      PROVE  DoomedIsBare'
  BY <1>1, <1>4 DEF Alone, DoomedIsBare
<1> QED BY <1>2, <1>3, <1>4 DEF Next

(* The change on a branch goes with the branch in two commands only, and   *)
(* they note it; whole changes stay whole otherwise.                       *)
LEMMA CodeStays ==
  ASSUME Alone, TypeInv, DoomedIsBare, [Next]_vars, NEW t \in Ticket
  PROVE  \/ /\ code[t] # "none" => code'[t] # "none"
            /\ code[t] = "full" => code'[t] = "full"
         \/ (AbortRun(t) \/ Cleanup(t)) /\ t \in discarded'
<1> USE DEF TypeInv, TypeOK
<1>1. ASSUME NEW p \in Invocation, Prune(p) PROVE UNCHANGED code
  <2>1. \A u \in Ticket : ~(u \in doomed[p] /\ branch[u] = "ahead")
    BY DEF DoomedIsBare
  <2> QED BY <1>1, <2>1 DEF Prune, CodeWithout
<1>2. ASSUME NEW p \in Invocation, EndStage(p)
      PROVE  /\ code[t] # "none" => code'[t] # "none"
             /\ code[t] = "full" => code'[t] = "full"
  BY <1>2, StageEffect DEF EndStage, Lasting
<1>3. ASSUME NEW p \in Invocation, Start(p) \/ Run(p) \/ Crash(p) \/ HeartbeatAges(p),
             ~Prune(p), ~EndStage(p)
      PROVE  UNCHANGED code
  BY <1>3 DEF Start, Run, Hygiene, Pick, Gate, Setup, WriteLock, Promote, PromoteRaises, Unlink,
              BeginStage, CommitAll, Teardown, RecordAttempt, Untrack, Crash, HeartbeatAges, disk
<1>4. ASSUME NEW u \in Ticket, Operator(u), code'[t] # code[t]
      PROVE  (AbortRun(t) \/ Cleanup(t)) /\ t \in discarded'
  <2>1. AbortRun(u) \/ Cleanup(u)
    BY <1>4 DEF Operator, MarkDone, Review
  <2>2. CodeWithout({u}) /\ NoteDiscarded(u)
    BY <1>4, <2>1 DEF AbortRun, Cleanup
  <2>3. u = t /\ branch[t] = "ahead" /\ code[t] # "none"
    BY <1>4, <2>2 DEF CodeWithout
  <2> QED BY <2>1, <2>2, <2>3 DEF NoteDiscarded
<1>5. CASE UNCHANGED vars
  BY <1>5 DEF vars, disk
<1> QED BY <1>1, <1>2, <1>3, <1>4, <1>5 DEF Next

(* As long as invocations do not overlap, the commits of the executor      *)
(* leave a branch through --abort and --cleanup only, however many nights, *)
(* crashes and resumes there are (prune_stale_worktrees keeps branches     *)
(* beyond master).                                                         *)
THEOREM CommitsKept == ASSUME Alone PROVE Spec => CommittedWorkKept
<1>1. Init => DoomedIsBare
  BY DEF Init, DoomedIsBare
<1>2. Spec => [](TypeInv /\ DoomedIsBare)
  BY <1>1, TypeInit, TypeNext, BareNext, PTL DEF Spec
<1>3. TypeInv /\ DoomedIsBare /\ [Next]_vars
        => [\A t \in Ticket : code[t] # "none" /\ code'[t] = "none"
              => AbortRun(t) \/ Cleanup(t)]_vars
  BY CodeStays
<1> QED BY <1>2, <1>3, PTL DEF Spec, CommittedWorkKept

-----------------------------------------------------------------------------
(* An "ok" stands for the whole change.                                    *)

(* The change is on the branch, or a kill or a command is to answer for    *)
(* what is missing.                                                        *)
Accounted(t) == code[t] = "full" \/ t \in cutShort \cup discarded

CompletedIsAccounted == \A t \in Ticket : art[t].exec = "completed" => Accounted(t)

(* Only a completed executor is hardened; --cleanup archives its log only. *)
HardenedWasExecuted ==
  \A t \in Ticket : art[t].harden # "none" => art[t].exec \in {"completed", "none"}

(* A run that has the executor or hardening ahead of it, starts without a  *)
(* verdict: get_resume_stage goes past them where there is one.            *)
NotYetHardened ==
  \A p \in Invocation :
    pc[p] \in {"promote", "unlink", "stage", "running"} /\ at[p] <= 5
      => art[job[p]].harden = "none"

OkIsAccounted ==
  \A p \in Invocation :
    ok[p] /\ pc[p] \in {"commit", "teardown", "record"} => Accounted(job[p])

Honest == /\ CompletedIsAccounted /\ HardenedWasExecuted /\ NotYetHardened /\ OkIsAccounted
          /\ OkWithoutWorkOnlyAfterInterference

(* Kills and deletions are not forgotten.                                  *)
LEMMA PastStays ==
  ASSUME [Next]_vars
  PROVE  cutShort \subseteq cutShort' /\ discarded \subseteq discarded'
<1>1. ASSUME NEW p \in Invocation, Start(p) \/ Run(p) \/ Crash(p) \/ HeartbeatAges(p)
      PROVE  cutShort \subseteq cutShort' /\ discarded \subseteq discarded'
  BY <1>1 DEF Start, Run, Prune, Hygiene, Pick, Gate, Setup, WriteLock, Promote, PromoteRaises,
              Unlink, BeginStage, EndStage, CommitAll, Teardown, RecordAttempt, Untrack, Crash,
              HeartbeatAges, past
<1>2. ASSUME NEW t \in Ticket, Operator(t)
      PROVE  cutShort \subseteq cutShort' /\ discarded \subseteq discarded'
  BY <1>2 DEF Operator, AbortRun, Cleanup, MarkDone, Review, NoteDiscarded, past
<1> QED BY <1>1, <1>2 DEF Next, vars, past

(* Work that is accounted for stays so. *)
LEMMA AccountedStays ==
  ASSUME Alone, TypeInv, DoomedIsBare, [Next]_vars, NEW t \in Ticket, Accounted(t)
  PROVE  Accounted(t)'
BY CodeStays, PastStays DEF Accounted

(* Everything but the end of a stage and --cleanup.                        *)
LEMMA ArtifactsStay ==
  ASSUME [Next]_vars
  PROVE  \/ UNCHANGED art
         \/ \E p \in Invocation : EndStage(p)
         \/ \E t \in Ticket : Cleanup(t)
BY ZenonT(60) DEF Next, vars, disk, Start, Run, Prune, Hygiene, Pick, Gate, Setup, WriteLock, Promote,
       PromoteRaises, Unlink, BeginStage, CommitAll, Teardown, RecordAttempt, Untrack, Crash,
       HeartbeatAges, Operator, AbortRun, MarkDone, Review

(* The end of a stage: the one step that completes an executor, gives a    *)
(* verdict or makes a run "ok".                                            *)
LEMMA StageEndHonest ==
  ASSUME Alone, TypeInv, DoomedIsBare, Honest, NEW p \in Invocation, EndStage(p)
  PROVE  Honest'
<1> USE DEF TypeInv, TypeOK
<1> DEFINE s == at[p]
           t == job[p]
<1>1. s \in 1..6 /\ t \in Ticket /\ art \in [Ticket -> Artifacts] /\ pc[p] = "running"
  BY DEF EndStage
<1>2. Lasting(s, t)
  BY <1>1, StageEffect DEF EndStage
<1>3. \A u \in Ticket : Accounted(u) => Accounted(u)'
  BY AccountedStays DEF Next, Run
<1>4. /\ pc'[p] \in {"stage", "commit"} /\ job' = job /\ hollow' = hollow
      /\ pc'[p] = "stage" => s < 6 /\ at'[p] = s + 1
      /\ pc'[p] = "commit" /\ ok'[p] => s = 6
  <2>1. PICK cost \in Nat, succeeded \in BOOLEAN : AfterStage(p, succeeded, cost)
    BY DetachedAssumption DEF EndStage
  <2>2. PICK goesOn \in BOOLEAN :
          /\ ok' = [ok EXCEPT ![p] = goesOn]
          /\ at' = [at EXCEPT ![p] = IF goesOn /\ @ < 6 THEN @ + 1 ELSE @]
          /\ pc' = [pc EXCEPT ![p] = IF goesOn /\ at[p] < 6 THEN "stage" ELSE "commit"]
    BY <2>1, Zenon DEF AfterStage, Goto
  <2> QED BY <1>1, <2>2 DEF EndStage
<1>5. ok'[p] => StageSucceeds(s, t)
  BY ZenonT(60) DEF EndStage, AfterStage
<1>6. StageSucceeds(s, t) \/ StageFails(s, t) \/ StageCut(s, t)
  BY DEF EndStage
<1>7. CompletedIsAccounted'
  <2> SUFFICES ASSUME NEW u \in Ticket, art'[u].exec = "completed"
               PROVE  Accounted(u)'
    BY DEF CompletedIsAccounted
  <2>1. CASE u # t \/ s # 4
    BY <1>2, <1>3, <2>1 DEF Lasting, Honest, CompletedIsAccounted
  <2>2. CASE u = t /\ s = 4 /\ ok'[p]
    <3>1. ExecutePasses(t)
      BY <1>5, <2>2 DEF StageSucceeds
    <3> QED BY <1>1, <2>2, <3>1 DEF ExecutePasses, Accounted
  <2>3. CASE u = t /\ s = 4 /\ ~ok'[p]
    BY <2>3 DEF EndStage, Accounted
  <2> QED BY <2>1, <2>2, <2>3
<1>8. s # 5 => art'[t].harden = art[t].harden
  BY <1>2 DEF Lasting
<1>9. s <= 5 => art[t].harden = "none"
  BY <1>1 DEF Honest, NotYetHardened
<1>10. HardenedWasExecuted'
  <2> SUFFICES ASSUME NEW u \in Ticket, art'[u].harden # "none"
               PROVE  art'[u].exec \in {"completed", "none"}
    BY DEF HardenedWasExecuted
  <2>1. CASE u # t
    BY <1>2, <2>1 DEF Lasting, Honest, HardenedWasExecuted
  <2>2. CASE u = t /\ s <= 5
    BY <1>2, <1>9, <2>2 DEF Lasting
  <2>3. CASE u = t /\ s = 6
    BY <1>2, <2>3 DEF Lasting, Honest, HardenedWasExecuted
  <2> QED BY <1>1, <2>1, <2>2, <2>3
<1>11. NotYetHardened'
  <2> SUFFICES ASSUME pc'[p] = "stage", at'[p] <= 5 PROVE art'[t].harden = "none"
    BY <1>1, <1>4 DEF NotYetHardened, Alone
  <2> QED BY <1>1, <1>4, <1>8, <1>9
<1>12. OkIsAccounted'
  <2> SUFFICES ASSUME ok'[p], pc'[p] = "commit" PROVE Accounted(t)'
    BY <1>1, <1>4 DEF OkIsAccounted, Alone, Accounted
  <2>1. ApprovalPasses(t)
    BY <1>4, <1>5 DEF StageSucceeds
  <2>2. art[t].exec = "completed"
    BY <1>1, <2>1 DEF ApprovalPasses, Honest, HardenedWasExecuted
  <2> QED BY <1>1, <1>3, <1>4, <2>2 DEF Honest, CompletedIsAccounted, Accounted
<1>13. OkWithoutWorkOnlyAfterInterference'
  BY <1>4, PastStays DEF Honest, OkWithoutWorkOnlyAfterInterference, Next, Run
<1> QED BY <1>7, <1>10, <1>11, <1>12, <1>13 DEF Honest

(* An invocation that runs alone says of a ticket's work only what is so. *)
LEMMA HonestNext ==
  ASSUME Alone, TypeInv, DoomedIsBare, Honest, [Next]_vars
  PROVE  Honest'
<1> USE DEF TypeInv, TypeOK, Goto
<1>1. ASSUME NEW p \in Invocation, EndStage(p) PROVE Honest'
  BY <1>1, StageEndHonest
<1>2. SUFFICES ASSUME ~\E p \in Invocation : EndStage(p) PROVE Honest'
  BY <1>1
<1>3. \A t \in Ticket : Accounted(t) => Accounted(t)'
  BY AccountedStays
<1>4. \A t \in Ticket : /\ art'[t].harden = art[t].harden
                        /\ art'[t].exec \in {art[t].exec, "none"}
  <2>1. CASE UNCHANGED art
    BY <2>1
  <2>2. ASSUME NEW u \in Ticket, Cleanup(u)
        PROVE  \A t \in Ticket : /\ art'[t].harden = art[t].harden
                                 /\ art'[t].exec \in {art[t].exec, "none"}
    BY <2>2 DEF Cleanup, Artifacts
  <2> QED BY <1>2, <2>1, <2>2, ArtifactsStay
<1>5. CompletedIsAccounted' /\ HardenedWasExecuted'
  BY <1>3, <1>4 DEF Honest, CompletedIsAccounted, HardenedWasExecuted
<1>6. ASSUME NEW p \in Invocation, Start(p) \/ Run(p) \/ Crash(p) \/ HeartbeatAges(p)
      PROVE  /\ pc'[p] \in {"promote", "unlink", "stage", "running"} /\ at'[p] <= 5
                  => art'[job'[p]].harden = "none"
             /\ ok'[p] /\ pc'[p] \in {"commit", "teardown", "record"} => Accounted(job[p])'
             /\ hollow' \subseteq cutShort' \cup discarded'
  <2>1. job[p] \in Ticket /\ at[p] \in 1..6
    OBVIOUS
  <2>2. hollow \subseteq cutShort' \cup discarded'
    BY PastStays DEF Honest, OkWithoutWorkOnlyAfterInterference
  <2>3. CASE WriteLock(p)
    <3>1. /\ at'[p] = ResumeAt(job[p]) /\ UNCHANGED <<job, hollow>>
          /\ pc'[p] \in {"promote", "stage"}
      BY <2>3 DEF WriteLock, past
    <3>2. ResumeAt(job[p]) <= 5 => art[job[p]].harden = "none"
      BY DEF ResumeAt
    <3> QED BY <1>4, <2>1, <2>2, <3>1, <3>2
  <2>4. CASE Promote(p) \/ Unlink(p) \/ BeginStage(p)
    <3>1. /\ UNCHANGED <<job, at, hollow>>
          /\ pc[p] \in {"promote", "unlink", "stage"}
          /\ pc'[p] \in {"unlink", "stage", "running"}
      BY <2>4 DEF Promote, Unlink, BeginStage, past
    <3> QED BY <1>4, <2>1, <2>2, <3>1 DEF Honest, NotYetHardened
  <2>5. CASE CommitAll(p) \/ Teardown(p)
    <3>1. /\ UNCHANGED <<job, hollow>>
          /\ pc[p] \in {"commit", "teardown"} /\ pc'[p] \in {"teardown", "record"}
          /\ ok'[p] => ok[p]
      BY <2>5 DEF CommitAll, Teardown, past
    <3> QED BY <1>3, <2>1, <2>2, <3>1 DEF Honest, OkIsAccounted
  <2>6. CASE RecordAttempt(p)
    <3>1. /\ pc'[p] \in {"untrack", "idle"}
          /\ ok[p] /\ code[job[p]] # "full" => hollow' = hollow \cup {job[p]}
          /\ ~(ok[p] /\ code[job[p]] # "full") => hollow' = hollow
          /\ UNCHANGED <<cutShort, discarded>> /\ pc[p] = "record"
      BY <2>6 DEF RecordAttempt
    <3> QED BY <2>2, <3>1 DEF Honest, OkIsAccounted, Accounted
  <2>7. CASE HeartbeatAges(p)
    <3>1. UNCHANGED <<job, at, ok, pc, hollow>>
      BY <2>7 DEF HeartbeatAges, locals, past
    <3> QED BY <1>3, <1>4, <2>1, <2>2, <3>1 DEF Honest, NotYetHardened, OkIsAccounted
  <2>8. CASE Start(p) \/ Prune(p) \/ Hygiene(p) \/ Pick(p) \/ Gate(p) \/ Setup(p)
               \/ PromoteRaises(p) \/ Untrack(p) \/ Crash(p)
    <3>1. /\ pc'[p] \in {"idle", "prune", "hygiene", "pick", "gate", "setup", "lock"}
          /\ UNCHANGED hollow
      <4>1. CASE Setup(p)
        <5>1. Goto(p, "lock") \/ Goto(p, "idle")
          BY <4>1, Zenon DEF Setup
        <5> QED BY <4>1, <5>1 DEF Setup, past
      <4>2. CASE Pick(p) \/ Gate(p)
        BY <4>2 DEF Pick, Gate, past
      <4> QED BY <2>8, <4>1, <4>2
           DEF Start, Prune, Hygiene, PromoteRaises, Untrack, Crash, past
    <3> QED BY <2>2, <3>1
  <2> QED BY <1>2, <1>6, <2>3, <2>4, <2>5, <2>6, <2>7, <2>8 DEF Run
<1>7. ASSUME NEW p \in Invocation, Start(p) \/ Run(p) \/ Crash(p) \/ HeartbeatAges(p)
      PROVE  NotYetHardened' /\ OkIsAccounted' /\ OkWithoutWorkOnlyAfterInterference'
  BY <1>6, <1>7 DEF Alone, NotYetHardened, OkIsAccounted, OkWithoutWorkOnlyAfterInterference,
                    Accounted
<1>8. ASSUME UNCHANGED <<locals, hollow>>
      PROVE  NotYetHardened' /\ OkIsAccounted' /\ OkWithoutWorkOnlyAfterInterference'
  <2>1. OkWithoutWorkOnlyAfterInterference'
    BY <1>8, PastStays DEF Honest, OkWithoutWorkOnlyAfterInterference
  <2>2. NotYetHardened'
    BY <1>4, <1>8 DEF Honest, NotYetHardened, locals
  <2>3. OkIsAccounted'
    BY <1>3, <1>8 DEF Honest, OkIsAccounted, Accounted, locals
  <2> QED BY <2>1, <2>2, <2>3
<1>9. ASSUME NEW t \in Ticket, Operator(t) PROVE UNCHANGED <<locals, hollow>>
  BY <1>9, OperatorApart
<1>10. CASE UNCHANGED vars
  BY <1>10, <1>5, <1>8 DEF vars, past, Honest
<1> QED BY <1>5, <1>7, <1>8, <1>9, <1>10 DEF Next, Honest

(* As long as invocations do not overlap, a run that ends "ok" leaves the  *)
(* whole change on its branch, or an executor had been killed midway, or a *)
(* command had deleted the branch: crashes, failures, resumes and reused   *)
(* worktrees alone never make an "ok" hollow (get_resume_stage,            *)
(* git_worktree_reuse).                                                    *)
THEOREM OkMeansWork == ASSUME Alone PROVE Spec => []OkWithoutWorkOnlyAfterInterference
<1>1. Init => DoomedIsBare /\ Honest
  BY DEF Init, DoomedIsBare, Honest, CompletedIsAccounted, HardenedWasExecuted, NotYetHardened,
         OkIsAccounted, OkWithoutWorkOnlyAfterInterference, NoArtifacts
<1>2. Honest => OkWithoutWorkOnlyAfterInterference
  BY DEF Honest
<1>3. Spec => [](TypeInv /\ DoomedIsBare /\ Honest)
  BY <1>1, TypeInit, TypeNext, BareNext, HonestNext, PTL DEF Spec
<1> QED BY <1>2, <1>3, PTL

-----------------------------------------------------------------------------
(* The budget.                                                             *)

(* Until a run records its attempt, its ticket's tracker is as it was read *)
(* at the gate; what it has used exceeds the cap by one stage at most, and *)
(* only once it is over.                                                   *)
SpendWithinCap ==
  \A p \in Invocation : pc[p] \in Spending =>
    /\ prior[p] = tracker[job[p]].tokens
    /\ used[p] <= TokenCap + MaxCost
    /\ pc[p] \notin {"commit", "teardown", "record"} => used[p] <= TokenCap

TokensWithinCap == \A t \in Ticket : tracker[t].tokens <= TokenCap + MaxCost

(* A stage starts below the cap, so it ends at most one stage's cost above it. *)
LEMMA SpendNext ==
  ASSUME Alone, MaxCost \in Cost, \A c \in Cost : c <= MaxCost,
         TypeInv, SpendWithinCap, TokensWithinCap, [Next]_vars
  PROVE  SpendWithinCap' /\ TokensWithinCap'
<1> USE DEF TypeInv, TypeOK, Goto
<1>1. TokenCap \in Nat /\ MaxCost \in Nat
  BY DetachedAssumption
<1>2. \A t \in Ticket : tracker[t].tokens \in Nat
  BY DEF Tracker
<1>3. SUFFICES ASSUME NEW p \in Invocation,
                      Start(p) \/ Run(p) \/ Crash(p) \/ HeartbeatAges(p)
               PROVE  /\ pc'[p] \in Spending =>
                           /\ prior'[p] = tracker'[job'[p]].tokens
                           /\ used'[p] <= TokenCap + MaxCost
                           /\ pc'[p] \notin {"commit", "teardown", "record"}
                                => used'[p] <= TokenCap
                      /\ TokensWithinCap'
  <2>1. CASE UNCHANGED vars
    BY <2>1 DEF SpendWithinCap, TokensWithinCap, vars, disk, locals
  <2>2. ASSUME NEW t \in Ticket, Operator(t) PROVE SpendWithinCap' /\ TokensWithinCap'
    BY <2>2, OperatorApart DEF SpendWithinCap, TokensWithinCap, locals
  <2>3. ASSUME NEW p \in Invocation, Start(p) \/ Run(p) \/ Crash(p) \/ HeartbeatAges(p)
        PROVE  SpendWithinCap' /\ TokensWithinCap'
    BY <1>3, <2>3 DEF Alone, SpendWithinCap, Spending
  <2> QED BY <2>1, <2>2, <2>3 DEF Next
<1>4. job[p] \in Ticket /\ used[p] \in Nat /\ prior[p] \in Nat
  OBVIOUS
<1>5. CASE Gate(p)
  <2>1. /\ UNCHANGED <<tracker, job>>
        /\ prior'[p] = tracker[job[p]].tokens /\ used'[p] = tracker[job[p]].tokens
    BY <1>5 DEF Gate, disk
  <2>2. pc'[p] \in Spending => tracker[job[p]].tokens < TokenCap
    BY <1>5 DEF Gate, Spending, Admitted
  <2> QED BY <1>1, <1>2, <1>4, <2>1, <2>2 DEF TokensWithinCap
<1>6. CASE Setup(p)
  <2>1. UNCHANGED <<job, prior, used>> /\ pc[p] = "setup"
    BY <1>6 DEF Setup
  <2>2. CASE Goto(p, "lock") /\ UNCHANGED tracker
    BY <2>1, <2>2 DEF SpendWithinCap, TokensWithinCap, Spending
  <2>3. CASE /\ Goto(p, "idle")
             /\ tracker' = [tracker EXCEPT ![job[p]] = Recorded(job[p], 0, FALSE)]
    <3>1. \A t \in Ticket : tracker'[t].tokens = tracker[t].tokens
      BY <1>2, <1>4, <2>3 DEF Recorded
    <3> QED BY <2>3, <3>1 DEF TokensWithinCap, Spending
  <2>4. \/ Goto(p, "lock") /\ UNCHANGED tracker
        \/ /\ Goto(p, "idle")
           /\ tracker' = [tracker EXCEPT ![job[p]] = Recorded(job[p], 0, FALSE)]
    BY <1>6, Zenon DEF Setup
  <2> QED BY <2>2, <2>3, <2>4
<1>7. CASE EndStage(p)
  <2>1. UNCHANGED <<job, tracker, prior>> /\ pc[p] = "running"
    BY <1>7 DEF EndStage
  <2>2. PICK cost \in Cost \cup {0}, succeeded \in BOOLEAN : AfterStage(p, succeeded, cost)
    BY <1>7 DEF EndStage
  <2>3. PICK goesOn \in BOOLEAN :
          /\ used' = [used EXCEPT ![p] = used[p] + cost]
          /\ goesOn => used[p] + cost <= TokenCap
          /\ pc' = [pc EXCEPT ![p] = IF goesOn /\ at[p] < 6 THEN "stage" ELSE "commit"]
    BY <2>2, Zenon DEF AfterStage
  <2>4. cost \in Nat /\ cost <= MaxCost
    BY <1>1, DetachedAssumption
  <2>5. prior[p] = tracker[job[p]].tokens /\ used[p] <= TokenCap
    BY <2>1 DEF SpendWithinCap, Spending
  <2> QED BY <1>1, <1>4, <2>1, <2>3, <2>4, <2>5 DEF TokensWithinCap, Spending
<1>8. CASE RecordAttempt(p)
  <2>1. /\ pc[p] = "record" /\ pc'[p] \notin Spending
        /\ tracker' = [tracker EXCEPT ![job[p]] =
                        Recorded(job[p], used[p] - prior[p], ok[p])]
    BY <1>8 DEF RecordAttempt, Spending
  <2>2. prior[p] = tracker[job[p]].tokens /\ used[p] <= TokenCap + MaxCost
    BY <2>1 DEF SpendWithinCap, Spending
  <2>3. tracker'[job[p]].tokens = used[p]
    BY <1>2, <1>4, <2>1, <2>2 DEF Recorded
  <2>4. \A t \in Ticket : t # job[p] => tracker'[t] = tracker[t]
    BY <2>1
  <2> QED BY <2>1, <2>2, <2>3, <2>4 DEF TokensWithinCap
<1>9. CASE Untrack(p)
  <2>1. pc'[p] \notin Spending
    BY <1>9 DEF Untrack, Spending
  <2>2. \A t \in Ticket : tracker'[t] = tracker[t] \/ tracker'[t].tokens = 0
    BY <1>9 DEF Untrack, NoRuns
  <2> QED BY <1>1, <2>1, <2>2 DEF TokensWithinCap
<1>10. CASE Start(p) \/ Prune(p) \/ Hygiene(p) \/ PromoteRaises(p) \/ Crash(p)
  <2>1. pc'[p] \notin Spending /\ UNCHANGED tracker
    BY <1>10 DEF Start, Prune, Hygiene, PromoteRaises, Crash, disk, Spending
  <2> QED BY <2>1 DEF TokensWithinCap
<1>11. CASE Pick(p)
  <2>1. pc'[p] \notin Spending /\ UNCHANGED tracker
    BY <1>11 DEF Pick, disk, Spending
  <2> QED BY <2>1 DEF TokensWithinCap
<1>12. CASE WriteLock(p) \/ Promote(p) \/ Unlink(p) \/ BeginStage(p)
  <2>1. /\ UNCHANGED <<tracker, job, prior, used>>
        /\ pc[p] \in {"lock", "promote", "unlink", "stage"}
    BY <1>12 DEF WriteLock, Promote, Unlink, BeginStage
  <2> QED BY <2>1 DEF SpendWithinCap, TokensWithinCap, Spending
<1>13. CASE CommitAll(p) \/ Teardown(p)
  <2>1. /\ UNCHANGED <<tracker, job, prior, used>> /\ pc[p] \in {"commit", "teardown"}
        /\ pc'[p] \in {"teardown", "record"}
    BY <1>13 DEF CommitAll, Teardown
  <2> QED BY <2>1 DEF SpendWithinCap, TokensWithinCap, Spending
<1>14. CASE HeartbeatAges(p)
  BY <1>14 DEF HeartbeatAges, locals, SpendWithinCap, TokensWithinCap
<1> QED BY <1>3, <1>5, <1>6, <1>7, <1>8, <1>9, <1>10, <1>11, <1>12, <1>13, <1>14 DEF Run

(* As long as invocations do not overlap, no ticket is attempted more than *)
(* max_restarts times, and its recorded spend exceeds the cap by what one  *)
(* stage can use at most, over any number of nights                        *)
(* (_detached_tracker_gate, _detached_stage_loop, record_attempt).         *)
THEOREM BudgetsHold ==
  ASSUME Alone, \E c \in Cost : \A d \in Cost : d <= c
  PROVE  Spec => []RestartsAndTokensBounded
<1>1. MaxCost \in Cost /\ \A c \in Cost : c <= MaxCost
  BY DEF MaxCost
<1>2. TokenCap \in Nat /\ MaxCost \in Nat /\ MaxRestarts \in Nat
  BY <1>1, DetachedAssumption
<1>3. Init => SpendWithinCap /\ TokensWithinCap
  BY <1>2 DEF Init, SpendWithinCap, TokensWithinCap, Spending, NoRuns
<1>4. Cardinality(Invocation) \in {0, 1}
  <2>1. CASE Invocation = {}
    BY <2>1, FS_EmptySet
  <2>2. CASE Invocation # {}
    <3>1. PICK p \in Invocation : Invocation = {p}
      BY <2>2 DEF Alone
    <3> QED BY <3>1, FS_Singleton
  <2> QED BY <2>1, <2>2
<1>5. TypeInv /\ OvershootBounded /\ TokensWithinCap => RestartsAndTokensBounded
  <2> SUFFICES ASSUME TypeInv, OvershootBounded, TokensWithinCap, NEW t \in Ticket
               PROVE  /\ tracker[t].attempts <= MaxRestarts
                      /\ tracker[t].tokens <= TokenCap + MaxCost
    BY DEF RestartsAndTokensBounded
  <2>1. tracker[t].attempts \in Nat /\ tracker[t].attempts < MaxRestarts + Cardinality(Invocation)
    BY DEF TypeInv, TypeOK, Tracker, OvershootBounded
  <2> QED BY <1>2, <1>4, <2>1 DEF TokensWithinCap
<1>6. Spec => [](TypeInv /\ SpendWithinCap /\ TokensWithinCap)
  <2>1. TypeInv /\ SpendWithinCap /\ TokensWithinCap /\ [Next]_vars
          => SpendWithinCap' /\ TokensWithinCap'
    BY <1>1, SpendNext
  <2> QED BY <1>3, <2>1, TypeInit, TypeNext, PTL DEF Spec
<1> QED BY <1>5, <1>6, OvershootIsBounded, PTL
=============================================================================
