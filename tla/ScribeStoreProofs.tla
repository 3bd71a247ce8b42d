--------------------------- MODULE ScribeStoreProofs ---------------------------
(***************************************************************************)
(* What the note store keeps, for every number of commands and of notes:   *)
(* its locks exclude, numbers are issued once, and every step is a step of *)
(* NoteShelf or leaves the notes where they are.                           *)
(***************************************************************************)
EXTENDS ScribeStore, FiniteSetTheorems, WellFoundedInduction, TLAPS

(* A step of process p. *)
Begin(p) ==
  \/ Add(p)
  \/ \E s \in Ids : Update(p, s) \/ Archive(p, s) \/ Unarchive(p, s) \/ Remove(p, s)
  \/ \E c \in Command : Maintain(p, c)
Step(p) == Begin(p) \/ Proceed(p) \/ Kill(p)

(* Every step is a process's. *)
LEMMA NextIsAStep == Next <=> \E p \in Procs : Step(p)
BY DEF Next, Step, Begin

(* Where a command works with a number, it is a note's.                    *)
Numbered == {"counting", "body", "row", "lookup", "rewrite", "lock1", "lock2", "dstrow",
             "mvbody", "srcrow", "unlink"}

Stations ==
  \A p \in Procs : /\ cmd[p].pc \in Numbered => cmd[p].seq \in Ids
                   /\ cmd[p].pc = "mkcounter" => cmd[p].seq \in 1..(MaxSeq + 1)

TypeInv == TypeOK /\ Stations

-----------------------------------------------------------------------------
(* Numbers.                                                                *)

(* _rebuild_next_seq and _repair_next_seq take the highest number listed.  *)
LEMMA Highest ==
  ASSUME NEW S \in SUBSET Ids
  PROVE  \E n \in 0..MaxSeq : (\A s \in S : s <= n) /\ (n = 0 \/ n \in S)
<1>1. CASE S = {}
  BY <1>1, ScribeAssumption
<1>2. CASE S # {}
  <2> DEFINE T == {n \in 0..MaxSeq : MaxSeq - n \in S}
  <2>1. \A s \in S : MaxSeq - s \in T
    BY ScribeAssumption DEF Ids
  <2>2. T \subseteq Nat /\ T # {}
    BY <1>2, <2>1, ScribeAssumption
  <2> HIDE DEF T
  <2>3. PICK t \in T : \A u \in T : <<u, t>> \notin OpToRel(<, Nat)
    BY <2>2, WFMin, NatLessThanWellFounded
  <2>4. ASSUME NEW u \in T, u < t PROVE FALSE
    <3>1. <<u, t>> \in Nat \X Nat /\ <<u, t>>[1] < <<u, t>>[2]
      BY <2>2, <2>4
    <3>2. <<u, t>> \in OpToRel(<, Nat)
      BY <3>1 DEF OpToRel
    <3> QED BY <2>3, <3>2
  <2>5. t \in 0..MaxSeq /\ MaxSeq - t \in S
    BY DEF T
  <2>6. ASSUME NEW s \in S PROVE s <= MaxSeq - t
    BY <2>1, <2>2, <2>4, <2>5, ScribeAssumption DEF Ids
  <2> QED BY <2>5, <2>6, ScribeAssumption
<1> QED BY <1>1, <1>2

(* The highest listed number is a number, and no row is above it. *)
LEMMA MaxListedIs ==
  /\ MaxListed \in 0..MaxSeq
  /\ \A s \in Ids, d \in Dir : Rows(d, s) > 0 => s <= MaxListed
<1> DEFINE S == {s \in Ids : \E d \in Dir : Rows(d, s) > 0}
<1>1. PICK n \in 0..MaxSeq : (\A s \in S : s <= n) /\ (n = 0 \/ n \in S)
  BY Highest
<1>2. /\ n \in {0} \union Ids
      /\ \A s \in Ids, d \in Dir : Rows(d, s) > 0 => s <= n
      /\ n = 0 \/ \E d \in Dir : Rows(d, n) > 0
  BY <1>1, ScribeAssumption DEF Ids
<1>3. /\ MaxListed \in {0} \union Ids
      /\ \A s \in Ids, d \in Dir : Rows(d, s) > 0 => s <= MaxListed
  BY <1>2 DEF MaxListed
<1> QED BY <1>3, ScribeAssumption DEF Ids

-----------------------------------------------------------------------------
(* Type correctness.                                                       *)

(* A command's step changes some of what it is doing. *)
LEMMA DoingType ==
  ASSUME NEW c \in Doing, NEW x \in Places
  PROVE  /\ [c EXCEPT !.pc = x] \in Doing
         /\ \A n \in 0..(MaxSeq + 1) : [c EXCEPT !.pc = x, !.seq = n] \in Doing
         /\ \A v \in [Ids -> Nat] : [c EXCEPT !.pc = x, !.seen = v] \in Doing
         /\ \A b \in SUBSET Ids : [c EXCEPT !.pc = x, !.found = b] \in Doing
         /\ \A d \in Dir : [c EXCEPT !.dir = d] \in Doing
         /\ \A k \in Command, n \in 0..(MaxSeq + 1), d \in Dir :
              [c EXCEPT !.pc = x, !.does = k, !.seq = n, !.dir = d] \in Doing
BY DEF Doing

(* Between two commands, and where one begins, a process is typed. *)
LEMMA IdleType ==
  ASSUME NEW k \in Command \union {"none"}, NEW x \in Places
  PROVE  /\ Idle \in Doing
         /\ [Idle EXCEPT !.pc = x, !.does = k] \in Doing
         /\ \A d \in Dir : [Idle EXCEPT !.pc = x, !.dir = d, !.does = k] \in Doing
<1>1. Empty \in [Ids -> Nat] /\ {} \in SUBSET Ids /\ 0 \in 0..(MaxSeq + 1)
  BY ScribeAssumption DEF Empty
<1>2. "idle" \in Places /\ "active" \in Dir /\ "none" \in Command \union {"none"}
  BY DEF Places, Dir
<1>3. Idle \in Doing
  BY <1>1, <1>2 DEF Idle, Doing
<1> QED BY <1>3 DEF Doing

(* Whatever a process does, it alone does something else afterwards.       *)
LEMMA OneMoves ==
  ASSUME TypeInv, NEW p \in Procs, Step(p)
  PROVE  \E doing \in Doing : Becomes(p, doing)
<1>1. /\ cmd[p] \in Doing /\ cmd[p].does \in Command \union {"none"}
      /\ cmd[p].dir \in Dir /\ cmd[p].seq \in 0..(MaxSeq + 1)
  BY DEF TypeInv, TypeOK, Doing
<1>2. \A d \in Dir : index[d] \in [Ids -> Nat] /\ bodies[d] \in SUBSET Ids
  BY DEF TypeInv, TypeOK
<1>3. Ids \subseteq 0..(MaxSeq + 1) /\ {"active", "archive"} \subseteq Dir
  BY ScribeAssumption DEF Ids, Dir
<1>4. \A x \in Places : Goto(p, x) => \E doing \in Doing : Becomes(p, doing)
  BY <1>1, DoingType DEF Goto
<1>5. \A x \in {"done", "killed"} : Exit(p, x) => \E doing \in Doing : Becomes(p, doing)
  BY <1>1, IdleType DEF Exit, Places, Ended
<1>6. \A x \in Places, k \in Command, n \in 0..(MaxSeq + 1), d \in Dir :
        Start(p, k, x, n, d) => \E doing \in Doing : Becomes(p, doing)
  BY <1>1, DoingType DEF Start
<1>7. CASE Add(p)
  <2>1. MaxListed + 1 \in 0..(MaxSeq + 1)
    BY MaxListedIs, ScribeAssumption
  <2> QED BY <1>3, <1>6, <1>7, <2>1, ScribeAssumption DEF Add, Places, Command
<1>8. ASSUME NEW s \in Ids, Update(p, s) \/ Archive(p, s) \/ Unarchive(p, s) \/ Remove(p, s)
      PROVE  \E doing \in Doing : Becomes(p, doing)
  BY <1>3, <1>6, <1>8 DEF Update, Archive, Unarchive, Remove, Places, Command
<1>9. ASSUME NEW c \in Command, Maintain(p, c) PROVE \E doing \in Doing : Becomes(p, doing)
  BY <1>3, <1>6, <1>9, ScribeAssumption DEF Maintain, Places
<1>10. CASE WriteCounter(p) \/ WriteNext(p) \/ WriteBody(p) \/ Lock1(p) \/ DestinationRow(p)
              \/ MoveBody(p)
  BY <1>4, <1>10 DEF WriteCounter, WriteNext, WriteBody, Lock1, DestinationRow, MoveBody, Places
<1>11. CASE AppendRow(p) \/ Rewrite(p) \/ NothingToMove(p) \/ SourceRow(p) \/ Unlink(p) \/ Kill(p)
  BY <1>5, <1>11 DEF AppendRow, Rewrite, NothingToMove, SourceRow, Unlink, Kill
<1>12. CASE ReadCounter(p)
  BY <1>1, <1>3, <1>12, DoingType DEF ReadCounter, Places
<1>13. CASE LookUp(p)
  BY <1>1, <1>2, <1>13, DoingType DEF LookUp, Places
<1>14. CASE LookUpMisses(p)
  BY <1>1, <1>3, <1>5, <1>14, DoingType DEF LookUpMisses, Places
<1>15. CASE Lock2(p)
  BY <1>1, <1>2, <1>15, DoingType DEF Lock2, Places
<1>16. CASE MaintenanceRead(p)
  BY <1>1, <1>2, <1>16, DoingType DEF MaintenanceRead, Places
<1>17. CASE RepairScan(p)
  BY <1>1, <1>2, <1>17, DoingType DEF RepairScan, Places
<1>18. CASE RepairWrite(p)
  <2>1. Kept(p) \in [Ids -> Nat]
    BY <1>1 DEF Kept, Doing
  <2> QED BY <1>1, <1>5, <1>18, <2>1, DoingType DEF RepairWrite, Repaired, Places
<1>19. CASE RepairCounter(p) \/ BackfillWrite(p)
  BY <1>1, <1>3, <1>5, <1>19, IdleType DEF RepairCounter, BackfillWrite, NextFolder, Places
<1> QED BY <1>7, <1>8, <1>9, <1>10, <1>11, <1>12, <1>13, <1>14, <1>15, <1>16, <1>17, <1>18, <1>19
        DEF Step, Begin, Proceed

(* What a step leaves of what the process was doing, and of the others.    *)
LEMMA Effects ==
  ASSUME TypeInv, NEW p \in Procs
  PROVE  /\ \A doing : Becomes(p, doing) =>
              cmd'[p] = doing /\ \A q \in Procs : q # p => cmd'[q] = cmd[q]
         /\ \A x : Goto(p, x) =>
              /\ cmd'[p].pc = x /\ cmd'[p].does = cmd[p].does /\ cmd'[p].seq = cmd[p].seq
              /\ cmd'[p].dir = cmd[p].dir /\ cmd'[p].seen = cmd[p].seen
              /\ \A q \in Procs : q # p => cmd'[q] = cmd[q]
         /\ \A x : Exit(p, x) =>
              /\ cmd'[p].pc = x /\ cmd'[p].does = cmd[p].does
              /\ \A q \in Procs : q # p => cmd'[q] = cmd[q]
         /\ \A c, x, s, d : Start(p, c, x, s, d) =>
              /\ cmd'[p].pc = x /\ cmd'[p].does = c /\ cmd'[p].seq = s /\ cmd'[p].dir = d
              /\ \A q \in Procs : q # p => cmd'[q] = cmd[q]
<1>1. cmd[p] \in Doing /\ Idle \in Doing /\ cmd \in [Procs -> Doing]
      /\ cmd[p].does \in Command \union {"none"}
  BY IdleType DEF TypeInv, TypeOK, Doing, Places, Command
<1>2. \A doing : Becomes(p, doing) =>
        cmd'[p] = doing /\ \A q \in Procs : q # p => cmd'[q] = cmd[q]
  BY <1>1 DEF Becomes
<1>3. \A x : /\ [cmd[p] EXCEPT !.pc = x].pc = x
             /\ [cmd[p] EXCEPT !.pc = x].does = cmd[p].does
             /\ [cmd[p] EXCEPT !.pc = x].seq = cmd[p].seq
             /\ [cmd[p] EXCEPT !.pc = x].dir = cmd[p].dir
             /\ [cmd[p] EXCEPT !.pc = x].seen = cmd[p].seen
             /\ [Idle EXCEPT !.pc = x, !.does = cmd[p].does].pc = x
             /\ [Idle EXCEPT !.pc = x, !.does = cmd[p].does].does = cmd[p].does
  BY <1>1 DEF Doing
<1>4. \A c, x, s, d :
        LET new == [cmd[p] EXCEPT !.pc = x, !.does = c, !.seq = s, !.dir = d]
        IN  new.pc = x /\ new.does = c /\ new.seq = s /\ new.dir = d
  BY <1>1 DEF Doing
<1>5. \A x : Goto(p, x) =>
        /\ cmd'[p].pc = x /\ cmd'[p].does = cmd[p].does /\ cmd'[p].seq = cmd[p].seq
        /\ cmd'[p].dir = cmd[p].dir /\ cmd'[p].seen = cmd[p].seen
        /\ \A q \in Procs : q # p => cmd'[q] = cmd[q]
  <2> SUFFICES ASSUME NEW x, cmd'[p] = [cmd[p] EXCEPT !.pc = x],
                      \A q \in Procs : q # p => cmd'[q] = cmd[q]
               PROVE  /\ cmd'[p].pc = x /\ cmd'[p].does = cmd[p].does /\ cmd'[p].seq = cmd[p].seq
                      /\ cmd'[p].dir = cmd[p].dir /\ cmd'[p].seen = cmd[p].seen
                      /\ \A q \in Procs : q # p => cmd'[q] = cmd[q]
    BY <1>2 DEF Goto
  <2> QED BY <1>3
<1>6. \A x : Exit(p, x) =>
        /\ cmd'[p].pc = x /\ cmd'[p].does = cmd[p].does
        /\ \A q \in Procs : q # p => cmd'[q] = cmd[q]
  <2> SUFFICES ASSUME NEW x, cmd'[p] = [Idle EXCEPT !.pc = x, !.does = cmd[p].does],
                      \A q \in Procs : q # p => cmd'[q] = cmd[q]
               PROVE  /\ cmd'[p].pc = x /\ cmd'[p].does = cmd[p].does
                      /\ \A q \in Procs : q # p => cmd'[q] = cmd[q]
    BY <1>2 DEF Exit
  <2> QED BY <1>3
<1>7. \A c, x, s, d : Start(p, c, x, s, d) =>
        /\ cmd'[p].pc = x /\ cmd'[p].does = c /\ cmd'[p].seq = s /\ cmd'[p].dir = d
        /\ \A q \in Procs : q # p => cmd'[q] = cmd[q]
  <2> TAKE c, x, s, d
  <2> HAVE Start(p, c, x, s, d)
  <2>1. Becomes(p, [cmd[p] EXCEPT !.pc = x, !.does = c, !.seq = s, !.dir = d])
    BY DEF Start
  <2>2. /\ cmd'[p] = [cmd[p] EXCEPT !.pc = x, !.does = c, !.seq = s, !.dir = d]
        /\ \A q \in Procs : q # p => cmd'[q] = cmd[q]
    BY <1>2, <2>1
  <2> QED BY <1>4, <2>2
<1> QED BY <1>2, <1>5, <1>6, <1>7

(* _repair_next_seq finds a number past what is listed. *)
LEMMA CounterIsRepaired ==
  ASSUME TypeInv, NEW p \in Procs, RepairCounter(p)
  PROVE  counter' \in 1..(MaxSeq + 1)
<1> DEFINE listed == {s \in Ids : cmd[p].seen[s] > 0 \/ Rows("archive", s) > 0}
           Past(n) == (\A s \in listed : s < n) /\ (n = 1 \/ n - 1 \in listed)
<1>1. PICK n \in 0..MaxSeq : (\A s \in listed : s <= n) /\ (n = 0 \/ n \in listed)
  BY Highest
<1>2. n + 1 \in 1..(MaxSeq + 1) /\ n + 1 - 1 = n /\ (n = 0 => n + 1 = 1)
  BY <1>1, ScribeAssumption
<1>3. \A s \in listed : s < n + 1
  BY <1>1, ScribeAssumption DEF Ids
<1>4. Past(n + 1)
  BY <1>1, <1>2, <1>3
<1>5. counter' = CHOOSE m \in 1..(MaxSeq + 1) : Past(m)
  BY DEF RepairCounter
<1> HIDE DEF Past
<1> QED BY <1>2, <1>4, <1>5

(* One folder's index, or one row of it, is replaced. *)
LEMMA IndexType ==
  ASSUME NEW v \in [Dir -> [Ids -> Nat]], NEW d \in Dir
  PROVE  /\ \A r \in [Ids -> Nat] : [v EXCEPT ![d] = r] \in [Dir -> [Ids -> Nat]]
         /\ \A s \in Ids : [v EXCEPT ![d][s] = @ + 1] \in [Dir -> [Ids -> Nat]]
         /\ \A s \in Ids : v[d][s] > 0 => [v EXCEPT ![d][s] = @ - 1] \in [Dir -> [Ids -> Nat]]
OBVIOUS

(* The archive is the other folder, and the other way round. *)
LEMMA OtherIs ==
  /\ Other("active") = "archive" /\ Other("archive") = "active"
  /\ \A d \in Dir : Other(d) \in Dir /\ Other(d) # d
<1>1. \A d \in Dir : \E e \in Dir : e # d
  BY DEF Dir
<1>2. \A d \in Dir : Other(d) \in Dir /\ Other(d) # d
  BY <1>1 DEF Other
<1> QED BY <1>2 DEF Dir

(* Every step leaves the files, the locks and the history well typed.      *)
LEMMA FilesType ==
  ASSUME TypeInv, NEW p \in Procs, Step(p)
  PROVE  /\ index' \in [Dir -> [Ids -> Nat]] /\ bodies' \in [Dir -> SUBSET Ids]
         /\ counter' \in 0..(MaxSeq + 1) /\ removed' \subseteq Ids
         /\ seqLock' \in Procs \union {NoOne} /\ idxLock' \in [Dir -> Procs \union {NoOne}]
<1>1. /\ cmd[p].dir \in Dir /\ cmd[p].seen \in [Ids -> Nat]
      /\ {"active", "archive"} \subseteq Dir /\ Other(cmd[p].dir) \in Dir
      /\ Ids \subseteq 1..(MaxSeq + 1) /\ 1..(MaxSeq + 1) \subseteq 0..(MaxSeq + 1)
  BY SMTT(40), ScribeAssumption, OtherIs DEF TypeInv, TypeOK, Doing, Dir, Ids
<1>2. TypeOK
  BY DEF TypeInv
<1>3. index \in [Dir -> [Ids -> Nat]]
  BY <1>2 DEF TypeOK
<1>4. Unlocked(p) \in [Dir -> Procs \union {NoOne}]
  BY <1>2 DEF TypeOK, Unlocked
<1>5. CASE Add(p) \/ (\E s \in Ids : Update(p, s) \/ Archive(p, s) \/ Unarchive(p, s))
             \/ (\E c \in Command : Maintain(p, c))
  BY <1>2, <1>5 DEF Add, Update, Archive, Unarchive, Maintain, TypeOK, files, locks
<1>6. CASE \E s \in Ids : Remove(p, s)
  <2>1. PICK s \in Ids : Remove(p, s)
    BY <1>6
  <2>2. index' \in [Dir -> [Ids -> Nat]]
    BY <1>1, <1>2, <2>1, IndexType DEF Remove, TypeOK, Rows
  <2>3. removed' \subseteq Ids
    BY <1>2, <2>1 DEF Remove, TypeOK
  <2> QED BY <1>2, <2>1, <2>2, <2>3 DEF Remove, TypeOK, locks
<1>7. CASE WriteCounter(p)
  BY <1>1, <1>2, <1>7 DEF WriteCounter, At, Stations, TypeInv, TypeOK, locks
<1>8. CASE ReadCounter(p)
  BY <1>2, <1>8 DEF ReadCounter, TypeOK, files
<1>9. CASE WriteNext(p)
  <2>1. cmd[p].seq \in Ids
    BY <1>9 DEF WriteNext, At, TypeInv, Stations, Numbered
  <2>2. cmd[p].seq + 1 \in 0..(MaxSeq + 1)
    BY <2>1, ScribeAssumption DEF Ids
  <2> QED BY <1>2, <1>9, <2>2 DEF WriteNext, TypeOK
<1>10. CASE WriteBody(p) \/ MoveBody(p) \/ Unlink(p)
  <2>1. cmd[p].seq \in Ids
    BY <1>10 DEF WriteBody, MoveBody, Unlink, At, TypeInv, Stations, Numbered
  <2>2. bodies' \in [Dir -> SUBSET Ids]
    BY <1>1, <1>2, <1>10, <2>1 DEF WriteBody, MoveBody, Unlink, TypeOK
  <2> QED BY <1>2, <1>10, <2>2 DEF WriteBody, MoveBody, Unlink, TypeOK, locks
<1>11. CASE AppendRow(p) \/ DestinationRow(p)
  <2>1. cmd[p].seq \in Ids
    BY <1>11 DEF AppendRow, DestinationRow, At, TypeInv, Stations, Numbered
  <2>2. index' \in [Dir -> [Ids -> Nat]]
    <3>1. CASE AppendRow(p)
      BY <1>1, <1>3, <2>1, <3>1, IndexType DEF AppendRow
    <3>2. CASE DestinationRow(p)
      BY <1>1, <1>3, <2>1, <3>2, IndexType DEF DestinationRow
    <3> QED BY <1>11, <3>1, <3>2
  <2> QED BY <1>2, <1>11, <2>2 DEF AppendRow, DestinationRow, TypeOK, locks
<1>12. CASE LookUp(p)
  <2>1. cmd[p].seq \in Ids
    BY <1>12 DEF LookUp, At, TypeInv, Stations, Numbered
  <2>2. bodies' \in [Dir -> SUBSET Ids] /\ idxLock' \in [Dir -> Procs \union {NoOne}]
    BY <1>1, <1>2, <1>12, <2>1 DEF LookUp, TypeOK
  <2> QED BY <1>2, <1>12, <2>2 DEF LookUp, TypeOK
<1>13. CASE LookUpMisses(p) \/ MaintenanceRead(p) \/ RepairScan(p)
  BY <1>2, <1>13 DEF LookUpMisses, MaintenanceRead, RepairScan, TypeOK, files, locks
<1>14. CASE Rewrite(p) \/ SourceRow(p)
  <2>1. [cmd[p].seen EXCEPT ![cmd[p].seq] = 0] \in [Ids -> Nat]
    BY <1>1
  <2>2. index' \in [Dir -> [Ids -> Nat]]
    <3>1. CASE Rewrite(p)
      BY <1>1, <1>3, <3>1, IndexType DEF Rewrite
    <3>2. CASE SourceRow(p)
      BY <1>1, <1>3, <2>1, <3>2, IndexType DEF SourceRow
    <3> QED BY <1>14, <3>1, <3>2
  <2>3. idxLock' \in [Dir -> Procs \union {NoOne}]
    BY <1>1, <1>2, <1>4, <1>14 DEF Rewrite, SourceRow, TypeOK
  <2> QED BY <1>2, <1>14, <2>2, <2>3 DEF Rewrite, SourceRow, TypeOK
<1>15. CASE Lock1(p) \/ Lock2(p) \/ NothingToMove(p) \/ Kill(p)
  <2>1. idxLock' \in [Dir -> Procs \union {NoOne}]
    BY <1>1, <1>2, <1>4, <1>15, OtherIs
    DEF Lock1, Lock2, NothingToMove, Kill, FirstLock, TypeOK
  <2> QED BY <1>2, <1>15, <2>1 DEF Lock1, Lock2, NothingToMove, Kill, TypeOK, files
<1>16. CASE RepairWrite(p)
  <2>1. Kept(p) \in [Ids -> Nat]
    BY <1>1 DEF Kept
  <2>2. index' \in [Dir -> [Ids -> Nat]]
    BY <1>1, <1>16, <1>3, <2>1, IndexType DEF RepairWrite
  <2>3. removed' \subseteq Ids
    BY <1>2, <1>16 DEF RepairWrite, TypeOK
  <2> QED BY <1>2, <1>16, <2>2, <2>3 DEF RepairWrite, TypeOK, locks
<1>17. CASE RepairCounter(p)
  BY <1>1, <1>2, <1>17, CounterIsRepaired DEF RepairCounter, TypeOK, locks
<1>18. CASE BackfillWrite(p)
  <2>1. index' \in [Dir -> [Ids -> Nat]]
    BY <1>1, <1>2, <1>18, IndexType DEF BackfillWrite, TypeOK
  <2> QED BY <1>2, <1>18, <2>1 DEF BackfillWrite, TypeOK, locks
<1> QED BY <1>5, <1>6, <1>7, <1>8, <1>9, <1>10, <1>11, <1>12, <1>13, <1>14, <1>15, <1>16, <1>17,
           <1>18 DEF Step, Begin, Proceed

(* The same of the steps that change more than where the process is. *)
LEMMA Changes ==
  ASSUME TypeInv, NEW p \in Procs
  PROVE  /\ ReadCounter(p) =>
              cmd'[p].pc = "counting" /\ cmd'[p].does = cmd[p].does /\ cmd'[p].seq = counter
         /\ LookUp(p) =>
              /\ cmd'[p].pc = "rewrite" /\ cmd'[p].does = cmd[p].does
              /\ cmd'[p].seq = cmd[p].seq /\ cmd'[p].dir = cmd[p].dir
              /\ cmd'[p].seen = index[cmd[p].dir]
         /\ LookUpMisses(p) =>
              /\ cmd'[p].does = cmd[p].does
              /\ cmd'[p].pc = "done" \/ (cmd'[p].pc = "lookup" /\ cmd'[p].seq = cmd[p].seq)
         /\ Lock2(p) =>
              /\ cmd'[p].pc = "dstrow" /\ cmd'[p].does = cmd[p].does
              /\ cmd'[p].seq = cmd[p].seq /\ cmd'[p].dir = cmd[p].dir
              /\ cmd'[p].seen = index[cmd[p].dir]
         /\ MaintenanceRead(p) =>
              /\ cmd'[p].pc = IF cmd[p].does = "repair" THEN "mscan" ELSE "mwrite"
              /\ cmd'[p].does = cmd[p].does /\ cmd'[p].dir = cmd[p].dir
              /\ cmd'[p].seen = index[cmd[p].dir]
         /\ RepairScan(p) => cmd'[p].pc = "mwrite" /\ cmd'[p].does = cmd[p].does
         /\ RepairWrite(p) => cmd'[p].pc \in {"mseq", "done"} /\ cmd'[p].does = cmd[p].does
         /\ RepairCounter(p) \/ BackfillWrite(p) =>
              cmd'[p].pc \in {"mread", "done"} /\ cmd'[p].does = cmd[p].does
<1>1. cmd[p] \in Doing /\ Idle \in Doing
  BY IdleType DEF TypeInv, TypeOK, Places, Command
<1>2. \A doing : Becomes(p, doing) => cmd'[p] = doing
  BY Effects
<1>3. ASSUME ReadCounter(p)
      PROVE  cmd'[p].pc = "counting" /\ cmd'[p].does = cmd[p].does /\ cmd'[p].seq = counter
  <2>1. cmd'[p] = [cmd[p] EXCEPT !.pc = "counting", !.seq = counter]
    BY <1>2, <1>3 DEF ReadCounter
  <2> QED BY <1>1, <2>1 DEF Doing
<1>4. ASSUME LookUp(p)
      PROVE  /\ cmd'[p].pc = "rewrite" /\ cmd'[p].does = cmd[p].does
             /\ cmd'[p].seq = cmd[p].seq /\ cmd'[p].dir = cmd[p].dir
             /\ cmd'[p].seen = index[cmd[p].dir]
  <2>1. cmd'[p] = [cmd[p] EXCEPT !.pc = "rewrite", !.seen = index[cmd[p].dir]]
    BY <1>2, <1>4 DEF LookUp
  <2> QED BY <1>1, <2>1 DEF Doing
<1>5. ASSUME LookUpMisses(p)
      PROVE  /\ cmd'[p].does = cmd[p].does
             /\ cmd'[p].pc = "done" \/ (cmd'[p].pc = "lookup" /\ cmd'[p].seq = cmd[p].seq)
  <2>1. CASE cmd[p].dir = "active"
    <3>1. cmd'[p] = [cmd[p] EXCEPT !.dir = "archive"] /\ cmd[p].pc = "lookup"
      BY <1>2, <1>5, <2>1 DEF LookUpMisses, At
    <3> QED BY <1>1, <3>1 DEF Doing
  <2>2. CASE cmd[p].dir # "active"
    BY <1>5, <2>2, Effects DEF LookUpMisses
  <2> QED BY <2>1, <2>2
<1>6. ASSUME Lock2(p)
      PROVE  /\ cmd'[p].pc = "dstrow" /\ cmd'[p].does = cmd[p].does
             /\ cmd'[p].seq = cmd[p].seq /\ cmd'[p].dir = cmd[p].dir
             /\ cmd'[p].seen = index[cmd[p].dir]
  <2>1. cmd'[p] = [cmd[p] EXCEPT !.pc = "dstrow", !.seen = index[cmd[p].dir]]
    BY <1>2, <1>6 DEF Lock2
  <2> QED BY <1>1, <2>1 DEF Doing
<1>7. ASSUME MaintenanceRead(p)
      PROVE  /\ cmd'[p].pc = IF cmd[p].does = "repair" THEN "mscan" ELSE "mwrite"
             /\ cmd'[p].does = cmd[p].does /\ cmd'[p].dir = cmd[p].dir
             /\ cmd'[p].seen = index[cmd[p].dir]
  <2> DEFINE next == IF cmd[p].does = "repair" THEN "mscan" ELSE "mwrite"
  <2>1. cmd'[p] = [cmd[p] EXCEPT !.pc = next, !.seen = index[cmd[p].dir]]
    BY <1>2, <1>7 DEF MaintenanceRead
  <2> QED BY <1>1, <2>1 DEF Doing
<1>8. ASSUME RepairScan(p) PROVE cmd'[p].pc = "mwrite" /\ cmd'[p].does = cmd[p].does
  <2>1. cmd'[p] = [cmd[p] EXCEPT !.pc = "mwrite", !.found = bodies[cmd[p].dir]]
    BY <1>2, <1>8 DEF RepairScan
  <2> QED BY <1>1, <2>1 DEF Doing
<1>9. ASSUME RepairWrite(p)
      PROVE  cmd'[p].pc \in {"mseq", "done"} /\ cmd'[p].does = cmd[p].does
  <2>1. CASE cmd[p].dir = "active"
    <3>1. cmd'[p] = [cmd[p] EXCEPT !.pc = "mseq", !.seen = Kept(p)]
      BY <1>2, <1>9, <2>1 DEF RepairWrite, Repaired
    <3> QED BY <1>1, <3>1 DEF Doing
  <2>2. CASE cmd[p].dir # "active"
    BY <1>9, <2>2, Effects DEF RepairWrite, Repaired
  <2> QED BY <2>1, <2>2
<1>10. ASSUME RepairCounter(p) \/ BackfillWrite(p)
       PROVE  cmd'[p].pc \in {"mread", "done"} /\ cmd'[p].does = cmd[p].does
  <2>1. NextFolder(p)
    BY <1>10 DEF RepairCounter, BackfillWrite
  <2>2. CASE cmd[p].dir = "active"
    <3>1. cmd'[p] = [Idle EXCEPT !.pc = "mread", !.dir = "archive", !.does = cmd[p].does]
      BY <1>2, <2>1, <2>2 DEF NextFolder
    <3> QED BY <1>1, <3>1 DEF Doing
  <2>3. CASE cmd[p].dir # "active"
    BY <2>1, <2>3, Effects DEF NextFolder
  <2> QED BY <2>2, <2>3
<1> QED BY <1>3, <1>4, <1>5, <1>6, <1>7, <1>8, <1>9, <1>10

(* A command works with a number it was given, drew or looked up. *)
LEMMA StationOf ==
  ASSUME TypeInv, NEW p \in Procs, Step(p)
  PROVE  /\ cmd'[p].pc \in Numbered => cmd'[p].seq \in Ids
         /\ cmd'[p].pc = "mkcounter" => cmd'[p].seq \in 1..(MaxSeq + 1)
<1>1. /\ cmd[p] \in Doing /\ Idle \in Doing /\ cmd \in [Procs -> Doing]
      /\ cmd[p].pc \in Numbered => cmd[p].seq \in Ids
  BY IdleType DEF TypeInv, TypeOK, Stations, Places, Command
<1>2. CASE Add(p)
  <2>1. MaxListed + 1 \in 1..(MaxSeq + 1)
    BY MaxListedIs, ScribeAssumption
  <2> QED BY <1>2, <2>1, Effects DEF Add, Numbered
<1>3. ASSUME NEW s \in Ids, Update(p, s) \/ Archive(p, s) \/ Unarchive(p, s) \/ Remove(p, s)
      PROVE  cmd'[p].pc # "mkcounter" /\ cmd'[p].seq \in Ids
  BY <1>3, Effects DEF Update, Archive, Unarchive, Remove
<1>4. ASSUME NEW c \in Command, Maintain(p, c) PROVE cmd'[p].pc = "mread"
  BY <1>4, Effects DEF Maintain
<1>5. CASE WriteCounter(p) \/ AppendRow(p) \/ Rewrite(p) \/ NothingToMove(p) \/ SourceRow(p)
             \/ Unlink(p) \/ Kill(p)
  BY <1>5, Effects
  DEF WriteCounter, AppendRow, Rewrite, NothingToMove, SourceRow, Unlink, Kill, Numbered
<1>6. CASE WriteNext(p) \/ WriteBody(p) \/ Lock1(p) \/ DestinationRow(p) \/ MoveBody(p)
  BY <1>1, <1>6, Effects
  DEF WriteNext, WriteBody, Lock1, DestinationRow, MoveBody, At, Numbered
<1>7. CASE ReadCounter(p) \/ LookUp(p) \/ LookUpMisses(p) \/ Lock2(p)
  BY <1>1, <1>7, Changes DEF ReadCounter, LookUp, LookUpMisses, Lock2, At, Numbered
<1>8. CASE MaintenanceRead(p) \/ RepairScan(p)
  BY <1>8, Changes DEF Numbered
<1>9. CASE RepairWrite(p)
  BY <1>9, Changes DEF Numbered
<1>10. CASE RepairCounter(p) \/ BackfillWrite(p)
  BY <1>10, Changes DEF Numbered
<1> QED BY <1>2, <1>3, <1>4, <1>5, <1>6, <1>7, <1>8, <1>9, <1>10 DEF Step, Begin, Proceed, Numbered

(* Every step keeps the types. *)
LEMMA TypeNext ==
  ASSUME TypeInv, NEW p \in Procs, Step(p)
  PROVE  TypeInv'
<1>1. PICK doing \in Doing : Becomes(p, doing)
  BY OneMoves
<1>2. cmd' \in [Procs -> Doing]
  BY <1>1 DEF Becomes, TypeInv, TypeOK
<1>3. TypeOK'
  BY <1>2, FilesType DEF TypeOK
<1>4. Stations'
  BY <1>1, Effects, StationOf DEF TypeInv, Stations
<1> QED BY <1>3, <1>4 DEF TypeInv

(* They hold at first. *)
LEMMA TypeInit ==
  ASSUME Init
  PROVE  TypeInv
<1>1. Idle \in Doing
  BY IdleType DEF Places, Command
<1>3. Empty \in [Ids -> Nat] /\ 1 \in Ids /\ 2 \in 0..(MaxSeq + 1)
  BY ScribeAssumption DEF Empty, Ids
<1>2. TypeOK
  BY <1>1, <1>3, ScribeAssumption DEF Init, TypeOK, NoCounter
<1>4. Stations
  BY DEF Init, Stations, Idle, Numbered
<1> QED BY <1>2, <1>4 DEF TypeInv

(* TypeOK: no index has a negative number of rows, and next_seq stays      *)
(* within one of the year's last number (ScribeStore.TypeOK).              *)
THEOREM TypeCorrect == Spec => []TypeOK
<1>1. Init => TypeInv
  BY TypeInit
<1>2. TypeInv /\ [Next]_vars => TypeInv'
  <2>1. ASSUME TypeInv, Next PROVE TypeInv'
    BY <2>1, TypeNext, NextIsAStep
  <2>2. ASSUME TypeInv, UNCHANGED vars PROVE TypeInv'
    BY <2>2 DEF vars, files, locks, TypeInv, TypeOK, Stations
  <2> QED BY <2>1, <2>2
<1>3. TypeInv => TypeOK
  BY DEF TypeInv
<1> QED BY <1>1, <1>2, <1>3, PTL DEF Spec

-----------------------------------------------------------------------------
(* The invariant.  It needs what the store's callers grant: next_seq is    *)
(* rebuilt alone, backfill runs alone, and nobody repairs, for a repair    *)
(* may hand a listed note's number out again (README).                     *)

Granted ==
  /\ RebuiltAlone /\ MaintenanceAlone
  /\ \A p \in Procs : "repair" \notin CommandsOf[p]

(* A backfill is alone in flight.                                          *)
BackfillAlone ==
  /\ \A p \in Procs : cmd[p].pc \notin {"mscan", "mseq"} /\ cmd[p].does # "repair"
  /\ \A p \in Procs : cmd[p].pc \in {"mread", "mwrite"} <=> InFlight(p) /\ cmd[p].does = "backfill"
  /\ \A p, q \in Procs : p # q /\ InFlight(p) /\ InFlight(q) => cmd[p].does # "backfill"

(* Who is past a lock holds it, and what it read under it is still so.     *)
Holds(p) ==
  LET d == cmd[p].dir  s == cmd[p].seq  at == cmd[p].pc IN
  /\ at = "counting" => seqLock = p /\ counter = s
  /\ at = "rewrite" => idxLock[d] = p
  /\ at = "lock2" => idxLock["archive"] = p
  /\ at \in {"dstrow", "mvbody", "srcrow"} => \A e \in Dir : idxLock[e] = p
  /\ at \in {"rewrite", "dstrow", "mvbody", "srcrow", "mwrite"} => cmd[p].seen = index[d]
  /\ at \in {"mvbody", "srcrow"} => Rows(d, s) > 0 /\ Rows(Other(d), s) > 0
  /\ at = "srcrow" => s \notin bodies[d]
LocksHold == \A p \in Procs : Holds(p)

(* A number some file shows was issued.                                    *)
Known(s) == \E d \in Dir : Rows(d, s) > 0 \/ s \in bodies[d]

(* The counter, and the one an add is about to write, is past every number *)
(* issued; a number that is being issued belongs to one add.               *)
PastIssued == counter # NoCounter => \A s \in Ids : Known(s) => s < counter
Rebuilding(p) ==
  /\ counter = NoCounter
  /\ \A n \in Ids : Known(n) => n < cmd[p].seq
  /\ \A q \in Procs : At(q, "unlink") => cmd[q].seq < cmd[p].seq
  /\ \A q \in Procs : At(q, "mkcounter") => q = p
Issues(p) ==
  LET s == cmd[p].seq  at == cmd[p].pc IN
  /\ at \in {"seq", "counting", "body", "row"} => counter # NoCounter
  /\ at \in {"body", "row", "unlink"} /\ counter # NoCounter => s < counter
  /\ at = "mkcounter" => Rebuilding(p)
  /\ at \in {"body", "row"} =>
       \A q \in Procs : q # p /\ cmd[q].pc \in {"body", "row", "unlink"} => cmd[q].seq # s
  /\ at = "body" => ~Known(s)
  /\ at = "row" => /\ s \in bodies["active"] /\ s \notin bodies["archive"]
                   /\ \A d \in Dir : Rows(d, s) = 0
  /\ at = "unlink" => s \in removed
NumbersOnce == PastIssued /\ \A p \in Procs : Issues(p)

(* A listed note lies where one of its rows is, unless it was removed, and *)
(* the archive holds no body it does not list.                             *)
InPlace(s) ==
  /\ \A d \in Dir :
       Rows(d, s) > 0 => Shelved("active", s) \/ Shelved("archive", s) \/ s \in removed
  /\ s \in bodies["archive"] => Rows("archive", s) > 0
InItsPlace == \A s \in Ids : InPlace(s)

StoreInv == TypeInv /\ BackfillAlone /\ LocksHold /\ NumbersOnce /\ InItsPlace

(* At first no counter is being rebuilt. *)
LEMMA BackfillInit == Init => BackfillAlone
BY DEF Init, BackfillAlone, Idle, InFlight

(* Only a command that begins changes what its process is for. *)
LEMMA OneCommandEach ==
  ASSUME TypeInv, NEW p \in Procs, Step(p)
  PROVE  \/ \E c \in Command : /\ Begins(p, c) /\ cmd'[p].does = c
                               /\ cmd'[p].pc = "mread" <=> c \in Maintenance
                               /\ cmd'[p].pc \notin {"mwrite", "mscan", "mseq"}
         \/ Proceed(p) /\ InFlight(p) /\ cmd'[p].does = cmd[p].does
         \/ Kill(p) /\ InFlight(p) /\ cmd'[p].does = cmd[p].does /\ cmd'[p].pc = "killed"
<1>1. CASE Add(p)
  BY <1>1, Effects DEF Add, Command, Maintenance
<1>2. ASSUME NEW s \in Ids, Update(p, s) \/ Archive(p, s) \/ Unarchive(p, s) \/ Remove(p, s)
      PROVE  \E c \in Command : /\ Begins(p, c) /\ cmd'[p].does = c
                                /\ cmd'[p].pc = "mread" <=> c \in Maintenance
                                /\ cmd'[p].pc \notin {"mwrite", "mscan", "mseq"}
  BY <1>2, Effects DEF Update, Archive, Unarchive, Remove, Command, Maintenance
<1>3. ASSUME NEW c \in Command, Maintain(p, c)
      PROVE  /\ Begins(p, c) /\ cmd'[p].does = c
             /\ cmd'[p].pc = "mread" <=> c \in Maintenance
             /\ cmd'[p].pc \notin {"mwrite", "mscan", "mseq"}
  BY <1>3, Effects DEF Maintain
<1>4. CASE Kill(p)
  BY <1>4, Effects DEF Kill
<1>5. CASE WriteCounter(p) \/ WriteNext(p) \/ WriteBody(p) \/ Lock1(p) \/ DestinationRow(p)
             \/ MoveBody(p) \/ AppendRow(p) \/ Rewrite(p) \/ NothingToMove(p) \/ SourceRow(p)
             \/ Unlink(p)
  BY <1>5, Effects
  DEF WriteCounter, WriteNext, WriteBody, Lock1, DestinationRow, MoveBody, AppendRow, Rewrite,
      NothingToMove, SourceRow, Unlink, Proceed, At, InFlight, Ended
<1>6. CASE ReadCounter(p) \/ LookUp(p) \/ LookUpMisses(p) \/ Lock2(p) \/ MaintenanceRead(p)
             \/ RepairScan(p) \/ RepairWrite(p) \/ RepairCounter(p) \/ BackfillWrite(p)
  <2>1. cmd'[p].does = cmd[p].does
    BY <1>6, Changes
  <2>2. InFlight(p)
    BY <1>6
    DEF ReadCounter, LookUp, LookUpMisses, Lock2, MaintenanceRead, RepairScan, RepairWrite,
        RepairCounter, BackfillWrite, At, InFlight, Ended
  <2> QED BY <1>6, <2>1, <2>2 DEF Proceed
<1> QED BY <1>1, <1>2, <1>3, <1>4, <1>5, <1>6 DEF Step, Begin, Proceed

(* A backfill goes from folder to folder and nothing else does. *)
LEMMA BackfillWalks ==
  ASSUME TypeInv, BackfillAlone, NEW p \in Procs, Proceed(p)
  PROVE  /\ cmd'[p].pc \notin {"mscan", "mseq"}
         /\ cmd'[p].pc \in {"mread", "mwrite"} => cmd[p].pc \in {"mread", "mwrite"}
         /\ cmd[p].pc \in {"mread", "mwrite"} => cmd'[p].pc \in {"mread", "mwrite", "done"}
<1>1. CASE WriteCounter(p) \/ WriteNext(p) \/ WriteBody(p) \/ Lock1(p) \/ DestinationRow(p)
             \/ MoveBody(p) \/ AppendRow(p) \/ Rewrite(p) \/ NothingToMove(p) \/ SourceRow(p)
             \/ Unlink(p)
  BY SMTT(40), <1>1, Effects
  DEF WriteCounter, WriteNext, WriteBody, Lock1, DestinationRow, MoveBody, AppendRow, Rewrite,
      NothingToMove, SourceRow, Unlink, At
<1>2. CASE ReadCounter(p) \/ LookUp(p) \/ LookUpMisses(p) \/ Lock2(p)
  BY <1>2, Changes DEF ReadCounter, LookUp, LookUpMisses, Lock2, At
<1>3. CASE MaintenanceRead(p) \/ BackfillWrite(p)
  BY <1>3, Changes DEF BackfillAlone, MaintenanceRead, BackfillWrite, At
<1>4. CASE RepairScan(p) \/ RepairWrite(p) \/ RepairCounter(p)
  BY <1>4 DEF BackfillAlone, RepairScan, RepairWrite, RepairCounter, At
<1> QED BY <1>1, <1>2, <1>3, <1>4 DEF Proceed

(* A rebuild of the counter begins and ends with no other write in flight. *)
LEMMA BackfillNext ==
  ASSUME Granted, TypeInv, BackfillAlone, NEW p \in Procs, Step(p)
  PROVE  BackfillAlone'
<1>1. \A q \in Procs : q # p => cmd'[q] = cmd[q]
  BY OneMoves, Effects
<1>2. CASE \E c \in Command : /\ Begins(p, c) /\ cmd'[p].does = c
                              /\ cmd'[p].pc = "mread" <=> c \in Maintenance
                              /\ cmd'[p].pc \notin {"mwrite", "mscan", "mseq"}
  <2>1. PICK c \in Command : /\ Begins(p, c) /\ cmd'[p].does = c
                             /\ cmd'[p].pc = "mread" <=> c \in Maintenance
                             /\ cmd'[p].pc \notin {"mwrite", "mscan", "mseq"}
    BY <1>2
  <2>2. c # "repair"
    BY <2>1 DEF Begins, Granted
  <2>3. \A q \in Procs : InFlight(q) => cmd[q].does # "backfill" /\ c # "backfill"
    BY <2>1 DEF Begins, Granted, Maintenance
  <2>4. c \in Maintenance <=> c = "backfill"
    BY <2>2 DEF Maintenance
  <2> QED BY <1>1, <2>1, <2>2, <2>3, <2>4 DEF BackfillAlone, InFlight, Ended
<1>3. CASE Proceed(p) /\ InFlight(p) /\ cmd'[p].does = cmd[p].does
  <2>1. /\ cmd'[p].pc \notin {"mscan", "mseq"}
        /\ cmd'[p].pc \in {"mread", "mwrite"} => cmd[p].pc \in {"mread", "mwrite"}
        /\ cmd[p].pc \in {"mread", "mwrite"} => cmd'[p].pc \in {"mread", "mwrite", "done"}
    BY <1>3, BackfillWalks
  <2> QED BY <1>1, <1>3, <2>1 DEF BackfillAlone, InFlight, Ended
<1>4. CASE Kill(p) /\ InFlight(p) /\ cmd'[p].does = cmd[p].does /\ cmd'[p].pc = "killed"
  BY <1>1, <1>4 DEF BackfillAlone, InFlight, Ended
<1> QED BY <1>2, <1>3, <1>4, OneCommandEach

(* While a backfill is under way no other process takes a step. *)
LEMMA OnlyTheBackfill ==
  ASSUME Granted, TypeInv, BackfillAlone, NEW p \in Procs, NEW q \in Procs, p # q,
         cmd[q].pc \in {"mread", "mwrite"}, Step(p)
  PROVE  FALSE
<1>1. InFlight(q) /\ cmd[q].does = "backfill"
  BY DEF BackfillAlone
<1>2. ~InFlight(p)
  BY <1>1 DEF BackfillAlone
<1>3. \A c : ~Begins(p, c)
  BY <1>1 DEF Begins, Granted, Maintenance
<1> QED BY <1>2, <1>3, OneCommandEach

(* A lock keeps the others off what it guards. *)
LEMMA LocksExclude ==
  ASSUME TypeInv, BackfillAlone, LocksHold, NEW p \in Procs, NEW q \in Procs, p # q, Step(p)
  PROVE  /\ seqLock = q => seqLock' = q
         /\ \A d \in Dir : idxLock[d] = q => idxLock'[d] = q /\ index'[d] = index[d]
<1>1. /\ index \in [Dir -> [Ids -> Nat]] /\ idxLock \in [Dir -> Procs \union {NoOne}]
      /\ cmd[p].dir \in Dir /\ Other(cmd[p].dir) \in Dir /\ q # NoOne
      /\ {"active", "archive"} \subseteq Dir
  BY OtherIs, ScribeAssumption DEF TypeInv, TypeOK, Doing, Dir
<1>2. CASE Add(p) \/ (\E s \in Ids : Update(p, s) \/ Archive(p, s) \/ Unarchive(p, s))
             \/ (\E c \in Command : Maintain(p, c))
  BY <1>2 DEF Add, Update, Archive, Unarchive, Maintain, files, locks
<1>3. CASE WriteCounter(p) \/ ReadCounter(p) \/ WriteBody(p) \/ MoveBody(p) \/ Unlink(p)
             \/ LookUpMisses(p) \/ MaintenanceRead(p) \/ RepairScan(p) \/ RepairCounter(p)
  BY <1>1, <1>3
  DEF WriteCounter, ReadCounter, WriteBody, MoveBody, Unlink, LookUpMisses, MaintenanceRead,
      RepairScan, RepairCounter, files, locks
<1>4. CASE WriteNext(p)
  <2>1. seqLock = p
    BY <1>4 DEF WriteNext, At, LocksHold, Holds
  <2> QED BY <1>4, <2>1 DEF WriteNext
<1>5. CASE \E s \in Ids : Remove(p, s)
  BY <1>1, <1>5 DEF Remove, locks
<1>6. CASE AppendRow(p)
  BY <1>1, <1>6 DEF AppendRow, locks
<1>7. CASE DestinationRow(p)
  <2>1. \A d \in Dir : idxLock[d] = p
    BY <1>7 DEF DestinationRow, At, LocksHold, Holds
  <2> QED BY <1>7, <2>1 DEF DestinationRow, locks
<1>8. CASE Rewrite(p)
  <2>1. idxLock[cmd[p].dir] = p
    BY <1>8 DEF Rewrite, At, LocksHold, Holds
  <2> QED BY <1>1, <1>8, <2>1 DEF Rewrite
<1>9. CASE SourceRow(p)
  <2>1. \A d \in Dir : idxLock[d] = p
    BY <1>9 DEF SourceRow, At, LocksHold, Holds
  <2> QED BY <1>9, <2>1 DEF SourceRow
<1>10. CASE LookUp(p) \/ Lock1(p) \/ Lock2(p)
  BY <1>1, <1>10, OtherIs DEF LookUp, Lock1, Lock2, FirstLock, files
<1>11. CASE NothingToMove(p) \/ Kill(p)
  BY <1>1, <1>11 DEF NothingToMove, Kill, Unlocked, files
<1>12. CASE RepairWrite(p)
  BY <1>12 DEF RepairWrite, BackfillAlone
<1>13. CASE BackfillWrite(p)
  BY <1>1, <1>13 DEF BackfillWrite, locks
<1> QED BY <1>2, <1>3, <1>4, <1>5, <1>6, <1>7, <1>8, <1>9, <1>10, <1>11, <1>12, <1>13
        DEF Step, Begin, Proceed

(* Whoever draws a number is left the counter it read. *)
LEMMA CounterStays ==
  ASSUME TypeInv, BackfillAlone, LocksHold, NumbersOnce, NEW p \in Procs, NEW q \in Procs,
         p # q, At(q, "counting"), Step(p)
  PROVE  counter' = counter
<1>1. seqLock = q /\ counter # NoCounter
  BY DEF At, LocksHold, Holds, NumbersOnce, Issues
<1>2. ~WriteCounter(p)
  BY <1>1 DEF WriteCounter, At, NumbersOnce, Issues, Rebuilding
<1>3. ~WriteNext(p)
  BY <1>1 DEF WriteNext, At, LocksHold, Holds
<1>4. ~RepairCounter(p)
  BY DEF RepairCounter, At, BackfillAlone
<1>5. CASE Begin(p)
  BY <1>5 DEF Begin, Add, Update, Archive, Unarchive, Remove, Maintain, files
<1>6. CASE Proceed(p)
  BY <1>2, <1>3, <1>4, <1>6
  DEF Proceed, ReadCounter, WriteBody, AppendRow, LookUp, LookUpMisses, Rewrite, Lock1, Lock2,
      NothingToMove, DestinationRow, MoveBody, SourceRow, Unlink, MaintenanceRead, RepairScan,
      RepairWrite, BackfillWrite, files
<1>7. CASE Kill(p)
  BY <1>7 DEF Kill, files
<1> QED BY <1>5, <1>6, <1>7 DEF Step

(* A body that is moved does not come back where it was. *)
LEMMA MovedStaysMoved ==
  ASSUME TypeInv, BackfillAlone, LocksHold, NumbersOnce, NEW p \in Procs, NEW q \in Procs,
         p # q, At(q, "srcrow"), Step(p)
  PROVE  cmd[q].seq \notin bodies'[cmd[q].dir]
<1>1. /\ \A e \in Dir : idxLock[e] = q
      /\ Known(cmd[q].seq) /\ cmd[q].seq \notin bodies[cmd[q].dir]
      /\ cmd[q].dir \in Dir /\ cmd[p].dir \in Dir /\ Other(cmd[p].dir) \in Dir
      /\ bodies \in [Dir -> SUBSET Ids] /\ p # NoOne /\ q # NoOne
  BY OtherIs, ScribeAssumption DEF At, TypeInv, TypeOK, Doing, LocksHold, Holds, Known
<1>2. CASE WriteBody(p)
  <2>1. cmd[p].seq # cmd[q].seq
    BY <1>1, <1>2 DEF WriteBody, At, NumbersOnce, Issues
  <2> QED BY <1>1, <1>2, <2>1 DEF WriteBody
<1>3. ~LookUp(p)
  BY <1>1 DEF LookUp
<1>4. ~MoveBody(p)
  BY <1>1 DEF MoveBody, At, LocksHold, Holds
<1>5. CASE Unlink(p)
  BY <1>1, <1>5 DEF Unlink
<1>6. CASE Begin(p)
  BY <1>1, <1>6 DEF Begin, Add, Update, Archive, Unarchive, Remove, Maintain, files
<1>7. CASE Proceed(p) /\ ~WriteBody(p) /\ ~Unlink(p)
  BY <1>1, <1>3, <1>4, <1>7
  DEF Proceed, WriteCounter, ReadCounter, WriteNext, AppendRow, LookUpMisses, Rewrite, Lock1,
      Lock2, NothingToMove, DestinationRow, SourceRow, MaintenanceRead, RepairScan, RepairWrite,
      RepairCounter, BackfillWrite, files
<1>8. CASE Kill(p)
  BY <1>1, <1>8 DEF Kill, files
<1> QED BY <1>2, <1>5, <1>6, <1>7, <1>8 DEF Step

(* What a process holds, the others leave it. *)
LEMMA LocksOthers ==
  ASSUME Granted, TypeInv, BackfillAlone, LocksHold, NumbersOnce, NEW p \in Procs,
         NEW q \in Procs, p # q, Step(p)
  PROVE  Holds(q)'
<1>1. /\ cmd'[q] = cmd[q] /\ cmd[q].dir \in Dir /\ Other(cmd[q].dir) \in Dir
      /\ "archive" \in Dir /\ Holds(q)
  BY OneMoves, Effects, OtherIs DEF TypeInv, TypeOK, Doing, LocksHold, Dir
<1>2. CASE cmd[q].pc = "counting"
  BY <1>1, <1>2, LocksExclude, CounterStays DEF Holds, At
<1>3. CASE cmd[q].pc \in {"rewrite", "lock2"}
  BY <1>1, <1>3, LocksExclude DEF Holds
<1>4. CASE cmd[q].pc \in {"dstrow", "mvbody", "srcrow"}
  <2>1. \A e \in Dir : idxLock'[e] = q /\ index'[e] = index[e]
    BY <1>1, <1>4, LocksExclude DEF Holds
  <2>2. cmd[q].pc = "srcrow" => cmd[q].seq \notin bodies'[cmd[q].dir]
    BY MovedStaysMoved DEF At
  <2> QED BY <1>1, <1>4, <2>1, <2>2 DEF Holds, Rows
<1>5. cmd[q].pc # "mwrite"
  BY OnlyTheBackfill
<1> QED BY <1>1, <1>2, <1>3, <1>4, <1>5 DEF Holds

(* Each step leaves its process holding what its next step relies on. *)
LEMMA LocksOwn ==
  ASSUME TypeInv, BackfillAlone, LocksHold, NEW p \in Procs, Step(p)
  PROVE  Holds(p)'
<1>1. /\ index \in [Dir -> [Ids -> Nat]] /\ idxLock \in [Dir -> Procs \union {NoOne}]
      /\ bodies \in [Dir -> SUBSET Ids] /\ Holds(p)
      /\ cmd[p].dir \in Dir /\ Other(cmd[p].dir) \in Dir /\ Other(cmd[p].dir) # cmd[p].dir
  BY OtherIs DEF TypeInv, TypeOK, Doing, LocksHold
<1>2. CASE Begin(p)
  BY <1>2, Effects DEF Begin, Add, Update, Archive, Unarchive, Remove, Maintain, Holds
<1>3. CASE WriteCounter(p) \/ WriteNext(p) \/ WriteBody(p) \/ AppendRow(p) \/ Rewrite(p)
             \/ NothingToMove(p) \/ SourceRow(p) \/ Unlink(p) \/ Kill(p)
  BY <1>3, Effects
  DEF WriteCounter, WriteNext, WriteBody, AppendRow, Rewrite, NothingToMove, SourceRow, Unlink,
      Kill, Holds
<1>4. CASE ReadCounter(p)
  BY <1>4, Changes DEF ReadCounter, files, Holds
<1>5. CASE LookUp(p)
  BY <1>1, <1>5, Changes DEF LookUp, Holds
<1>6. CASE LookUpMisses(p) \/ RepairScan(p) \/ RepairWrite(p) \/ RepairCounter(p)
             \/ BackfillWrite(p)
  BY <1>6, Changes DEF RepairScan, RepairWrite, At, BackfillAlone, Holds
<1>7. CASE Lock1(p)
  BY <1>1, <1>7, Effects, OtherIs DEF Lock1, FirstLock, Dir, Holds
<1>8. CASE Lock2(p)
  <2>1. \A e \in Dir : idxLock'[e] = p
    BY <1>1, <1>8, OtherIs DEF Lock2, FirstLock, At, Dir, Holds
  <2> QED BY <1>1, <1>8, <2>1, Changes DEF Lock2, files, Holds
<1>9. CASE DestinationRow(p)
  <2>1. cmd[p].seq \in Ids /\ cmd[p].pc = "dstrow"
    BY <1>9 DEF DestinationRow, At, TypeInv, Stations, Numbered
  <2>2. index'[cmd[p].dir] = index[cmd[p].dir]
    BY <1>1, <1>9 DEF DestinationRow
  <2>3. index'[Other(cmd[p].dir)][cmd[p].seq] > 0
    BY <1>1, <1>9, <2>1 DEF DestinationRow
  <2>4. cmd[p].seen = index[cmd[p].dir] /\ cmd[p].seen[cmd[p].seq] > 0
    BY <1>1, <1>9, <2>1 DEF DestinationRow, Holds
  <2>5. idxLock' = idxLock /\ \A e \in Dir : idxLock[e] = p
    BY <1>1, <1>9, <2>1 DEF DestinationRow, locks, Holds
  <2> QED BY <1>1, <1>9, <2>2, <2>3, <2>4, <2>5, Effects DEF DestinationRow, Holds, Rows
<1>10. CASE MoveBody(p)
  <2>1. cmd[p].seq \notin bodies'[cmd[p].dir]
    BY <1>1, <1>10 DEF MoveBody
  <2>2. cmd[p].pc = "mvbody" /\ index' = index /\ idxLock' = idxLock
    BY <1>10 DEF MoveBody, At, locks
  <2> QED BY <1>1, <1>10, <2>1, <2>2, Effects DEF MoveBody, Holds, Rows
<1>11. CASE MaintenanceRead(p)
  BY <1>11, Changes DEF MaintenanceRead, files, BackfillAlone, Holds
<1> QED BY <1>2, <1>3, <1>4, <1>5, <1>6, <1>7, <1>8, <1>9, <1>10, <1>11 DEF Step, Proceed

(* What a lock protects is written by its holder alone. *)
LEMMA LocksNext ==
  ASSUME Granted, TypeInv, BackfillAlone, LocksHold, NumbersOnce, NEW p \in Procs, Step(p)
  PROVE  LocksHold'
BY LocksOwn, LocksOthers DEF LocksHold

(* At first nobody holds a lock. *)
LEMMA LocksInit == Init => LocksHold
BY DEF Init, LocksHold, Holds, Idle

-----------------------------------------------------------------------------
(* Numbers are issued once.                                                *)

(* A number becomes known when its body is written, and in no other way. *)
LEMMA KnownGrows ==
  ASSUME TypeInv, BackfillAlone, LocksHold, NumbersOnce, NEW p \in Procs, Step(p),
         NEW s \in Ids, Known(s)'
  PROVE  Known(s) \/ (WriteBody(p) /\ s = cmd[p].seq)
<1>1. /\ index \in [Dir -> [Ids -> Nat]] /\ bodies \in [Dir -> SUBSET Ids]
      /\ Holds(p) /\ cmd[p].dir \in Dir /\ Other(cmd[p].dir) \in Dir
      /\ Other(cmd[p].dir) # cmd[p].dir /\ "active" \in Dir
  BY OtherIs DEF TypeInv, TypeOK, Doing, LocksHold, Dir
<1>2. cmd[p].pc \in Numbered => cmd[p].seq \in Ids
  BY DEF TypeInv, Stations
<1>3. PICK d \in Dir : index'[d][s] > 0 \/ s \in bodies'[d]
  BY DEF Known, Rows
<1>4. CASE Add(p) \/ (\E n \in Ids : Update(p, n) \/ Archive(p, n) \/ Unarchive(p, n))
             \/ (\E c \in Command : Maintain(p, c)) \/ Kill(p)
  BY <1>3, <1>4 DEF Add, Update, Archive, Unarchive, Maintain, Kill, files, Known, Rows
<1>5. CASE \E n \in Ids : Remove(p, n)
  BY <1>1, <1>3, <1>5 DEF Remove, Known, Rows
<1>6. CASE WriteCounter(p) \/ ReadCounter(p) \/ WriteNext(p) \/ LookUpMisses(p) \/ Lock1(p)
             \/ Lock2(p) \/ NothingToMove(p) \/ MaintenanceRead(p) \/ RepairScan(p)
             \/ RepairCounter(p)
  BY <1>3, <1>6
  DEF WriteCounter, ReadCounter, WriteNext, LookUpMisses, Lock1, Lock2, NothingToMove,
      MaintenanceRead, RepairScan, RepairCounter, files, Known, Rows
<1>7. CASE WriteBody(p)
  BY <1>1, <1>3, <1>7 DEF WriteBody, Known, Rows
<1>8. CASE AppendRow(p)
  <2>1. cmd[p].seq \in bodies["active"] /\ cmd[p].seq \in Ids
    BY <1>2, <1>8 DEF AppendRow, At, Numbered, NumbersOnce, Issues
  <2> QED BY <1>1, <1>3, <1>8, <2>1 DEF AppendRow, Known, Rows
<1>9. CASE LookUp(p)
  BY <1>1, <1>3, <1>9 DEF LookUp, Known, Rows
<1>10. CASE Rewrite(p)
  BY <1>1, <1>3, <1>10 DEF Rewrite, At, Holds, Known, Rows
<1>11. CASE DestinationRow(p)
  <2>1. Rows(cmd[p].dir, cmd[p].seq) > 0 /\ cmd[p].seq \in Ids
    BY <1>1, <1>2, <1>11 DEF DestinationRow, At, Numbered, Holds, Rows
  <2> QED BY <1>1, <1>3, <1>11, <2>1 DEF DestinationRow, Known, Rows
<1>12. CASE MoveBody(p)
  BY <1>1, <1>3, <1>12 DEF MoveBody, Known, Rows
<1>13. CASE SourceRow(p)
  <2>1. cmd[p].seen = index[cmd[p].dir] /\ cmd[p].seq \in Ids
    BY <1>1, <1>2, <1>13 DEF SourceRow, At, Numbered, Holds
  <2> QED BY <1>1, <1>3, <1>13, <2>1 DEF SourceRow, Known, Rows
<1>14. CASE Unlink(p)
  BY <1>1, <1>3, <1>14 DEF Unlink, Known, Rows
<1>15. CASE RepairWrite(p)
  BY <1>15 DEF RepairWrite, BackfillAlone
<1>16. CASE BackfillWrite(p)
  BY <1>1, <1>3, <1>16 DEF BackfillWrite, At, Holds, Known, Rows
<1> QED BY <1>4, <1>5, <1>6, <1>7, <1>8, <1>9, <1>10, <1>11, <1>12, <1>13, <1>14, <1>15, <1>16
        DEF Step, Begin, Proceed

(* The counter is rebuilt when it is missing, and counts up by one. *)
LEMMA CounterCounts ==
  ASSUME TypeInv, BackfillAlone, LocksHold, NumbersOnce, NEW p \in Procs, Step(p)
  PROVE  \/ counter' = counter
         \/ /\ WriteCounter(p) /\ Rebuilding(p)
            /\ counter' = cmd[p].seq /\ cmd[p].seq \in 1..(MaxSeq + 1)
         \/ /\ WriteNext(p) /\ counter # NoCounter
            /\ cmd[p].seq = counter /\ counter' = counter + 1
<1>1. CASE WriteCounter(p)
  BY <1>1 DEF WriteCounter, At, NumbersOnce, Issues, TypeInv, Stations
<1>2. CASE WriteNext(p)
  BY <1>2 DEF WriteNext, At, NumbersOnce, Issues, LocksHold, Holds
<1>3. ~RepairCounter(p)
  BY DEF RepairCounter, At, BackfillAlone
<1>4. CASE Begin(p)
  BY <1>4 DEF Begin, Add, Update, Archive, Unarchive, Remove, Maintain, files
<1>5. CASE Proceed(p) /\ ~WriteCounter(p) /\ ~WriteNext(p)
  BY <1>3, <1>5
  DEF Proceed, ReadCounter, WriteBody, AppendRow, LookUp, LookUpMisses, Rewrite, Lock1, Lock2,
      NothingToMove, DestinationRow, MoveBody, SourceRow, Unlink, MaintenanceRead, RepairScan,
      RepairWrite, BackfillWrite, files
<1>6. CASE Kill(p)
  BY <1>6 DEF Kill, files
<1> QED BY <1>1, <1>2, <1>4, <1>5, <1>6 DEF Step

(* The counter stays past every number that is known. *)
LEMMA PastIssuedNext ==
  ASSUME TypeInv, BackfillAlone, LocksHold, NumbersOnce, NEW p \in Procs, Step(p)
  PROVE  PastIssued'
<1>1. SUFFICES ASSUME counter' # NoCounter, NEW s \in Ids, Known(s)' PROVE s < counter'
  BY DEF PastIssued
<1>2. counter \in Nat /\ s \in Nat
  BY ScribeAssumption DEF TypeInv, TypeOK, Ids
<1>3. CASE Known(s)
  BY <1>1, <1>2, <1>3, CounterCounts DEF NumbersOnce, PastIssued, Rebuilding
<1>4. CASE WriteBody(p) /\ s = cmd[p].seq
  <2>1. counter' = counter /\ counter # NoCounter /\ cmd[p].seq < counter
    BY <1>4 DEF WriteBody, At, NumbersOnce, Issues
  <2> QED BY <1>4, <2>1
<1> QED BY <1>1, <1>3, <1>4, KnownGrows

(* Nobody touches the note an add has written and not listed. *)
LEMMA UnlistedIsLeftAlone ==
  ASSUME TypeInv, BackfillAlone, LocksHold, NumbersOnce, NEW p \in Procs, NEW q \in Procs,
         p # q, At(q, "row"), Step(p)
  PROVE  /\ cmd[q].seq \in bodies'["active"] /\ cmd[q].seq \notin bodies'["archive"]
         /\ \A d \in Dir : index'[d][cmd[q].seq] = 0
<1> DEFINE s == cmd[q].seq
<1>1. /\ index \in [Dir -> [Ids -> Nat]] /\ bodies \in [Dir -> SUBSET Ids]
      /\ Holds(p) /\ cmd[p].dir \in Dir /\ Other(cmd[p].dir) \in Dir
      /\ {"active", "archive"} \subseteq Dir
      /\ cmd[p].pc \in Numbered => cmd[p].seq \in Ids
  BY OtherIs DEF TypeInv, TypeOK, Doing, LocksHold, Stations, Dir
<1>2. /\ s \in Ids /\ s \in bodies["active"] /\ s \notin bodies["archive"]
      /\ \A d \in Dir : index[d][s] = 0
      /\ cmd[p].pc \in {"body", "row", "unlink"} => cmd[p].seq # s
  BY DEF At, NumbersOnce, Issues, Rows, TypeInv, Stations, Numbered
<1> HIDE DEF s
<1>3. CASE Add(p) \/ (\E n \in Ids : Update(p, n) \/ Archive(p, n) \/ Unarchive(p, n))
             \/ (\E c \in Command : Maintain(p, c)) \/ Kill(p)
  BY <1>2, <1>3 DEF Add, Update, Archive, Unarchive, Maintain, Kill, files, s
<1>4. CASE \E n \in Ids : Remove(p, n)
  BY <1>1, <1>2, <1>4 DEF Remove, Rows, s
<1>5. CASE WriteCounter(p) \/ ReadCounter(p) \/ WriteNext(p) \/ LookUpMisses(p) \/ Lock1(p)
             \/ Lock2(p) \/ NothingToMove(p) \/ MaintenanceRead(p) \/ RepairScan(p)
             \/ RepairCounter(p)
  BY <1>2, <1>5
  DEF WriteCounter, ReadCounter, WriteNext, LookUpMisses, Lock1, Lock2, NothingToMove,
      MaintenanceRead, RepairScan, RepairCounter, files, s
<1>6. CASE WriteBody(p) \/ Unlink(p)
  BY <1>1, <1>2, <1>6 DEF WriteBody, Unlink, At, s
<1>7. CASE AppendRow(p)
  BY <1>1, <1>2, <1>7 DEF AppendRow, At, Numbered, s
<1>8. CASE LookUp(p)
  BY <1>1, <1>2, <1>8 DEF LookUp, Rows, s
<1>9. CASE Rewrite(p) \/ BackfillWrite(p)
  BY <1>1, <1>2, <1>9 DEF Rewrite, BackfillWrite, At, Holds, s
<1>10. CASE DestinationRow(p)
  <2>1. cmd[p].seen = index[cmd[p].dir] /\ cmd[p].seq \in Ids
    BY <1>1, <1>10 DEF DestinationRow, At, Numbered, Holds
  <2> QED BY <1>1, <1>2, <1>10, <2>1 DEF DestinationRow, s
<1>11. CASE MoveBody(p)
  <2>1. cmd[p].seq # s
    BY <1>1, <1>2, <1>11 DEF MoveBody, At, Holds, Rows
  <2> QED BY <1>1, <1>2, <1>11, <2>1 DEF MoveBody, s
<1>12. CASE SourceRow(p)
  <2>1. cmd[p].seen = index[cmd[p].dir] /\ cmd[p].seq \in Ids
    BY <1>1, <1>12 DEF SourceRow, At, Numbered, Holds
  <2> QED BY <1>1, <1>2, <1>12, <2>1 DEF SourceRow, s
<1>13. ~RepairWrite(p)
  BY DEF RepairWrite, BackfillAlone
<1> QED BY <1>3, <1>4, <1>5, <1>6, <1>7, <1>8, <1>9, <1>10, <1>11, <1>12, <1>13
        DEF Step, Begin, Proceed, s

(* A removed note stays so until its number is listed again. *)
LEMMA RemovedStays ==
  ASSUME TypeInv, BackfillAlone, NEW p \in Procs, Step(p), NEW s \in removed
  PROVE  s \in removed' \/ (AppendRow(p) /\ s = cmd[p].seq)
<1>1. ~RepairWrite(p)
  BY DEF RepairWrite, BackfillAlone
<1>2. CASE Begin(p)
  BY <1>2 DEF Begin, Add, Update, Archive, Unarchive, Remove, Maintain
<1>3. CASE AppendRow(p)
  BY <1>3 DEF AppendRow
<1>4. CASE Proceed(p) /\ ~AppendRow(p)
  BY <1>1, <1>4
  DEF Proceed, WriteCounter, ReadCounter, WriteNext, WriteBody, LookUp, LookUpMisses, Rewrite,
      Lock1, Lock2, NothingToMove, DestinationRow, MoveBody, SourceRow, Unlink, MaintenanceRead,
      RepairScan, RepairCounter, BackfillWrite
<1>5. CASE Kill(p)
  BY <1>5 DEF Kill
<1> QED BY <1>2, <1>3, <1>4, <1>5 DEF Step

(* Who comes to a place where a number matters, and with which number. *)
LEMMA Arrivals ==
  ASSUME TypeInv, BackfillAlone, LocksHold, NumbersOnce, NEW p \in Procs, Step(p)
  PROVE  /\ cmd'[p].pc = "mkcounter" => Add(p) /\ counter = NoCounter /\ cmd'[p].seq = MaxListed + 1
         /\ cmd'[p].pc = "seq" => (Add(p) /\ counter # NoCounter) \/ WriteCounter(p)
         /\ cmd'[p].pc = "counting" => ReadCounter(p)
         /\ cmd'[p].pc = "body" =>
              WriteNext(p) /\ cmd'[p].seq = cmd[p].seq /\ cmd[p].pc = "counting"
         /\ cmd'[p].pc = "row" =>
              WriteBody(p) /\ cmd'[p].seq = cmd[p].seq /\ cmd[p].pc = "body"
         /\ cmd'[p].pc = "unlink" => Remove(p, cmd'[p].seq) /\ cmd'[p].seq \in Ids
<1>1. CASE Add(p)
  BY <1>1, Effects DEF Add
<1>2. ASSUME NEW s \in Ids, Update(p, s) \/ Archive(p, s) \/ Unarchive(p, s)
      PROVE  cmd'[p].pc \in {"lookup", "lock1"}
  BY <1>2, Effects DEF Update, Archive, Unarchive
<1>3. ASSUME NEW s \in Ids, Remove(p, s)
      PROVE  cmd'[p].pc = "unlink" /\ cmd'[p].seq = s
  BY <1>3, Effects DEF Remove
<1>4. ASSUME NEW c \in Command, Maintain(p, c) PROVE cmd'[p].pc = "mread"
  BY <1>4, Effects DEF Maintain
<1>5. CASE WriteCounter(p) \/ WriteNext(p) \/ WriteBody(p)
  BY <1>5, Effects DEF WriteCounter, WriteNext, WriteBody, At
<1>6. CASE AppendRow(p) \/ Rewrite(p) \/ NothingToMove(p) \/ SourceRow(p) \/ Unlink(p)
             \/ Lock1(p) \/ DestinationRow(p) \/ MoveBody(p) \/ Kill(p)
  BY <1>6, Effects
  DEF AppendRow, Rewrite, NothingToMove, SourceRow, Unlink, Lock1, DestinationRow, MoveBody, Kill
<1>7. CASE ReadCounter(p) \/ LookUp(p) \/ LookUpMisses(p) \/ Lock2(p) \/ MaintenanceRead(p)
             \/ RepairScan(p) \/ RepairWrite(p) \/ RepairCounter(p) \/ BackfillWrite(p)
  BY <1>7, Changes
<1> QED BY <1>1, <1>2, <1>3, <1>4, <1>5, <1>6, <1>7 DEF Step, Begin, Proceed

(* A number an add has drawn stays its own. *)
LEMMA IssuesOthers ==
  ASSUME Granted, TypeInv, BackfillAlone, LocksHold, NumbersOnce, NEW p \in Procs,
         NEW q \in Procs, p # q, Step(p)
  PROVE  Issues(q)'
<1> DEFINE s == cmd[q].seq  at == cmd[q].pc
<1>1. /\ cmd'[q] = cmd[q] /\ Issues(q) /\ Issues(p)
      /\ \A o \in Procs : o # p => cmd'[o] = cmd[o]
      /\ cmd[q] \in Doing
      /\ cmd[q].pc \in Numbered => cmd[q].seq \in Ids
  BY OneMoves, Effects DEF TypeInv, TypeOK, Stations, NumbersOnce
<1>2. counter \in Nat /\ s \in Nat
  BY ScribeAssumption DEF TypeInv, TypeOK, Doing
<1>3. counter # NoCounter => counter' # NoCounter
  BY <1>2, CounterCounts DEF NoCounter
<1>4. at \in {"body", "row", "unlink"} /\ counter' # NoCounter => s < counter'
  BY <1>1, <1>2, CounterCounts DEF Issues, Rebuilding, At
<1>5. ASSUME at = "mkcounter" PROVE Rebuilding(q)'
  <2>1. Rebuilding(q) /\ counter = NoCounter
    BY <1>1, <1>5 DEF Issues, Rebuilding
  <2>2. counter' = NoCounter
    BY <1>5, <2>1, CounterCounts DEF WriteCounter, At, Rebuilding
  <2>3. ~WriteBody(p)
    BY <1>1, <2>1 DEF WriteBody, At, Issues
  <2>4. \A n \in Ids : Known(n)' => n < cmd'[q].seq
    BY <1>1, <2>1, <2>3, KnownGrows DEF Rebuilding
  <2>5. cmd'[p].pc = "unlink" => Known(cmd'[p].seq) /\ cmd'[p].seq \in Ids
    BY Arrivals DEF Remove, Known, Dir
  <2>6. \A o \in Procs : cmd'[o].pc = "unlink" => cmd'[o].seq < cmd'[q].seq
    BY <1>1, <2>1, <2>5 DEF Rebuilding, At
  <2>7. cmd'[p].pc # "mkcounter"
    <3>1. ~Add(p)
      BY <1>5, <2>1 DEF Add, Granted, At
    <3> QED BY <3>1, Arrivals
  <2>8. \A o \in Procs : cmd'[o].pc = "mkcounter" => o = q
    BY <1>1, <2>1, <2>7 DEF Rebuilding, At
  <2> QED BY <2>2, <2>4, <2>6, <2>8 DEF Rebuilding, At
<1>6. ASSUME at \in {"body", "row"}
      PROVE  \A o \in Procs : o # q /\ cmd'[o].pc \in {"body", "row", "unlink"} => cmd'[o].seq # s
  <2>1. \A o \in Procs : o # q /\ cmd[o].pc \in {"body", "row", "unlink"} => cmd[o].seq # s
    BY <1>1, <1>6 DEF Issues
  <2>2. cmd'[p].pc = "body" => cmd'[p].seq # s
    <3>1. counter # NoCounter /\ s < counter
      BY <1>1, <1>6 DEF Issues
    <3>2. cmd[p].pc = "counting" => cmd[p].seq = counter
      BY DEF LocksHold, Holds
    <3> QED BY <1>2, <3>1, <3>2, Arrivals
  <2>3. cmd'[p].pc = "row" => cmd'[p].seq # s
    BY <2>1, Arrivals
  <2>4. cmd'[p].pc = "unlink" => cmd'[p].seq # s
    <3>1. Rows("active", s) = 0
      BY <1>1, <1>6 DEF Issues, Known, Dir, TypeInv, TypeOK, Rows, Numbered
    <3> QED BY <3>1, Arrivals DEF Remove
  <2> QED BY <1>1, <2>1, <2>2, <2>3, <2>4
<1>7. ASSUME at = "body" PROVE ~Known(s)'
  <2>4. at = "body" => ~Known(s)
    BY <1>1 DEF Issues
  <2>1. ~Known(s) /\ s \in Ids
    BY <1>1, <1>7, <2>4 DEF Numbered
  <2>2. WriteBody(p) => cmd[p].seq # s
    BY <1>1, <1>7 DEF WriteBody, At, Issues
  <2>3. s' = s
    BY <1>1
  <2> QED BY <2>1, <2>2, <2>3, KnownGrows DEF Known, Rows
<1>8. at = "row" => /\ s \in bodies'["active"] /\ s \notin bodies'["archive"]
                    /\ \A d \in Dir : index'[d][s] = 0
  BY UnlistedIsLeftAlone DEF At
<1>9. at = "unlink" => s \in removed'
  <2>1. AppendRow(p) /\ at = "unlink" => cmd[p].seq # s
    BY <1>1 DEF AppendRow, At, Issues
  <2> QED BY <1>1, <2>1, RemovedStays DEF Issues
<1>10. at \in {"seq", "counting", "body", "row"} => counter' # NoCounter
  BY <1>1, <1>3 DEF Issues
<1> QED BY <1>1, <1>4, <1>5, <1>6, <1>7, <1>8, <1>9, <1>10 DEF Issues, Rows, Known

(* An add draws a number nobody has: the counter's, or one past the rows. *)
LEMMA IssuesOwn ==
  ASSUME Granted, TypeInv, BackfillAlone, LocksHold, NumbersOnce, NEW p \in Procs, Step(p)
  PROVE  Issues(p)'
<1> DEFINE s == cmd'[p].seq  at == cmd'[p].pc
<1>1. /\ Issues(p) /\ PastIssued /\ counter \in Nat
      /\ \A o \in Procs : o # p => cmd'[o] = cmd[o]
      /\ cmd'[p].pc \in Numbered => s \in Ids
  BY OneMoves, Effects, StationOf, ScribeAssumption DEF NumbersOnce, TypeInv, TypeOK
<1>2. ASSUME at = "mkcounter" PROVE Rebuilding(p)'
  <2>1. Add(p) /\ counter = NoCounter /\ s = MaxListed + 1
    BY <1>2, Arrivals
  <2>2. /\ \A q \in Procs : ~At(q, "mkcounter") /\ ~At(q, "unlink")
        /\ \A d \in Dir : \A n \in bodies[d] : Rows(d, n) > 0
        /\ files' = files
    BY <2>1 DEF Add, Granted
  <2>3. \A n \in Ids : Known(n) => n < s
    BY <2>1, <2>2, MaxListedIs, ScribeAssumption DEF Known, Ids
  <2>4. index' = index /\ bodies' = bodies /\ counter' = counter
    BY <2>2 DEF files
  <2>5. \A n \in Ids : Known(n)' => n < s
    BY <2>3, <2>4 DEF Known, Rows
  <2>6. \A o \in Procs : o # p => cmd'[o].pc \notin {"mkcounter", "unlink"}
    BY <1>1, <2>2 DEF At
  <2>7. at = "mkcounter"
    BY <1>2
  <2> QED BY <2>1, <2>4, <2>5, <2>6, <2>7 DEF Rebuilding, At
<1>3. at \in {"seq", "counting", "body", "row"} => counter' # NoCounter
  <2>1. CASE at = "seq"
    <3>1. CASE Add(p) /\ counter # NoCounter
      BY <3>1 DEF Add, files
    <3>2. CASE WriteCounter(p)
      BY <3>2 DEF WriteCounter, At, TypeInv, Stations, NoCounter
    <3> QED BY <2>1, <3>1, <3>2, Arrivals
  <2>2. CASE at = "counting"
    <3>1. counter \in Ids /\ counter' = counter
      BY <2>2, Arrivals DEF ReadCounter, files
    <3> QED BY <3>1, ScribeAssumption DEF Ids, NoCounter
  <2>3. CASE at = "body"
    BY <1>1, <2>3, Arrivals DEF WriteNext, At, TypeInv, Stations, Numbered, Ids, NoCounter
  <2>4. CASE at = "row"
    BY <1>1, <2>4, Arrivals DEF WriteBody, Issues
  <2> QED BY <2>1, <2>2, <2>3, <2>4
<1>4. ASSUME at = "body"
      PROVE  /\ ~Known(cmd[p].seq)' /\ s < counter'
             /\ \A q \in Procs : q # p /\ cmd'[q].pc \in {"body", "row", "unlink"} =>
                  cmd'[q].seq # s
  <2>1. /\ WriteNext(p) /\ s = cmd[p].seq /\ s = counter /\ counter # NoCounter
        /\ counter' = counter + 1 /\ s \in Ids
    BY <1>1, <1>4, Arrivals DEF WriteNext, At, LocksHold, Holds, Issues, Numbered
  <2>2. ~Known(s)
    BY <1>1, <2>1 DEF PastIssued
  <2>3. ~WriteBody(p)
    BY <2>1 DEF WriteNext, WriteBody, At
  <2>4. \A n \in Ids : n = s => ~Known(n)'
    BY <2>1, <2>2, <2>3, KnownGrows
  <2>6. ~Known(cmd[p].seq)'
    BY <2>1, <2>4 DEF Known, Rows
  <2>5. \A q \in Procs : cmd[q].pc \in {"body", "row", "unlink"} => cmd[q].seq < s
    BY <2>1 DEF NumbersOnce, Issues
  <2> QED BY <1>1, <2>1, <2>5, <2>6
<1>5. ASSUME at = "row"
      PROVE  /\ s \in bodies'["active"] /\ s \notin bodies'["archive"] /\ s < counter'
             /\ \A d \in Dir : index'[d][s] = 0
             /\ \A q \in Procs : q # p /\ cmd'[q].pc \in {"body", "row", "unlink"} =>
                  cmd'[q].seq # s
  <2>1. /\ WriteBody(p) /\ s = cmd[p].seq /\ cmd[p].pc = "body" /\ s \in Ids
    BY <1>1, <1>5, Arrivals DEF Numbered
  <2>2. /\ ~Known(s) /\ counter # NoCounter /\ s < counter
        /\ \A q \in Procs : q # p /\ cmd[q].pc \in {"body", "row", "unlink"} => cmd[q].seq # s
    BY <1>1, <2>1 DEF Issues
  <2>3. index' = index /\ counter' = counter
    BY <2>1 DEF WriteBody
  <2>4. \A d \in Dir : index[d][s] = 0 /\ s \notin bodies[d]
    BY <2>1, <2>2 DEF Known, Rows, TypeInv, TypeOK
  <2>5. s \in bodies'["active"] /\ s \notin bodies'["archive"]
    BY <2>1, <2>4 DEF WriteBody, TypeInv, TypeOK, Dir
  <2> QED BY <1>1, <2>2, <2>3, <2>4, <2>5
<1>6. ASSUME at = "unlink" PROVE s \in removed' /\ (counter' # NoCounter => s < counter')
  <2>1. Remove(p, s) /\ s \in Ids
    BY <1>6, Arrivals
  <2>2. Known(s) /\ counter' = counter /\ s \in removed'
    BY <2>1 DEF Remove, Known, Dir
  <2> QED BY <1>1, <2>1, <2>2 DEF PastIssued
<1> QED BY <1>2, <1>3, <1>4, <1>5, <1>6 DEF Issues, Rows, Known

(* No step issues a number twice. *)
LEMMA NumbersNext ==
  ASSUME Granted, TypeInv, BackfillAlone, LocksHold, NumbersOnce, NEW p \in Procs, Step(p)
  PROVE  NumbersOnce'
BY PastIssuedNext, IssuesOwn, IssuesOthers DEF NumbersOnce

(* At first none is issued. *)
LEMMA NumbersInit == Init => NumbersOnce
<1>1. ASSUME Init PROVE PastIssued
  BY <1>1 DEF Init, PastIssued, Known, Rows, Empty, Dir, NoCounter, Ids
<1>2. ASSUME Init, NEW p \in Procs PROVE Issues(p)
  BY <1>2 DEF Init, Issues, Idle
<1> QED BY <1>1, <1>2 DEF NumbersOnce

(* NoBodyOverwritten: no note has the body an add is about to write        *)
(* (_increment_seq).                                                       *)
THEOREM NumbersAreIssuedOnce ==
  ASSUME Granted
  PROVE  Spec => []NoBodyOverwritten
<1> DEFINE Inv == TypeInv /\ BackfillAlone /\ LocksHold /\ NumbersOnce
<1>1. Init => Inv
  BY TypeInit, BackfillInit, LocksInit, NumbersInit
<1>2. Inv /\ [Next]_vars => Inv'
  <2>1. ASSUME Inv, Next PROVE Inv'
    BY <2>1, TypeNext, BackfillNext, LocksNext, NumbersNext, NextIsAStep
  <2>2. ASSUME Inv, UNCHANGED vars PROVE Inv'
    BY <2>2
    DEF vars, files, locks, TypeInv, TypeOK, Stations, BackfillAlone, InFlight, LocksHold, Holds,
        NumbersOnce, PastIssued, Issues, Rebuilding, Known, Rows, At
  <2> QED BY <2>1, <2>2
<1>3. Inv => NoBodyOverwritten
  BY DEF NoBodyOverwritten, NumbersOnce, Issues, Known, Rows, At, Dir
<1> QED BY <1>1, <1>2, <1>3, PTL DEF Spec

-----------------------------------------------------------------------------
(* The shelf.                                                              *)

(* Nothing about note s is changed. *)
SameNote(s) ==
  /\ \A d \in Dir : index'[d][s] = index[d][s] /\ (s \in bodies'[d] <=> s \in bodies[d])
  /\ s \in removed' <=> s \in removed

(* A command touches the files of its own note only. *)
LEMMA OneNoteEach ==
  ASSUME TypeInv, BackfillAlone, LocksHold, NEW p \in Procs, Step(p), NEW s \in Ids,
         s # cmd[p].seq, ~Remove(p, s)
  PROVE  SameNote(s)
<1>1. /\ index \in [Dir -> [Ids -> Nat]] /\ bodies \in [Dir -> SUBSET Ids]
      /\ Holds(p) /\ cmd[p].dir \in Dir /\ Other(cmd[p].dir) \in Dir
      /\ {"active", "archive"} \subseteq Dir
  BY OtherIs DEF TypeInv, TypeOK, Doing, LocksHold, Dir
<1>2. cmd[p].pc \in Numbered => cmd[p].seq \in Ids
  BY DEF TypeInv, Stations
<1>3. CASE Add(p) \/ (\E n \in Ids : Update(p, n) \/ Archive(p, n) \/ Unarchive(p, n))
             \/ (\E c \in Command : Maintain(p, c)) \/ Kill(p)
  BY <1>3 DEF Add, Update, Archive, Unarchive, Maintain, Kill, files, SameNote
<1>4. CASE \E n \in Ids : Remove(p, n)
  <2>1. PICK n \in Ids : Remove(p, n) /\ n # s
    BY <1>4
  <2>2. /\ \A d \in Dir : index'[d][s] = index[d][s]
        /\ s \in removed' <=> s \in removed
    BY <1>1, <2>1 DEF Remove
  <2> QED BY <2>1, <2>2 DEF Remove, SameNote
<1>5. CASE WriteCounter(p) \/ ReadCounter(p) \/ WriteNext(p) \/ LookUpMisses(p) \/ Lock1(p)
             \/ Lock2(p) \/ NothingToMove(p) \/ MaintenanceRead(p) \/ RepairScan(p)
             \/ RepairCounter(p)
  BY <1>5
  DEF WriteCounter, ReadCounter, WriteNext, LookUpMisses, Lock1, Lock2, NothingToMove,
      MaintenanceRead, RepairScan, RepairCounter, files, SameNote
<1>6. CASE WriteBody(p) \/ Unlink(p)
  BY <1>1, <1>6 DEF WriteBody, Unlink, SameNote
<1>7. CASE AppendRow(p)
  BY <1>1, <1>2, <1>7 DEF AppendRow, At, Numbered, SameNote
<1>8. CASE LookUp(p)
  BY <1>1, <1>8 DEF LookUp, SameNote
<1>9. CASE Rewrite(p) \/ BackfillWrite(p)
  BY <1>1, <1>9 DEF Rewrite, BackfillWrite, At, Holds, SameNote
<1>10. CASE DestinationRow(p)
  BY <1>1, <1>2, <1>10 DEF DestinationRow, At, Numbered, SameNote
<1>11. CASE MoveBody(p)
  BY <1>1, <1>11 DEF MoveBody, SameNote
<1>12. CASE SourceRow(p)
  <2>1. cmd[p].seen = index[cmd[p].dir]
    BY <1>1, <1>12 DEF SourceRow, At, Holds
  <2> QED BY <1>1, <1>12, <2>1 DEF SourceRow, SameNote
<1>13. ~RepairWrite(p)
  BY DEF RepairWrite, BackfillAlone
<1> QED BY <1>3, <1>4, <1>5, <1>6, <1>7, <1>8, <1>9, <1>10, <1>11, <1>12, <1>13
        DEF Step, Begin, Proceed

(* A note nobody touched is where it was. *)
LEMMA SamePlace ==
  ASSUME NEW s \in Ids, SameNote(s), InPlace(s)
  PROVE  InPlace(s)' /\ Place'[s] = Place[s]
<1>1. {"active", "archive"} \subseteq Dir
  BY DEF Dir
<1>2. /\ Shelved("active", s)' <=> Shelved("active", s)
      /\ Shelved("archive", s)' <=> Shelved("archive", s)
  BY <1>1 DEF SameNote, Shelved, Rows
<1>3. InPlace(s)'
  BY <1>1, <1>2 DEF SameNote, InPlace, Rows
<1>4. Place'[s] = Place[s]
  BY <1>2 DEF Place, SameNote
<1> QED BY <1>3, <1>4

(* What becomes of one note in a step. *)
Travels(s) ==
  /\ InPlace(s)'
  /\ Place'[s] # Place[s] => <<Place[s], Place'[s]>> \in Shelf!Moves

(* The place of a note, read off its rows and bodies. *)
LEMMA PlaceIs ==
  ASSUME NEW s \in Ids
  PROVE  /\ Place[s] = IF Shelved("active", s) THEN "active"
                       ELSE IF Shelved("archive", s) THEN "archived"
                       ELSE IF s \in removed THEN "removed" ELSE "none"
         /\ Place'[s] = IF Shelved("active", s)' THEN "active"
                        ELSE IF Shelved("archive", s)' THEN "archived"
                        ELSE IF s \in removed' THEN "removed" ELSE "none"
BY DEF Place

(* add: the note appears with its row. *)
LEMMA AddTravels ==
  ASSUME StoreInv, NEW p \in Procs, NEW s \in Ids, s = cmd[p].seq, WriteBody(p) \/ AppendRow(p)
  PROVE  Travels(s)
<1>1. /\ index \in [Dir -> [Ids -> Nat]] /\ bodies \in [Dir -> SUBSET Ids]
      /\ Dir = {"active", "archive"} /\ InPlace(s)
  BY DEF StoreInv, TypeInv, TypeOK, Dir, InItsPlace
<1>2. CASE WriteBody(p)
  <2>1. \A d \in Dir : index[d][s] = 0 /\ s \notin bodies[d]
    <3>1. ~Known(s)
      BY <1>2 DEF WriteBody, At, StoreInv, NumbersOnce, Issues
    <3>2. \A d \in Dir : ~(index[d][s] > 0) /\ s \notin bodies[d]
      BY <3>1 DEF Known, Rows
    <3>3. \A d \in Dir : index[d][s] \in Nat
      BY <1>1
    <3> QED BY <3>2, <3>3
  <2>2. /\ \A d \in Dir : index'[d][s] = 0
        /\ s \notin bodies'["archive"] /\ removed' = removed
    BY <1>1, <1>2, <2>1 DEF WriteBody
  <2>3. InPlace(s)'
    BY <2>2 DEF InPlace, Rows
  <2>4. /\ ~Shelved("active", s) /\ ~Shelved("archive", s)
        /\ ~Shelved("active", s)' /\ ~Shelved("archive", s)'
    BY <1>1, <2>1, <2>2 DEF Shelved, Rows
  <2> QED BY <1>1, <2>2, <2>3, <2>4, PlaceIs DEF Travels
<1>3. CASE AppendRow(p)
  <2>1. s \in bodies["active"] /\ s \notin bodies["archive"] /\ \A d \in Dir : index[d][s] = 0
    BY <1>3 DEF AppendRow, At, StoreInv, NumbersOnce, Issues, Rows
  <2>2. index'["active"][s] > 0 /\ bodies' = bodies /\ index'["archive"][s] = 0
    BY <1>1, <1>3, <2>1 DEF AppendRow
  <2>3. /\ ~Shelved("active", s) /\ ~Shelved("archive", s) /\ Shelved("active", s)'
    BY <1>1, <2>1, <2>2 DEF Shelved, Rows
  <2>4. InPlace(s)'
    BY <2>1, <2>2, <2>3 DEF InPlace
  <2> QED BY <1>1, <2>3, <2>4, PlaceIs DEF Travels, Shelf!Moves
<1> QED BY <1>2, <1>3

(* update: a new body does not take the note anywhere else. *)
LEMMA UpdateTravels ==
  ASSUME StoreInv, NEW p \in Procs, NEW s \in Ids, NEW d \in Dir, s = cmd[p].seq, d = cmd[p].dir,
         LookUp(p) \/ Rewrite(p)
  PROVE  Travels(s)
<1>1. /\ index \in [Dir -> [Ids -> Nat]] /\ bodies \in [Dir -> SUBSET Ids]
      /\ Dir = {"active", "archive"} /\ InPlace(s) /\ Holds(p)
  BY DEF StoreInv, TypeInv, TypeOK, Dir, InItsPlace, LocksHold
<1>2. CASE LookUp(p)
  <2>1. Rows(d, s) > 0 /\ index' = index /\ removed' = removed
    BY <1>2 DEF LookUp
  <2>2. CASE bodies' = bodies
    <3>1. SameNote(s)
      BY <2>1, <2>2 DEF SameNote
    <3> QED BY <1>1, <3>1, SamePlace DEF Travels
  <2>3. CASE bodies' = [bodies EXCEPT ![d] = @ \union {s}]
    <3>1. s \in bodies'[d] /\ \A e \in Dir : e # d => bodies'[e] = bodies[e]
      BY <1>1, <2>3
    <3>2. /\ Shelved(d, s)'
          /\ \A e \in Dir : e # d => (Shelved(e, s)' <=> Shelved(e, s))
      BY <1>1, <2>1, <3>1 DEF Shelved, Rows
    <3>3. InPlace(s)'
      BY <1>1, <2>1, <3>1, <3>2 DEF InPlace, Rows
    <3>4. Shelved("active", s) \/ Shelved("archive", s) \/ s \in removed
      BY <1>1, <2>1 DEF InPlace
    <3> QED BY <1>1, <3>2, <3>3, <3>4, PlaceIs DEF Travels, Shelf!Moves
  <2> QED BY <1>2, <2>2, <2>3 DEF LookUp
<1>3. CASE Rewrite(p)
  <2>1. index' = index
    BY <1>1, <1>3 DEF Rewrite, At, Holds
  <2>2. SameNote(s)
    BY <1>3, <2>1 DEF Rewrite, SameNote
  <2> QED BY <1>1, <2>2, SamePlace DEF Travels
<1> QED BY <1>2, <1>3

(* archive, unarchive: the note goes where its body goes. *)
LEMMA MoveTravels ==
  ASSUME StoreInv, NEW p \in Procs, NEW s \in Ids, NEW d \in Dir, NEW e \in Dir,
         s = cmd[p].seq, d = cmd[p].dir, e # d,
         DestinationRow(p) \/ MoveBody(p) \/ SourceRow(p)
  PROVE  Travels(s)
<1>1. /\ index \in [Dir -> [Ids -> Nat]] /\ bodies \in [Dir -> SUBSET Ids]
      /\ e = Other(cmd[p].dir) /\ Dir = {"active", "archive"} /\ InPlace(s) /\ Holds(p)
  BY OtherIs DEF StoreInv, TypeInv, TypeOK, Dir, InItsPlace, LocksHold
<1>2. Rows(d, s) > 0
  BY DEF DestinationRow, MoveBody, SourceRow, At, StoreInv, LocksHold, Holds, Rows
<1>3. Shelved("active", s) \/ Shelved("archive", s) \/ s \in removed
  BY <1>1, <1>2 DEF InPlace
<1>4. removed' = removed
  BY DEF DestinationRow, MoveBody, SourceRow
<1>5. CASE DestinationRow(p)
  <2>1. /\ index'[d][s] = index[d][s] /\ index'[e][s] > 0 /\ bodies' = bodies
    <3>1. index' = [index EXCEPT ![e][s] = @ + 1] /\ bodies' = bodies
      BY <1>1, <1>5 DEF DestinationRow
    <3> QED BY <1>1, <3>1
  <2>2. /\ Shelved(d, s)' <=> Shelved(d, s)
        /\ Shelved(e, s)' <=> s \in bodies[e]
    BY <2>1 DEF Shelved, Rows
  <2>3. Shelved(e, s) => Shelved(e, s)'
    BY <2>2 DEF Shelved
  <2>4. e = "archive" => (Shelved(e, s)' <=> Shelved(e, s))
    BY <1>1, <2>2 DEF Shelved, InPlace
  <2>5. InPlace(s)'
    BY <1>1, <1>3, <1>4, <2>1, <2>2, <2>3 DEF InPlace, Rows
  <2> QED BY <1>1, <1>3, <1>4, <2>2, <2>3, <2>4, <2>5, PlaceIs DEF Travels, Shelf!Moves
<1>6. CASE MoveBody(p)
  <2>1. index' = index /\ Rows(e, s) > 0
    BY <1>1, <1>6 DEF MoveBody, At, Holds
  <2>2. CASE s \notin bodies[d]
    <3>1. SameNote(s)
      BY <1>4, <1>6, <2>1, <2>2 DEF MoveBody, SameNote
    <3> QED BY <1>1, <3>1, SamePlace DEF Travels
  <2>3. CASE s \in bodies[d]
    <3>1. s \notin bodies'[d] /\ s \in bodies'[e]
      BY <1>1, <1>6, <2>3 DEF MoveBody
    <3>2. Shelved(d, s) /\ ~Shelved(d, s)' /\ Shelved(e, s)'
      BY <1>2, <2>1, <2>3, <3>1 DEF Shelved, Rows
    <3>3. InPlace(s)'
      BY <1>1, <1>2, <2>1, <3>1, <3>2 DEF InPlace, Rows
    <3> QED BY <1>1, <3>2, <3>3, PlaceIs DEF Travels, Shelf!Moves
  <2> QED BY <2>2, <2>3
<1>7. CASE SourceRow(p)
  <2>1. s \notin bodies[d] /\ bodies' = bodies /\ index'[e][s] = index[e][s] /\ index'[d][s] = 0
    BY <1>1, <1>7 DEF SourceRow, At, Holds
  <2>2. /\ ~Shelved(d, s) /\ ~Shelved(d, s)'
        /\ Shelved(e, s)' <=> Shelved(e, s)
    BY <2>1 DEF Shelved, Rows
  <2>3. InPlace(s)'
    BY <1>1, <1>3, <1>4, <2>1, <2>2 DEF InPlace, Rows
  <2> QED BY <1>1, <1>4, <2>2, <2>3, PlaceIs DEF Travels
<1> QED BY <1>5, <1>6, <1>7

(* remove: the note leaves the active shelf, unless another row keeps it.  *)
LEMMA RemoveTravels ==
  ASSUME StoreInv, NEW p \in Procs, NEW s \in Ids,
         Remove(p, s) \/ (Unlink(p) /\ s = cmd[p].seq)
  PROVE  Travels(s)
<1>1. /\ index \in [Dir -> [Ids -> Nat]] /\ bodies \in [Dir -> SUBSET Ids]
      /\ Dir = {"active", "archive"} /\ InPlace(s)
  BY DEF StoreInv, TypeInv, TypeOK, Dir, InItsPlace
<1>2. CASE Remove(p, s)
  <2>1. /\ index'["archive"][s] = index["archive"][s] /\ bodies' = bodies
        /\ s \in removed' /\ Rows("active", s) > 0
    BY <1>1, <1>2 DEF Remove
  <2>2. /\ Shelved("archive", s)' <=> Shelved("archive", s)
        /\ Shelved("active", s)' => s \in bodies["active"]
    BY <2>1 DEF Shelved, Rows
  <2>3. InPlace(s)'
    BY <1>1, <2>1, <2>2 DEF InPlace, Rows
  <2>4. Shelved("active", s) \/ Shelved("archive", s) \/ s \in removed
    BY <1>1, <2>1 DEF InPlace
  <2> QED BY <2>1, <2>2, <2>3, <2>4, PlaceIs DEF Travels, Shelf!Moves
<1>3. CASE Unlink(p) /\ s = cmd[p].seq
  <2>1. s \in removed
    BY <1>3 DEF Unlink, At, StoreInv, NumbersOnce, Issues
  <2>2. /\ index' = index /\ removed' = removed
        /\ bodies'["archive"] = bodies["archive"] /\ s \notin bodies'["active"]
    BY <1>1, <1>3 DEF Unlink
  <2>3. /\ Shelved("archive", s)' <=> Shelved("archive", s)
        /\ ~Shelved("active", s)'
    BY <2>2 DEF Shelved, Rows
  <2>4. InPlace(s)'
    BY <1>1, <2>1, <2>2, <2>3 DEF InPlace, Rows
  <2> QED BY <2>1, <2>2, <2>3, <2>4, PlaceIs DEF Travels, Shelf!Moves
<1> QED BY <1>2, <1>3

(* The steps that change no note at all. *)
LEMMA OthersStand ==
  ASSUME StoreInv, NEW p \in Procs, Step(p), NEW s \in Ids, ~Remove(p, s),
         ~WriteBody(p), ~AppendRow(p), ~LookUp(p), ~Rewrite(p), ~DestinationRow(p), ~MoveBody(p),
         ~SourceRow(p), ~Unlink(p), s = cmd[p].seq
  PROVE  SameNote(s)
<1>1. /\ index \in [Dir -> [Ids -> Nat]] /\ "active" \in Dir /\ cmd[p].dir \in Dir /\ Holds(p)
  BY DEF StoreInv, TypeInv, TypeOK, Doing, LocksHold, Dir
<1>2. CASE Add(p) \/ (\E n \in Ids : Update(p, n) \/ Archive(p, n) \/ Unarchive(p, n))
             \/ (\E c \in Command : Maintain(p, c)) \/ Kill(p)
  BY <1>2 DEF Add, Update, Archive, Unarchive, Maintain, Kill, files, SameNote
<1>3. CASE \E n \in Ids : Remove(p, n)
  <2>1. PICK n \in Ids : Remove(p, n) /\ n # s
    BY <1>3
  <2>2. /\ \A d \in Dir : index'[d][s] = index[d][s]
        /\ s \in removed' <=> s \in removed
    BY <1>1, <2>1 DEF Remove
  <2> QED BY <2>1, <2>2 DEF Remove, SameNote
<1>4. CASE WriteCounter(p) \/ ReadCounter(p) \/ WriteNext(p) \/ LookUpMisses(p) \/ Lock1(p)
             \/ Lock2(p) \/ NothingToMove(p) \/ MaintenanceRead(p) \/ RepairScan(p)
             \/ RepairCounter(p)
  BY <1>4
  DEF WriteCounter, ReadCounter, WriteNext, LookUpMisses, Lock1, Lock2, NothingToMove,
      MaintenanceRead, RepairScan, RepairCounter, files, SameNote
<1>5. CASE BackfillWrite(p)
  BY <1>1, <1>5 DEF BackfillWrite, At, Holds, SameNote
<1>6. ~RepairWrite(p)
  BY DEF RepairWrite, StoreInv, BackfillAlone
<1> QED BY <1>2, <1>3, <1>4, <1>5, <1>6 DEF Step, Begin, Proceed

(* Every note goes one of the ways of NoteShelf, or stays. *)
LEMMA EveryNoteTravels ==
  ASSUME StoreInv, NEW p \in Procs, Step(p), NEW s \in Ids
  PROVE  Travels(s)
<1>1. /\ TypeInv /\ BackfillAlone /\ LocksHold /\ InPlace(s)
      /\ cmd[p].dir \in Dir /\ Other(cmd[p].dir) \in Dir /\ Other(cmd[p].dir) # cmd[p].dir
  BY OtherIs DEF StoreInv, InItsPlace, TypeInv, TypeOK, Doing
<1>2. CASE SameNote(s)
  BY <1>1, <1>2, SamePlace DEF Travels
<1>3. CASE Remove(p, s) \/ (Unlink(p) /\ s = cmd[p].seq)
  BY <1>3, RemoveTravels
<1>4. CASE ~SameNote(s) /\ ~Remove(p, s) /\ ~Unlink(p)
  <2>1. s = cmd[p].seq
    BY <1>1, <1>4, OneNoteEach
  <2>2. CASE WriteBody(p) \/ AppendRow(p)
    BY <2>1, <2>2, AddTravels
  <2>3. CASE LookUp(p) \/ Rewrite(p)
    BY <1>1, <2>1, <2>3, UpdateTravels
  <2>4. CASE DestinationRow(p) \/ MoveBody(p) \/ SourceRow(p)
    BY <1>1, <2>1, <2>4, MoveTravels
  <2> QED BY <1>4, <2>1, <2>2, <2>3, <2>4, OthersStand
<1>5. CASE Unlink(p) /\ s # cmd[p].seq /\ ~Remove(p, s)
  BY <1>1, <1>2, <1>5, OneNoteEach
<1> QED BY <1>2, <1>3, <1>4, <1>5

(* The empty shelf is in order. *)
LEMMA PlacedInit == Init => InItsPlace
<1>1. 1 \in Ids
  BY ScribeAssumption DEF Ids
<1> QED BY <1>1 DEF Init, InItsPlace, InPlace, Shelved, Rows, Empty, Dir

(* The whole invariant is inductive. *)
LEMMA StoreInvNext ==
  ASSUME Granted
  PROVE  /\ Init => StoreInv
         /\ StoreInv /\ [Next]_vars => StoreInv'
<1>1. Init => StoreInv
  BY TypeInit, BackfillInit, LocksInit, NumbersInit, PlacedInit DEF StoreInv
<1>2. ASSUME StoreInv, Next PROVE StoreInv'
  <2>1. PICK p \in Procs : Step(p)
    BY <1>2, NextIsAStep
  <2>2. TypeInv' /\ BackfillAlone' /\ LocksHold' /\ NumbersOnce'
    BY <1>2, <2>1, TypeNext, BackfillNext, LocksNext, NumbersNext DEF StoreInv
  <2>3. InItsPlace'
    BY <1>2, <2>1, EveryNoteTravels DEF InItsPlace, Travels
  <2> QED BY <2>2, <2>3 DEF StoreInv
<1>3. ASSUME StoreInv, UNCHANGED vars PROVE StoreInv'
  BY <1>3
  DEF vars, files, locks, StoreInv, TypeInv, TypeOK, Stations, BackfillAlone, InFlight, LocksHold,
      Holds, NumbersOnce, PastIssued, Issues, Rebuilding, Known, Rows, At, InItsPlace, InPlace,
      Shelved
<1> QED BY <1>1, <1>2, <1>3

(* KeepsTheShelf: no interleaving and no kill loses a note that was listed *)
(* or takes one from the archive: every step of the store is a step of     *)
(* NoteShelf or leaves every note where it is (_move_between_indexes).     *)
THEOREM StoreKeepsTheShelf ==
  ASSUME Granted
  PROVE  Spec => KeepsTheShelf
<1>1. Place \in [Ids -> Shelf!Places]
  BY DEF Place, Shelf!Places
<1>2. Init => Shelf!Init
  BY <1>1 DEF Shelf!Init
<1>3. StoreInv /\ [Next]_vars => [Shelf!Next]_Place
  <2>1. ASSUME StoreInv, Next PROVE Shelf!Next
    <3>1. PICK p \in Procs : Step(p)
      BY <2>1, NextIsAStep
    <3>2. \A s \in Ids : Travels(s)
      BY <2>1, <3>1, EveryNoteTravels
    <3>3. Place' \in [Ids -> Shelf!Places]
      BY DEF Place, Shelf!Places
    <3> QED BY <3>2, <3>3 DEF Travels, Shelf!Next
  <2>2. ASSUME UNCHANGED vars PROVE UNCHANGED Place
    BY <2>2 DEF vars, files, Place, Shelved, Rows
  <2> QED BY <2>1, <2>2
<1>4. Spec => []StoreInv
  BY StoreInvNext, PTL DEF Spec
<1> QED BY <1>2, <1>3, <1>4, PTL DEF Spec, KeepsTheShelf, Shelf!Spec

(* ListedNoteHasBody: a row without any body belongs to a note that is or  *)
(* was being removed, whatever is killed where (add_note writes the body   *)
(* first, _move_between_indexes the destination row).                      *)
THEOREM ListedNotesHaveBodies ==
  ASSUME Granted
  PROVE  Spec => []ListedNoteHasBody
<1>1. StoreInv => ListedNoteHasBody
  BY DEF StoreInv, InItsPlace, InPlace, Shelved, ListedNoteHasBody
<1> QED BY <1>1, StoreInvNext, PTL DEF Spec
=============================================================================
