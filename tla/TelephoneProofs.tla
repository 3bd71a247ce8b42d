--------------------------- MODULE TelephoneProofs ---------------------------
(***************************************************************************)
(* What a session's grant buys, for every number of sessions, invocations, *)
(* repositories, records and typed commands, whatever is killed on the     *)
(* way.  That one typed command buys one call needs a session to check its *)
(* grant in one command at a time, which nothing in telephone/cli.py       *)
(* enforces: the theorem says so in its hypothesis.  That an act run was   *)
(* asked for by the user needs no hypothesis.                              *)
(***************************************************************************)
EXTENDS Telephone, FiniteSetTheorems, WellFoundedInduction, TLAPS

Early == {"idle", "checked", "cleared"}

(* What an invocation has at hand where it is, files being the records.    *)
Fits(c, files) ==
    /\ c.pc \in {"checked", "cleared"} => c.cmd \in {"call", "reply"} /\ c.by \in {"user", "model"}
    /\ c.pc = "hang" => c.cmd = "hangup"
    /\ c.pc \notin Terminal \union {"idle"} => c.repo \in Checkouts
    /\ c.pc \in {"counting", "write", "hang"} => c.id \in Ids
    /\ (\/ c.pc \in {"enter", "run", "settle", "finish", "append"}
        \/ c.pc \in {"checked", "cleared"} /\ c.cmd = "reply")
       => c.id \in Ids /\ files[c.id] \in Record
    /\ c.pc \in {"append", "hang"} => c.seen \in Record
    /\ c.pc \in {"settle", "finish", "append"} => c.rc \in Outcome

(* Who took a slot of the counter has left the checks behind. *)
Past == {p \in Callers : cli[p].pc \notin Early}
SlotsTaken == \A s \in Sessions : autoCalls[s] <= Cardinality(Past)

TypeInv == TypeOK /\ (\A p \in Callers : Fits(cli[p], record)) /\ SlotsTaken

-----------------------------------------------------------------------------
(* Updates.                                                                *)

(* Goto changes where an invocation is, and nothing it knows. *)
LEMMA GotoIs ==
    ASSUME NEW c \in Invocation, NEW to \in PCs
    PROVE  /\ [c EXCEPT !.pc = to] \in Invocation
           /\ [c EXCEPT !.pc = to].pc = to
           /\ \A d : d = [c EXCEPT !.pc = to] =>
                 /\ d.cmd = c.cmd /\ d.repo = c.repo /\ d.act = c.act /\ d.by = c.by
                 /\ d.id = c.id /\ d.seen = c.seen /\ d.start = c.start /\ d.rc = c.rc
BY DEF Invocation

(* Exit forgets what was read. *)
LEMMA ExitIs ==
    ASSUME NEW c \in Invocation, NEW how \in PCs
    PROVE  LET d == [c EXCEPT !.pc = how, !.seen = NoRecord, !.start = Default, !.rc = "none"]
           IN  /\ d \in Invocation
               /\ d.pc = how
               /\ d.cmd = c.cmd /\ d.repo = c.repo /\ d.act = c.act /\ d.by = c.by /\ d.id = c.id
BY DEF Invocation

(* What is on record stays on record. *)
RecordsStay ==
    /\ record' \in [Ids -> Record \union {NoRecord}]
    /\ \A i \in Ids : record[i] \in Record => record'[i] \in Record

(* One invocation goes on. *)
LEMMA OneMoves ==
    ASSUME TypeInv, NEW p \in Callers, NEW c \in Invocation, cli' = [cli EXCEPT ![p] = c],
           RecordsStay, Fits(c, record')
    PROVE  /\ cli' \in [Callers -> Invocation] /\ cli'[p] = c
           /\ \A q \in Callers : q # p => cli'[q] = cli[q]
           /\ \A q \in Callers : Fits(cli'[q], record')
<1>1. /\ cli' \in [Callers -> Invocation] /\ cli'[p] = c
      /\ \A q \in Callers : q # p => cli'[q] = cli[q]
    BY DEF TypeInv, TypeOK
<1>2. ASSUME NEW q \in Callers, q # p PROVE Fits(cli'[q], record')
    <2>1. cli'[q] = cli[q] /\ Fits(cli[q], record) /\ cli[q] \in Invocation
        BY <1>1, <1>2 DEF TypeInv, TypeOK
    <2> QED BY <2>1 DEF Fits, RecordsStay
<1> QED BY <1>1, <1>2

(* AfterLast is the id after the last one on record. *)
LEMMA AfterLastIs ==
    ASSUME TypeOK
    PROVE  /\ AfterLast \in 1..(MaxCalls + 1)
           /\ \A i \in Ids : record[i] # NoRecord => i < AfterLast
<1> DEFINE Above(n) == \A i \in Ids : record[i] # NoRecord => i < n
           Good(n) == Above(n) /\ (n = 1 \/ record[n - 1] # NoRecord)
           S == {n \in 1..(MaxCalls + 1) : Above(n)}
<1>1. MaxCalls + 1 \in S /\ S \subseteq Nat /\ MaxCalls \in Nat
    BY TelephoneAssumption DEF Ids
<1>2. PICK n \in S : \A m \in S : <<m, n>> \notin OpToRel(<, Nat)
    BY ZenonT(60), <1>1, WFMin, NatLessThanWellFounded
<1>3. n \in S
    BY <1>2
<1>4. ASSUME NEW m \in S, m < n PROVE FALSE
    <2>1. <<m, n>> \in Nat \X Nat /\ <<m, n>>[1] < <<m, n>>[2]
        BY <1>1, <1>3, <1>4
    <2>2. <<m, n>> \in OpToRel(<, Nat)
        BY <2>1 DEF OpToRel
    <2> QED BY <1>2, <2>2
<1>5. n = 1 \/ record[n - 1] # NoRecord
    <2> SUFFICES ASSUME n # 1 PROVE record[n - 1] # NoRecord
        OBVIOUS
    <2>1. n \in 1..(MaxCalls + 1) /\ n - 1 \in 1..(MaxCalls + 1) /\ n - 1 < n /\ Above(n)
        BY <1>1, <1>3
    <2>2. ~Above(n - 1)
        BY <1>4, <2>1
    <2>3. PICK i \in Ids : record[i] # NoRecord /\ ~(i < n - 1)
        BY <2>2
    <2>4. i < n /\ i \in Nat /\ n \in Nat
        BY <1>1, <2>1, <2>3 DEF Ids
    <2>5. i = n - 1
        BY <2>3, <2>4
    <2> QED BY <2>3, <2>5
<1>6. \E m \in 1..(MaxCalls + 1) : Good(m)
    BY <1>3, <1>5
<1>7. AfterLast = CHOOSE m \in 1..(MaxCalls + 1) : Good(m)
    BY DEF AfterLast
<1>8. AfterLast \in 1..(MaxCalls + 1) /\ Good(AfterLast)
    BY <1>6, <1>7
<1> QED BY <1>8
-----------------------------------------------------------------------------
(* What the steps of an invocation do.                                     *)

Waiting(c) == c.pc \in {"checked", "cleared"}
Counted(c) == /\ c.pc \notin {"idle", "checked", "cleared", "refused", "hang", "killed"}
              /\ c.cmd \in {"call", "reply"}
Same(c, d) == c.cmd = d.cmd /\ c.repo = d.repo /\ c.act = d.act /\ c.by = d.by

StoreType ==
    /\ counter' \in 0..(MaxCalls + 1)
    /\ seqLock' \in Callers \union {NoOne}
    /\ RecordsStay
    /\ tree' \in [Checkouts -> [on : {Default} \union Ids, dirty : BOOLEAN]]

(* An invocation goes on, is over, or hangs up: no new call waits or is    *)
(* placed.                                                                 *)
GoesOn(p) ==
    \E c \in Invocation :
        /\ cli' = [cli EXCEPT ![p] = c]
        /\ Fits(c, record')
        /\ Waiting(c) => Waiting(cli[p]) /\ Same(c, cli[p])
        /\ Counted(c) => Counted(cli[p]) /\ Same(c, cli[p])
        /\ c.pc \in Early => cli[p].pc \in Early
        /\ UNCHANGED <<flags, typed>>

(* A call or a follow-up passes its checks, or is refused. *)
Begun(p) ==
    LET s == SessionOf[p] IN
    \E c \in Invocation :
        /\ cli' = [cli EXCEPT ![p] = c]
        /\ Fits(c, record')
        /\ OneAtATime => \A q \in Callers : SessionOf[q] = s => ~Waiting(cli[q])
        /\ cli[p].pc = "idle" /\ c.pc \in {"checked", "cleared", "refused"}
        /\ c.cmd \in {"call", "reply"} /\ c.repo \in Checkouts /\ c.by = PlacedBy(s, c.repo)
        /\ Waiting(c) /\ c.act => ActGranted(s, c.repo)
        /\ Waiting(c) /\ c.cmd = "call" /\ c.by = "model" => CallCap = 0 \/ autoCalls[s] < CallCap
        /\ grant' = GrantRead(s)
        /\ UNCHANGED <<store, autoCalls, tree, typed>>

(* A call or a follow-up is placed. *)
Spent(p) ==
    LET s == SessionOf[p] IN
    \E c \in Invocation :
        /\ cli' = [cli EXCEPT ![p] = c]
        /\ Fits(c, record')
        /\ Waiting(cli[p]) /\ Counted(c) /\ Same(c, cli[p]) /\ c.pc \notin Early
        /\ \/ /\ cli[p].by = "user"
              /\ grant' = [grant EXCEPT ![s] = NoGrant] /\ UNCHANGED autoCalls
           \/ /\ cli[p].by # "user" /\ UNCHANGED grant
              /\ autoCalls' = IF cli[p].cmd = "call" THEN [autoCalls EXCEPT ![s] = @ + 1]
                                                     ELSE autoCalls
        /\ UNCHANGED <<store, tree, typed>>

(* A record is written. *)
LEMMA PutRecord ==
    ASSUME TypeOK, NEW i \in Ids, NEW rec \in Record, record' = [record EXCEPT ![i] = rec]
    PROVE  RecordsStay /\ record'[i] = rec
BY DEF TypeOK, RecordsStay

(* The records are left alone. *)
LEMMA LeaveRecords ==
    ASSUME TypeOK, UNCHANGED record
    PROVE  RecordsStay
BY DEF TypeOK, RecordsStay

(* Goto within a command. *)
LEMMA GotoGoesOn ==
    ASSUME TypeInv, NEW p \in Callers, NEW to \in PCs, Goto(p, to), UNCHANGED <<flags, typed>>,
           Fits([cli[p] EXCEPT !.pc = to], record'),
           to \in {"checked", "cleared"} => Waiting(cli[p]),
           to \notin {"idle", "checked", "cleared", "refused", "hang", "killed"} =>
              cli[p].pc \notin {"idle", "checked", "cleared", "refused", "hang", "killed"},
           to \in Early => cli[p].pc \in Early
    PROVE  GoesOn(p)
<1> DEFINE c == [cli[p] EXCEPT !.pc = to]
<1>1. cli[p] \in Invocation
    BY DEF TypeInv, TypeOK
<1>2. c \in Invocation /\ c.pc = to /\ Same(c, cli[p])
    BY <1>1, GotoIs DEF Same
<1>3. cli' = [cli EXCEPT ![p] = c]
    BY DEF Goto
<1>4. Fits(c, record')
    OBVIOUS
<1> HIDE DEF c
<1>5. Counted(c) => Counted(cli[p])
    BY <1>2 DEF Counted, Same
<1> QED BY <1>2, <1>3, <1>4, <1>5 DEF GoesOn, Waiting

(* A process that is over. *)
LEMMA ExitGoesOn ==
    ASSUME TypeInv, NEW p \in Callers, NEW how \in {"done", "refused", "killed", "orphan"},
           Exit(p, how), UNCHANGED <<flags, typed>>,
           how = "orphan" => cli[p].pc = "run",
           how = "done" => cli[p].pc \notin {"idle", "checked", "cleared", "refused", "killed"}
    PROVE  GoesOn(p)
<1> DEFINE c == [cli[p] EXCEPT !.pc = how, !.seen = NoRecord, !.start = Default, !.rc = "none"]
<1>1. cli[p] \in Invocation /\ Fits(cli[p], record) /\ how \in PCs
    BY DEF TypeInv, TypeOK, PCs, Terminal
<1>2. c \in Invocation /\ c.pc = how /\ Same(c, cli[p]) /\ c.id = cli[p].id
    BY <1>1, ExitIs DEF Same
<1>3. cli' = [cli EXCEPT ![p] = c]
    BY DEF Exit
<1> HIDE DEF c
<1>4. Fits(c, record')
    <2>1. CASE how = "orphan"
        <3>1. cli[p].repo \in Checkouts
            BY <1>1, <2>1 DEF Fits, Terminal
        <3> QED BY <1>2, <2>1, <3>1 DEF Fits, Same
    <2>2. CASE how # "orphan"
        BY <1>2, <2>2 DEF Fits, Terminal
    <2> QED BY <2>1, <2>2
<1>5. Counted(c) => Counted(cli[p])
    <2>1. cli[p].pc = "hang" => cli[p].cmd = "hangup"
        BY <1>1 DEF Fits
    <2> QED BY <1>2, <2>1 DEF Counted, Same
<1> QED BY <1>2, <1>3, <1>4, <1>5 DEF GoesOn, Waiting, Early

(* What else an invocation knows stays. *)
LEMMA Knowing ==
    ASSUME TypeInv, NEW p \in Callers
    PROVE  cli[p] \in Invocation /\ Fits(cli[p], record)
BY DEF TypeInv, TypeOK

(* The guard of act mode, before the grant is spent. *)
LEMMA PreflightStep ==
    ASSUME TypeInv, NEW p \in Callers, ActPreflight(p)
    PROVE  StoreType /\ GoesOn(p)
<1>1. At(p, "checked") /\ UNCHANGED <<store, flags, tree, typed>>
    BY DEF ActPreflight
<1>2. StoreType
    BY <1>1, LeaveRecords DEF StoreType, store, TypeInv, TypeOK
<1>3. CASE Goto(p, "cleared")
    <2> DEFINE c == [cli[p] EXCEPT !.pc = "cleared"]
    <2>1. cli[p] \in Invocation /\ Fits(cli[p], record) /\ "cleared" \in PCs
        BY Knowing DEF PCs
    <2>2. /\ c.pc = "cleared" /\ c.cmd = cli[p].cmd /\ c.repo = cli[p].repo /\ c.id = cli[p].id
          /\ c.by = cli[p].by
        BY <2>1, GotoIs
    <2> HIDE DEF c
    <2>3. Fits(c, record')
        BY <1>1, <2>1, <2>2 DEF Fits, At, store, Terminal
    <2>4. Fits([cli[p] EXCEPT !.pc = "cleared"], record')
        BY <2>3 DEF c
    <2>5. cli[p].pc = "checked" /\ UNCHANGED <<flags, typed>>
        BY <1>1 DEF At, flags
    <2> QED BY <1>2, <1>3, <2>1, <2>4, <2>5, GotoGoesOn DEF Waiting, Early
<1>4. CASE Exit(p, "refused")
    <2>1. UNCHANGED <<flags, typed>> /\ cli[p].pc = "checked"
        BY <1>1 DEF At
    <2> QED BY <1>2, <1>4, <2>1, ExitGoesOn
<1> QED BY <1>3, <1>4 DEF ActPreflight

(* Where a call stands while its id is made. *)
Making == {"layout", "mkcounter", "seq", "counting", "write", "enter", "run", "settle", "finish"}

(* Goto where nothing more is needed than is known. *)
LEMMA GotoOn ==
    ASSUME TypeInv, NEW p \in Callers, NEW to \in Making \union {"append"}, Goto(p, to),
           UNCHANGED <<flags, typed>>, RecordsStay, cli[p].pc \in Making,
           to \in {"write"} => cli[p].id \in Ids,
           to \notin {"counting", "append"},
           to \in {"enter", "run", "settle", "finish"} =>
              cli[p].id \in Ids /\ record'[cli[p].id] \in Record,
           to \in {"settle", "finish"} => cli[p].rc \in Outcome
    PROVE  GoesOn(p)
<1> DEFINE c == [cli[p] EXCEPT !.pc = to]
<1>1. cli[p] \in Invocation /\ Fits(cli[p], record)
    BY Knowing
<1>2. /\ to \in PCs /\ c.pc = to /\ c.cmd = cli[p].cmd /\ c.repo = cli[p].repo
      /\ c.id = cli[p].id /\ c.rc = cli[p].rc
    BY <1>1, GotoIs DEF PCs, Making
<1> HIDE DEF c
<1>3. Fits(c, record')
    BY <1>1, <1>2 DEF Fits, Making, Terminal
<1>4. Fits([cli[p] EXCEPT !.pc = to], record')
    BY <1>3 DEF c
<1> QED BY <1>2, <1>4, GotoGoesOn DEF Making, Early

(* The id of a call: its year's counter, under the lock. *)
LEMMA IdStep ==
    ASSUME TypeInv, NEW p \in Callers,
           LookForCounter(p) \/ WriteCounter(p) \/ ReadCounter(p) \/ WriteNext(p)
    PROVE  StoreType /\ GoesOn(p)
<1>1. /\ UNCHANGED <<record, flags, tree, typed>>
      /\ cli[p].pc \in {"layout", "mkcounter", "seq", "counting"}
    BY DEF LookForCounter, WriteCounter, ReadCounter, WriteNext, store, At
<1>2. RecordsStay /\ UNCHANGED <<flags, typed>>
    BY <1>1, LeaveRecords DEF TypeInv
<1>3. cli[p] \in Invocation /\ Fits(cli[p], record)
    BY Knowing
<1>4. ASSUME NEW n \in 0..(MaxCalls + 1), NEW to \in {"mkcounter", "counting"},
             to = "counting" => n \in Ids,
             cli' = [cli EXCEPT ![p] = [cli[p] EXCEPT !.pc = to, !.id = n]]
      PROVE  GoesOn(p)
    <2> DEFINE c == [cli[p] EXCEPT !.pc = to, !.id = n]
    <2>1. /\ c \in Invocation /\ c.pc = to /\ c.id = n /\ c.repo = cli[p].repo /\ c.cmd = cli[p].cmd
          /\ Same(c, cli[p])
        BY ZenonT(60), <1>3 DEF Invocation, PCs, Same
    <2>2. cli' = [cli EXCEPT ![p] = c]
        BY <1>4
    <2> HIDE DEF c
    <2>3. Fits(c, record')
        BY <1>1, <1>3, <1>4, <2>1 DEF Fits, Terminal
    <2>4. Counted(c) => Counted(cli[p])
        BY <1>1, <2>1 DEF Counted
    <2> QED BY <1>2, <1>4, <2>1, <2>2, <2>3, <2>4 DEF GoesOn, Waiting, Early
<1>5. ASSUME NEW to \in {"seq", "write"}, Goto(p, to), to = "write" => cli[p].id \in Ids
      PROVE  GoesOn(p)
    BY <1>1, <1>2, <1>5, GotoOn DEF Making
<1>6. CASE LookForCounter(p)
    <2>1. AfterLast \in 0..(MaxCalls + 1)
        BY AfterLastIs, TelephoneAssumption DEF TypeInv
    <2>2. GoesOn(p)
        BY <1>4, <1>5, <1>6, <2>1 DEF LookForCounter
    <2> QED BY <1>2, <1>6, <2>2 DEF LookForCounter, StoreType, store, TypeInv, TypeOK
<1>7. CASE WriteCounter(p)
    <2>1. cli[p].id \in 0..(MaxCalls + 1)
        BY <1>3 DEF Invocation
    <2> QED BY <1>2, <1>5, <1>7, <2>1 DEF WriteCounter, StoreType, TypeInv, TypeOK
<1>8. CASE ReadCounter(p)
    <2>1. PICK n \in Ids :
            cli' = [cli EXCEPT ![p] = [cli[p] EXCEPT !.pc = "counting", !.id = n]]
        BY <1>8 DEF ReadCounter
    <2>2. n \in 0..(MaxCalls + 1)
        BY TelephoneAssumption DEF Ids
    <2>3. GoesOn(p)
        BY <1>4, <2>1, <2>2
    <2> QED BY <1>2, <1>8, <2>3 DEF ReadCounter, StoreType, TypeInv, TypeOK
<1>9. CASE WriteNext(p)
    <2>1. cli[p].id \in Ids
        BY <1>3, <1>9 DEF Fits, WriteNext, At
    <2>2. cli[p].id + 1 \in 0..(MaxCalls + 1)
        BY <2>1, TelephoneAssumption DEF Ids
    <2> QED BY <1>2, <1>5, <1>9, <2>1, <2>2 DEF WriteNext, StoreType, TypeInv, TypeOK
<1> QED BY <1>6, <1>7, <1>8, <1>9

(* The record of a call is written before its callee runs. *)
LEMMA RecordStep ==
    ASSUME TypeInv, NEW p \in Callers, WriteRecord(p)
    PROVE  StoreType /\ GoesOn(p)
<1>1. /\ cli[p].pc = "write" /\ UNCHANGED <<counter, seqLock, flags, tree, typed>>
      /\ Goto(p, IF cli[p].act THEN "enter" ELSE "run")
    BY DEF WriteRecord, At
<1>2. cli[p] \in Invocation /\ cli[p].id \in Ids /\ cli[p].repo \in Checkouts
    BY <1>1, Knowing DEF Fits, Terminal
<1> DEFINE rec == [status |-> "open", act |-> cli[p].act, repo |-> cli[p].repo, exchanges |-> <<>>]
<1>3. rec \in Record
    BY <1>2 DEF Record, Invocation
<1>4. record' = [record EXCEPT ![cli[p].id] = rec]
    BY DEF WriteRecord
<1> HIDE DEF rec
<1>5. RecordsStay /\ record'[cli[p].id] \in Record
    BY <1>2, <1>3, <1>4, PutRecord DEF TypeInv
<1>6. PICK to \in {"enter", "run"} : Goto(p, to)
    BY <1>1
<1>7. GoesOn(p)
    BY <1>1, <1>2, <1>5, <1>6, GotoOn DEF Making
<1> QED BY <1>1, <1>5, <1>7 DEF StoreType, TypeInv, TypeOK

(* A call that never ran is closed; a follow-up leaves the record. *)
LEMMA AbandonStep ==
    ASSUME TypeInv, NEW p \in Callers, cli[p].pc \in {"enter", "run"}, Abandon(p)
    PROVE  StoreType /\ GoesOn(p)
<1>1. Exit(p, "done") /\ UNCHANGED <<counter, seqLock, flags, tree, typed>>
    BY DEF Abandon
<1>2. cli[p] \in Invocation /\ cli[p].id \in Ids /\ cli[p].repo \in Checkouts
    BY Knowing DEF Fits, Terminal
<1>3. RecordsStay
    <2> DEFINE rec == [status |-> "failed", act |-> cli[p].act, repo |-> cli[p].repo, exchanges |-> <<>>]
    <2>1. rec \in Record
        BY <1>2 DEF Record, Invocation, Outcome
    <2>2. record' = [record EXCEPT ![cli[p].id] = rec] \/ record' = record
        BY DEF Abandon
    <2> HIDE DEF rec
    <2> QED BY <1>2, <2>1, <2>2, PutRecord, LeaveRecords DEF TypeInv
<1>4. GoesOn(p)
    BY <1>1, ExitGoesOn
<1> QED BY <1>1, <1>3, <1>4 DEF StoreType, TypeInv, TypeOK

(* The checkout of an act run, before it and after it. *)
LEMMA CheckoutStep ==
    ASSUME TypeInv, NEW p \in Callers, EnterWorkBranch(p) \/ SettleAct(p)
    PROVE  StoreType /\ GoesOn(p)
<1>1. UNCHANGED <<store, flags, typed>> /\ cli[p].pc \in {"enter", "settle"}
    BY DEF EnterWorkBranch, SettleAct, At
<1>2. UNCHANGED record /\ RecordsStay
    BY <1>1, LeaveRecords DEF store, TypeInv
<1>3. /\ cli[p] \in Invocation /\ cli[p].id \in Ids /\ cli[p].repo \in Checkouts
      /\ record[cli[p].id] \in Record /\ record'[cli[p].id] \in Record
      /\ cli[p].pc = "settle" => cli[p].rc \in Outcome
    BY <1>1, <1>2, Knowing DEF Fits, Terminal
<1>4. tree[cli[p].repo] \in [on : {Default} \union Ids, dirty : BOOLEAN]
    BY <1>3 DEF TypeInv, TypeOK
<1>5. CASE EnterWorkBranch(p)
    <2> DEFINE c == [cli[p] EXCEPT !.pc = "run", !.start = tree[cli[p].repo].on]
    <2>1. /\ c \in Invocation /\ c.pc = "run" /\ c.id = cli[p].id /\ c.repo = cli[p].repo
          /\ Same(c, cli[p])
        BY ZenonT(60), <1>3, <1>4 DEF Invocation, PCs, Same
    <2>2. cli' = [cli EXCEPT ![p] = c]
        BY <1>5 DEF EnterWorkBranch
    <2> HIDE DEF c
    <2>3. Fits(c, record')
        BY <1>3, <2>1 DEF Fits, Terminal
    <2>4. Counted(c) => Counted(cli[p])
        BY <1>1, <2>1 DEF Counted, Same
    <2>5. GoesOn(p)
        BY <1>1, <2>1, <2>2, <2>3, <2>4 DEF GoesOn, Waiting, Early
    <2>6. tree' = [tree EXCEPT ![cli[p].repo].on = cli[p].id]
        BY <1>5 DEF EnterWorkBranch
    <2>7. tree' \in [Checkouts -> [on : {Default} \union Ids, dirty : BOOLEAN]]
        BY <1>3, <2>6 DEF TypeInv, TypeOK
    <2> QED BY <1>1, <1>2, <2>5, <2>7 DEF StoreType, store, TypeInv, TypeOK
<1>6. CASE SettleAct(p)
    <2>1. GoesOn(p)
        BY <1>1, <1>2, <1>3, <1>6, GotoOn DEF SettleAct, Making, At
    <2>2. cli[p].start \in {Default} \union Ids
        BY <1>3 DEF Invocation
    <2>3. tree' \in [Checkouts -> [on : {Default} \union Ids, dirty : BOOLEAN]]
        BY ZenonT(60), <1>6, <2>2 DEF SettleAct, TypeInv, TypeOK
    <2> QED BY <1>1, <1>2, <2>1, <2>3 DEF StoreType, store, TypeInv, TypeOK
<1> QED BY <1>5, <1>6

(* The run ends, and the record is read and written back. *)
LEMMA EndStep ==
    ASSUME TypeInv, NEW p \in Callers,
           (\E rc \in Outcome : RunEnds(p, rc)) \/ ReadRecord(p)
    PROVE  StoreType /\ GoesOn(p)
<1>1. UNCHANGED <<store, flags, tree, typed>> /\ cli[p].pc \in {"run", "finish"}
    BY DEF RunEnds, ReadRecord, At
<1>2. UNCHANGED record /\ RecordsStay
    BY <1>1, LeaveRecords DEF store, TypeInv
<1>3. /\ cli[p] \in Invocation /\ cli[p].id \in Ids /\ cli[p].repo \in Checkouts
      /\ record[cli[p].id] \in Record /\ record'[cli[p].id] \in Record
      /\ cli[p].pc = "finish" => cli[p].rc \in Outcome
    BY <1>1, <1>2, Knowing DEF Fits, Terminal
<1>4. ASSUME NEW c \in Invocation, cli' = [cli EXCEPT ![p] = c], Same(c, cli[p]), c.id = cli[p].id,
             c.pc \in {"settle", "finish", "append"}, c.rc \in Outcome,
             c.pc = "append" => c.seen \in Record
      PROVE  GoesOn(p)
    <2>1. Fits(c, record')
        BY <1>3, <1>4 DEF Fits, Terminal, Same
    <2>2. Counted(c) => Counted(cli[p])
        BY <1>1, <1>4 DEF Counted, Same
    <2> QED BY <1>1, <1>4, <2>1, <2>2 DEF GoesOn, Waiting, Early
<1>5. ASSUME NEW rc \in Outcome, RunEnds(p, rc) PROVE GoesOn(p)
    <2>1. PICK to \in {"settle", "finish"} : cli' = [cli EXCEPT ![p] = [cli[p] EXCEPT !.pc = to, !.rc = rc]]
        BY <1>5 DEF RunEnds
    <2> DEFINE c == [cli[p] EXCEPT !.pc = to, !.rc = rc]
    <2>2. c \in Invocation /\ c.pc = to /\ c.rc = rc /\ c.id = cli[p].id /\ Same(c, cli[p])
        BY ZenonT(60), <1>3 DEF Invocation, PCs, Same
    <2>3. cli' = [cli EXCEPT ![p] = c]
        BY <2>1
    <2> HIDE DEF c
    <2> QED BY <1>4, <2>2, <2>3
<1>6. CASE ReadRecord(p)
    <2> DEFINE c == [cli[p] EXCEPT !.pc = "append", !.seen = record[cli[p].id]]
    <2>1. /\ c \in Invocation /\ c.pc = "append" /\ c.seen = record[cli[p].id]
          /\ c.rc = cli[p].rc /\ c.id = cli[p].id /\ Same(c, cli[p])
        BY <1>3 DEF Invocation, PCs, Same
    <2>2. cli' = [cli EXCEPT ![p] = c] /\ cli[p].pc = "finish"
        BY <1>6 DEF ReadRecord, At
    <2> HIDE DEF c
    <2> QED BY <1>1, <1>2, <1>3, <1>4, <2>1, <2>2 DEF StoreType, store, TypeInv, TypeOK
<1> QED BY <1>1, <1>2, <1>5, <1>6 DEF StoreType, store, TypeInv, TypeOK

(* What was read is written back: with the exchange, or as hung up. *)
LEMMA WriteBackStep ==
    ASSUME TypeInv, NEW p \in Callers, AppendExchange(p) \/ MarkHungUp(p)
    PROVE  StoreType /\ GoesOn(p)
<1>1. /\ Exit(p, "done") /\ UNCHANGED <<counter, seqLock, flags, tree, typed>>
      /\ cli[p].pc \in {"append", "hang"}
    BY DEF AppendExchange, MarkHungUp, At
<1>2. /\ cli[p] \in Invocation /\ cli[p].id \in Ids /\ cli[p].seen \in Record
      /\ cli[p].pc = "append" => cli[p].rc \in Outcome
    BY <1>1, Knowing DEF Fits
<1>3. PICK rec \in Record : record' = [record EXCEPT ![cli[p].id] = rec]
    <2>1. CASE AppendExchange(p)
        <3> DEFINE rec == [cli[p].seen EXCEPT !.status = cli[p].rc, !.exchanges = Append(@, p)]
        <3>1. cli[p].rc \in Outcome
            BY <1>2, <2>1 DEF AppendExchange, At
        <3>2. Append(cli[p].seen.exchanges, p) \in Seq(Callers)
            BY <1>2 DEF Record
        <3>3. rec \in Record
            BY <1>2, <3>1, <3>2 DEF Record
        <3> QED BY <2>1, <3>3 DEF AppendExchange
    <2>2. CASE MarkHungUp(p)
        <3>1. [cli[p].seen EXCEPT !.status = "hung_up"] \in Record
            BY <1>2 DEF Record
        <3> QED BY <2>2, <3>1 DEF MarkHungUp
    <2> QED BY <2>1, <2>2
<1>4. RecordsStay
    BY <1>2, <1>3, PutRecord DEF TypeInv
<1>5. GoesOn(p)
    BY <1>1, ExitGoesOn
<1> QED BY <1>1, <1>4, <1>5 DEF StoreType, TypeInv, TypeOK

(* A process is killed, or what it left behind ends. *)
LEMMA KillStep ==
    ASSUME TypeInv, NEW p \in Callers, Kill(p) \/ OrphanEnds(p)
    PROVE  StoreType /\ GoesOn(p)
<1>1. UNCHANGED <<counter, record, flags, tree, typed>> /\ seqLock' \in {seqLock, NoOne}
    BY DEF Kill, OrphanEnds, store
<1>2. Exit(p, "killed") \/ (Exit(p, "orphan") /\ cli[p].pc = "run")
    BY DEF Kill, OrphanEnds, At
<1>3. GoesOn(p)
    BY <1>1, <1>2, ExitGoesOn
<1> QED BY <1>1, <1>3, LeaveRecords DEF StoreType, TypeInv, TypeOK

(* hangup, for a record on file. *)
LEMMA HangupStep ==
    ASSUME TypeInv, NEW p \in Callers, NEW i \in Ids, Hangup(p, i)
    PROVE  StoreType /\ GoesOn(p)
<1>1. UNCHANGED <<store, flags, tree, typed>> /\ cli[p].pc = "idle" /\ record[i] # NoRecord
    BY DEF Hangup, Begins, At
<1>2. cli[p] \in Invocation /\ record[i] \in Record
    BY <1>1, Knowing DEF TypeInv, TypeOK
<1>3. record[i].repo \in Checkouts /\ i \in 0..(MaxCalls + 1)
    BY <1>2, TelephoneAssumption DEF Record, Ids
<1>4. PICK to \in {"hang", "done"} :
        cli' = [cli EXCEPT ![p] = [cli[p] EXCEPT
                  !.pc = to, !.cmd = "hangup", !.repo = record[i].repo, !.id = i, !.seen = record[i]]]
    BY DEF Hangup
<1> DEFINE c == [cli[p] EXCEPT
                  !.pc = to, !.cmd = "hangup", !.repo = record[i].repo, !.id = i, !.seen = record[i]]
<1>5. /\ c \in Invocation /\ c.pc = to /\ c.cmd = "hangup" /\ c.repo = record[i].repo
      /\ c.id = i /\ c.seen = record[i]
    BY ZenonT(60), <1>2, <1>3 DEF Invocation, PCs, Terminal, Command
<1>6. cli' = [cli EXCEPT ![p] = c]
    BY <1>4
<1> HIDE DEF c
<1>7. Fits(c, record')
    BY <1>2, <1>3, <1>5 DEF Fits, Terminal
<1>8. GoesOn(p)
    BY <1>1, <1>5, <1>6, <1>7 DEF GoesOn, Counted, Waiting, Early
<1>9. RecordsStay
    BY <1>1, LeaveRecords DEF store, TypeInv
<1> QED BY <1>1, <1>8, <1>9 DEF StoreType, store, TypeInv, TypeOK

(* The callee edits its checkout; no invocation goes on. *)
LEMMA CalleeStep ==
    ASSUME TypeInv, NEW p \in Callers, CalleeWorks(p)
    PROVE  StoreType /\ UNCHANGED <<flags, cli, typed>>
<1>1. UNCHANGED <<store, flags, cli, typed>>
    BY DEF CalleeWorks
<1>2. tree' \in [Checkouts -> [on : {Default} \union Ids, dirty : BOOLEAN]]
    <2>1. cli[p].repo \in Checkouts
        BY Knowing DEF CalleeWorks, Fits, Terminal
    <2>2. tree[cli[p].repo] \in [on : {Default} \union Ids, dirty : BOOLEAN]
        BY <2>1 DEF TypeInv, TypeOK
    <2>3. (~tree[cli[p].repo].dirty) \in BOOLEAN
        OBVIOUS
    <2>4. PICK t \in [on : {Default} \union Ids, dirty : BOOLEAN] :
            tree' = [tree EXCEPT ![cli[p].repo] = t]
        <3>1. /\ [tree[cli[p].repo] EXCEPT !.dirty = ~tree[cli[p].repo].dirty]
                     \in [on : {Default} \union Ids, dirty : BOOLEAN]
              /\ [tree[cli[p].repo] EXCEPT !.on = Default]
                     \in [on : {Default} \union Ids, dirty : BOOLEAN]
            BY <2>2, <2>3
        <3>2. \/ tree' = [tree EXCEPT ![cli[p].repo] =
                             [tree[cli[p].repo] EXCEPT !.dirty = ~tree[cli[p].repo].dirty]]
              \/ tree' = [tree EXCEPT ![cli[p].repo] = [tree[cli[p].repo] EXCEPT !.on = Default]]
            BY DEF CalleeWorks
        <3> QED BY <3>1, <3>2
    <2> QED BY <2>4 DEF TypeInv, TypeOK
<1> QED BY <1>1, <1>2, LeaveRecords DEF StoreType, store, TypeInv, TypeOK

(* The grant is spent, or a slot of the counter is taken. *)
LEMMA SpendStep ==
    ASSUME TypeInv, NEW p \in Callers, Spend(p)
    PROVE  Spent(p)
<1>1. UNCHANGED <<store, tree, typed>> /\ Waiting(cli[p])
    BY DEF Spend, At, Waiting
<1>2. cli[p] \in Invocation /\ Fits(cli[p], record) /\ UNCHANGED record
    BY <1>1, Knowing DEF store
<1>3. PICK to \in {"layout", "enter", "run"} :
        Goto(p, to) /\ (to = "layout" <=> cli[p].cmd = "call")
    BY DEF Spend
<1> DEFINE c == [cli[p] EXCEPT !.pc = to]
<1>4. c \in Invocation /\ c.pc = to /\ c.cmd = cli[p].cmd /\ c.id = cli[p].id /\ Same(c, cli[p])
    BY <1>2, GotoIs DEF Same, PCs
<1>5. cli' = [cli EXCEPT ![p] = c]
    BY <1>3 DEF Goto
<1> HIDE DEF c
<1>6. Fits(c, record')
    BY <1>1, <1>2, <1>3, <1>4 DEF Fits, Waiting, Same, Terminal
<1>7. Counted(c) /\ c.pc \notin Early
    BY <1>1, <1>2, <1>4 DEF Counted, Fits, Waiting, Same, Early
<1>8. \/ /\ cli[p].by = "user"
         /\ grant' = [grant EXCEPT ![SessionOf[p]] = NoGrant] /\ UNCHANGED autoCalls
      \/ /\ cli[p].by # "user" /\ UNCHANGED grant
         /\ autoCalls' = IF cli[p].cmd = "call" THEN [autoCalls EXCEPT ![SessionOf[p]] = @ + 1]
                                                ELSE autoCalls
    BY DEF Spend
<1> QED BY <1>1, <1>4, <1>5, <1>6, <1>7, <1>8 DEF Spent

(* call and reply, before anything is spent. *)
LEMMA BeginStep ==
    ASSUME TypeInv, NEW p \in Callers,
           \/ \E r \in Checkouts, a \in BOOLEAN : Call(p, r, a)
           \/ \E i \in Ids : Reply(p, i)
    PROVE  Begun(p)
<1> DEFINE s == SessionOf[p]
<1>1. /\ cli[p].pc = "idle" /\ grant' = GrantRead(s) /\ UNCHANGED <<store, autoCalls, tree, typed>>
      /\ OneAtATime => \A q \in Callers : SessionOf[q] = s => ~Waiting(cli[q])
    BY DEF Call, Reply, Begins, At, Waiting
<1>2. cli[p] \in Invocation /\ UNCHANGED record
    BY <1>1, Knowing DEF store
<1>3. CASE \E r \in Checkouts, a \in BOOLEAN : Call(p, r, a)
    <2>1. PICK r \in Checkouts, a \in BOOLEAN : Call(p, r, a)
        BY <1>3
    <2>2. PICK b \in {"user", "model"} : b = PlacedBy(s, r)
        BY DEF PlacedBy
    <2>3. PICK to \in {"checked", "refused"} :
            /\ cli' = [cli EXCEPT ![p] = [cli[p] EXCEPT
                  !.pc = to, !.cmd = "call", !.repo = r, !.act = a, !.by = b]]
            /\ to = "checked" => MayCall(s, r, a)
        BY <2>1, <2>2 DEF Call
    <2> DEFINE c == [cli[p] EXCEPT !.pc = to, !.cmd = "call", !.repo = r, !.act = a, !.by = b]
    <2>4. c \in Invocation
        BY ZenonT(60), <1>2 DEF Invocation, PCs, Terminal, Command
    <2>5. c.pc = to /\ c.cmd = "call" /\ c.repo = r /\ c.by = b
        BY <1>2 DEF Invocation
    <2>6. c.act = a
        BY <1>2 DEF Invocation
    <2>7. cli' = [cli EXCEPT ![p] = c]
        BY <2>3
    <2> HIDE DEF c
    <2>8. Fits(c, record')
        BY <2>3, <2>5 DEF Fits, Terminal
    <2>9. Waiting(c) => MayCall(s, r, a)
        BY <2>3, <2>5 DEF Waiting
    <2>10. Waiting(c) /\ c.act => ActGranted(s, c.repo)
        BY <2>5, <2>6, <2>9 DEF MayCall
    <2>11. Waiting(c) /\ c.cmd = "call" /\ c.by = "model" => CallCap = 0 \/ autoCalls[s] < CallCap
        BY <2>2, <2>5, <2>9 DEF MayCall, PlacedBy
    <2> QED BY <1>1, <2>2, <2>3, <2>4, <2>5, <2>7, <2>8, <2>10, <2>11 DEF Begun
<1>4. CASE \E i \in Ids : Reply(p, i)
    <2>1. PICK i \in Ids : Reply(p, i)
        BY <1>4
    <2> DEFINE rec == record[i]
    <2>2. rec \in Record
        BY <2>1 DEF Reply, TypeInv, TypeOK
    <2>3. PICK b \in {"user", "model"} : b = PlacedBy(s, rec.repo)
        BY DEF PlacedBy
    <2>4. PICK to \in {"cleared", "refused"} :
            /\ cli' = [cli EXCEPT ![p] = [cli[p] EXCEPT
                  !.pc = to, !.cmd = "reply", !.repo = rec.repo, !.act = rec.act, !.by = b, !.id = i]]
            /\ to = "cleared" => MayReply(s, rec)
        BY <2>1, <2>3 DEF Reply
    <2>5. PICK r, a : r = rec.repo /\ a = rec.act /\ r \in Checkouts /\ a \in BOOLEAN
        BY <2>2 DEF Record
    <2> DEFINE c == [cli[p] EXCEPT
                  !.pc = to, !.cmd = "reply", !.repo = r, !.act = a, !.by = b, !.id = i]
    <2>6. i \in 0..(MaxCalls + 1)
        BY TelephoneAssumption DEF Ids
    <2>7. c \in Invocation
        <3>1. to \in PCs /\ "reply" \in Command
            BY DEF PCs, Terminal, Command
        <3> QED BY ZenonT(60), <1>2, <2>5, <2>6, <3>1 DEF Invocation
    <2>8. c.pc = to /\ c.cmd = "reply" /\ c.repo = r /\ c.by = b /\ c.id = i
        BY <1>2 DEF Invocation
    <2>9. c.act = a
        BY <1>2 DEF Invocation
    <2>10. cli' = [cli EXCEPT ![p] = c]
        BY <2>4, <2>5
    <2> HIDE DEF c
    <2>11. Fits(c, record')
        BY <1>2, <2>2, <2>4, <2>5, <2>8 DEF Fits, Terminal
    <2>12. Waiting(c) /\ c.act => ActGranted(s, c.repo)
        BY <2>4, <2>5, <2>8, <2>9 DEF MayReply, Waiting
    <2> QED BY <1>1, <2>3, <2>4, <2>5, <2>7, <2>8, <2>10, <2>11, <2>12 DEF Begun
<1> QED BY <1>3, <1>4

-----------------------------------------------------------------------------
(* The steps, and the types they keep.                                     *)

(* No invocation goes on: the user types, the grant ages, a callee works. *)
Elsewhere ==
    /\ UNCHANGED <<cli, autoCalls>> /\ StoreType
    /\ \/ \E s \in Sessions, r \in Repos, a \in BOOLEAN : TypeCommand(s, r, a)
       \/ UNCHANGED typed /\ \E s \in Sessions : GrantAges(s)
       \/ UNCHANGED <<grant, typed>>

(* What a step is. *)
LEMMA Steps ==
    ASSUME TypeInv, [Next]_vars
    PROVE  \/ Elsewhere
           \/ \E p \in Callers : StoreType /\ GoesOn(p)
           \/ \E p \in Callers : Begun(p)
           \/ \E p \in Callers : Spent(p)
<1>1. CASE UNCHANGED vars
    BY <1>1, LeaveRecords DEF vars, store, flags, Elsewhere, StoreType, TypeInv, TypeOK
<1>2. CASE \E s \in Sessions, r \in Repos, a \in BOOLEAN : TypeCommand(s, r, a)
    <2>1. UNCHANGED <<store, autoCalls, tree, cli>>
        BY <1>2 DEF TypeCommand
    <2> QED BY <1>2, <2>1, LeaveRecords DEF store, Elsewhere, StoreType, TypeInv, TypeOK
<1>3. CASE \E s \in Sessions : GrantAges(s)
    <2>1. UNCHANGED <<store, autoCalls, tree, cli, typed>>
        BY <1>3 DEF GrantAges
    <2> QED BY <1>3, <2>1, LeaveRecords DEF store, Elsewhere, StoreType, TypeInv, TypeOK
<1>4. ASSUME NEW p \in Callers, Proceed(p)
      PROVE  (StoreType /\ GoesOn(p)) \/ Spent(p)
    <2>1. CASE ActPreflight(p)
        BY <2>1, PreflightStep
    <2>2. CASE Spend(p)
        BY <2>2, SpendStep
    <2>3. CASE LookForCounter(p) \/ WriteCounter(p) \/ ReadCounter(p) \/ WriteNext(p)
        BY <2>3, IdStep
    <2>4. CASE WriteRecord(p)
        BY <2>4, RecordStep
    <2>5. CASE CheckoutFails(p) \/ NoBinary(p)
        BY <2>5, AbandonStep DEF CheckoutFails, NoBinary, At
    <2>6. CASE EnterWorkBranch(p) \/ SettleAct(p)
        BY <2>6, CheckoutStep
    <2>7. CASE (\E rc \in Outcome : RunEnds(p, rc)) \/ ReadRecord(p)
        BY <2>7, EndStep
    <2>8. CASE AppendExchange(p) \/ MarkHungUp(p)
        BY <2>8, WriteBackStep
    <2> QED BY <1>4, <2>1, <2>2, <2>3, <2>4, <2>5, <2>6, <2>7, <2>8 DEF Proceed
<1>5. ASSUME NEW p \in Callers, CalleeWorks(p) PROVE Elsewhere
    BY <1>5, CalleeStep DEF Elsewhere, flags
<1> QED BY <1>1, <1>2, <1>3, <1>4, <1>5, KillStep, HangupStep, BeginStep DEF Next, Done

(* Reading a grant deletes one that has expired. *)
LEMMA GrantReadType ==
    ASSUME TypeInv, NEW s \in Sessions
    PROVE  /\ GrantRead(s) \in [Sessions -> Grant \union {NoGrant}]
           /\ \A t \in Sessions : GrantRead(s)[t] \in {grant[t], NoGrant}
BY DEF GrantRead, TypeInv, TypeOK

(* The checks are left behind once. *)
LEMMA PastGrows ==
    ASSUME TypeInv, NEW p \in Callers, NEW c \in Invocation, cli' = [cli EXCEPT ![p] = c],
           c.pc \in Early => cli[p].pc \in Early
    PROVE  /\ IsFiniteSet(Past) /\ IsFiniteSet(Past')
           /\ Cardinality(Past) \in Nat /\ Cardinality(Past') \in Nat
           /\ Cardinality(Past) <= Cardinality(Past')
           /\ cli[p].pc \in Early /\ c.pc \notin Early => Cardinality(Past) + 1 <= Cardinality(Past')
<1>1. cli'[p] = c /\ \A q \in Callers : q # p => cli'[q] = cli[q]
    BY DEF TypeInv, TypeOK
<1>2. IsFiniteSet(Callers)
    BY TelephoneAssumption
<1>3. Past \in SUBSET Callers /\ Past' \in SUBSET Callers
    BY DEF Past
<1>4. IsFiniteSet(Past) /\ IsFiniteSet(Past')
    BY <1>2, <1>3, FS_Subset
<1>5. Cardinality(Past) \in Nat /\ Cardinality(Past') \in Nat
    BY <1>4, FS_CardinalityType
<1>6. Past \in SUBSET Past'
    BY <1>1 DEF Past
<1>7. Cardinality(Past) <= Cardinality(Past')
    BY <1>4, <1>6, FS_Subset
<1>8. ASSUME cli[p].pc \in Early, c.pc \notin Early
      PROVE  Cardinality(Past) + 1 <= Cardinality(Past')
    <2>1. p \notin Past /\ Past \union {p} \in SUBSET Past'
        BY <1>1, <1>6, <1>8 DEF Past
    <2>2. Cardinality(Past \union {p}) = Cardinality(Past) + 1
        BY <1>4, <2>1, FS_AddElement
    <2> QED BY <1>4, <2>1, <2>2, FS_Subset
<1> QED BY <1>4, <1>5, <1>7, <1>8

(* No slot is taken. *)
LEMMA SlotsKept ==
    ASSUME TypeInv, UNCHANGED autoCalls, Cardinality(Past) <= Cardinality(Past'),
           Cardinality(Past) \in Nat, Cardinality(Past') \in Nat
    PROVE  SlotsTaken'
<1>1. \A s \in Sessions : autoCalls'[s] \in Nat /\ autoCalls'[s] <= Cardinality(Past)
    BY DEF SlotsTaken, TypeInv, TypeOK
<1> QED BY <1>1 DEF SlotsTaken

(* Where the grants, the counters and the typed commands have their types. *)
FlagsType ==
    /\ grant' \in [Sessions -> Grant \union {NoGrant}]
    /\ autoCalls' \in [Sessions -> 0..Cardinality(Callers)]
    /\ typed' \in [Sessions -> Seq([repo : Repos, act : BOOLEAN])]
    /\ SlotsTaken'

(* One invocation goes on, and the rest is of its type. *)
LEMMA TypeMoves ==
    ASSUME TypeInv, NEW p \in Callers, NEW c \in Invocation, cli' = [cli EXCEPT ![p] = c],
           Fits(c, record'), StoreType, FlagsType
    PROVE  TypeInv'
<1>1. cli' \in [Callers -> Invocation] /\ \A q \in Callers : Fits(cli'[q], record')
    BY OneMoves DEF StoreType
<1> QED BY <1>1 DEF TypeInv, TypeOK, StoreType, FlagsType, RecordsStay

(* Types are kept. *)
LEMMA TypeNext == TypeInv /\ [Next]_vars => TypeInv'
<1> SUFFICES ASSUME TypeInv, [Next]_vars PROVE TypeInv'
    OBVIOUS
<1>1. SessionOf \in [Callers -> Sessions]
    BY TelephoneAssumption
<1>2. CASE Elsewhere
    <2>1. UNCHANGED <<cli, autoCalls>> /\ StoreType
        BY <1>2 DEF Elsewhere
    <2>2. grant' \in [Sessions -> Grant \union {NoGrant}] /\ typed' \in [Sessions -> Seq([repo : Repos, act : BOOLEAN])]
        <3>1. CASE \E s \in Sessions, r \in Repos, a \in BOOLEAN : TypeCommand(s, r, a)
            <4>1. PICK s \in Sessions, r \in Repos, a \in BOOLEAN : TypeCommand(s, r, a)
                BY <3>1
            <4>2. /\ [held |-> TRUE, repo |-> r, act |-> a, fresh |-> TRUE] \in Grant
                  /\ Append(typed[s], [repo |-> r, act |-> a]) \in Seq([repo : Repos, act : BOOLEAN])
                <5>1. [held |-> TRUE, repo |-> r, act |-> a, fresh |-> TRUE] \in Grant
                    BY DEF Grant
                <5>2. [repo |-> r, act |-> a] \in [repo : Repos, act : BOOLEAN]
                    OBVIOUS
                <5>3. typed[s] \in Seq([repo : Repos, act : BOOLEAN])
                    BY DEF TypeInv, TypeOK
                <5> QED BY <5>1, <5>2, <5>3
            <4>3. /\ grant' = [grant EXCEPT ![s] = [held |-> TRUE, repo |-> r, act |-> a, fresh |-> TRUE]]
                  /\ typed' = [typed EXCEPT ![s] = Append(typed[s], [repo |-> r, act |-> a])]
                BY <4>1 DEF TypeCommand
            <4> QED BY <4>2, <4>3 DEF TypeInv, TypeOK
        <3>2. CASE UNCHANGED typed /\ \E s \in Sessions : GrantAges(s)
            <4>1. PICK s \in Sessions : GrantAges(s)
                BY <3>2
            <4>2. grant[s] \in Grant
                BY <4>1 DEF GrantAges, NoGrant, TypeInv, TypeOK
            <4>3. [grant[s] EXCEPT !.fresh = FALSE] \in Grant
                BY <4>2 DEF Grant
            <4>4. grant' = [grant EXCEPT ![s] = [grant[s] EXCEPT !.fresh = FALSE]]
                BY <4>1 DEF GrantAges
            <4> QED BY <3>2, <4>3, <4>4 DEF TypeInv, TypeOK
        <3> QED BY <1>2, <3>1, <3>2 DEF Elsewhere, TypeInv, TypeOK
    <2>3. SlotsTaken'
        BY <2>1 DEF SlotsTaken, Past, TypeInv
    <2>4. \A p \in Callers : Fits(cli[p], record')
        BY <2>1 DEF TypeInv, TypeOK, StoreType, RecordsStay, Fits, Invocation
    <2> QED BY <2>1, <2>2, <2>3, <2>4 DEF TypeInv, TypeOK, StoreType, RecordsStay
<1>3. ASSUME NEW p \in Callers, StoreType, GoesOn(p) PROVE TypeInv'
    <2>1. PICK c \in Invocation : /\ cli' = [cli EXCEPT ![p] = c]
                                  /\ Fits(c, record')
                                  /\ c.pc \in Early => cli[p].pc \in Early
                                  /\ UNCHANGED <<flags, typed>>
        BY <1>3 DEF GoesOn
    <2>2. Cardinality(Past) <= Cardinality(Past') /\ Cardinality(Past) \in Nat /\ Cardinality(Past') \in Nat
        BY <2>1, PastGrows
    <2>3. FlagsType
        BY <2>1, <2>2, SlotsKept DEF FlagsType, flags, TypeInv, TypeOK
    <2> QED BY <1>3, <2>1, <2>3, TypeMoves
<1>4. ASSUME NEW p \in Callers, Begun(p) PROVE TypeInv'
    <2>1. PICK c \in Invocation : /\ cli' = [cli EXCEPT ![p] = c]
                                  /\ Fits(c, record') /\ cli[p].pc = "idle"
                                  /\ grant' = GrantRead(SessionOf[p])
                                  /\ UNCHANGED <<store, autoCalls, tree, typed>>
        BY <1>4 DEF Begun
    <2>2. Cardinality(Past) <= Cardinality(Past') /\ Cardinality(Past) \in Nat /\ Cardinality(Past') \in Nat
        BY <2>1, PastGrows DEF Early
    <2>3. FlagsType
        BY <1>1, <2>1, <2>2, GrantReadType, SlotsKept DEF FlagsType, TypeInv, TypeOK
    <2>4. StoreType
        BY <2>1, LeaveRecords DEF store, StoreType, TypeInv, TypeOK
    <2> QED BY <2>1, <2>3, <2>4, TypeMoves
<1>5. ASSUME NEW p \in Callers, Spent(p) PROVE TypeInv'
    <2>1. PICK c \in Invocation :
            /\ cli' = [cli EXCEPT ![p] = c] /\ Fits(c, record') /\ Waiting(cli[p]) /\ c.pc \notin Early
            /\ \/ /\ grant' = [grant EXCEPT ![SessionOf[p]] = NoGrant] /\ UNCHANGED autoCalls
               \/ /\ UNCHANGED grant
                  /\ (autoCalls' = [autoCalls EXCEPT ![SessionOf[p]] = @ + 1]) \/ UNCHANGED autoCalls
            /\ UNCHANGED <<store, tree, typed>>
        BY <1>5 DEF Spent
    <2>2. /\ Cardinality(Past) + 1 <= Cardinality(Past')
          /\ Cardinality(Past) \in Nat /\ Cardinality(Past') \in Nat /\ IsFiniteSet(Past')
        BY <2>1, PastGrows DEF Early, Waiting
    <2>3. Cardinality(Past') <= Cardinality(Callers) /\ Cardinality(Callers) \in Nat
        <3>1. IsFiniteSet(Callers) /\ Past' \in SUBSET Callers
            BY TelephoneAssumption DEF Past
        <3> QED BY <3>1, FS_Subset, FS_CardinalityType
    <2>4. grant' \in [Sessions -> Grant \union {NoGrant}] /\ UNCHANGED typed
        BY <2>1 DEF TypeInv, TypeOK
    <2>5. ASSUME NEW s \in Sessions
          PROVE  autoCalls'[s] \in Nat /\ autoCalls'[s] <= Cardinality(Past')
        <3>1. autoCalls[s] \in Nat /\ autoCalls[s] <= Cardinality(Past)
            BY DEF SlotsTaken, TypeInv, TypeOK
        <3>2. autoCalls'[s] \in {autoCalls[s], autoCalls[s] + 1}
            BY <2>1 DEF TypeInv, TypeOK
        <3> QED BY <2>2, <3>1, <3>2
    <2>6. autoCalls' \in [Sessions -> 0..Cardinality(Callers)]
        <3>1. DOMAIN autoCalls' = Sessions /\ autoCalls' = [s \in Sessions |-> autoCalls'[s]]
            BY <2>1 DEF TypeInv, TypeOK
        <3>2. \A s \in Sessions : autoCalls'[s] \in 0..Cardinality(Callers)
            BY <2>2, <2>3, <2>5
        <3> QED BY <3>1, <3>2
    <2>7. FlagsType
        BY <2>4, <2>5, <2>6 DEF FlagsType, SlotsTaken, TypeInv, TypeOK
    <2>8. StoreType
        BY <2>1, LeaveRecords DEF store, StoreType, TypeInv, TypeOK
    <2> QED BY <2>1, <2>7, <2>8, TypeMoves
<1> QED BY <1>2, <1>3, <1>4, <1>5, Steps

(* At first nobody has called. *)
LEMMA TypeInit == Init => TypeInv
<1> SUFFICES ASSUME Init PROVE TypeInv
    OBVIOUS
<1>1. \A p \in Callers : cli[p] = Idle
    BY DEF Init
<1>2. Idle \in Invocation
    BY TelephoneAssumption DEF Idle, Invocation, PCs
<1>3. cli \in [Callers -> Invocation]
    BY <1>2 DEF Init
<1>4. \A p \in Callers : Fits(cli[p], record)
    BY <1>1 DEF Idle, Fits, Terminal
<1>5. IsFiniteSet(Callers)
    BY TelephoneAssumption
<1>6. Past = {} /\ Cardinality(Past) = 0 /\ Cardinality(Callers) \in Nat
    BY <1>1, <1>5, FS_EmptySet, FS_CardinalityType DEF Past, Idle, Early
<1>7. SlotsTaken
    BY <1>6 DEF Init, SlotsTaken
<1>8. autoCalls \in [Sessions -> 0..Cardinality(Callers)]
    BY <1>6 DEF Init
<1>9. typed \in [Sessions -> Seq([repo : Repos, act : BOOLEAN])]
    BY DEF Init
<1>10. tree \in [Checkouts -> [on : {Default} \union Ids, dirty : BOOLEAN]]
    BY DEF Init
<1>11. record \in [Ids -> Record \union {NoRecord}] /\ grant \in [Sessions -> Grant \union {NoGrant}]
    BY DEF Init
<1>12. counter \in 0..(MaxCalls + 1) /\ seqLock \in Callers \union {NoOne}
    BY TelephoneAssumption DEF Init, NoCounter
<1> QED BY <1>3, <1>4, <1>7, <1>8, <1>9, <1>10, <1>11, <1>12 DEF TypeInv, TypeOK

(* TypeOK: type correctness.  An exchange is always appended to a record   *)
(* that was read, a command never goes on with an id past the bound, and   *)
(* a session never takes more of the model's slots than it has             *)
(* invocations (telephone/cli.py, store.py).                               *)
THEOREM TypeCorrect == Spec => []TypeOK
<1>1. TypeInv => TypeOK
    BY DEF TypeInv
<1> QED BY <1>1, TypeInit, TypeNext, PTL DEF Spec

-----------------------------------------------------------------------------
(* What a grant buys.                                                      *)

(* Of session s and repository r, the act runs only when b is TRUE: the    *)
(* invocations placed in the user's name, those that also have the grant   *)
(* in hand and have not spent it, and the commands the user typed.         *)
Users(s, r, b) ==
    {p \in Callers : /\ SessionOf[p] = s /\ cli[p].repo = r /\ cli[p].by = "user"
                     /\ Counted(cli[p]) /\ (b => cli[p].act)}
InHand(s, r, b) ==
    {p \in Callers : /\ SessionOf[p] = s /\ cli[p].repo = r /\ cli[p].by = "user"
                     /\ (Waiting(cli[p]) \/ Counted(cli[p])) /\ (b => cli[p].act)}
Cmds(s, r, b) == {n \in DOMAIN typed[s] : typed[s][n].repo = r /\ (b => typed[s][n].act)}
Buys(s, r, b) == UsableGrant(s, r) /\ (b => grant[s].act)

(* A session checks its grant in one command at a time.                    *)
Alone == \A p, q \in Callers :
            Waiting(cli[p]) /\ Waiting(cli[q]) /\ SessionOf[p] = SessionOf[q] => p = q

(* Whoever has the grant in hand has a command to show for it; and as long *)
(* as the grant is there, one command is not spent.                        *)
Paid == \A s \in Sessions, r \in Checkouts, b \in BOOLEAN :
    /\ Cardinality(InHand(s, r, b)) <= Cardinality(Cmds(s, r, b))
    /\ Buys(s, r, b) => Cardinality(Users(s, r, b)) + 1 <= Cardinality(Cmds(s, r, b))

(* The sets that are counted are finite. *)
LEMMA Countable ==
    ASSUME TypeOK, NEW s \in Sessions, NEW r, NEW b
    PROVE  /\ IsFiniteSet(Users(s, r, b)) /\ IsFiniteSet(InHand(s, r, b)) /\ IsFiniteSet(Cmds(s, r, b))
           /\ Cardinality(Users(s, r, b)) \in Nat /\ Cardinality(InHand(s, r, b)) \in Nat
           /\ Cardinality(Cmds(s, r, b)) \in Nat
           /\ Cardinality(Users(s, r, b)) <= Cardinality(InHand(s, r, b))
<1>1. IsFiniteSet(Callers) /\ Users(s, r, b) \in SUBSET Callers /\ InHand(s, r, b) \in SUBSET Callers
    BY TelephoneAssumption DEF Users, InHand
<1>2. IsFiniteSet(Users(s, r, b)) /\ IsFiniteSet(InHand(s, r, b))
    BY <1>1, FS_Subset
<1>3. IsFiniteSet(Cmds(s, r, b))
    <2>1. DOMAIN typed[s] = 1..Len(typed[s]) /\ Len(typed[s]) \in Nat
        BY DEF TypeOK
    <2>2. IsFiniteSet(1..Len(typed[s]))
        <3>1. 1 \in Int /\ Len(typed[s]) \in Int
            BY <2>1
        <3> QED BY <3>1, FS_Interval
    <2>3. Cmds(s, r, b) \in SUBSET (1..Len(typed[s]))
        BY <2>1 DEF Cmds
    <2> QED BY <2>2, <2>3, FS_Subset
<1>4. Users(s, r, b) \in SUBSET InHand(s, r, b)
    BY DEF Users, InHand
<1> QED BY <1>2, <1>3, <1>4, FS_CardinalityType, FS_Subset

(* Fewer invocations, the same commands, and a grant that buys no more. *)
LEMMA StillPaid ==
    ASSUME TypeInv, Paid, NEW s \in Sessions, NEW r \in Checkouts, NEW b \in BOOLEAN,
           InHand(s, r, b)' \subseteq InHand(s, r, b),
           Buys(s, r, b)' => Buys(s, r, b) /\ Users(s, r, b)' \subseteq Users(s, r, b),
           typed'[s] = typed[s]
    PROVE  /\ Cardinality(InHand(s, r, b)') <= Cardinality(Cmds(s, r, b)')
           /\ Buys(s, r, b)' => Cardinality(Users(s, r, b)') + 1 <= Cardinality(Cmds(s, r, b)')
<1>1. Cmds(s, r, b)' = Cmds(s, r, b)
    BY DEF Cmds
<1>2. /\ Cardinality(InHand(s, r, b)) <= Cardinality(Cmds(s, r, b))
      /\ Buys(s, r, b) => Cardinality(Users(s, r, b)) + 1 <= Cardinality(Cmds(s, r, b))
    BY DEF Paid
<1>3. /\ IsFiniteSet(Users(s, r, b)) /\ IsFiniteSet(InHand(s, r, b))
      /\ Cardinality(Users(s, r, b)) \in Nat /\ Cardinality(InHand(s, r, b)) \in Nat
      /\ Cardinality(Cmds(s, r, b)) \in Nat
    BY Countable DEF TypeInv
<1>4. Cardinality(InHand(s, r, b)') \in Nat /\ Cardinality(InHand(s, r, b)') <= Cardinality(InHand(s, r, b))
    BY <1>3, FS_Subset, FS_CardinalityType
<1>5. ASSUME Buys(s, r, b)'
      PROVE  Cardinality(Users(s, r, b)') \in Nat /\ Cardinality(Users(s, r, b)') <= Cardinality(Users(s, r, b))
    BY <1>3, <1>5, FS_Subset, FS_CardinalityType
<1> QED BY <1>1, <1>2, <1>3, <1>4, <1>5

(* One more command pays for one more call. *)
LEMMA TypingPays ==
    ASSUME TypeInv, Paid, UNCHANGED cli, NEW s \in Sessions, NEW r0 \in Repos, NEW a \in BOOLEAN,
           TypeCommand(s, r0, a), NEW r \in Checkouts, NEW b \in BOOLEAN
    PROVE  /\ Cardinality(InHand(s, r, b)') <= Cardinality(Cmds(s, r, b)')
           /\ Buys(s, r, b)' => Cardinality(Users(s, r, b)') + 1 <= Cardinality(Cmds(s, r, b)')
<1>1. InHand(s, r, b)' = InHand(s, r, b) /\ Users(s, r, b)' = Users(s, r, b)
    BY DEF InHand, Users
<1> DEFINE k == Len(typed[s]) + 1
<1>2. /\ typed[s] \in Seq([repo : Repos, act : BOOLEAN])
      /\ typed'[s] = Append(typed[s], [repo |-> r0, act |-> a])
    BY DEF TypeCommand, TypeInv, TypeOK
<1>3. /\ DOMAIN typed[s] = 1..Len(typed[s]) /\ Len(typed[s]) \in Nat
      /\ DOMAIN typed'[s] = 1..k /\ typed'[s][k] = [repo |-> r0, act |-> a]
      /\ \A n \in 1..Len(typed[s]) : typed'[s][n] = typed[s][n]
    BY <1>2
<1>4. k \notin DOMAIN typed[s] /\ DOMAIN typed[s] \subseteq DOMAIN typed'[s] /\ k \in DOMAIN typed'[s]
    BY <1>3
<1> HIDE DEF k
<1>5. Cmds(s, r, b) \subseteq Cmds(s, r, b)' /\ k \notin Cmds(s, r, b)
    BY <1>3, <1>4 DEF Cmds
<1>6. Buys(s, r, b)' => k \in Cmds(s, r, b)'
    <2>1. grant'[s] = [held |-> TRUE, repo |-> r0, act |-> a, fresh |-> TRUE]
        BY DEF TypeCommand, TypeInv, TypeOK
    <2>2. Buys(s, r, b)' => r0 = r /\ (b => a)
        BY <2>1 DEF Buys, UsableGrant
    <2> QED BY <1>3, <1>4, <2>2 DEF Cmds
<1>7. Cmds(s, r, b)' \subseteq Cmds(s, r, b) \union {k}
    BY <1>3 DEF Cmds, k
<1>8. /\ IsFiniteSet(Cmds(s, r, b)) /\ Cardinality(Cmds(s, r, b)) \in Nat
      /\ Cardinality(Users(s, r, b)) \in Nat /\ Cardinality(InHand(s, r, b)) \in Nat
      /\ Cardinality(Users(s, r, b)) <= Cardinality(InHand(s, r, b))
      /\ Cardinality(InHand(s, r, b)) <= Cardinality(Cmds(s, r, b))
    BY Countable DEF TypeInv, Paid
<1>9. IsFiniteSet(Cmds(s, r, b) \union {k}) /\ Cardinality(Cmds(s, r, b) \union {k}) = Cardinality(Cmds(s, r, b)) + 1
    BY <1>5, <1>8, FS_AddElement
<1>10. CASE Cmds(s, r, b)' = Cmds(s, r, b)
    BY <1>1, <1>5, <1>6, <1>8, <1>10
<1>11. CASE Cmds(s, r, b)' = Cmds(s, r, b) \union {k}
    BY <1>1, <1>8, <1>9, <1>11
<1> QED BY <1>5, <1>7, <1>10, <1>11

(* At first nothing is typed and nobody calls. *)
LEMMA PaidInit == Init => Paid /\ Alone
<1> SUFFICES ASSUME Init PROVE Paid /\ Alone
    OBVIOUS
<1>1. \A p \in Callers : cli[p].pc = "idle"
    BY DEF Init, Idle
<1>2. \A s \in Sessions : grant[s].held = FALSE
    BY DEF Init, NoGrant
<1>3. Alone
    BY <1>1 DEF Alone, Waiting
<1>4. ASSUME NEW s \in Sessions, NEW r \in Checkouts, NEW b \in BOOLEAN
      PROVE  /\ Cardinality(InHand(s, r, b)) <= Cardinality(Cmds(s, r, b)) /\ ~Buys(s, r, b)
    <2>1. InHand(s, r, b) = {}
        BY <1>1 DEF InHand, Waiting, Counted
    <2>2. Cmds(s, r, b) = {}
        BY DEF Init, Cmds
    <2>3. ~Buys(s, r, b)
        BY <1>2 DEF Buys, UsableGrant
    <2> QED BY <2>1, <2>2, <2>3, FS_EmptySet
<1> QED BY <1>3, <1>4 DEF Paid

(* Who is alone stays alone, where commands are started one at a time. *)
LEMMA AloneNext ==
    ASSUME TypeInv, OneAtATime, Alone, [Next]_vars
    PROVE  Alone'
<1>1. CASE Elsewhere
    BY <1>1 DEF Elsewhere, Alone
<1>2. ASSUME NEW p \in Callers, NEW c \in Invocation, cli' = [cli EXCEPT ![p] = c],
             Waiting(c) => Waiting(cli[p]) \/ (\A q \in Callers : SessionOf[q] = SessionOf[p] => ~Waiting(cli[q]))
      PROVE  Alone'
    <2>1. cli'[p] = c /\ \A q \in Callers : q # p => cli'[q] = cli[q]
        BY <1>2 DEF TypeInv, TypeOK
    <2> QED BY <1>2, <2>1 DEF Alone
<1>3. ASSUME NEW p \in Callers, GoesOn(p) PROVE Alone'
    BY <1>2, <1>3 DEF GoesOn
<1>4. ASSUME NEW p \in Callers, Begun(p) PROVE Alone'
    BY <1>2, <1>4 DEF Begun
<1>5. ASSUME NEW p \in Callers, Spent(p) PROVE Alone'
    BY <1>2, <1>5 DEF Spent
<1> QED BY <1>1, <1>3, <1>4, <1>5, Steps

(* Whom one invocation's step moves in or out of the sets that are counted. *)
LEMMA SetsMove ==
    ASSUME TypeInv, NEW p \in Callers, NEW c \in Invocation, cli' = [cli EXCEPT ![p] = c],
           NEW s \in Sessions, NEW r \in Checkouts, NEW b \in BOOLEAN
    PROVE  /\ \A q \in InHand(s, r, b)' :
                 \/ q \in InHand(s, r, b)
                 \/ /\ q = p /\ SessionOf[p] = s /\ c.repo = r /\ c.by = "user"
                    /\ (Waiting(c) \/ Counted(c)) /\ (b => c.act)
           /\ \A q \in Users(s, r, b)' :
                 \/ q \in Users(s, r, b)
                 \/ /\ q = p /\ SessionOf[p] = s /\ c.repo = r /\ c.by = "user"
                    /\ Counted(c) /\ (b => c.act)
<1>1. cli'[p] = c /\ \A q \in Callers : q # p => cli'[q] = cli[q]
    BY DEF TypeInv, TypeOK
<1>2. ASSUME NEW q \in InHand(s, r, b)', q # p PROVE q \in InHand(s, r, b)
    BY <1>1, <1>2 DEF InHand
<1>3. ASSUME NEW q \in Users(s, r, b)', q # p PROVE q \in Users(s, r, b)
    BY <1>1, <1>3 DEF Users
<1>4. ASSUME NEW q \in InHand(s, r, b)', q = p
      PROVE  /\ SessionOf[p] = s /\ c.repo = r /\ c.by = "user"
             /\ (Waiting(c) \/ Counted(c)) /\ (b => c.act)
    BY <1>1, <1>4 DEF InHand
<1>5. ASSUME NEW q \in Users(s, r, b)', q = p
      PROVE  /\ SessionOf[p] = s /\ c.repo = r /\ c.by = "user"
             /\ Counted(c) /\ (b => c.act)
    BY <1>1, <1>5 DEF Users
<1> QED BY <1>2, <1>3, <1>4, <1>5

(* A command that begins has the grant in hand, and no other one has. *)
LEMMA BeginPaid ==
    ASSUME TypeInv, OneAtATime, Paid, NEW p \in Callers, Begun(p),
           NEW s \in Sessions, NEW r \in Checkouts, NEW b \in BOOLEAN
    PROVE  /\ Cardinality(InHand(s, r, b)') <= Cardinality(Cmds(s, r, b)')
           /\ Buys(s, r, b)' => Cardinality(Users(s, r, b)') + 1 <= Cardinality(Cmds(s, r, b)')
<1>1. PICK c \in Invocation :
        /\ cli' = [cli EXCEPT ![p] = c]
        /\ \A q \in Callers : SessionOf[q] = SessionOf[p] => ~Waiting(cli[q])
        /\ c.pc \in {"checked", "cleared", "refused"} /\ c.by = PlacedBy(SessionOf[p], c.repo)
        /\ Waiting(c) /\ c.act => ActGranted(SessionOf[p], c.repo)
        /\ grant' = GrantRead(SessionOf[p]) /\ UNCHANGED typed
    BY DEF Begun
<1>2. ~Counted(c)
    BY <1>1 DEF Counted
<1>3. Users(s, r, b)' \subseteq Users(s, r, b)
    BY <1>1, <1>2, SetsMove
<1>4. Buys(s, r, b)' => Buys(s, r, b)
    <2>1. SessionOf[p] \in Sessions
        BY TelephoneAssumption
    <2>2. grant'[s] \in {grant[s], NoGrant}
        BY <1>1, <2>1, GrantReadType
    <2> QED BY <2>2 DEF Buys, UsableGrant, NoGrant
<1>5. CASE InHand(s, r, b)' \subseteq InHand(s, r, b)
    BY <1>1, <1>3, <1>4, <1>5, StillPaid
<1>6. CASE ~(InHand(s, r, b)' \subseteq InHand(s, r, b))
    <2>1. SessionOf[p] = s /\ c.repo = r /\ c.by = "user" /\ Waiting(c) /\ (b => c.act)
        BY ZenonT(60), <1>1, <1>2, <1>6, SetsMove
    <2>2. Buys(s, r, b)
        BY <1>1, <2>1 DEF Buys, PlacedBy, ActGranted
    <2>3. InHand(s, r, b) = Users(s, r, b)
        BY <1>1, <2>1 DEF InHand, Users
    <2>4. InHand(s, r, b)' \subseteq Users(s, r, b) \union {p}
        <3>1. \A q \in InHand(s, r, b)' : q \in InHand(s, r, b) \/ q = p
            BY <1>1, SetsMove
        <3> QED BY <2>3, <3>1
    <2>5. Cmds(s, r, b)' = Cmds(s, r, b)
        BY <1>1 DEF Cmds
    <2>6. /\ IsFiniteSet(Users(s, r, b)) /\ Cardinality(Users(s, r, b)) \in Nat
          /\ Cardinality(Cmds(s, r, b)) \in Nat
          /\ Cardinality(Users(s, r, b)) + 1 <= Cardinality(Cmds(s, r, b))
        BY <2>2, Countable DEF Paid, TypeInv
    <2>7. /\ IsFiniteSet(Users(s, r, b) \union {p})
          /\ Cardinality(Users(s, r, b) \union {p}) \in Nat
          /\ Cardinality(Users(s, r, b) \union {p}) <= Cardinality(Users(s, r, b)) + 1
        <3>1. /\ IsFiniteSet(Users(s, r, b) \union {p})
              /\ Cardinality(Users(s, r, b) \union {p}) =
                   IF p \in Users(s, r, b) THEN Cardinality(Users(s, r, b)) ELSE Cardinality(Users(s, r, b)) + 1
            BY <2>6, FS_AddElement
        <3> QED BY <2>6, <3>1
    <2>8. /\ Cardinality(InHand(s, r, b)') \in Nat
          /\ Cardinality(InHand(s, r, b)') <= Cardinality(Users(s, r, b) \union {p})
        BY <2>4, <2>7, FS_Subset, FS_CardinalityType
    <2>9. Cardinality(Users(s, r, b)') \in Nat /\ Cardinality(Users(s, r, b)') <= Cardinality(Users(s, r, b))
        BY <1>3, <2>6, FS_Subset, FS_CardinalityType
    <2> QED BY <2>5, <2>6, <2>7, <2>8, <2>9
<1> QED BY <1>5, <1>6

(* What was paid stays paid. *)
LEMMA PaidNext ==
    ASSUME TypeInv, OneAtATime, Paid, [Next]_vars
    PROVE  Paid'
<1> SUFFICES ASSUME NEW s \in Sessions, NEW r \in Checkouts, NEW b \in BOOLEAN
             PROVE  /\ Cardinality(InHand(s, r, b)') <= Cardinality(Cmds(s, r, b)')
                    /\ Buys(s, r, b)' => Cardinality(Users(s, r, b)') + 1 <= Cardinality(Cmds(s, r, b)')
    BY DEF Paid
<1>1. CASE Elsewhere
    <2>1. InHand(s, r, b)' = InHand(s, r, b) /\ Users(s, r, b)' = Users(s, r, b)
        BY <1>1 DEF Elsewhere, InHand, Users
    <2>2. CASE \E r0 \in Repos, a \in BOOLEAN : TypeCommand(s, r0, a)
        BY <1>1, <2>2, TypingPays DEF Elsewhere
    <2>3. CASE typed'[s] = typed[s] /\ (Buys(s, r, b)' => Buys(s, r, b))
        BY <2>1, <2>3, StillPaid
    <2>4. \/ \E r0 \in Repos, a \in BOOLEAN : TypeCommand(s, r0, a)
          \/ typed'[s] = typed[s] /\ (Buys(s, r, b)' => Buys(s, r, b))
        <3>1. ASSUME NEW t \in Sessions, NEW r0 \in Repos, NEW a \in BOOLEAN, TypeCommand(t, r0, a), t # s
              PROVE  typed'[s] = typed[s] /\ grant'[s] = grant[s]
            BY <3>1 DEF TypeCommand, TypeInv, TypeOK
        <3>2. ASSUME NEW t \in Sessions, GrantAges(t)
              PROVE  grant'[s] = grant[s] \/ ~grant'[s].fresh
            <4>1. grant[t] \in Grant
                BY <3>2 DEF GrantAges, NoGrant, TypeInv, TypeOK
            <4>2. [grant[t] EXCEPT !.fresh = FALSE].fresh = FALSE
                BY <4>1 DEF Grant
            <4>3. grant' = [grant EXCEPT ![t] = [grant[t] EXCEPT !.fresh = FALSE]]
                BY <3>2 DEF GrantAges
            <4> QED BY <4>2, <4>3 DEF TypeInv, TypeOK
        <3>3. grant'[s] = grant[s] => (Buys(s, r, b)' => Buys(s, r, b))
            BY DEF Buys, UsableGrant
        <3>4. ~grant'[s].fresh => (Buys(s, r, b)' => Buys(s, r, b))
            BY DEF Buys, UsableGrant
        <3> QED BY <1>1, <3>1, <3>2, <3>3, <3>4 DEF Elsewhere
    <2> QED BY <2>2, <2>3, <2>4
<1>2. ASSUME NEW p \in Callers, GoesOn(p)
      PROVE  /\ Cardinality(InHand(s, r, b)') <= Cardinality(Cmds(s, r, b)')
             /\ Buys(s, r, b)' => Cardinality(Users(s, r, b)') + 1 <= Cardinality(Cmds(s, r, b)')
    <2>1. PICK c \in Invocation :
            /\ cli' = [cli EXCEPT ![p] = c]
            /\ Waiting(c) => Waiting(cli[p]) /\ Same(c, cli[p])
            /\ Counted(c) => Counted(cli[p]) /\ Same(c, cli[p])
            /\ UNCHANGED <<flags, typed>>
        BY <1>2 DEF GoesOn
    <2>2. InHand(s, r, b)' \subseteq InHand(s, r, b)
        BY <2>1, SetsMove DEF InHand, Same
    <2>3. Users(s, r, b)' \subseteq Users(s, r, b)
        BY <2>1, SetsMove DEF Users, Same
    <2>4. Buys(s, r, b)' = Buys(s, r, b) /\ typed'[s] = typed[s]
        BY <2>1 DEF Buys, UsableGrant, flags
    <2> QED BY <2>2, <2>3, <2>4, StillPaid
<1>3. ASSUME NEW p \in Callers, Spent(p)
      PROVE  /\ Cardinality(InHand(s, r, b)') <= Cardinality(Cmds(s, r, b)')
             /\ Buys(s, r, b)' => Cardinality(Users(s, r, b)') + 1 <= Cardinality(Cmds(s, r, b)')
    <2>1. PICK c \in Invocation :
            /\ cli' = [cli EXCEPT ![p] = c]
            /\ Waiting(cli[p]) /\ Counted(c) /\ Same(c, cli[p])
            /\ \/ cli[p].by = "user" /\ grant' = [grant EXCEPT ![SessionOf[p]] = NoGrant]
               \/ cli[p].by # "user" /\ UNCHANGED grant
            /\ UNCHANGED typed
        BY <1>3 DEF Spent
    <2>2. InHand(s, r, b)' \subseteq InHand(s, r, b)
        BY <2>1, SetsMove DEF InHand, Same
    <2>3. Buys(s, r, b)' => Buys(s, r, b) /\ (SessionOf[p] # s \/ cli[p].by # "user")
        <3>1. SessionOf[p] \in Sessions
            BY TelephoneAssumption
        <3>2. CASE SessionOf[p] = s /\ cli[p].by = "user"
            <4>1. grant'[s] = NoGrant
                BY <2>1, <3>1, <3>2 DEF TypeInv, TypeOK
            <4>2. ~grant'[s].held
                BY <4>1 DEF NoGrant
            <4> QED BY <4>2 DEF Buys, UsableGrant
        <3>3. CASE ~(SessionOf[p] = s /\ cli[p].by = "user")
            <4>1. grant'[s] = grant[s]
                BY <2>1, <3>1, <3>3 DEF TypeInv, TypeOK
            <4> QED BY <3>3, <4>1 DEF Buys, UsableGrant
        <3> QED BY <3>2, <3>3
    <2>4. Buys(s, r, b)' => Users(s, r, b)' \subseteq Users(s, r, b)
        BY <2>1, <2>3, SetsMove DEF Same
    <2> QED BY <2>1, <2>2, <2>3, <2>4, StillPaid
<1> QED BY <1>1, <1>2, <1>3, BeginPaid, Steps

(* GrantBuysOneCall: where a session starts no command while another one   *)
(* checks its grant, it never has more calls and follow-ups placed in the  *)
(* user's name than the user typed commands for, nor more act runs than    *)
(* act commands, whatever is refused or killed and however often the grant *)
(* is replaced or expires on the way (telephone/cli.py consume_grant).     *)
THEOREM OneCommandOneCall ==
    ASSUME OneAtATime
    PROVE  Spec => []GrantBuysOneCall
<1>1. ASSUME TypeInv, Paid PROVE GrantBuysOneCall
    <2> SUFFICES ASSUME NEW s \in Sessions, NEW r \in Checkouts
                 PROVE  LET users == {p \in Callers : /\ SessionOf[p] = s /\ cli[p].repo = r
                                                      /\ cli[p].by = "user" /\ Placed(p)}
                            cmds == {n \in DOMAIN typed[s] : typed[s][n].repo = r}
                        IN  /\ Cardinality(users) <= Cardinality(cmds)
                            /\ Cardinality({p \in users : cli[p].act}) <=
                                 Cardinality({n \in cmds : typed[s][n].act})
        BY DEF GrantBuysOneCall
    <2> DEFINE users == {p \in Callers : /\ SessionOf[p] = s /\ cli[p].repo = r
                                         /\ cli[p].by = "user" /\ Placed(p)}
               cmds == {n \in DOMAIN typed[s] : typed[s][n].repo = r}
    <2>1. ASSUME NEW b \in BOOLEAN
          PROVE  Cardinality(Users(s, r, b)) <= Cardinality(Cmds(s, r, b))
        <3>1. /\ Cardinality(Users(s, r, b)) \in Nat /\ Cardinality(InHand(s, r, b)) \in Nat
              /\ Cardinality(Cmds(s, r, b)) \in Nat
              /\ Cardinality(Users(s, r, b)) <= Cardinality(InHand(s, r, b))
            BY <1>1, Countable DEF TypeInv
        <3>2. Cardinality(InHand(s, r, b)) <= Cardinality(Cmds(s, r, b))
            BY <1>1 DEF Paid
        <3> QED BY <3>1, <3>2
    <2>2. users = Users(s, r, FALSE) /\ cmds = Cmds(s, r, FALSE)
        BY DEF Users, Cmds, Placed, Counted
    <2>3. /\ {p \in users : cli[p].act} = Users(s, r, TRUE)
          /\ {n \in cmds : typed[s][n].act} = Cmds(s, r, TRUE)
        BY DEF Users, Cmds, Placed, Counted
    <2> QED BY <2>1, <2>2, <2>3
<1>2. TypeInv /\ Paid /\ [Next]_vars => Paid'
    BY PaidNext
<1> QED BY <1>1, <1>2, TypeInit, TypeNext, PaidInit, PTL DEF Spec

-----------------------------------------------------------------------------
(* Act mode.                                                               *)

(* One of the commands is an act command for repository r. *)
Asked(commands, r) == \E n \in DOMAIN commands : commands[n] = [repo |-> r, act |-> TRUE]

(* A grant for act mode, a command that has it in hand and a run in act    *)
(* mode each go back to a command the user typed.                          *)
ActAsked ==
    /\ \A s \in Sessions : grant[s].held /\ grant[s].act => Asked(typed[s], grant[s].repo)
    /\ \A p \in Callers : cli[p].act /\ (Waiting(cli[p]) \/ Counted(cli[p]))
                            => Asked(typed[SessionOf[p]], cli[p].repo)

(* What was typed stays typed. *)
LEMMA AskedStays ==
    ASSUME TypeInv, [Next]_vars, NEW s \in Sessions, NEW r, Asked(typed[s], r)
    PROVE  Asked(typed'[s], r)
<1>1. CASE UNCHANGED typed
    BY <1>1 DEF Asked
<1>2. ASSUME NEW t \in Sessions, NEW r0 \in Repos, NEW a \in BOOLEAN, TypeCommand(t, r0, a)
      PROVE  Asked(typed'[s], r)
    <2>1. typed[s] \in Seq([repo : Repos, act : BOOLEAN])
        BY DEF TypeInv, TypeOK
    <2>2. typed'[s] = typed[s] \/ typed'[s] = Append(typed[s], [repo |-> r0, act |-> a])
        BY <1>2 DEF TypeCommand, TypeInv, TypeOK
    <2>3. \A n \in DOMAIN typed[s] : n \in DOMAIN typed'[s] /\ typed'[s][n] = typed[s][n]
        BY <2>1, <2>2
    <2> QED BY <2>3 DEF Asked
<1>3. Elsewhere => UNCHANGED typed \/ \E t \in Sessions, r0 \in Repos, a \in BOOLEAN : TypeCommand(t, r0, a)
    BY DEF Elsewhere
<1>4. (\E p \in Callers : GoesOn(p) \/ Begun(p) \/ Spent(p)) => UNCHANGED typed
    BY DEF GoesOn, Begun, Spent
<1> QED BY <1>1, <1>2, <1>3, <1>4, Steps

(* Act mode stays asked for. *)
LEMMA ActNext == TypeInv /\ ActAsked /\ [Next]_vars => ActAsked'
<1> SUFFICES ASSUME TypeInv, ActAsked, [Next]_vars PROVE ActAsked'
    OBVIOUS
<1>1. SessionOf \in [Callers -> Sessions]
    BY TelephoneAssumption
<1>2. ASSUME NEW s \in Sessions, grant'[s].held, grant'[s].act
      PROVE  Asked(typed'[s], grant'[s].repo)
    <2>1. CASE grant'[s] = grant[s]
        BY <1>2, <2>1, AskedStays DEF ActAsked
    <2>2. ASSUME NEW t \in Sessions, NEW r \in Repos, NEW a \in BOOLEAN, TypeCommand(t, r, a)
          PROVE  Asked(typed'[s], grant'[s].repo)
        <3>1. CASE s = t
            <4>1. grant'[s] = [held |-> TRUE, repo |-> r, act |-> a, fresh |-> TRUE]
                BY <2>2, <3>1 DEF TypeCommand, TypeInv, TypeOK
            <4>2. grant'[s].repo = r /\ a = TRUE
                BY <1>2, <4>1
            <4>3. /\ typed[s] \in Seq([repo : Repos, act : BOOLEAN])
                  /\ typed'[s] = Append(typed[s], [repo |-> r, act |-> TRUE])
                BY <2>2, <3>1, <4>2 DEF TypeCommand, TypeInv, TypeOK
            <4>4. /\ Len(typed[s]) + 1 \in DOMAIN typed'[s]
                  /\ typed'[s][Len(typed[s]) + 1] = [repo |-> r, act |-> TRUE]
                BY <4>3
            <4> QED BY <4>2, <4>4 DEF Asked
        <3>2. CASE s # t
            <4>1. grant'[s] = grant[s]
                BY <2>2, <3>2 DEF TypeCommand, TypeInv, TypeOK
            <4> QED BY <2>1, <4>1
        <3> QED BY <3>1, <3>2
    <2>3. ASSUME NEW t \in Sessions, GrantAges(t)
          PROVE  Asked(typed'[s], grant'[s].repo)
        <3>1. grant[t] \in Grant
            BY <2>3 DEF GrantAges, NoGrant, TypeInv, TypeOK
        <3> DEFINE g == [grant[t] EXCEPT !.fresh = FALSE]
        <3>2. g.held = grant[t].held /\ g.act = grant[t].act /\ g.repo = grant[t].repo
            BY <3>1 DEF Grant
        <3>3. grant' = [grant EXCEPT ![t] = g]
            BY <2>3 DEF GrantAges
        <3> HIDE DEF g
        <3>4. grant'[s] = grant[s] \/ (s = t /\ grant'[s] = g)
            BY <3>3 DEF TypeInv, TypeOK
        <3>5. grant[s].held /\ grant[s].act /\ grant'[s].repo = grant[s].repo
            BY <1>2, <3>2, <3>4
        <3> QED BY <3>5, AskedStays DEF ActAsked
    <2>4. CASE Elsewhere
        BY <2>1, <2>2, <2>3, <2>4 DEF Elsewhere
    <2>5. CASE \E p \in Callers : GoesOn(p)
        BY <2>1, <2>5 DEF GoesOn, flags
    <2>6. ASSUME NEW p \in Callers, Begun(p) PROVE grant'[s] = grant[s]
        <3>1. grant'[s] \in {grant[s], NoGrant}
            BY <1>1, <2>6, GrantReadType DEF Begun
        <3> QED BY <1>2, <3>1 DEF NoGrant
    <2>7. ASSUME NEW p \in Callers, Spent(p) PROVE grant'[s] = grant[s]
        <3>1. grant' = [grant EXCEPT ![SessionOf[p]] = NoGrant] \/ UNCHANGED grant
            BY <2>7 DEF Spent
        <3>2. grant'[s] \in {grant[s], NoGrant}
            BY <1>1, <3>1 DEF TypeInv, TypeOK
        <3> QED BY <1>2, <3>2 DEF NoGrant
    <2> QED BY <2>1, <2>4, <2>5, <2>6, <2>7, Steps
<1>3. ASSUME NEW q \in Callers, cli'[q].act, Waiting(cli'[q]) \/ Counted(cli'[q])
      PROVE  Asked(typed'[SessionOf[q]], cli'[q].repo)
    <2>1. ASSUME cli[q].act, Waiting(cli[q]) \/ Counted(cli[q]), cli'[q].repo = cli[q].repo
          PROVE  Asked(typed'[SessionOf[q]], cli'[q].repo)
        <3>1. Asked(typed[SessionOf[q]], cli[q].repo)
            BY <2>1 DEF ActAsked
        <3> QED BY <1>1, <2>1, <3>1, AskedStays
    <2>2. CASE cli'[q] = cli[q]
        BY <1>3, <2>1, <2>2
    <2>3. ASSUME NEW p \in Callers, NEW c \in Invocation, cli' = [cli EXCEPT ![p] = c]
          PROVE  cli'[q] = cli[q] \/ (q = p /\ cli'[q] = c)
        BY <2>3 DEF TypeInv, TypeOK
    <2>4. CASE Elsewhere
        BY <2>2, <2>4 DEF Elsewhere
    <2>5. ASSUME NEW p \in Callers, GoesOn(p) PROVE Asked(typed'[SessionOf[q]], cli'[q].repo)
        <3>1. PICK c \in Invocation :
                /\ cli' = [cli EXCEPT ![p] = c]
                /\ Waiting(c) => Waiting(cli[p]) /\ Same(c, cli[p])
                /\ Counted(c) => Counted(cli[p]) /\ Same(c, cli[p])
            BY <2>5 DEF GoesOn
        <3>2. CASE q = p /\ cli'[q] = c
            BY <1>3, <2>1, <3>1, <3>2 DEF Same
        <3> QED BY <2>2, <2>3, <3>1, <3>2
    <2>6. ASSUME NEW p \in Callers, Spent(p) PROVE Asked(typed'[SessionOf[q]], cli'[q].repo)
        <3>1. PICK c \in Invocation :
                cli' = [cli EXCEPT ![p] = c] /\ Waiting(cli[p]) /\ Same(c, cli[p])
            BY <2>6 DEF Spent
        <3>2. CASE q = p /\ cli'[q] = c
            BY <1>3, <2>1, <3>1, <3>2 DEF Same
        <3> QED BY <2>2, <2>3, <3>1, <3>2
    <2>7. ASSUME NEW p \in Callers, Begun(p) PROVE Asked(typed'[SessionOf[q]], cli'[q].repo)
        <3>1. PICK c \in Invocation :
                /\ cli' = [cli EXCEPT ![p] = c] /\ c.pc \in {"checked", "cleared", "refused"}
                /\ Waiting(c) /\ c.act => ActGranted(SessionOf[p], c.repo)
            BY <2>7 DEF Begun
        <3>2. CASE q = p /\ cli'[q] = c
            <4>1. Waiting(c) /\ c.act
                BY <1>3, <3>1, <3>2 DEF Counted
            <4>2. /\ grant[SessionOf[q]].held /\ grant[SessionOf[q]].act
                  /\ grant[SessionOf[q]].repo = c.repo
                BY <3>1, <3>2, <4>1 DEF ActGranted, UsableGrant
            <4>3. Asked(typed[SessionOf[q]], c.repo)
                BY <1>1, <4>2 DEF ActAsked
            <4>4. Asked(typed'[SessionOf[q]], c.repo)
                BY <1>1, <4>3, AskedStays
            <4> QED BY <3>2, <4>4
        <3> QED BY <2>2, <2>3, <3>1, <3>2
    <2> QED BY <2>4, <2>5, <2>6, <2>7, Steps
<1> QED BY <1>2, <1>3 DEF ActAsked

(* ActNeedsTheUser: however a session's commands overlap and whatever is   *)
(* killed, no run in act mode is placed for a repository that the user has *)
(* not named in an act command (telephone/cli.py cmd_call, cmd_reply).     *)
THEOREM ActOnlyWhenAsked == Spec => []ActNeedsTheUser
<1>1. Init => ActAsked
    <2> SUFFICES ASSUME Init PROVE ActAsked
        OBVIOUS
    <2>1. \A s \in Sessions : ~grant[s].held
        BY DEF Init, NoGrant
    <2>2. \A p \in Callers : cli[p].pc = "idle"
        BY DEF Init, Idle
    <2> QED BY <2>1, <2>2 DEF ActAsked, Waiting, Counted
<1>2. ActAsked => ActNeedsTheUser
    BY DEF ActAsked, ActNeedsTheUser, Asked, Placed, Counted
<1> QED BY <1>1, <1>2, TypeInit, TypeNext, ActNext, PTL DEF Spec

-----------------------------------------------------------------------------
(* The model's own calls.                                                  *)

Models(s) == {p \in Callers : /\ SessionOf[p] = s /\ cli[p].by = "model"
                              /\ cli[p].cmd = "call" /\ Counted(cli[p])}

(* Each of a session's calls has its slot, there are no more slots than    *)
(* the cap, and a call that has passed its checks still finds one.         *)
Slots == \A s \in Sessions :
    /\ Cardinality(Models(s)) <= autoCalls[s]
    /\ CallCap # 0 =>
          /\ autoCalls[s] <= CallCap
          /\ \A p \in Callers :
                SessionOf[p] = s /\ Waiting(cli[p]) /\ cli[p].cmd = "call" /\ cli[p].by = "model"
                    => autoCalls[s] < CallCap

(* The calls are countable. *)
LEMMA ModelsFinite ==
    ASSUME NEW s
    PROVE  IsFiniteSet(Models(s)) /\ Cardinality(Models(s)) \in Nat
<1>1. IsFiniteSet(Callers) /\ Models(s) \in SUBSET Callers
    BY TelephoneAssumption DEF Models
<1> QED BY <1>1, FS_Subset, FS_CardinalityType

(* No slot is taken: no call is placed in the model's name. *)
LEMMA SlotsStay ==
    ASSUME TypeInv, Slots, NEW s \in Sessions, autoCalls'[s] = autoCalls[s],
           Models(s)' \subseteq Models(s),
           \A p \in Callers :
              SessionOf[p] = s /\ Waiting(cli'[p]) /\ cli'[p].cmd = "call" /\ cli'[p].by = "model"
                  => \/ Waiting(cli[p]) /\ cli[p].cmd = "call" /\ cli[p].by = "model"
                     \/ CallCap = 0 \/ autoCalls[s] < CallCap
    PROVE  /\ Cardinality(Models(s)') <= autoCalls'[s]
           /\ CallCap # 0 =>
                 /\ autoCalls'[s] <= CallCap
                 /\ \A p \in Callers :
                       SessionOf[p] = s /\ Waiting(cli'[p]) /\ cli'[p].cmd = "call" /\ cli'[p].by = "model"
                           => autoCalls'[s] < CallCap
<1>1. IsFiniteSet(Models(s)) /\ Cardinality(Models(s)) \in Nat /\ autoCalls[s] \in Nat
    BY ModelsFinite DEF TypeInv, TypeOK
<1>2. Cardinality(Models(s)') \in Nat /\ Cardinality(Models(s)') <= Cardinality(Models(s))
    BY <1>1, FS_Subset, FS_CardinalityType
<1>3. Cardinality(Models(s)) <= autoCalls[s]
    BY DEF Slots
<1>4. Cardinality(Models(s)') <= autoCalls'[s]
    BY <1>1, <1>2, <1>3
<1> QED BY <1>4 DEF Slots

(* The slots are kept. *)
LEMMA SlotsNext ==
    ASSUME TypeInv, OneAtATime, Alone, Slots, [Next]_vars
    PROVE  Slots'
<1> SUFFICES ASSUME NEW s \in Sessions
             PROVE  /\ Cardinality(Models(s)') <= autoCalls'[s]
                    /\ CallCap # 0 =>
                          /\ autoCalls'[s] <= CallCap
                          /\ \A p \in Callers :
                                SessionOf[p] = s /\ Waiting(cli'[p]) /\ cli'[p].cmd = "call"
                                    /\ cli'[p].by = "model" => autoCalls'[s] < CallCap
    BY DEF Slots
<1>1. CASE Elsewhere
    <2>1. Models(s)' = Models(s) /\ UNCHANGED <<cli, autoCalls>>
        BY <1>1 DEF Elsewhere, Models
    <2> QED BY <2>1, SlotsStay
<1>2. ASSUME NEW p \in Callers, NEW c \in Invocation, cli' = [cli EXCEPT ![p] = c]
      PROVE  cli'[p] = c /\ \A q \in Callers : q # p => cli'[q] = cli[q]
    BY <1>2 DEF TypeInv, TypeOK
<1>3. ASSUME NEW p \in Callers, NEW c \in Invocation, cli' = [cli EXCEPT ![p] = c],
             autoCalls'[s] = autoCalls[s],
             Counted(c) /\ c.by = "model" /\ c.cmd = "call" /\ SessionOf[p] = s => p \in Models(s),
             Waiting(c) /\ c.by = "model" /\ c.cmd = "call" /\ SessionOf[p] = s
                => \/ Waiting(cli[p]) /\ cli[p].cmd = "call" /\ cli[p].by = "model"
                   \/ CallCap = 0 \/ autoCalls[s] < CallCap
      PROVE  /\ Cardinality(Models(s)') <= autoCalls'[s]
             /\ CallCap # 0 =>
                   /\ autoCalls'[s] <= CallCap
                   /\ \A q \in Callers :
                         SessionOf[q] = s /\ Waiting(cli'[q]) /\ cli'[q].cmd = "call"
                             /\ cli'[q].by = "model" => autoCalls'[s] < CallCap
    <2>1. Models(s)' \subseteq Models(s)
        <3>1. ASSUME NEW q \in Models(s)', q # p PROVE q \in Models(s)
            BY <1>2, <1>3, <3>1 DEF Models
        <3>2. p \in Models(s)' => p \in Models(s)
            BY <1>2, <1>3 DEF Models
        <3> QED BY <3>1, <3>2
    <2>2. \A q \in Callers :
              SessionOf[q] = s /\ Waiting(cli'[q]) /\ cli'[q].cmd = "call" /\ cli'[q].by = "model"
                  => \/ Waiting(cli[q]) /\ cli[q].cmd = "call" /\ cli[q].by = "model"
                     \/ CallCap = 0 \/ autoCalls[s] < CallCap
        BY <1>2, <1>3
    <2> QED BY <1>3, <2>1, <2>2, SlotsStay
<1>4. ASSUME NEW p \in Callers, GoesOn(p)
      PROVE  /\ Cardinality(Models(s)') <= autoCalls'[s]
             /\ CallCap # 0 =>
                   /\ autoCalls'[s] <= CallCap
                   /\ \A q \in Callers :
                         SessionOf[q] = s /\ Waiting(cli'[q]) /\ cli'[q].cmd = "call"
                             /\ cli'[q].by = "model" => autoCalls'[s] < CallCap
    <2>1. PICK c \in Invocation :
            /\ cli' = [cli EXCEPT ![p] = c]
            /\ Waiting(c) => Waiting(cli[p]) /\ Same(c, cli[p])
            /\ Counted(c) => Counted(cli[p]) /\ Same(c, cli[p])
            /\ UNCHANGED <<flags, typed>>
        BY <1>4 DEF GoesOn
    <2> QED BY <1>3, <2>1 DEF Models, Same, flags
<1>5. ASSUME NEW p \in Callers, Begun(p)
      PROVE  /\ Cardinality(Models(s)') <= autoCalls'[s]
             /\ CallCap # 0 =>
                   /\ autoCalls'[s] <= CallCap
                   /\ \A q \in Callers :
                         SessionOf[q] = s /\ Waiting(cli'[q]) /\ cli'[q].cmd = "call"
                             /\ cli'[q].by = "model" => autoCalls'[s] < CallCap
    <2>1. PICK c \in Invocation :
            /\ cli' = [cli EXCEPT ![p] = c] /\ c.pc \in {"checked", "cleared", "refused"}
            /\ Waiting(c) /\ c.cmd = "call" /\ c.by = "model"
                  => CallCap = 0 \/ autoCalls[SessionOf[p]] < CallCap
            /\ UNCHANGED autoCalls
        BY <1>5 DEF Begun
    <2>2. ~Counted(c)
        BY <2>1 DEF Counted
    <2> QED BY <1>3, <2>1, <2>2
<1>6. ASSUME NEW p \in Callers, Spent(p)
      PROVE  /\ Cardinality(Models(s)') <= autoCalls'[s]
             /\ CallCap # 0 =>
                   /\ autoCalls'[s] <= CallCap
                   /\ \A q \in Callers :
                         SessionOf[q] = s /\ Waiting(cli'[q]) /\ cli'[q].cmd = "call"
                             /\ cli'[q].by = "model" => autoCalls'[s] < CallCap
    <2>1. PICK c \in Invocation :
            /\ cli' = [cli EXCEPT ![p] = c]
            /\ Waiting(cli[p]) /\ Counted(c) /\ Same(c, cli[p]) /\ c.pc \notin Early
            /\ \/ cli[p].by = "user" /\ UNCHANGED autoCalls
               \/ /\ cli[p].by # "user"
                  /\ autoCalls' = IF cli[p].cmd = "call" THEN [autoCalls EXCEPT ![SessionOf[p]] = @ + 1]
                                                         ELSE autoCalls
        BY <1>6 DEF Spent
    <2>2. ~Waiting(c) /\ SessionOf[p] \in Sessions
        BY <2>1, TelephoneAssumption DEF Waiting, Early
    <2>3. CASE cli[p].by = "user" \/ cli[p].cmd # "call"
        <3>1. UNCHANGED autoCalls
            BY <2>1, <2>3
        <3> QED BY <1>3, <2>1, <2>2, <2>3, <3>1 DEF Same
    <2>4. CASE cli[p].by # "user" /\ cli[p].cmd = "call" /\ SessionOf[p] # s
        <3>1. autoCalls'[s] = autoCalls[s]
            BY <2>1, <2>2, <2>4 DEF TypeInv, TypeOK
        <3> QED BY <1>3, <2>1, <2>2, <2>4, <3>1
    <2>5. CASE cli[p].by # "user" /\ cli[p].cmd = "call" /\ SessionOf[p] = s
        <3>1. cli'[p] = c /\ \A q \in Callers : q # p => cli'[q] = cli[q]
            BY <1>2, <2>1
        <3>2. autoCalls[s] \in Nat /\ autoCalls'[s] = autoCalls[s] + 1
            BY <2>1, <2>2, <2>5 DEF TypeInv, TypeOK
        <3>3. \A q \in Callers : SessionOf[q] = s => ~Waiting(cli'[q])
            BY <2>1, <2>2, <2>5, <3>1 DEF Alone
        <3>4. Models(s)' \subseteq Models(s) \union {p}
            <4>1. ASSUME NEW q \in Models(s)', q # p PROVE q \in Models(s)
                BY <3>1, <4>1 DEF Models
            <4> QED BY <4>1
        <3>5. IsFiniteSet(Models(s)) /\ Cardinality(Models(s)) \in Nat /\ Cardinality(Models(s)) <= autoCalls[s]
            BY ModelsFinite DEF Slots
        <3>6. /\ IsFiniteSet(Models(s) \union {p})
              /\ Cardinality(Models(s) \union {p}) =
                   IF p \in Models(s) THEN Cardinality(Models(s)) ELSE Cardinality(Models(s)) + 1
            BY <3>5, FS_AddElement
        <3>7. Cardinality(Models(s)') \in Nat /\ Cardinality(Models(s)') <= Cardinality(Models(s) \union {p})
            BY <3>4, <3>6, FS_Subset, FS_CardinalityType
        <3>8. Cardinality(Models(s)') <= autoCalls'[s]
            BY <3>2, <3>5, <3>6, <3>7
        <3>9. CallCap # 0 => autoCalls'[s] <= CallCap
            <4>1. cli[p].by \in {"none", "user", "model"} /\ CallCap \in Nat
                BY TelephoneAssumption DEF TypeInv, TypeOK, Invocation
            <4>2. CASE cli[p].by = "model"
                <5>1. CallCap # 0 => autoCalls[s] < CallCap
                    BY <2>1, <2>5, <4>2 DEF Slots
                <5> QED BY <3>2, <4>1, <5>1
            <4>3. cli[p].by # "none"
                BY <2>1 DEF TypeInv, Fits, Waiting
            <4> QED BY <2>5, <4>1, <4>2, <4>3
        <3> QED BY <3>3, <3>8, <3>9
    <2> QED BY <2>3, <2>4, <2>5
<1> QED BY <1>1, <1>4, <1>5, <1>6, Steps

(* AutonomousCallsCapped: where a session starts no command while another  *)
(* one checks its grant, the model places no more calls of its own than    *)
(* max_autonomous_calls_per_session (telephone/cli.py).                    *)
THEOREM CapHolds ==
    ASSUME OneAtATime
    PROVE  Spec => []AutonomousCallsCapped
<1>1. Init => Slots
    <2> SUFFICES ASSUME Init PROVE Slots
        OBVIOUS
    <2>1. \A p \in Callers : cli[p].pc = "idle"
        BY DEF Init, Idle
    <2>2. \A s \in Sessions : autoCalls[s] = 0 /\ Models(s) = {}
        BY <2>1 DEF Init, Models, Counted
    <2>3. \A s \in Sessions : Cardinality(Models(s)) = 0
        BY <2>2, FS_EmptySet
    <2>4. CallCap \in Nat
        BY TelephoneAssumption
    <2> QED BY <2>1, <2>2, <2>3, <2>4 DEF Slots, Waiting
<1>2. ASSUME TypeInv, Slots PROVE AutonomousCallsCapped
    <2> SUFFICES ASSUME NEW s \in Sessions, CallCap # 0
                 PROVE  Cardinality({p \in Callers : /\ SessionOf[p] = s /\ cli[p].by = "model"
                                                     /\ cli[p].cmd = "call" /\ Placed(p)}) <= CallCap
        BY DEF AutonomousCallsCapped
    <2>1. {p \in Callers : /\ SessionOf[p] = s /\ cli[p].by = "model"
                           /\ cli[p].cmd = "call" /\ Placed(p)} = Models(s)
        BY DEF Models, Placed, Counted
    <2>2. Cardinality(Models(s)) \in Nat /\ autoCalls[s] \in Nat /\ CallCap \in Nat
        BY <1>2, ModelsFinite, TelephoneAssumption DEF TypeInv, TypeOK
    <2>3. Cardinality(Models(s)) <= autoCalls[s] /\ autoCalls[s] <= CallCap
        BY <1>2 DEF Slots
    <2>4. Cardinality(Models(s)) <= CallCap
        BY <2>2, <2>3
    <2> QED BY <2>1, <2>4
<1>3. TypeInv /\ Alone /\ Slots /\ [Next]_vars => Alone' /\ Slots'
    BY AloneNext, SlotsNext
<1> QED BY <1>1, <1>2, <1>3, TypeInit, TypeNext, PaidInit, PTL DEF Spec
=============================================================================
