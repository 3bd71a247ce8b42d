------------------------------- MODULE Telephone -------------------------------
(***************************************************************************)
(* Calls from one registered repository into another: telephone/cli.py,    *)
(* the record store telephone/store.py and the prompt hook                 *)
(* telephone/hooks/user_prompt.py.  Every command line is a process of its *)
(* own; the processes share the grant and counter files of their session,  *)
(* the central record store and the checkout of the repository they call.  *)
(* Only the sequence counter is locked, so the other files are read in one *)
(* step of a process and written in a later one, and what another process  *)
(* did in between is overwritten.                                          *)
(*                                                                         *)
(* Abstractions.  A record is its status and the processes whose exchanges *)
(* its body holds; the wording of prompts and replies, the notes on both   *)
(* sides and the issue line are left out.  A follow-up's second run after  *)
(* a failed resume is part of its one run.  A process that is killed dies  *)
(* with its lock, and its callee, a child of it, may go on for a while.    *)
(***************************************************************************)
EXTENDS Naturals, Sequences, FiniteSets

CONSTANTS
  Sessions,    \* caller sessions
  Callers,     \* invocations of telephone/cli.py, each runs one command
  SessionOf,   \* the session an invocation is made from
  Repos,       \* registered repositories
  Checkouts,   \* those whose checkout exists (resolve_callee refuses the others)
  MaxCalls,    \* bound on the ids of one year
  CallCap,     \* max_autonomous_calls_per_session
  LineCap,     \* max_autonomous_exchanges_per_line
  MaxTyped,    \* bound on the /telephone commands a session's user types
  CommandsOf,  \* the subcommands an invocation may be
  OneAtATime,  \* a session starts no command while another is checking its grant
  FirstCallAlone \* no two calls are placed together while the year has no counter

Command == {"call", "reply", "hangup"}

ASSUME TelephoneAssumption ==
  /\ IsFiniteSet(Callers)
  /\ SessionOf \in [Callers -> Sessions]
  /\ Checkouts \subseteq Repos
  /\ MaxCalls \in Nat
  /\ CallCap \in Nat
  /\ LineCap \in Nat
  /\ MaxTyped \in Nat
  /\ CommandsOf \in [Callers -> SUBSET Command]
  /\ OneAtATime \in BOOLEAN
  /\ FirstCallAlone \in BOOLEAN

Ids == 1..MaxCalls
NoCounter == 0
Default == 0                 \* the checkout's default branch; id n names telephone/n
NoOne == "no one"
NoGrant == [held |-> FALSE]
Grant == [held : {TRUE}, repo : Repos, act : BOOLEAN, fresh : BOOLEAN]

CONSTANT NoRecord
Outcome == {"answered", "failed"}   \* a timed-out run is closed like a failed one
Record == [status : {"open", "hung_up"} \union Outcome, act : BOOLEAN, repo : Checkouts,
           exchanges : Seq(Callers)]

VARIABLES
  counter,   \* next_seq of the year, NoCounter when the file is missing
  seqLock,   \* who holds the lock on it
  record,    \* the record files
  grant,     \* the grant file of each session
  autoCalls, \* the autonomous-call counter file of each session
  tree,      \* the checkout of each repository: the branch it is on, is it dirty
  cli,       \* what each invocation knows
  typed      \* history: the /telephone commands each session's user typed

store == <<counter, seqLock, record>>
flags == <<grant, autoCalls>>
vars == <<store, flags, tree, cli, typed>>

Terminal == {"done", "refused", "killed"}
PCs == Terminal \union
       {"idle", "checked", "cleared", "layout", "mkcounter", "seq", "counting", "write",
        "enter", "run", "settle", "finish", "append", "hang", "orphan"}

Idle == [pc |-> "idle", cmd |-> "none", repo |-> NoOne, act |-> FALSE,
         by |-> "none", id |-> 0, seen |-> NoRecord, start |-> Default, rc |-> "none"]

Init ==
  /\ counter = NoCounter
  /\ seqLock = NoOne
  /\ record = [i \in Ids |-> NoRecord]
  /\ grant = [s \in Sessions |-> NoGrant]
  /\ autoCalls = [s \in Sessions |-> 0]
  /\ tree = [r \in Checkouts |-> [on |-> Default, dirty |-> FALSE]]
  /\ cli = [p \in Callers |-> Idle]
  /\ typed = [s \in Sessions |-> <<>>]

Goto(p, to) == cli' = [cli EXCEPT ![p].pc = to]
\* The process is over and what it had read is forgotten.
Exit(p, how) == cli' = [cli EXCEPT ![p] = [@ EXCEPT
  !.pc = how, !.seen = NoRecord, !.start = Default, !.rc = "none"]]
At(p, where) == cli[p].pc = where

-----------------------------------------------------------------------------
(* The grant.                                                              *)

\* user_prompt.run: the prompt opens with /telephone; the file is rewritten.
TypeCommand(s, r, a) ==
  /\ Len(typed[s]) < MaxTyped
  /\ typed' = [typed EXCEPT ![s] = Append(@, [repo |-> r, act |-> a])]
  /\ grant' = [grant EXCEPT ![s] = [held |-> TRUE, repo |-> r, act |-> a, fresh |-> TRUE]]
  /\ UNCHANGED <<store, autoCalls, tree, cli>>

GrantAges(s) ==
  /\ grant[s].held
  /\ grant[s].fresh
  /\ grant' = [grant EXCEPT ![s].fresh = FALSE]
  /\ UNCHANGED <<store, autoCalls, tree, cli, typed>>

UsableGrant(s, r) ==
  /\ grant[s].held
  /\ grant[s].fresh
  /\ grant[s].repo = r

ActGranted(s, r) == UsableGrant(s, r) /\ grant[s].act

\* What reading the grant leaves on disk: an expired one is deleted.
GrantRead(s) ==
  [grant EXCEPT ![s] = IF @.held /\ ~@.fresh THEN NoGrant ELSE @]

Begins(p, c) ==
  /\ At(p, "idle")
  /\ c \in CommandsOf[p]
  /\ OneAtATime => \A q \in Callers : SessionOf[q] = SessionOf[p] =>
                                        cli[q].pc \notin {"checked", "cleared"}
PlacedBy(s, r) == IF UsableGrant(s, r) THEN "user" ELSE "model"

-----------------------------------------------------------------------------
(* call: the checks, in the order cmd_call makes them.                     *)

MayCall(s, r, a) ==
  /\ a => ActGranted(s, r)
  /\ UsableGrant(s, r) \/ CallCap = 0 \/ autoCalls[s] < CallCap

Call(p, r, a) ==
  LET s == SessionOf[p] IN
  /\ Begins(p, "call")
  /\ (FirstCallAlone /\ counter = NoCounter) =>
       \A q \in Callers : cli[q].pc \notin {"checked", "cleared", "layout", "mkcounter"}
  /\ grant' = GrantRead(s)
  /\ cli' = [cli EXCEPT ![p] = [@ EXCEPT
       !.pc = IF MayCall(s, r, a) THEN "checked" ELSE "refused",
       !.cmd = "call", !.repo = r, !.act = a, !.by = PlacedBy(s, r)]]
  /\ UNCHANGED <<store, autoCalls, tree, typed>>

OnLine(i) == record[i] # NoRecord /\ record[i].status = "open"

\* open_act_call: the guard that keeps two act calls out of one checkout.
OpenActCall(r) ==
  \E i \in Ids : OnLine(i) /\ record[i].repo = r /\ record[i].act

ActPreflight(p) ==
  /\ At(p, "checked")
  /\ cli[p].act
  /\ LET r == cli[p].repo IN
     IF ~tree[r].dirty /\ tree[r].on = Default /\ ~OpenActCall(r)
       THEN Goto(p, "cleared")
       ELSE Exit(p, "refused")
  /\ UNCHANGED <<store, flags, tree, typed>>

(* Mutant: the grant file is left behind. *)
SpendKeepsGrant(p) ==
  LET s == SessionOf[p] IN
  /\ \/ At(p, "cleared")
     \/ At(p, "checked") /\ ~cli[p].act
  /\ autoCalls' = IF cli[p].by = "model" /\ cli[p].cmd = "call"
                    THEN [autoCalls EXCEPT ![s] = @ + 1] ELSE autoCalls
  /\ Goto(p, IF cli[p].cmd = "call" THEN "layout" ELSE IF cli[p].act THEN "enter" ELSE "run")
  /\ UNCHANGED <<store, grant, tree, typed>>

\* Past every refusal: an answer call goes here straight from its checks.
Spend(p) ==
  LET s == SessionOf[p] IN
  /\ \/ At(p, "cleared")
     \/ At(p, "checked") /\ ~cli[p].act
  /\ IF cli[p].by = "user"
       THEN /\ grant' = [grant EXCEPT ![s] = NoGrant]
            /\ UNCHANGED autoCalls
       ELSE /\ autoCalls' = IF cli[p].cmd = "call" THEN [autoCalls EXCEPT ![s] = @ + 1]
                                                   ELSE autoCalls
            /\ UNCHANGED grant
  /\ Goto(p, IF cli[p].cmd = "call" THEN "layout" ELSE IF cli[p].act THEN "enter" ELSE "run")
  /\ UNCHANGED <<store, tree, typed>>

-----------------------------------------------------------------------------
(* The id: ensure_layout outside the lock, _increment_seq inside it.       *)

\* _scan_max_seq + 1
AfterLast ==
  CHOOSE n \in 1..(MaxCalls + 1) :
    /\ \A i \in Ids : record[i] # NoRecord => i < n
    /\ n = 1 \/ record[n - 1] # NoRecord

LookForCounter(p) ==
  /\ At(p, "layout")
  /\ IF counter # NoCounter
       THEN Goto(p, "seq")
       ELSE cli' = [cli EXCEPT ![p].pc = "mkcounter", ![p].id = AfterLast]
  /\ UNCHANGED <<store, flags, tree, typed>>

WriteCounter(p) ==
  /\ At(p, "mkcounter")
  /\ counter' = cli[p].id
  /\ Goto(p, "seq")
  /\ UNCHANGED <<seqLock, record, flags, tree, typed>>

(* Mutant: the counter is read before the lock is taken. *)
ReadCounterUnlocked(p) ==
  LET current == IF counter = NoCounter THEN AfterLast ELSE counter IN
  /\ At(p, "seq")
  /\ current \in Ids
  /\ seqLock' = p
  /\ cli' = [cli EXCEPT ![p].pc = "counting", ![p].id = current]
  /\ UNCHANGED <<counter, record, flags, tree, typed>>

ReadCounter(p) ==
  LET current == IF counter = NoCounter THEN AfterLast ELSE counter IN
  /\ At(p, "seq")
  /\ seqLock = NoOne
  /\ current \in Ids
  /\ seqLock' = p
  /\ cli' = [cli EXCEPT ![p].pc = "counting", ![p].id = current]
  /\ UNCHANGED <<counter, record, flags, tree, typed>>

WriteNext(p) ==
  /\ At(p, "counting")
  /\ counter' = cli[p].id + 1
  /\ seqLock' = NoOne
  /\ Goto(p, "write")
  /\ UNCHANGED <<record, flags, tree, typed>>

\* The record is on disk, open, before the callee starts.
WriteRecord(p) ==
  /\ At(p, "write")
  /\ record' = [record EXCEPT ![cli[p].id] =
       [status |-> "open", act |-> cli[p].act, repo |-> cli[p].repo, exchanges |-> <<>>]]
  /\ Goto(p, IF cli[p].act THEN "enter" ELSE "run")
  /\ UNCHANGED <<counter, seqLock, flags, tree, typed>>

-----------------------------------------------------------------------------
(* reply: a follow-up on a record.                                         *)

MayReply(s, rec) ==
  IF rec.act
    THEN ActGranted(s, rec.repo) /\ ~tree[rec.repo].dirty
    ELSE UsableGrant(s, rec.repo) \/ LineCap = 0 \/ Len(rec.exchanges) < LineCap

Reply(p, i) ==
  LET s == SessionOf[p]  rec == record[i] IN
  /\ Begins(p, "reply")
  /\ rec # NoRecord
  /\ grant' = GrantRead(s)
  /\ cli' = [cli EXCEPT ![p] = [@ EXCEPT
       !.pc = IF MayReply(s, rec) THEN "cleared" ELSE "refused",
       !.cmd = "reply", !.repo = rec.repo, !.act = rec.act, !.by = PlacedBy(s, rec.repo),
       !.id = i]]
  /\ UNCHANGED <<store, autoCalls, tree, typed>>

-----------------------------------------------------------------------------
(* The run, in the callee's checkout.                                      *)

EnterWorkBranch(p) ==
  LET r == cli[p].repo IN
  /\ At(p, "enter")
  /\ tree' = [tree EXCEPT ![r].on = cli[p].id]
  /\ cli' = [cli EXCEPT ![p].pc = "run", ![p].start = tree[r].on]
  /\ UNCHANGED <<store, flags, typed>>

(* Mutant: the early exits leave the record as it is. *)
AbandonOpen(p) == Exit(p, "done") /\ UNCHANGED <<store, flags, tree, typed>>

\* A call that never ran is closed as failed; a follow-up leaves the record.
Abandon(p) ==
  /\ record' = IF cli[p].cmd = "call"
                 THEN [record EXCEPT ![cli[p].id] =
                   [status |-> "failed", act |-> cli[p].act, repo |-> cli[p].repo,
                    exchanges |-> <<>>]]
                 ELSE record
  /\ Exit(p, "done")
  /\ UNCHANGED <<counter, seqLock, flags, tree, typed>>

CheckoutFails(p) == At(p, "enter") /\ Abandon(p)

NoBinary(p) == At(p, "run") /\ Abandon(p)

\* External: an act callee edits, commits, and may leave a clean work branch.
CalleeWorks(p) ==
  LET r == cli[p].repo IN
  /\ cli[p].pc \in {"run", "orphan"}
  /\ cli[p].act
  /\ \/ tree' = [tree EXCEPT ![r].dirty = ~@]
     \/ ~tree[r].dirty /\ tree' = [tree EXCEPT ![r].on = Default]
  /\ UNCHANGED <<store, flags, cli, typed>>

RunEnds(p, rc) ==
  /\ At(p, "run")
  /\ cli' = [cli EXCEPT ![p].pc = IF cli[p].act THEN "settle" ELSE "finish", ![p].rc = rc]
  /\ UNCHANGED <<store, flags, tree, typed>>

\* _settle_act: a clean checkout goes back, unless git refuses.
SettleAct(p) ==
  LET r == cli[p].repo IN
  /\ At(p, "settle")
  /\ \/ ~tree[r].dirty /\ tree' = [tree EXCEPT ![r].on = cli[p].start]
     \/ UNCHANGED tree
  /\ Goto(p, "finish")
  /\ UNCHANGED <<store, flags, typed>>

-----------------------------------------------------------------------------
(* append_exchange and hangup read the record, then write it.              *)

ReadRecord(p) ==
  /\ At(p, "finish")
  /\ cli' = [cli EXCEPT ![p].pc = "append", ![p].seen = record[cli[p].id]]
  /\ UNCHANGED <<store, flags, tree, typed>>

AppendExchange(p) ==
  /\ At(p, "append")
  /\ record' = [record EXCEPT ![cli[p].id] =
       [cli[p].seen EXCEPT !.status = cli[p].rc, !.exchanges = Append(@, p)]]
  /\ Exit(p, "done")
  /\ UNCHANGED <<counter, seqLock, flags, tree, typed>>

Hangup(p, i) ==
  /\ Begins(p, "hangup")
  /\ record[i] # NoRecord
  /\ cli' = [cli EXCEPT ![p] = [@ EXCEPT
       !.pc = IF record[i].status = "open" THEN "hang" ELSE "done",
       !.cmd = "hangup", !.repo = record[i].repo, !.id = i, !.seen = record[i]]]
  /\ UNCHANGED <<store, flags, tree, typed>>

MarkHungUp(p) ==
  /\ At(p, "hang")
  /\ record' = [record EXCEPT ![cli[p].id] = [cli[p].seen EXCEPT !.status = "hung_up"]]
  /\ Exit(p, "done")
  /\ UNCHANGED <<counter, seqLock, flags, tree, typed>>

\* hangup --kill, or the end of the caller's session, at any point.
Kill(p) ==
  /\ cli[p].pc \notin Terminal \union {"idle", "orphan"}
  /\ seqLock' = IF seqLock = p THEN NoOne ELSE seqLock
  /\ Exit(p, IF At(p, "run") THEN "orphan" ELSE "killed")
  /\ UNCHANGED <<counter, record, flags, tree, typed>>

OrphanEnds(p) ==
  /\ At(p, "orphan")
  /\ Exit(p, "killed")
  /\ UNCHANGED <<store, flags, tree, typed>>

Done ==
  /\ \A p \in Callers : cli[p].pc \in Terminal \union {"idle"}
  /\ UNCHANGED vars

-----------------------------------------------------------------------------
\* What an invocation does by itself once it has started.
Proceed(p) ==
  \/ ActPreflight(p) \/ Spend(p)
  \/ LookForCounter(p) \/ WriteCounter(p) \/ ReadCounter(p) \/ WriteNext(p)
  \/ WriteRecord(p)
  \/ EnterWorkBranch(p) \/ CheckoutFails(p)
  \/ NoBinary(p) \/ (\E rc \in Outcome : RunEnds(p, rc))
  \/ SettleAct(p)
  \/ ReadRecord(p) \/ AppendExchange(p) \/ MarkHungUp(p)

Next ==
  \/ \E s \in Sessions, r \in Repos, a \in BOOLEAN : TypeCommand(s, r, a)
  \/ \E s \in Sessions : GrantAges(s)
  \/ \E p \in Callers, r \in Checkouts, a \in BOOLEAN : Call(p, r, a)
  \/ \E p \in Callers, i \in Ids : Reply(p, i) \/ Hangup(p, i)
  \/ \E p \in Callers : Proceed(p) \/ CalleeWorks(p) \/ Kill(p) \/ OrphanEnds(p)
  \/ Done

Spec == Init /\ [][Next]_vars

\* The run has a wall-clock limit (timeout_seconds), every other step of a
\* process is local: a process that is not killed gets to its end.
FairSpec == Spec /\ \A p \in Callers : WF_vars(Proceed(p))

-----------------------------------------------------------------------------
(* Properties.                                                             *)

\* Types.
Invocation == [pc : PCs, cmd : Command \union {"none"}, repo : Checkouts \union {NoOne},
               act : BOOLEAN, by : {"none", "user", "model"},
               id : 0..(MaxCalls + 1), seen : Record \union {NoRecord},
               start : {Default} \union Ids, rc : Outcome \union {"none"}]

TypeOK ==
  /\ counter \in 0..(MaxCalls + 1)
  /\ seqLock \in Callers \union {NoOne}
  /\ record \in [Ids -> Record \union {NoRecord}]
  /\ grant \in [Sessions -> Grant \union {NoGrant}]
  /\ autoCalls \in [Sessions -> 0..Cardinality(Callers)]
  /\ tree \in [Checkouts -> [on : {Default} \union Ids, dirty : BOOLEAN]]
  /\ cli \in [Callers -> Invocation]
  /\ typed \in [Sessions -> Seq([repo : Repos, act : BOOLEAN])]

\* Got past every refusal, so the grant is spent or the slot taken.
Placed(p) == cli[p].pc \notin {"idle", "checked", "cleared", "refused", "hang", "killed"}
             /\ cli[p].cmd \in {"call", "reply"}
Running(p) == cli[p].pc \in {"run", "orphan"}

\* "One typed command buys exactly one call" (telephone/cli.py consume_grant):
\* a session never has more calls and follow-ups placed in the user's name
\* against a repository than commands typed for it, nor more act runs than
\* act commands.
GrantBuysOneCall ==
  \A s \in Sessions, r \in Checkouts :
    LET users == {p \in Callers : /\ SessionOf[p] = s /\ cli[p].repo = r
                                  /\ cli[p].by = "user" /\ Placed(p)}
        cmds == {n \in DOMAIN typed[s] : typed[s][n].repo = r}
    IN /\ Cardinality(users) <= Cardinality(cmds)
       /\ Cardinality({p \in users : cli[p].act}) <=
            Cardinality({n \in cmds : typed[s][n].act})

\* However a session's invocations overlap, an act run never happens in a
\* repository its user has not named for act mode.
ActNeedsTheUser ==
  \A p \in Callers :
    cli[p].act /\ Placed(p) =>
      \E n \in DOMAIN typed[SessionOf[p]] :
        typed[SessionOf[p]][n] = [repo |-> cli[p].repo, act |-> TRUE]

\* max_autonomous_calls_per_session: the model's own calls of one session.
AutonomousCallsCapped ==
  \A s \in Sessions :
    CallCap # 0 =>
      Cardinality({p \in Callers : /\ SessionOf[p] = s /\ cli[p].by = "model"
                                   /\ cli[p].cmd = "call" /\ Placed(p)}) <= CallCap

\* "Two calls placed at the same moment get distinct ids" (_increment_seq):
\* no call is given the id of another one.
CallIdsDistinct ==
  \A p, q \in Callers :
    LET HasId(x) == cli[x].cmd = "call" /\ Placed(x)
                    /\ cli[x].pc \notin {"layout", "mkcounter", "seq"}
    IN HasId(p) /\ HasId(q) /\ p # q => cli[p].id # cli[q].id

\* The record is written before the callee starts: a running act call can be
\* seen by the preflight of the next one, unless another command has touched
\* its record.
RunningCallVisible ==
  \A p \in Callers :
    Running(p) /\ cli[p].cmd = "call" =>
      \/ OnLine(cli[p].id)
      \/ \E q \in Callers : q # p /\ cli[q].cmd \in {"reply", "hangup"} /\ cli[q].id = cli[p].id

\* "One act call per callee at a time" (open_act_call): two unattended runs
\* never edit one checkout.
OneActRunPerCallee ==
  \A p, q \in Callers :
    Running(p) /\ Running(q) /\ cli[p].act /\ cli[q].act /\ cli[p].repo = cli[q].repo
      => p = q

\* Every call on record is closed, unless the process that placed it is killed.
EveryCallCloses ==
  \A i \in Ids :
    OnLine(i)
      ~> (\/ ~OnLine(i)
          \/ \E p \in Callers : cli[p].pc \in {"killed", "orphan"} /\ cli[p].id = i)
=============================================================================
