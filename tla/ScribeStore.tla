------------------------------ MODULE ScribeStore ------------------------------
(***************************************************************************)
(* One folder of one year of the note store: scribe/store.py and the       *)
(* maintenance passes of scribe/maintenance.py.  Its files are next_seq,   *)
(* index.jsonl and <seq>.md, and the same index and bodies again under     *)
(* archive/.  Every command is a process; each file operation is a step,   *)
(* and a process can be killed between any two.                            *)
(*                                                                         *)
(* Abstractions.  An index is the number of rows it has per note: the      *)
(* order of its rows and what they say besides the note's number are left  *)
(* out, so an update rewrites the index it read.  A body is a file that is *)
(* there or not.  The index and the counter are replaced in one step; a    *)
(* torn counter is left out.  A lock wait that times out ends the command  *)
(* where it is, as Kill does.                                              *)
(***************************************************************************)
EXTENDS Naturals, FiniteSets

CONSTANTS
  Procs,            \* commands, one process each
  CommandsOf,       \* the commands a process may be
  MaxSeq,           \* bound on the sequence numbers of the year
  RebuiltAlone,     \* a missing next_seq is rebuilt once, from indexes that list every body,
                    \* while no removal has a body left to unlink
  MaintenanceAlone  \* repair and backfill run while no other command does

Command == {"add", "update", "archive", "unarchive", "remove", "repair", "backfill"}
Ids == 1..MaxSeq
Dir == {"active", "archive"}
NoCounter == 0
NoOne == "no one"

ASSUME ScribeAssumption ==
  /\ IsFiniteSet(Procs) /\ NoOne \notin Procs
  /\ CommandsOf \in [Procs -> SUBSET Command]
  /\ MaxSeq \in Nat \ {0}
  /\ RebuiltAlone \in BOOLEAN
  /\ MaintenanceAlone \in BOOLEAN

VARIABLES
  index,    \* rows per note in each index.jsonl
  bodies,   \* the notes that have a body file, per folder
  counter,  \* next_seq, NoCounter when the file is missing
  seqLock,  \* who holds the lock on next_seq
  idxLock,  \* who holds the lock on each index
  cmd,      \* what each process is doing
  removed   \* history: notes whose row a removal took and nothing listed since

files == <<index, bodies, counter>>
locks == <<seqLock, idxLock>>
vars == <<files, locks, cmd, removed>>

Empty == [s \in Ids |-> 0]
Idle == [pc |-> "idle", does |-> "none", seq |-> 0, dir |-> "active",
         seen |-> Empty, found |-> {}]
Ended == {"done", "killed"}

\* One note on the active shelf; next_seq is there or not.
Init ==
  /\ index = [d \in Dir |-> IF d = "active" THEN [Empty EXCEPT ![1] = 1] ELSE Empty]
  /\ bodies = [d \in Dir |-> IF d = "active" THEN {1} ELSE {}]
  /\ counter \in {NoCounter, 2}
  /\ seqLock = NoOne
  /\ idxLock = [d \in Dir |-> NoOne]
  /\ cmd = [p \in Procs |-> Idle]
  /\ removed = {}

At(p, where) == cmd[p].pc = where
Becomes(p, doing) == cmd' = [cmd EXCEPT ![p] = doing]
Goto(p, to) == Becomes(p, [cmd[p] EXCEPT !.pc = to])
Exit(p, how) == Becomes(p, [Idle EXCEPT !.pc = how, !.does = cmd[p].does])

Rows(d, s) == index[d][s]
Other(d) == CHOOSE e \in Dir : e # d
InFlight(p) == cmd[p].pc \notin Ended \union {"idle"}
Maintenance == {"repair", "backfill"}

Begins(p, c) ==
  /\ At(p, "idle")
  /\ c \in CommandsOf[p]
  /\ MaintenanceAlone =>
       \A q \in Procs : InFlight(q) => cmd[q].does \notin Maintenance /\ c \notin Maintenance

Start(p, c, at, s, d) ==
  Becomes(p, [cmd[p] EXCEPT !.pc = at, !.does = c, !.seq = s, !.dir = d])

MaxListed == CHOOSE n \in {0} \union Ids :
  /\ \A s \in Ids, d \in Dir : Rows(d, s) > 0 => s <= n
  /\ n = 0 \/ \E d \in Dir : Rows(d, n) > 0

-----------------------------------------------------------------------------
(* add_note, add_learning: the counter, the body, the row.                 *)

\* _ensure_year_dir; a missing counter is rebuilt from both indexes.
Add(p) ==
  /\ Begins(p, "add")
  /\ (RebuiltAlone /\ counter = NoCounter) =>
       /\ \A q \in Procs : ~At(q, "mkcounter") /\ ~At(q, "unlink")
       /\ \A d \in Dir : \A s \in bodies[d] : Rows(d, s) > 0
  /\ IF counter = NoCounter THEN Start(p, "add", "mkcounter", MaxListed + 1, "active")
                            ELSE Start(p, "add", "seq", 0, "active")
  /\ UNCHANGED <<files, locks, removed>>

\* _rebuild_next_seq writes without the lock _increment_seq holds.
WriteCounter(p) ==
  /\ At(p, "mkcounter")
  /\ counter' = cmd[p].seq
  /\ Goto(p, "seq")
  /\ UNCHANGED <<index, bodies, locks, removed>>

(* Mutant: the counter is read without the lock on it. *)
ReadCounterUnlocked(p) ==
  /\ At(p, "seq")
  /\ counter \in Ids
  /\ Becomes(p, [cmd[p] EXCEPT !.pc = "counting", !.seq = counter])
  /\ UNCHANGED <<files, locks, removed>>

\* _increment_seq
ReadCounter(p) ==
  /\ At(p, "seq")
  /\ seqLock = NoOne
  /\ counter \in Ids
  /\ seqLock' = p
  /\ Becomes(p, [cmd[p] EXCEPT !.pc = "counting", !.seq = counter])
  /\ UNCHANGED <<files, idxLock, removed>>

WriteNext(p) ==
  /\ At(p, "counting")
  /\ counter' = cmd[p].seq + 1
  /\ seqLock' = NoOne
  /\ Goto(p, "body")
  /\ UNCHANGED <<index, bodies, idxLock, removed>>

WriteBody(p) ==
  /\ At(p, "body")
  /\ bodies' = [bodies EXCEPT !["active"] = @ \union {cmd[p].seq}]
  /\ Goto(p, "row")
  /\ UNCHANGED <<index, counter, locks, removed>>

\* _append_index
AppendRow(p) ==
  /\ At(p, "row")
  /\ idxLock["active"] = NoOne
  /\ index' = [index EXCEPT !["active"][cmd[p].seq] = @ + 1]
  /\ removed' = removed \ {cmd[p].seq}
  /\ Exit(p, "done")
  /\ UNCHANGED <<bodies, counter, locks>>

-----------------------------------------------------------------------------
(* update_note: the active index under its lock, then the archive's.       *)

Update(p, s) ==
  /\ Begins(p, "update")
  /\ Start(p, "update", "lookup", s, "active")
  /\ UNCHANGED <<files, locks, removed>>

(* Mutant: the index is read before its lock is taken. *)
LookUpUnlocked(p) ==
  LET d == cmd[p].dir  s == cmd[p].seq IN
  /\ At(p, "lookup")
  /\ Rows(d, s) > 0
  /\ bodies' \in {bodies, [bodies EXCEPT ![d] = @ \union {s}]}
  /\ Becomes(p, [cmd[p] EXCEPT !.pc = "rewrite", !.seen = index[d]])
  /\ UNCHANGED <<index, counter, locks, removed>>

\* _locked_index: the index is read under the lock, and a new body written.
LookUp(p) ==
  LET d == cmd[p].dir  s == cmd[p].seq IN
  /\ At(p, "lookup")
  /\ idxLock[d] = NoOne
  /\ Rows(d, s) > 0
  /\ idxLock' = [idxLock EXCEPT ![d] = p]
  /\ bodies' \in {bodies, [bodies EXCEPT ![d] = @ \union {s}]}
  /\ Becomes(p, [cmd[p] EXCEPT !.pc = "rewrite", !.seen = index[d]])
  /\ UNCHANGED <<index, counter, seqLock, removed>>

LookUpMisses(p) ==
  /\ At(p, "lookup")
  /\ idxLock[cmd[p].dir] = NoOne
  /\ Rows(cmd[p].dir, cmd[p].seq) = 0
  /\ IF cmd[p].dir = "active" THEN Becomes(p, [cmd[p] EXCEPT !.dir = "archive"])
                              ELSE Exit(p, "done")
  /\ UNCHANGED <<files, locks, removed>>

Rewrite(p) ==
  LET d == cmd[p].dir IN
  /\ At(p, "rewrite")
  /\ index' = [index EXCEPT ![d] = cmd[p].seen]
  /\ idxLock' = [idxLock EXCEPT ![d] = NoOne]
  /\ Exit(p, "done")
  /\ UNCHANGED <<bodies, counter, seqLock, removed>>

-----------------------------------------------------------------------------
(* _move_between_indexes: both locks, in the order of the paths.           *)

Archive(p, s) ==
  /\ Begins(p, "archive")
  /\ Start(p, "archive", "lock1", s, "active")
  /\ UNCHANGED <<files, locks, removed>>

Unarchive(p, s) ==
  /\ Begins(p, "unarchive")
  /\ Start(p, "unarchive", "lock1", s, "archive")
  /\ UNCHANGED <<files, locks, removed>>

(* Mutant: the source's lock is taken first. *)
SourceFirst(p) == cmd[p].dir

\* <year>/archive/index.jsonl sorts before <year>/index.jsonl.
FirstLock(p) == "archive"

Lock1(p) ==
  /\ At(p, "lock1")
  /\ idxLock[FirstLock(p)] = NoOne
  /\ idxLock' = [idxLock EXCEPT ![FirstLock(p)] = p]
  /\ Goto(p, "lock2")
  /\ UNCHANGED <<files, seqLock, removed>>

Lock2(p) ==
  LET last == Other(FirstLock(p)) IN
  /\ At(p, "lock2")
  /\ idxLock[last] = NoOne
  /\ idxLock' = [idxLock EXCEPT ![last] = p]
  /\ Becomes(p, [cmd[p] EXCEPT !.pc = "dstrow", !.seen = index[cmd[p].dir]])
  /\ UNCHANGED <<files, seqLock, removed>>

Unlocked(p) == [d \in Dir |-> IF idxLock[d] = p THEN NoOne ELSE idxLock[d]]

NothingToMove(p) ==
  /\ At(p, "dstrow")
  /\ cmd[p].seen[cmd[p].seq] = 0
  /\ idxLock' = Unlocked(p)
  /\ Exit(p, "done")
  /\ UNCHANGED <<files, seqLock, removed>>

DestinationRow(p) ==
  /\ At(p, "dstrow")
  /\ cmd[p].seen[cmd[p].seq] > 0
  /\ index' = [index EXCEPT ![Other(cmd[p].dir)][cmd[p].seq] = @ + 1]
  /\ Goto(p, "mvbody")
  /\ UNCHANGED <<bodies, counter, locks, removed>>

MoveBody(p) ==
  LET d == cmd[p].dir  s == cmd[p].seq IN
  /\ At(p, "mvbody")
  /\ bodies' = IF s \in bodies[d]
                 THEN [bodies EXCEPT ![d] = @ \ {s}, ![Other(d)] = @ \union {s}]
                 ELSE bodies
  /\ Goto(p, "srcrow")
  /\ UNCHANGED <<index, counter, locks, removed>>

SourceRow(p) ==
  LET d == cmd[p].dir IN
  /\ At(p, "srcrow")
  /\ index' = [index EXCEPT ![d] = [cmd[p].seen EXCEPT ![cmd[p].seq] = 0]]
  /\ idxLock' = Unlocked(p)
  /\ Exit(p, "done")
  /\ UNCHANGED <<bodies, counter, seqLock, removed>>

-----------------------------------------------------------------------------
(* remove_learning: the row under the lock, the body outside it.           *)

Remove(p, s) ==
  /\ Begins(p, "remove")
  /\ idxLock["active"] = NoOne
  /\ Rows("active", s) > 0
  /\ index' = [index EXCEPT !["active"][s] = @ - 1]
  /\ removed' = removed \union {s}
  /\ Start(p, "remove", "unlink", s, "active")
  /\ UNCHANGED <<bodies, counter, locks>>

Unlink(p) ==
  /\ At(p, "unlink")
  /\ bodies' = [bodies EXCEPT !["active"] = @ \ {cmd[p].seq}]
  /\ Exit(p, "done")
  /\ UNCHANGED <<index, counter, locks, removed>>

-----------------------------------------------------------------------------
(* repair and backfill_brief: read the index, later write it back whole.   *)

Maintain(p, c) ==
  /\ c \in Maintenance
  /\ Begins(p, c)
  /\ Start(p, c, "mread", 0, "active")
  /\ UNCHANGED <<files, locks, removed>>

MaintenanceRead(p) ==
  /\ At(p, "mread")
  /\ Becomes(p, [cmd[p] EXCEPT !.pc = IF cmd[p].does = "repair" THEN "mscan" ELSE "mwrite",
                               !.seen = index[cmd[p].dir]])
  /\ UNCHANGED <<files, locks, removed>>

\* _body_seqs
RepairScan(p) ==
  /\ At(p, "mscan")
  /\ Becomes(p, [cmd[p] EXCEPT !.pc = "mwrite", !.found = bodies[cmd[p].dir]])
  /\ UNCHANGED <<files, locks, removed>>

\* The rows repair keeps: those with a body, and one per body without a row.
Kept(p) == [s \in Ids |-> IF s \notin cmd[p].found THEN 0
                          ELSE IF cmd[p].seen[s] = 0 THEN 1 ELSE cmd[p].seen[s]]
NumRows(rows) == Cardinality({x \in Ids \X (1..(2 * Cardinality(Procs) + 1)) : x[2] <= rows[x[1]]})
RepairWrites(p) == NumRows(Kept(p)) # NumRows(cmd[p].seen)

NextFolder(p) == IF cmd[p].dir = "active"
                   THEN Becomes(p, [Idle EXCEPT !.pc = "mread", !.dir = "archive",
                                                !.does = cmd[p].does])
                   ELSE Exit(p, "done")

Repaired(p) ==
  IF cmd[p].dir = "active" THEN Becomes(p, [cmd[p] EXCEPT !.pc = "mseq", !.seen = Kept(p)])
                           ELSE Exit(p, "done")

RepairWrite(p) ==
  LET d == cmd[p].dir IN
  /\ At(p, "mwrite")
  /\ cmd[p].does = "repair"
  /\ IF RepairWrites(p)
       THEN /\ idxLock[d] = NoOne
            /\ index' = [index EXCEPT ![d] = Kept(p)]
            /\ removed' = removed \ {s \in Ids : Kept(p)[s] > 0}
       ELSE UNCHANGED <<index, removed>>
  /\ Repaired(p)
  /\ UNCHANGED <<bodies, counter, locks>>

\* _repair_next_seq: one past what the repaired index and the archive list.
RepairCounter(p) ==
  LET listed == {s \in Ids : cmd[p].seen[s] > 0 \/ Rows("archive", s) > 0} IN
  /\ At(p, "mseq")
  /\ counter' = CHOOSE n \in 1..(MaxSeq + 1) : /\ \A s \in listed : s < n
                                               /\ n = 1 \/ n - 1 \in listed
  /\ NextFolder(p)
  /\ UNCHANGED <<index, bodies, locks, removed>>

\* backfill_brief writes the index when it changed a summary in it.
BackfillWrite(p) ==
  LET d == cmd[p].dir IN
  /\ At(p, "mwrite")
  /\ cmd[p].does = "backfill"
  /\ \/ idxLock[d] = NoOne /\ index' = [index EXCEPT ![d] = cmd[p].seen]
     \/ UNCHANGED index
  /\ NextFolder(p)
  /\ UNCHANGED <<bodies, counter, locks, removed>>

-----------------------------------------------------------------------------
Kill(p) ==
  /\ InFlight(p)
  /\ seqLock' = IF seqLock = p THEN NoOne ELSE seqLock
  /\ idxLock' = Unlocked(p)
  /\ Exit(p, "killed")
  /\ UNCHANGED <<files, removed>>

Proceed(p) ==
  \/ WriteCounter(p) \/ ReadCounter(p) \/ WriteNext(p) \/ WriteBody(p) \/ AppendRow(p)
  \/ LookUp(p) \/ LookUpMisses(p) \/ Rewrite(p)
  \/ Lock1(p) \/ Lock2(p) \/ NothingToMove(p)
  \/ DestinationRow(p) \/ MoveBody(p) \/ SourceRow(p)
  \/ Unlink(p)
  \/ MaintenanceRead(p) \/ RepairScan(p) \/ RepairWrite(p) \/ RepairCounter(p) \/ BackfillWrite(p)

Next ==
  \/ \E p \in Procs : Add(p) \/ Proceed(p) \/ Kill(p)
  \/ \E p \in Procs, s \in Ids : Update(p, s) \/ Archive(p, s) \/ Unarchive(p, s) \/ Remove(p, s)
  \/ \E p \in Procs, c \in Command : Maintain(p, c)

Spec == Init /\ [][Next]_vars

\* A command that is not killed goes on; a lock is held for a few file
\* operations, and waiting for it is retried until it is free.
FairSpec == Spec /\ \A p \in Procs : WF_vars(Proceed(p))

-----------------------------------------------------------------------------
(* Properties.                                                             *)

Places == {"idle", "mkcounter", "seq", "counting", "body", "row", "lookup", "rewrite", "lock1",
           "lock2", "dstrow", "mvbody", "srcrow", "unlink", "mread", "mscan", "mwrite", "mseq"}
          \union Ended
Doing == [pc : Places, does : Command \union {"none"}, seq : 0..(MaxSeq + 1), dir : Dir,
          seen : [Ids -> Nat], found : SUBSET Ids]

\* Every variable has its type; no index has a negative number of rows.
TypeOK ==
  /\ index \in [Dir -> [Ids -> Nat]]
  /\ bodies \in [Dir -> SUBSET Ids]
  /\ counter \in 0..(MaxSeq + 1)
  /\ seqLock \in Procs \union {NoOne}
  /\ idxLock \in [Dir -> Procs \union {NoOne}]
  /\ removed \subseteq Ids
  /\ cmd \in [Procs -> Doing]

\* "A note's body is always written before its index row", and a move writes
\* the destination row before it moves the body: whatever is killed where, a
\* row without any body belongs to a note that was being removed.
ListedNoteHasBody ==
  \A d \in Dir, s \in Ids :
    Rows(d, s) > 0 => s \in bodies["active"] \union bodies["archive"] \union removed

\* A number is issued once (_increment_seq, _repair_next_seq): no note has the
\* body an add is about to write.
NoBodyOverwritten ==
  \A p \in Procs : At(p, "body") =>
    cmd[p].seq \notin bodies["active"] \union bodies["archive"]

\* Locks are taken in path order (_index_locks): no command waits for ever.
EveryCommandEnds == \A p \in Procs : InFlight(p) ~> ~InFlight(p)

\* The shelf a note is on: where its row and its body are together.
Shelved(d, s) == Rows(d, s) > 0 /\ s \in bodies[d]
Place == [s \in Ids |-> IF Shelved("active", s) THEN "active"
                        ELSE IF Shelved("archive", s) THEN "archived"
                        ELSE IF s \in removed THEN "removed" ELSE "none"]

Shelf == INSTANCE NoteShelf WITH place <- Place

\* The store keeps the promise of NoteShelf: no interleaving and no kill
\* loses a note that was listed, or takes one from the archive
\* (_locked_index, _move_between_indexes).
KeepsTheShelf == Shelf!Spec

\* "A body with no index row is rebuilt, a row with no body is dropped"
\* (CLAIM of repair): when a repair is through with the folder and nothing ran
\* meanwhile, rows and bodies agree.
RepairReconciles ==
  \A p \in Procs :
    At(p, "mseq") => \A s \in Ids : Rows("active", s) > 0 <=> s \in bodies["active"]
=============================================================================
