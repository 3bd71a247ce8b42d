----------------------------- MODULE NoteLifeProofs -----------------------------
(***************************************************************************)
(* What the commands on notes keep, for every number of commands, notes,   *)
(* owners and days: the newest handoff of an owner stays on its shelf and  *)
(* is alone there once all is quiet, a superseded learning has one         *)
(* successor, and the todo of a merged branch stays done.                  *)
(***************************************************************************)
EXTENDS NoteLife, FiniteSetTheorems, SequenceTheorems, TLAPS

Shelves == {"active", "archive", "gone"}
Note == [type : Types, owner : Owners, status : Statuses, shelf : Shelves,
         made : Nat, changed : Nat, back : Nat]
Doing == [verb : Verbs \cup {"none", "add", "unarchive", "tidy", "archive", "supersede"},
          at : {"idle", "list", "look", "write", "unarchive", "sweep", "retire", "replace"},
          n : Nat, seen : Statuses, keys : SUBSET Nat]
Ticket == {"none", "backlog", "intake", "branch", "merged", "squashed"}

(* Every variable the proofs need has its type, a process works on a note  *)
(* there is, and a ticket is a todo's.                                     *)
Typed ==
    /\ note \in Seq(Note) /\ cli \in [Procs -> Doing] /\ ticket \in [Ids -> Ticket] /\ day \in Nat
    /\ stirred \in BOOLEAN

Sensible(p) ==
    LET c == cli[p] IN
    /\ c.at \in {"look", "write"} => c.verb \in Verbs
    /\ c.at = "write" => ~Refused(c.verb, c.seen)
    /\ c.at \in {"look", "write", "unarchive"} => c.n \in DOMAIN note /\ note[c.n].type # "learning"
    /\ c.at \in {"retire", "replace"} => c.n \in DOMAIN note /\ note[c.n].type = "learning"
    /\ c.at = "sweep" => \A n \in c.keys : n \in DOMAIN note /\ note[n].type # "learning"
    /\ c.verb = "done" => c.at \in {"look", "write"}

TypeInv ==
    /\ Typed
    /\ \A p \in Procs : Sensible(p)
    /\ \A n \in Ids : ticket[n] # "none" => n \in DOMAIN note /\ note[n].type = "todo"
    /\ \A n \in DOMAIN note : note[n].back = None \/ note[n].back \in DOMAIN note

-----------------------------------------------------------------------------
(* What a step leaves of the notes.                                        *)

(* A command writes a status. *)
LEMMA StatusWritten ==
    ASSUME Typed, NEW n \in DOMAIN note, NEW s \in Statuses,
           note' = [note EXCEPT ![n].status = s, ![n].changed = day]
    PROVE  /\ note' \in Seq(Note) /\ DOMAIN note' = DOMAIN note /\ note'[n].status = s
           /\ \A m \in DOMAIN note :
                /\ note'[m].type = note[m].type /\ note'[m].owner = note[m].owner
                /\ note'[m].made = note[m].made /\ note'[m].back = note[m].back
                /\ note'[m].shelf = note[m].shelf
                /\ m # n => note'[m] = note[m]
<1>1. /\ note \in Seq(Note) /\ DOMAIN note = 1..Len(note) /\ Len(note) \in Nat /\ day \in Nat
      /\ \A m \in DOMAIN note : note[m] \in Note
    BY DEF Typed
<1> DEFINE new == [note[n] EXCEPT !.status = s, !.changed = day]
<1>2. note' = [note EXCEPT ![n] = new]
    BY <1>1
<1>3. /\ new \in Note /\ new.status = s /\ new.type = note[n].type /\ new.owner = note[n].owner
      /\ new.made = note[n].made /\ new.back = note[n].back /\ new.shelf = note[n].shelf
    BY <1>1 DEF Note
<1> HIDE DEF new
<1>4. note' \in Seq(Note) /\ DOMAIN note' = DOMAIN note
    <2>1. n \in 1..Len(note) /\ new \in Note
        BY <1>1, <1>3
    <2>2. [note EXCEPT ![n] = new] \in Seq(Note) /\ Len([note EXCEPT ![n] = new]) = Len(note)
        BY <1>1, <2>1, ExceptSeq
    <2>3. DOMAIN [note EXCEPT ![n] = new] = DOMAIN note
        OBVIOUS
    <2> QED BY <1>2, <2>2, <2>3
<1>5. note'[n].status = s
    BY <1>2, <1>3
<1>6. ASSUME NEW m \in DOMAIN note
      PROVE  /\ note'[m].type = note[m].type /\ note'[m].owner = note[m].owner
             /\ note'[m].made = note[m].made /\ note'[m].back = note[m].back
             /\ note'[m].shelf = note[m].shelf
             /\ m # n => note'[m] = note[m]
    BY <1>2, <1>3
<1> QED BY <1>4, <1>5, <1>6

(* A note changes shelves. *)
LEMMA NoteMoved ==
    ASSUME Typed, NEW n \in DOMAIN note, NEW where \in Shelves, Move(n, where)
    PROVE  /\ note' \in Seq(Note) /\ DOMAIN note' = DOMAIN note /\ note'[n].shelf = where
           /\ \A m \in DOMAIN note :
                /\ note'[m].type = note[m].type /\ note'[m].owner = note[m].owner
                /\ note'[m].made = note[m].made /\ note'[m].back = note[m].back
                /\ note'[m].status = note[m].status
                /\ m # n => note'[m] = note[m]
<1>1. /\ note \in Seq(Note) /\ DOMAIN note = 1..Len(note) /\ Len(note) \in Nat
      /\ \A m \in DOMAIN note : note[m] \in Note
    BY DEF Typed
<1>2. note' = [note EXCEPT ![n] = [note[n] EXCEPT !.shelf = where]]
    BY <1>1 DEF Move
<1>3. /\ [note[n] EXCEPT !.shelf = where] \in Note
      /\ [note[n] EXCEPT !.shelf = where].shelf = where
      /\ [note[n] EXCEPT !.shelf = where].type = note[n].type
      /\ [note[n] EXCEPT !.shelf = where].owner = note[n].owner
      /\ [note[n] EXCEPT !.shelf = where].made = note[n].made
      /\ [note[n] EXCEPT !.shelf = where].back = note[n].back
      /\ [note[n] EXCEPT !.shelf = where].status = note[n].status
    BY <1>1 DEF Note
<1>4. note' \in Seq(Note) /\ DOMAIN note' = DOMAIN note
    BY <1>1, <1>2, <1>3
<1>5. note'[n].shelf = where
    BY <1>2, <1>3
<1>6. ASSUME NEW m \in DOMAIN note
      PROVE  /\ note'[m].type = note[m].type /\ note'[m].owner = note[m].owner
             /\ note'[m].made = note[m].made /\ note'[m].back = note[m].back
             /\ note'[m].status = note[m].status
             /\ m # n => note'[m] = note[m]
    BY <1>2, <1>3
<1> QED BY <1>4, <1>5, <1>6

(* A note is added after the others, active and on its shelf. *)
LEMMA NoteAdded ==
    ASSUME Typed, NEW type \in Types, NEW owner \in Owners, NEW back \in Nat,
           note' = Append(note, New(type, owner, back))
    PROVE  /\ note' \in Seq(Note) /\ DOMAIN note' = DOMAIN note \cup {Len(note) + 1}
           /\ \A n \in DOMAIN note : note'[n] = note[n]
           /\ Len(note) + 1 \notin DOMAIN note /\ \A n \in DOMAIN note : n < Len(note) + 1
           /\ note'[Len(note) + 1].type = type /\ note'[Len(note) + 1].owner = owner
           /\ note'[Len(note) + 1].back = back /\ note'[Len(note) + 1].shelf = "active"
<1>1. note \in Seq(Note) /\ DOMAIN note = 1..Len(note) /\ Len(note) \in Nat /\ day \in Nat
    BY DEF Typed
<1>2. New(type, owner, back) \in Note
    BY <1>1 DEF New, Note, Statuses, Shelves
<1> DEFINE new == New(type, owner, back)
<1>3. new.type = type /\ new.owner = owner /\ new.back = back /\ new.shelf = "active"
    BY DEF New
<1>4. new \in Note /\ note' = Append(note, new)
    BY <1>2
<1> HIDE DEF new
<1>5. /\ note' \in Seq(Note) /\ DOMAIN note' = 1..(Len(note) + 1)
      /\ \A n \in DOMAIN note : note'[n] = note[n]
      /\ note'[Len(note) + 1] = new
    BY <1>1, <1>4
<1> QED BY <1>1, <1>3, <1>5

-----------------------------------------------------------------------------
(* What a step leaves of what the processes are doing.                     *)

(* A process does something else; the others go on. *)
LEMMA OneProcess ==
    ASSUME Typed, NEW p \in Procs, NEW doing \in Doing, cli' = [cli EXCEPT ![p] = doing]
    PROVE  /\ cli' \in [Procs -> Doing] /\ cli'[p] = doing
           /\ \A q \in Procs : q # p => cli'[q] = cli[q]
BY DEF Typed

(* Between two commands a process is typed. *)
LEMMA IdleType == Idle \in Doing
BY DEF Idle, Doing, Statuses, None

(* A command begins: only an idle process turns to its note. *)
LEMMA Begun ==
    ASSUME Typed, NEW p \in Procs, NEW n \in Nat,
           NEW verb \in Verbs \cup {"add", "unarchive", "tidy", "archive", "supersede"},
           NEW at \in {"list", "look", "unarchive", "retire"}, Begin(p, verb, at, n)
    PROVE  /\ cli' \in [Procs -> Doing] /\ At(p, "idle")
           /\ cli'[p].verb = verb /\ cli'[p].at = at /\ cli'[p].n = n /\ cli'[p].keys = {}
           /\ \A q \in Procs : q # p => cli'[q] = cli[q]
<1> DEFINE doing == [Idle EXCEPT !.verb = verb, !.at = at, !.n = n]
<1>1. /\ doing \in Doing /\ doing.verb = verb /\ doing.at = at /\ doing.n = n /\ doing.keys = {}
    BY IdleType DEF Idle, Doing
<1>2. cli' = [cli EXCEPT ![p] = doing] /\ At(p, "idle")
    BY DEF Begin
<1> HIDE DEF doing
<1> QED BY <1>1, <1>2, OneProcess

(* A command ends and its process holds nothing more. *)
LEMMA Ends ==
    ASSUME Typed, NEW p \in Procs, End(p)
    PROVE  /\ cli' \in [Procs -> Doing]
           /\ cli'[p].verb = "none" /\ cli'[p].at = "idle" /\ cli'[p].keys = {}
           /\ \A q \in Procs : q # p => cli'[q] = cli[q]
<1>1. Idle.verb = "none" /\ Idle.at = "idle" /\ Idle.keys = {}
    BY DEF Idle
<1>2. cli' = [cli EXCEPT ![p] = Idle]
    BY DEF End
<1> QED BY <1>1, <1>2, OneProcess, IdleType

(* A command goes on to its next step and keeps its note. *)
LEMMA PutTo ==
    ASSUME Typed, NEW p \in Procs, NEW where \in {"unarchive", "replace"}, Put(p, where)
    PROVE  /\ cli' \in [Procs -> Doing]
           /\ cli'[p].verb = cli[p].verb /\ cli'[p].at = where /\ cli'[p].n = cli[p].n
           /\ \A q \in Procs : q # p => cli'[q] = cli[q]
<1> DEFINE doing == [cli[p] EXCEPT !.at = where]
<1>1. cli[p] \in Doing
    BY DEF Typed
<1>2. doing \in Doing /\ doing.verb = cli[p].verb /\ doing.at = where /\ doing.n = cli[p].n
    BY <1>1 DEF Doing
<1>3. cli' = [cli EXCEPT ![p] = doing]
    BY DEF Put, Typed
<1> HIDE DEF doing
<1> QED BY <1>2, <1>3, OneProcess

(* _transition has read a status it does not refuse. *)
LEMMA Looks ==
    ASSUME Typed, NEW p \in Procs, NEW status \in Statuses,
           cli' = [cli EXCEPT ![p].at = "write", ![p].seen = status]
    PROVE  /\ cli' \in [Procs -> Doing]
           /\ cli'[p].verb = cli[p].verb /\ cli'[p].at = "write" /\ cli'[p].n = cli[p].n
           /\ cli'[p].seen = status
           /\ \A q \in Procs : q # p => cli'[q] = cli[q]
<1> DEFINE doing == [cli[p] EXCEPT !.at = "write", !.seen = status]
<1>1. cli[p] \in Doing
    BY DEF Typed
<1>2. /\ doing \in Doing /\ doing.verb = cli[p].verb /\ doing.at = "write" /\ doing.n = cli[p].n
      /\ doing.seen = status
    BY <1>1 DEF Doing
<1>3. cli' = [cli EXCEPT ![p] = doing]
    BY DEF Typed
<1> HIDE DEF doing
<1> QED BY <1>2, <1>3, OneProcess

(* A sweep has its list, or one note less to go. *)
LEMMA Sweeps ==
    ASSUME Typed, NEW p \in Procs, NEW keys \in SUBSET Nat,
           \/ cli' = [cli EXCEPT ![p].at = "sweep", ![p].keys = keys]
           \/ At(p, "sweep") /\ cli' = [cli EXCEPT ![p].keys = keys]
    PROVE  /\ cli' \in [Procs -> Doing]
           /\ cli'[p].verb = cli[p].verb /\ cli'[p].at = "sweep" /\ cli'[p].keys = keys
           /\ \A q \in Procs : q # p => cli'[q] = cli[q]
<1>1. cli[p] \in Doing
    BY DEF Typed
<1>2. CASE cli' = [cli EXCEPT ![p].at = "sweep", ![p].keys = keys]
    <2> DEFINE doing == [cli[p] EXCEPT !.at = "sweep", !.keys = keys]
    <2>1. doing \in Doing /\ doing.verb = cli[p].verb /\ doing.at = "sweep" /\ doing.keys = keys
        BY <1>1 DEF Doing
    <2>2. cli' = [cli EXCEPT ![p] = doing]
        BY <1>2 DEF Typed
    <2> HIDE DEF doing
    <2> QED BY <2>1, <2>2, OneProcess
<1>3. CASE At(p, "sweep") /\ cli' = [cli EXCEPT ![p].keys = keys]
    <2> DEFINE doing == [cli[p] EXCEPT !.keys = keys]
    <2>1. doing \in Doing /\ doing.verb = cli[p].verb /\ doing.at = "sweep" /\ doing.keys = keys
        BY <1>1, <1>3 DEF Doing, At
    <2>2. cli' = [cli EXCEPT ![p] = doing]
        BY <1>3 DEF Typed
    <2> HIDE DEF doing
    <2> QED BY <2>1, <2>2, OneProcess
<1> QED BY <1>2, <1>3

-----------------------------------------------------------------------------
(* What any step does to the notes.                                        *)

Step(p) == Command(p) \/ Proceed(p) \/ Kill(p) \/ \E n \in Ids : Merge(p, n)
Elsewhere ==
    \/ \E n \in Ids : Draft(n) \/ CreateIntake(n) \/ FromNote(n) \/ MarkDone(n) \/ Promote(n)
                        \/ Run(n) \/ SquashMerge(n)
    \/ NextDay

(* Every step is a process's or leaves notes and processes alone. *)
LEMMA NextIsAStep == Next => (\E p \in Procs : Step(p)) \/ Elsewhere
BY DEF Next, Step, Elsewhere, Runner

(* Away from the commands nothing happens to notes and processes. *)
LEMMA ElsewhereNothing ==
    ASSUME Elsewhere
    PROVE  note' = note /\ cli' = cli /\ history' = history /\ (NextDay \/ day' = day)
BY DEF Elsewhere, Draft, CreateIntake, FromNote, MarkDone, Promote, Run, SquashMerge, Queue,
       NextDay, history

(* Who writes a status, and over which. *)
Rewritten(p, m) ==
    /\ Write(p) /\ m = cli[p].n /\ note'[m].status = Target[cli[p].verb]
    /\ raced' = IF note[m].status # cli[p].seen THEN raced \cup {m} ELSE raced

(* Who changes a note's shelf. *)
Shelved(p, m) ==
    \/ note[m].type = "learning" /\ note[m].shelf = "active"
    \/ ArchiveNote(p) /\ m \in cli[p].keys /\ note'[m].shelf = "archive"
    \/ UnarchiveNote(p) /\ m = cli[p].n /\ note'[m].shelf = "active"

(* A note keeps what it is, whoever does what to it. *)
Lasts(p, m) ==
    /\ m \in DOMAIN note'
    /\ note'[m].type = note[m].type /\ note'[m].owner = note[m].owner
    /\ note'[m].made = note[m].made /\ note'[m].back = note[m].back
    /\ note'[m].status = note[m].status \/ Rewritten(p, m)
    /\ note'[m].shelf = note[m].shelf \/ Shelved(p, m)

(* A new note comes last, on the active shelf. *)
Arrives(p, m) ==
    /\ note'[m].shelf = "active" /\ \A n \in DOMAIN note : n < m
    /\ \/ AddNote(p) /\ note'[m].back = None
       \/ Learn(p) /\ note'[m].back = None /\ note'[m].type = "learning"
       \/ Replace(p) /\ note'[m].back = cli[p].n /\ note'[m].type = "learning"
    /\ \A n \in DOMAIN note' \ DOMAIN note : n = m

Notes(p) ==
    /\ note' \in Seq(Note)
    /\ \A m \in DOMAIN note : Lasts(p, m)
    /\ \A m \in DOMAIN note' \ DOMAIN note : Arrives(p, m)

(* A step that touches no note does to the notes what a step may. *)
LEMMA SameNotes ==
    ASSUME Typed, NEW p \in Procs, note' = note
    PROVE  Notes(p)
BY DEF Notes, Lasts, Typed

(* So does a step that adds a note, *)
LEMMA NewNote ==
    ASSUME Typed, NEW p \in Procs, NEW type \in Types, NEW owner \in Owners, NEW back \in Nat,
           note' = Append(note, New(type, owner, back)),
           \/ AddNote(p) /\ back = None
           \/ Learn(p) /\ back = None /\ type = "learning"
           \/ Replace(p) /\ back = cli[p].n /\ type = "learning"
    PROVE  Notes(p)
<1>1. /\ note' \in Seq(Note) /\ DOMAIN note' = DOMAIN note \cup {Len(note) + 1}
      /\ \A n \in DOMAIN note : note'[n] = note[n] /\ n < Len(note) + 1
      /\ note'[Len(note) + 1].type = type /\ note'[Len(note) + 1].back = back
      /\ note'[Len(note) + 1].shelf = "active"
    BY NoteAdded
<1>2. ASSUME NEW m \in DOMAIN note PROVE Lasts(p, m)
    BY <1>1 DEF Lasts
<1>3. ASSUME NEW m \in DOMAIN note' \ DOMAIN note PROVE Arrives(p, m)
    BY <1>1 DEF Arrives
<1> QED BY <1>1, <1>2, <1>3 DEF Notes

(* and one that moves a note to another shelf. *)
LEMMA OtherShelf ==
    ASSUME Typed, NEW p \in Procs, NEW n \in DOMAIN note, NEW where \in Shelves, Move(n, where),
           \/ note[n].type = "learning" /\ note[n].shelf = "active"
           \/ ArchiveNote(p) /\ n \in cli[p].keys /\ where = "archive"
           \/ UnarchiveNote(p) /\ n = cli[p].n /\ where = "active"
    PROVE  Notes(p)
<1>1. /\ note' \in Seq(Note) /\ DOMAIN note' = DOMAIN note /\ note'[n].shelf = where
      /\ \A m \in DOMAIN note :
            /\ note'[m].type = note[m].type /\ note'[m].owner = note[m].owner
            /\ note'[m].made = note[m].made /\ note'[m].back = note[m].back
            /\ note'[m].status = note[m].status
            /\ m # n => note'[m] = note[m]
    BY NoteMoved
<1>2. ASSUME NEW m \in DOMAIN note PROVE Lasts(p, m)
    BY <1>1 DEF Lasts, Shelved
<1> QED BY <1>1, <1>2 DEF Notes

(* The commands of the user. *)
LEMMA CommandNotes ==
    ASSUME TypeInv, NEW p \in Procs, Command(p)
    PROVE  Notes(p)
<1>1. Typed /\ None \in Nat /\ "learning" \in Types /\ (CHOOSE o \in Owners : TRUE) \in Owners
    BY NoteLifeAssumption DEF TypeInv, None, Types
<1>2. CASE AddNote(p)
    <2>1. PICK type \in Types \ {"learning"}, owner \in Owners :
            note' = Append(note, New(type, owner, None))
        BY <1>2 DEF AddNote
    <2> QED BY <1>1, <1>2, <2>1, NewNote
<1>3. CASE Learn(p)
    <2>1. note' = Append(note, New("learning", CHOOSE o \in Owners : TRUE, None))
        BY <1>3 DEF Learn, AddLearning
    <2> QED BY <1>1, <1>3, <2>1, NewNote
<1>4. CASE Changes(p) \/ Unarchive(p) \/ Tidy(p) \/ ArchiveBefore(p) \/ Supersede(p)
    BY <1>1, <1>4, SameNotes DEF Changes, Unarchive, Tidy, ArchiveBefore, Supersede
<1>5. CASE ArchiveOnly(p) \/ Unlearn(p)
    <2>1. PICK n \in Learnings : Move(n, "archive") \/ Move(n, "gone")
        BY <1>5 DEF ArchiveOnly, Unlearn, ArchiveLearning, RemoveLearning
    <2>2. n \in DOMAIN note /\ note[n].type = "learning" /\ note[n].shelf = "active"
        BY DEF Learnings, Shelf
    <2> QED BY <1>1, <2>1, <2>2, OtherShelf DEF Shelves
<1> QED BY <1>2, <1>3, <1>4, <1>5 DEF Command

(* What a command under way does. *)
LEMMA ProceedNotes ==
    ASSUME TypeInv, NEW p \in Procs, Proceed(p)
    PROVE  Notes(p)
<1>1. /\ Typed /\ "learning" \in Types /\ Sensible(p) /\ cli[p] \in Doing
      /\ \A n \in DOMAIN note : note[n] \in Note
    BY DEF TypeInv, Types, Typed
<1>2. CASE Look(p) \/ List(p)
    BY <1>1, <1>2, SameNotes DEF Look, List
<1>3. CASE Write(p)
    <2>1. cli[p].n \in DOMAIN note /\ Target[cli[p].verb] \in Statuses
        BY <1>1, <1>3 DEF Write, At, Sensible, Verbs, Target, Statuses
    <2>2. note' = [note EXCEPT ![cli[p].n].status = Target[cli[p].verb], ![cli[p].n].changed = day]
        BY <1>3 DEF Write
    <2>3. PICK n \in DOMAIN note : n = cli[p].n
        BY <2>1
    <2>4. /\ note' \in Seq(Note) /\ DOMAIN note' = DOMAIN note
          /\ note'[n].status = Target[cli[p].verb]
          /\ \A m \in DOMAIN note :
                /\ note'[m].type = note[m].type /\ note'[m].owner = note[m].owner
                /\ note'[m].made = note[m].made /\ note'[m].back = note[m].back
                /\ note'[m].shelf = note[m].shelf
                /\ m # n => note'[m] = note[m]
        BY ZenonT(60), <1>1, <2>1, <2>2, <2>3, StatusWritten
    <2>5. Rewritten(p, n)
        BY <1>3, <2>3, <2>4 DEF Rewritten, Write
    <2>6. ASSUME NEW m \in DOMAIN note PROVE Lasts(p, m)
        BY <2>4, <2>5 DEF Lasts
    <2> QED BY <2>4, <2>6 DEF Notes
<1>4. CASE UnarchiveNote(p)
    BY <1>1, <1>4, OtherShelf DEF UnarchiveNote, At, Sensible, Shelves
<1>5. CASE ArchiveNote(p)
    <2>1. PICK n \in cli[p].keys : Move(n, "archive")
        BY <1>5 DEF ArchiveNote
    <2>2. n \in DOMAIN note
        BY <1>1, <1>5 DEF ArchiveNote, At, Sensible
    <2> QED BY <1>1, <1>5, <2>1, <2>2, OtherShelf DEF Shelves
<1>6. CASE Retire(p)
    <2>1. cli[p].n \in DOMAIN note /\ note[cli[p].n].type = "learning"
        BY <1>1, <1>6 DEF Retire, At, Sensible
    <2>2. CASE cli[p].n \in Shelf("active")
        <3>1. Move(cli[p].n, "archive") /\ note[cli[p].n].shelf = "active"
            BY <1>6, <2>2 DEF Retire, ArchiveLearning, Shelf
        <3> QED BY <1>1, <2>1, <3>1, OtherShelf DEF Shelves
    <2>3. CASE cli[p].n \notin Shelf("active")
        BY <1>1, <1>6, <2>3, SameNotes DEF Retire
    <2> QED BY <2>2, <2>3
<1>7. CASE Replace(p)
    <2>1. cli[p].n \in DOMAIN note /\ cli[p].n \in Nat
        BY <1>1, <1>7 DEF Replace, At, Sensible, Doing
    <2>2. note' = Append(note, New("learning", note[cli[p].n].owner, cli[p].n))
        BY <1>7 DEF Replace, AddLearning
    <2>3. note[cli[p].n].owner \in Owners
        BY <1>1, <2>1 DEF Note
    <2> QED BY <1>1, <1>7, <2>1, <2>2, <2>3, NewNote
<1> QED BY <1>2, <1>3, <1>4, <1>5, <1>6, <1>7 DEF Proceed

(* Every step of a process changes the notes in one of these ways. *)
LEMMA StepNotes ==
    ASSUME TypeInv, NEW p \in Procs, Step(p)
    PROVE  Notes(p)
<1>1. Kill(p) \/ (\E n \in Ids : Merge(p, n)) => note' = note
    BY DEF Kill, Merge
<1> QED BY <1>1, CommandNotes, ProceedNotes, SameNotes DEF Step, TypeInv

-----------------------------------------------------------------------------
(* Type correctness.                                                       *)

(* What a process is doing after its step makes sense again. *)
LEMMA StepCli ==
    ASSUME TypeInv, NEW p \in Procs, Step(p)
    PROVE  /\ cli' \in [Procs -> Doing] /\ Sensible(p)'
           /\ \A q \in Procs : q # p => cli'[q] = cli[q]
<1>1. /\ Typed /\ Sensible(p) /\ cli[p] \in Doing /\ None \in Nat
      /\ \A n \in DOMAIN note : note[n] \in Note /\ n \in Nat
      /\ \A m \in DOMAIN note : m \in DOMAIN note' /\ note'[m].type = note[m].type
    BY StepNotes DEF TypeInv, Typed, Notes, Lasts, None
<1>2. CASE End(p)
    BY <1>1, <1>2, Ends DEF Sensible
<1>3. CASE UNCHANGED cli /\ At(p, "idle")
    BY <1>1, <1>3 DEF Sensible, At, Typed
<1>4. CASE AddNote(p) \/ Tidy(p) \/ ArchiveBefore(p)
    <2>1. PICK verb \in {"add", "tidy", "archive"} : Begin(p, verb, "list", None)
        BY <1>4 DEF AddNote, Tidy, ArchiveBefore
    <2> QED BY <1>1, <2>1, Begun DEF Sensible
<1>5. CASE Learn(p) \/ ArchiveOnly(p) \/ Unlearn(p)
    BY <1>3, <1>5 DEF Learn, ArchiveOnly, Unlearn, AtOnce
<1>6. CASE Changes(p)
    <2>1. PICK verb \in Verbs, n \in DOMAIN note :
            note[n].type # "learning" /\ Begin(p, verb, "look", n)
        BY <1>6 DEF Changes
    <2>2. /\ cli' \in [Procs -> Doing] /\ cli'[p].verb = verb /\ cli'[p].at = "look"
          /\ cli'[p].n = n /\ \A q \in Procs : q # p => cli'[q] = cli[q]
        BY <1>1, <2>1, Begun
    <2> QED BY <1>1, <2>1, <2>2 DEF Sensible
<1>7. CASE Unarchive(p)
    <2>1. PICK n \in DOMAIN note :
            note[n].type # "learning" /\ Begin(p, "unarchive", "unarchive", n)
        BY <1>7 DEF Unarchive
    <2>2. /\ cli' \in [Procs -> Doing] /\ cli'[p].verb = "unarchive" /\ cli'[p].at = "unarchive"
          /\ cli'[p].n = n /\ \A q \in Procs : q # p => cli'[q] = cli[q]
        BY <1>1, <2>1, Begun
    <2> QED BY <1>1, <2>1, <2>2 DEF Sensible
<1>8. CASE Supersede(p)
    <2>1. PICK n \in Learnings : Begin(p, "supersede", "retire", n)
        BY <1>8 DEF Supersede
    <2>2. n \in DOMAIN note /\ note[n].type = "learning"
        BY DEF Learnings, Shelf
    <2>3. /\ cli' \in [Procs -> Doing] /\ cli'[p].verb = "supersede" /\ cli'[p].at = "retire"
          /\ cli'[p].n = n /\ \A q \in Procs : q # p => cli'[q] = cli[q]
        BY <1>1, <2>1, <2>2, Begun
    <2> QED BY <1>1, <2>2, <2>3 DEF Sensible
<1>9. CASE Look(p)
    <2>1. /\ cli[p].n \in DOMAIN note /\ note[cli[p].n].type # "learning"
          /\ note[cli[p].n].status \in Statuses /\ cli[p].verb \in Verbs
        BY <1>1, <1>9 DEF Look, At, Sensible, Note
    <2>2. CASE ~Refused(cli[p].verb, note[cli[p].n].status)
        <3>1. cli' = [cli EXCEPT ![p].at = "write", ![p].seen = note[cli[p].n].status]
            BY <1>9, <2>2 DEF Look
        <3>2. /\ cli' \in [Procs -> Doing] /\ cli'[p].verb = cli[p].verb /\ cli'[p].at = "write"
              /\ cli'[p].n = cli[p].n /\ cli'[p].seen = note[cli[p].n].status
              /\ \A q \in Procs : q # p => cli'[q] = cli[q]
            BY <1>1, <2>1, <3>1, Looks
        <3> QED BY <1>1, <2>1, <2>2, <3>2 DEF Sensible
    <2> QED BY <1>2, <1>9, <2>2 DEF Look
<1>10. CASE Write(p)
    <2>1. cli[p].n \in DOMAIN note /\ note[cli[p].n].type # "learning"
        BY <1>1, <1>10 DEF Write, At, Sensible
    <2>2. CASE Put(p, "unarchive") /\ cli[p].verb = "resume"
        BY <1>1, <2>1, <2>2, PutTo DEF Sensible
    <2> QED BY <1>2, <1>10, <2>2 DEF Write
<1>11. CASE List(p)
    <2> DEFINE keys == {n \in IF cli[p].verb = "archive" THEN Before ELSE Due :
                          note[n].type # "learning"}
    <2>1. \A n \in keys : n \in DOMAIN note /\ note[n].type # "learning"
        BY DEF Before, Due, Shelf
    <2>2. keys \in SUBSET Nat
        BY <1>1, <2>1
    <2>3. (keys = {} /\ End(p)) \/ cli' = [cli EXCEPT ![p].at = "sweep", ![p].keys = keys]
        BY <1>11 DEF List
    <2>5. At(p, "list") /\ cli[p].verb # "done"
        BY <1>1, <1>11 DEF List, At, Sensible
    <2> HIDE DEF keys
    <2>4. CASE cli' = [cli EXCEPT ![p].at = "sweep", ![p].keys = keys]
        <3>1. /\ cli' \in [Procs -> Doing] /\ cli'[p].verb = cli[p].verb /\ cli'[p].at = "sweep"
              /\ cli'[p].keys = keys /\ \A q \in Procs : q # p => cli'[q] = cli[q]
            BY <1>1, <2>2, <2>4, Sweeps
        <3> QED BY <1>1, <2>1, <2>5, <3>1 DEF Sensible
    <2> QED BY <1>2, <2>3, <2>4
<1>12. CASE ArchiveNote(p)
    <2>1. PICK n \in cli[p].keys : End(p) \/ cli' = [cli EXCEPT ![p].keys = @ \ {n}]
        BY <1>12 DEF ArchiveNote
    <2>2. CASE cli' = [cli EXCEPT ![p].keys = @ \ {n}]
        <3>1. cli' = [cli EXCEPT ![p].keys = cli[p].keys \ {n}] /\ At(p, "sweep")
            BY <1>1, <1>12, <2>2 DEF ArchiveNote, Typed
        <3>2. cli[p].keys \ {n} \in SUBSET Nat
            BY <1>1 DEF Doing
        <3>3. /\ cli' \in [Procs -> Doing] /\ cli'[p].verb = cli[p].verb /\ cli'[p].at = "sweep"
              /\ cli'[p].keys = cli[p].keys \ {n} /\ \A q \in Procs : q # p => cli'[q] = cli[q]
            BY <1>1, <3>1, <3>2, Sweeps
        <3> QED BY <1>1, <3>1, <3>3 DEF Sensible, At
    <2> QED BY <1>2, <2>1, <2>2
<1>13. CASE Retire(p)
    <2>1. cli[p].n \in DOMAIN note /\ note[cli[p].n].type = "learning" /\ cli[p].verb # "done"
        BY <1>1, <1>13 DEF Retire, At, Sensible
    <2>2. CASE Put(p, "replace")
        BY <1>1, <2>1, <2>2, PutTo DEF Sensible
    <2> QED BY <1>2, <1>13, <2>2 DEF Retire
<1>14. CASE \E n \in Ids : Merge(p, n)
    <2>1. PICK n \in Ids : Merge(p, n)
        BY <1>14
    <2>2. n \in DOMAIN note /\ note[n].type = "todo"
        BY <2>1 DEF Merge, Becomes, TypeInv
    <2> DEFINE doing == [Idle EXCEPT !.verb = "done", !.at = "look", !.n = n]
    <2>3. doing \in Doing /\ doing.verb = "done" /\ doing.at = "look" /\ doing.n = n
        BY <1>1, <2>2, IdleType DEF Doing, Verbs
    <2>4. cli' = [cli EXCEPT ![p] = doing]
        BY <2>1 DEF Merge
    <2> HIDE DEF doing
    <2>5. /\ cli' \in [Procs -> Doing] /\ cli'[p] = doing
          /\ \A q \in Procs : q # p => cli'[q] = cli[q]
        BY <1>1, <2>3, <2>4, OneProcess
    <2> QED BY <1>1, <2>2, <2>3, <2>5 DEF Sensible, Verbs
<1>15. CASE UnarchiveNote(p) \/ Replace(p) \/ Kill(p)
    BY <1>2, <1>15 DEF UnarchiveNote, Replace, Kill
<1> QED BY <1>4, <1>5, <1>6, <1>7, <1>8, <1>9, <1>10, <1>11, <1>12, <1>13, <1>14, <1>15
        DEF Step, Command, Proceed

(* Types are kept, and every process stays on a note there is. *)
LEMMA TypeNext ==
    ASSUME TypeInv, Next
    PROVE  TypeInv'
<1>1. CASE \E p \in Procs : Step(p)
    <2>1. PICK p \in Procs : Step(p)
        BY <1>1
    <2>2. /\ cli' \in [Procs -> Doing] /\ Sensible(p)' /\ Notes(p)
          /\ \A q \in Procs : q # p => cli'[q] = cli[q]
        BY <2>1, StepCli, StepNotes
    <2>3. \A m \in DOMAIN note : m \in DOMAIN note' /\ note'[m].type = note[m].type
                                   /\ note'[m].back = note[m].back
        BY <2>2 DEF Notes, Lasts
    <2>4. /\ ticket' \in [Ids -> Ticket]
          /\ \A n \in Ids : ticket'[n] # "none" => ticket[n] # "none"
        <3>1. CASE \E n \in Ids : Merge(p, n)
            BY <3>1 DEF Merge, Becomes, TypeInv, Typed, Ticket
        <3>2. CASE UNCHANGED ticket
            BY <3>2 DEF TypeInv, Typed
        <3>3. Command(p) => UNCHANGED ticket
            BY DEF Command, AddNote, Learn, Changes, Unarchive, Tidy, ArchiveBefore, Supersede,
                   ArchiveOnly, Unlearn, Begin, AtOnce
        <3>4. Proceed(p) => UNCHANGED ticket
            BY DEF Proceed, Look, Write, UnarchiveNote, List, ArchiveNote, Retire, Replace, history
        <3> QED BY <2>1, <3>1, <3>2, <3>3, <3>4 DEF Step, Kill
    <2>5. day' \in Nat
        <3>1. (\E n \in Ids : Merge(p, n)) \/ Kill(p) => UNCHANGED day
            BY DEF Merge, Kill
        <3>2. Command(p) => UNCHANGED day
            BY DEF Command, AddNote, Learn, Changes, Unarchive, Tidy, ArchiveBefore, Supersede,
                   ArchiveOnly, Unlearn, Begin, AtOnce
        <3>3. Proceed(p) => UNCHANGED day
            BY DEF Proceed, Look, Write, UnarchiveNote, List, ArchiveNote, Retire, Replace
        <3> QED BY <2>1, <3>1, <3>2, <3>3 DEF Step, TypeInv, Typed
    <2>6. stirred' \in BOOLEAN
        <3>1. (\E n \in Ids : Merge(p, n)) \/ Kill(p) => stirred' \in BOOLEAN
            BY DEF Merge, Kill, history, TypeInv, Typed
        <3>2. Command(p) => stirred' \in BOOLEAN
            BY DEF Command, AddNote, Learn, Changes, Unarchive, Tidy, ArchiveBefore, Supersede,
                   ArchiveOnly, Unlearn, Begin, AtOnce, history, TypeInv, Typed
        <3>3. Proceed(p) => stirred' \in BOOLEAN
            BY DEF Proceed, Look, Write, UnarchiveNote, List, ArchiveNote, Retire, Replace, history,
                   TypeInv, Typed
        <3> QED BY <2>1, <3>1, <3>2, <3>3 DEF Step
    <2>7. Typed'
        BY <2>2, <2>4, <2>5, <2>6 DEF Typed, Notes
    <2>8. \A q \in Procs : Sensible(q)'
        BY <2>2, <2>3 DEF TypeInv, Sensible
    <2>9. \A n \in Ids : ticket'[n] # "none" => n \in DOMAIN note' /\ note'[n].type = "todo"
        BY <2>3, <2>4 DEF TypeInv
    <2>10. ASSUME NEW n \in DOMAIN note'
           PROVE  note'[n].back = None \/ note'[n].back \in DOMAIN note'
        <3>1. CASE n \in DOMAIN note
            BY <2>3, <3>1 DEF TypeInv
        <3>2. CASE n \notin DOMAIN note
            <4>1. Replace(p) => cli[p].n \in DOMAIN note
                BY DEF Replace, At, TypeInv, Sensible
            <4> QED BY <2>2, <2>3, <3>2, <4>1 DEF Notes, Arrives
        <3> QED BY <3>1, <3>2
    <2> QED BY <2>7, <2>8, <2>9, <2>10 DEF TypeInv
<1>2. CASE Elsewhere
    <2>1. note' = note /\ cli' = cli /\ stirred' = stirred
        BY <1>2, ElsewhereNothing DEF history
    <2>2. day' \in Nat
        BY <1>2, ElsewhereNothing DEF NextDay, TypeInv, Typed
    <2>3. /\ ticket' \in [Ids -> Ticket]
          /\ \A n \in Ids : ticket'[n] # "none" => n \in DOMAIN note /\ note[n].type = "todo"
        BY <1>2 DEF Elsewhere, Draft, CreateIntake, FromNote, MarkDone, Promote, Run, SquashMerge,
                    Queue, Becomes, NextDay, TypeInv, Typed, Ticket
    <2> QED BY <2>1, <2>2, <2>3 DEF TypeInv, Typed, Sensible
<1> QED BY <1>1, <1>2, NextIsAStep

(* They hold at first. *)
LEMMA TypeInit == Init => TypeInv
<1>1. ASSUME Init PROVE Typed
    BY <1>1, IdleType, EmptySeq DEF Init, Typed, Ticket
<1>2. ASSUME Init, NEW p \in Procs PROVE Sensible(p)
    BY <1>2 DEF Init, Sensible, Idle
<1>3. Init => DOMAIN note = {}
    BY DEF Init
<1> QED BY <1>1, <1>2, <1>3 DEF TypeInv, Init

(* They hold when nothing happens as well. *)
LEMMA TypeStays == TypeInv /\ [Next]_vars => TypeInv'
<1>1. TypeInv /\ UNCHANGED vars => TypeInv'
    BY DEF vars, history, TypeInv, Typed, Sensible
<1> QED BY <1>1, TypeNext

-----------------------------------------------------------------------------
(* A merged todo stays done.                                               *)

(* The history and the clock only grow. *)
LEMMA HistoryGrows ==
    ASSUME TypeInv, Next
    PROVE  raced \subseteq raced' /\ torn \subseteq torn' /\ day <= day'
<1>1. day \in Nat
    BY DEF TypeInv, Typed
<1>2. ASSUME NEW p \in Procs, Command(p) PROVE UNCHANGED <<raced, torn, day>>
    BY <1>2 DEF Command, AddNote, Learn, Changes, Unarchive, Tidy, ArchiveBefore, Supersede,
                ArchiveOnly, Unlearn, Begin, AtOnce, history
<1>3. ASSUME NEW p \in Procs, Proceed(p)
      PROVE  raced \subseteq raced' /\ UNCHANGED <<torn, day>>
    BY <1>3 DEF Proceed, Look, Write, UnarchiveNote, List, ArchiveNote, Retire, Replace, history
<1>4. ASSUME NEW p \in Procs, Kill(p) \/ \E n \in Ids : Merge(p, n)
      PROVE  raced' = raced /\ torn \subseteq torn' /\ day' = day
    BY <1>4 DEF Kill, Merge, history
<1>5. CASE Elsewhere
    BY <1>1, <1>5, ElsewhereNothing DEF NextDay, history
<1> QED BY <1>1, <1>2, <1>3, <1>4, <1>5, NextIsAStep DEF Step

(* No command writes over a done note, unless it read another status.      *)
LEMMA DoneStays ==
    ASSUME TypeInv, Next, NEW m \in DOMAIN note, note[m].status = "done"
    PROVE  note'[m].status = "done" \/ m \in raced'
<1>1. ASSUME NEW p \in Procs, Rewritten(p, m), note[m].status = cli[p].seen PROVE FALSE
    <2>1. Sensible(p) /\ cli[p].at = "write" /\ cli[p].seen = "done"
        BY <1>1 DEF Rewritten, Write, At, TypeInv
    <2> QED BY <2>1 DEF Sensible, Refused, Verbs
<1>2. ASSUME NEW p \in Procs, Step(p)
      PROVE  note'[m].status = "done" \/ m \in raced'
    <2>1. note'[m].status = note[m].status \/ Rewritten(p, m)
        BY <1>2, StepNotes DEF Notes, Lasts
    <2> QED BY <1>1, <2>1 DEF Rewritten
<1> QED BY <1>2, ElsewhereNothing, NextIsAStep

(* The hook's `notes.py done` closes the note or finds it closed.          *)
LEMMA HookCloses ==
    ASSUME TypeInv, NEW p \in Procs, Step(p), NEW n \in Ids, n \in DOMAIN note,
           cli[p].verb = "done", cli[p].n = n
    PROVE  \/ note'[n].status = "done" \/ n \in torn'
           \/ cli'[p].verb = "done" /\ cli'[p].n = n
<1>1. /\ Typed /\ Sensible(p) /\ cli[p].at \in {"look", "write"} /\ note[n] \in Note
      /\ n # None /\ \A q \in DOMAIN note : q \in Nat
    BY DEF TypeInv, Sensible, Typed, Ids, None
<1>2. CASE Look(p)
    <2>1. CASE Refused("done", note[n].status)
        BY <1>2, <2>1 DEF Look, Refused
    <2>2. CASE ~Refused("done", note[n].status)
        <3>1. cli' = [cli EXCEPT ![p].at = "write", ![p].seen = note[n].status]
            BY <1>2, <2>2 DEF Look
        <3> QED BY <1>1, <3>1, Looks DEF Note
    <2> QED BY <2>1, <2>2
<1>3. CASE Write(p)
    <2>1. note' = [note EXCEPT ![n].status = "done", ![n].changed = day]
        BY <1>3 DEF Write, Target
    <2> QED BY <1>1, <2>1, StatusWritten DEF Statuses
<1>4. CASE Kill(p)
    BY <1>1, <1>4 DEF Kill
<1>5. ~Command(p) /\ ~\E k \in Ids : Merge(p, k)
    BY <1>1 DEF Command, AddNote, Learn, Changes, Unarchive, Tidy, ArchiveBefore, Supersede,
                ArchiveOnly, Unlearn, Begin, AtOnce, Merge, At
<1>6. Proceed(p) => Look(p) \/ Write(p)
    BY <1>1 DEF Proceed, UnarchiveNote, List, ArchiveNote, Retire, Replace, At
<1> QED BY <1>2, <1>3, <1>4, <1>5, <1>6 DEF Step

(* A merged todo stays done, in its hook's hands, or written over by a race. *)
LEMMA MergedNext ==
    ASSUME TypeInv, MergedTodoStaysClosed, Next
    PROVE  MergedTodoStaysClosed'
<1> SUFFICES ASSUME NEW n \in Ids, ticket'[n] = "merged"
             PROVE  \/ note'[n].status = "done" \/ n \in raced' \cup torn'
                    \/ \E p \in Procs : cli'[p].verb = "done" /\ cli'[p].n = n
    BY DEF MergedTodoStaysClosed
<1>1. CASE \E p \in Procs : Merge(p, n)
    <2>1. PICK p \in Procs : Merge(p, n)
        BY <1>1
    <2> DEFINE doing == [Idle EXCEPT !.verb = "done", !.at = "look", !.n = n]
    <2>2. cli' = [cli EXCEPT ![p] = doing]
        BY <2>1 DEF Merge
    <2>3. doing.verb = "done" /\ doing.n = n
        BY DEF Idle
    <2> HIDE DEF doing
    <2>4. cli'[p].verb = "done" /\ cli'[p].n = n
        BY <2>2, <2>3 DEF TypeInv, Typed
    <2> QED BY <2>4
<1>2. CASE ~\E p \in Procs : Merge(p, n)
    <2>1. ticket[n] = "merged"
        <3>1. \A p \in Procs : Command(p) => ticket' = ticket
            BY DEF Command, AddNote, Learn, Changes, Unarchive, Tidy, ArchiveBefore, Supersede,
                   ArchiveOnly, Unlearn, Begin, AtOnce
        <3>2. \A p \in Procs : Proceed(p) => ticket' = ticket
            BY DEF Proceed, Look, Write, UnarchiveNote, List, ArchiveNote, Retire, Replace, history
        <3>3. \A p \in Procs, k \in Ids : Merge(p, k) => k # n /\ ticket'[n] = ticket[n]
            BY <1>2 DEF Merge, Becomes, TypeInv, Typed
        <3>4. Elsewhere => ticket[n] = "merged"
            BY DEF Elsewhere, Draft, CreateIntake, FromNote, MarkDone, Promote, Run, SquashMerge,
                   Queue, Becomes, NextDay, TypeInv, Typed
        <3> QED BY <3>1, <3>2, <3>3, <3>4, NextIsAStep DEF Step, Kill
    <2>2. n \in DOMAIN note
        BY <2>1 DEF TypeInv
    <2>3. CASE note[n].status = "done" \/ n \in raced \cup torn
        BY <2>2, <2>3, DoneStays, HistoryGrows
    <2>4. ASSUME NEW p \in Procs, cli[p].verb = "done" /\ cli[p].n = n
          PROVE  \/ note'[n].status = "done" \/ n \in torn'
                 \/ cli'[p].verb = "done" /\ cli'[p].n = n
        <3>1. CASE Step(p)
            BY <2>2, <2>4, <3>1, HookCloses
        <3>2. ASSUME NEW q \in Procs, q # p, Step(q) PROVE cli'[p] = cli[p]
            BY <3>2, StepCli
        <3> QED BY <2>4, <3>1, <3>2, ElsewhereNothing, NextIsAStep
    <2> QED BY <2>1, <2>3, <2>4 DEF MergedTodoStaysClosed
<1> QED BY <1>1, <1>2

(* MergedTodoStaysClosed: a todo whose branch was merged is done, is being *)
(* marked done by the hook, or was written over a status nobody had read   *)
(* (close_source_todo.py main, notes.py _transition).                      *)
THEOREM MergedStaysClosed ==
    Spec => []MergedTodoStaysClosed
<1>1. Init => MergedTodoStaysClosed
    BY DEF Init, MergedTodoStaysClosed
<1>2. TypeInv /\ MergedTodoStaysClosed /\ [Next]_vars => MergedTodoStaysClosed'
    <2>1. MergedTodoStaysClosed /\ UNCHANGED vars => MergedTodoStaysClosed'
        BY DEF vars, history, MergedTodoStaysClosed
    <2> QED BY <2>1, MergedNext
<1> QED BY <1>1, <1>2, TypeInit, TypeStays, PTL DEF Spec

-----------------------------------------------------------------------------
(* The newest handoff stays on the shelf.                                  *)

(* Why a handoff may leave the shelf: it is done, old, or not the newest.  *)
Spent(n) ==
    \/ note[n].status = "done" \/ n \in raced \/ Older(n, note[n].made, ArchiveDays)
    \/ \E m \in Handoffs(note[n].owner) : m > n

Listed(p, n) == At(p, "sweep") /\ n \in cli[p].keys

(* A handoff in the archive, or on a sweep's list, is spent: what a sweep  *)
(* found when it listed a note holds of the note whenever it is archived.  *)
NewestKept ==
    \A n \in DOMAIN note :
        /\ note[n].type = "handoff"
        /\ note[n].shelf = "archive" \/ \E p \in Procs : Listed(p, n)
        => Spent(n)

(* A note keeps its place, its type, its owner and its date. *)
LEMMA NoteStays ==
    ASSUME TypeInv, Next, NEW m \in DOMAIN note
    PROVE  /\ m \in DOMAIN note'
           /\ note'[m].type = note[m].type /\ note'[m].owner = note[m].owner
           /\ note'[m].made = note[m].made /\ note'[m].back = note[m].back
<1>1. ASSUME NEW p \in Procs, Step(p)
      PROVE  /\ m \in DOMAIN note'
             /\ note'[m].type = note[m].type /\ note'[m].owner = note[m].owner
             /\ note'[m].made = note[m].made /\ note'[m].back = note[m].back
    BY <1>1, StepNotes DEF Notes, Lasts
<1> QED BY <1>1, ElsewhereNothing, NextIsAStep

(* A note past its retention stays past it, whatever commands do. *)
LEMMA SpentStays ==
    ASSUME TypeInv, Next, NEW n \in DOMAIN note, Spent(n)
    PROVE  Spent(n)'
<1>1. /\ note[n] \in Note /\ day \in Nat /\ day' \in Nat /\ ArchiveDays \in Nat
      /\ raced \subseteq raced' /\ day <= day' /\ note'[n].made = note[n].made
      /\ note'[n].owner = note[n].owner
    BY TypeNext, HistoryGrows, NoteStays, NoteLifeAssumption DEF TypeInv, Typed
<1>2. CASE note[n].status = "done"
    BY <1>2, DoneStays DEF Spent
<1>3. CASE n \in raced
    BY <1>1, <1>3 DEF Spent
<1>4. CASE Older(n, note[n].made, ArchiveDays)
    BY <1>1, <1>4 DEF Spent, Older, Note
<1>5. CASE \E m \in Handoffs(note[n].owner) : m > n
    <2>1. PICK m \in DOMAIN note : note[m].type = "handoff" /\ note[m].owner = note[n].owner /\ m > n
        BY <1>5 DEF Handoffs
    <2>2. /\ m \in DOMAIN note' /\ note'[m].type = "handoff" /\ note'[m].owner = note'[n].owner
        BY <1>1, <2>1, NoteStays
    <2>3. \E k \in Handoffs(note[n].owner)' : k > n
        BY <1>1, <2>1, <2>2 DEF Handoffs
    <2> QED BY <1>1, <2>3 DEF Spent, Handoffs
<1> QED BY <1>2, <1>3, <1>4, <1>5 DEF Spent

(* What is on a list was put there when the sweep read the index.          *)
LEMMA ListedWhenRead ==
    ASSUME TypeInv, NEW p \in Procs, Step(p), NEW n, Listed(p, n)'
    PROVE  \/ Listed(p, n)
           \/ /\ List(p) /\ note' = note /\ note[n].type # "learning"
              /\ n \in IF cli[p].verb = "archive" THEN Before ELSE Due
<1>1. Typed /\ cli[p] \in Doing /\ cli'[p].at = "sweep" /\ n \in cli'[p].keys /\ None \in Nat
      /\ \A k \in DOMAIN note : k \in Nat
    BY DEF TypeInv, Typed, Listed, At, None
<1>2. ~End(p)
    BY <1>1, Ends
<1>3. CASE List(p)
    <2> DEFINE keys == {k \in IF cli[p].verb = "archive" THEN Before ELSE Due :
                          note[k].type # "learning"}
    <2>1. cli' = [cli EXCEPT ![p].at = "sweep", ![p].keys = keys] /\ note' = note
        BY <1>2, <1>3 DEF List
    <2>2. keys \in SUBSET Nat
        BY <1>1 DEF Before, Due, Shelf
    <2> HIDE DEF keys
    <2>3. n \in keys
        BY <1>1, <2>1, <2>2, Sweeps
    <2> QED BY <1>3, <2>1, <2>3 DEF keys
<1>4. CASE ArchiveNote(p)
    <2>1. PICK k \in cli[p].keys : cli' = [cli EXCEPT ![p].keys = @ \ {k}]
        BY <1>2, <1>4 DEF ArchiveNote
    <2>2. cli' = [cli EXCEPT ![p].keys = cli[p].keys \ {k}] /\ At(p, "sweep")
        BY <1>1, <1>4, <2>1 DEF ArchiveNote, Typed
    <2>3. cli[p].keys \ {k} \in SUBSET Nat
        BY <1>1 DEF Doing
    <2>4. cli'[p].keys = cli[p].keys \ {k}
        BY <1>1, <2>2, <2>3, Sweeps
    <2> QED BY <1>1, <2>2, <2>4 DEF Listed
<1>5. ~Look(p) /\ ~Write(p) /\ ~Retire(p)
    <2>1. ~Put(p, "unarchive") /\ ~Put(p, "replace")
        BY <1>1, PutTo
    <2>2. ~Look(p)
        <3>1. \A status \in Statuses : cli' # [cli EXCEPT ![p].at = "write", ![p].seen = status]
            BY <1>1, Looks
        <3>2. Look(p) => cli[p].n \in DOMAIN note
            BY DEF Look, At, TypeInv, Sensible
        <3>3. \A k \in DOMAIN note : note[k] \in Note
            BY <1>1 DEF Typed
        <3>4. Look(p) => note[cli[p].n].status \in Statuses
            BY <3>2, <3>3 DEF Note
        <3> QED BY <1>2, <3>1, <3>4 DEF Look
    <2> QED BY <1>2, <2>1, <2>2 DEF Write, Retire
<1>6. ~UnarchiveNote(p) /\ ~Replace(p) /\ ~Kill(p)
    BY <1>2 DEF UnarchiveNote, Replace, Kill
<1>7. \A verb \in Verbs \cup {"add", "unarchive", "tidy", "archive", "supersede"},
         at \in {"list", "look", "unarchive", "retire"}, k \in Nat : ~Begin(p, verb, at, k)
    BY <1>1, Begun
<1>8. ~AddNote(p) /\ ~Changes(p) /\ ~Unarchive(p) /\ ~Tidy(p) /\ ~ArchiveBefore(p) /\ ~Supersede(p)
    BY <1>1, <1>7
    DEF AddNote, Changes, Unarchive, Tidy, ArchiveBefore, Supersede, Learnings, Shelf
<1>9. CASE Learn(p) \/ ArchiveOnly(p) \/ Unlearn(p)
    BY <1>1, <1>9 DEF Learn, ArchiveOnly, Unlearn, AtOnce, At
<1>10. ~\E k \in Ids : Merge(p, k)
    <2> SUFFICES ASSUME NEW k \in Ids, Merge(p, k) PROVE FALSE
        OBVIOUS
    <2> DEFINE doing == [Idle EXCEPT !.verb = "done", !.at = "look", !.n = k]
    <2>1. cli' = [cli EXCEPT ![p] = doing] /\ doing.at = "look"
        BY DEF Merge, Idle
    <2> HIDE DEF doing
    <2> QED BY <1>1, <2>1 DEF Typed
<1> QED BY <1>3, <1>4, <1>5, <1>6, <1>8, <1>9, <1>10 DEF Step, Command, Proceed

(* The sweep takes no handoff that is the newest of its owner. *)
LEMMA NewestNext ==
    ASSUME TypeInv, NewestKept, Next
    PROVE  NewestKept'
<1> SUFFICES ASSUME NEW n \in DOMAIN note', note'[n].type = "handoff",
                    note'[n].shelf = "archive" \/ \E q \in Procs : Listed(q, n)'
             PROVE  Spent(n)'
    BY DEF NewestKept
<1>1. CASE Elsewhere
    <2>1. n \in DOMAIN note /\ Spent(n)
        BY <1>1, ElsewhereNothing DEF NewestKept, Listed, At
    <2> QED BY <2>1, SpentStays
<1>2. ASSUME NEW p \in Procs, Step(p) PROVE Spent(n)'
    <2>1. Notes(p)
        BY <1>2, StepNotes
    <2>2. ASSUME n \in DOMAIN note, note'[n].shelf = "archive" PROVE Spent(n)
        <3>1. note[n].type = "handoff" /\ (note[n].shelf = "archive" \/ Shelved(p, n))
            BY <2>1, <2>2 DEF Notes, Lasts
        <3>2. Shelved(p, n) => Listed(p, n)
            BY <2>2, <3>1 DEF Shelved, ArchiveNote, Listed
        <3> QED BY <2>2, <3>1, <3>2 DEF NewestKept
    <2>3. ASSUME NEW q \in Procs, Listed(q, n)' PROVE n \in DOMAIN note /\ Spent(n)
        <3>1. CASE Listed(q, n)
            <4>1. n \in DOMAIN note
                BY <3>1 DEF Listed, At, TypeInv, Sensible
            <4>2. note[n].type = "handoff"
                BY <2>1, <4>1 DEF Notes, Lasts
            <4> QED BY <3>1, <4>1, <4>2 DEF NewestKept
        <3>2. CASE ~Listed(q, n)
            <4>1. q = p
                BY <1>2, <2>3, <3>2, StepCli DEF Listed, At
            <4>2. note' = note /\ n \in IF cli[p].verb = "archive" THEN Before ELSE Due
                BY <1>2, <2>3, <3>2, <4>1, ListedWhenRead
            <4>3. n \in DOMAIN note /\ note[n].type = "handoff"
                BY <4>2
            <4>4. n \in Before => Spent(n)
                BY DEF Before, Spent
            <4>5. n \in Due => Spent(n)
                BY <4>3, NoteLifeAssumption DEF Due, Spent, Shelf, Handoffs
            <4> QED BY <4>2, <4>3, <4>4, <4>5
        <3> QED BY <3>1, <3>2
    <2>4. CASE n \in DOMAIN note
        BY <2>2, <2>3, <2>4, SpentStays
    <2>5. CASE n \notin DOMAIN note
        BY <2>1, <2>3, <2>5 DEF Notes, Arrives
    <2> QED BY <2>4, <2>5
<1> QED BY <1>1, <1>2, NextIsAStep

(* Nothing is archived before there are notes. *)
LEMMA NewestInit == Init => NewestKept
BY DEF Init, NewestKept

-----------------------------------------------------------------------------
(* One handoff of an owner once all is quiet.                              *)

(* A sweep that will list, or has listed, the note.                        *)
Swept(m) == \E p \in Procs : (At(p, "list") /\ cli[p].verb # "archive") \/ Listed(p, m)

(* A handoff behind a newer one of its owner waits for a sweep: the one of *)
(* the `add` that brought the newer one, if no other.                      *)
OneEach ==
    ~stirred =>
        \A m, n \in Shelf("active") :
            /\ note[m].type = "handoff" /\ note[n].type = "handoff"
            /\ note[m].owner = note[n].owner /\ m < n
            => Swept(m)

(* A process about to list goes on by listing; one with a list, by         *)
(* archiving a note on it.                                                 *)
LEMMA SweeperGoesOn ==
    ASSUME NEW p \in Procs, Step(p)
    PROVE  /\ At(p, "list") => List(p) \/ Kill(p)
           /\ At(p, "sweep") => ArchiveNote(p) \/ Kill(p)
<1>1. ~At(p, "idle") => ~Command(p) /\ ~\E n \in Ids : Merge(p, n)
    BY DEF Command, AddNote, Learn, Changes, Unarchive, Tidy, ArchiveBefore, Supersede,
           ArchiveOnly, Unlearn, Begin, AtOnce, Merge
<1>2. At(p, "list") => ~At(p, "idle") /\ (Proceed(p) => List(p))
    BY DEF Proceed, Look, Write, UnarchiveNote, ArchiveNote, Retire, Replace, At
<1>3. At(p, "sweep") => ~At(p, "idle") /\ (Proceed(p) => ArchiveNote(p))
    BY DEF Proceed, Look, Write, UnarchiveNote, List, Retire, Replace, At
<1> QED BY <1>1, <1>2, <1>3 DEF Step

(* A sweep lists every handoff that is not its owner's newest. *)
LEMMA SweepLists ==
    ASSUME TypeInv, NEW p \in Procs, List(p), cli[p].verb # "archive",
           NEW m \in Shelf("active"), NEW n \in Shelf("active"),
           note[m].type = "handoff", note[n].type = "handoff",
           note[m].owner = note[n].owner, m < n
    PROVE  Listed(p, m)'
<1> DEFINE keys == {k \in IF cli[p].verb = "archive" THEN Before ELSE Due :
                      note[k].type # "learning"}
<1>1. Typed /\ \A k \in DOMAIN note : k \in Nat
    BY DEF TypeInv, Typed
<1>2. m \in Due
    BY <1>1 DEF Due, Shelf
<1>3. m \in keys
    BY <1>2
<1>4. cli' = [cli EXCEPT ![p].at = "sweep", ![p].keys = keys]
    BY <1>3 DEF List
<1>5. keys \in SUBSET Nat
    BY <1>1 DEF Before, Due, Shelf
<1> HIDE DEF keys
<1> QED BY ZenonT(60), <1>1, <1>3, <1>4, <1>5, Sweeps DEF Listed, At

(* Save for that step and what stirs the shelf, a sweep is not forgotten. *)
LEMMA SweptStays ==
    ASSUME TypeInv, NEW p \in Procs, Step(p), ~stirred',
           ~(List(p) /\ cli[p].verb # "archive"), NEW m, m \in Shelf("active")', Swept(m)
    PROVE  Swept(m)'
<1>1. Typed /\ cli[p] \in Doing /\ ~Kill(p)
    BY DEF TypeInv, Typed, Kill
<1>2. PICK q \in Procs : (At(q, "list") /\ cli[q].verb # "archive") \/ Listed(q, m)
    BY DEF Swept
<1>3. CASE q # p
    <2>1. cli'[q] = cli[q]
        BY <1>3, StepCli
    <2>2. (At(q, "list") /\ cli[q].verb # "archive")' \/ Listed(q, m)'
        BY <1>2, <2>1 DEF At, Listed
    <2> QED BY <2>2 DEF Swept
<1>4. CASE q = p
    <2>1. ArchiveNote(p) /\ m \in cli[p].keys
        BY <1>1, <1>2, <1>4, SweeperGoesOn DEF Listed
    <2>2. PICK k \in cli[p].keys :
            /\ Move(k, "archive")
            /\ IF cli[p].keys = {k} THEN End(p) ELSE cli' = [cli EXCEPT ![p].keys = @ \ {k}]
        BY <2>1 DEF ArchiveNote
    <2>3. k \in DOMAIN note
        BY <1>2, <1>4, <2>1, <2>2 DEF ArchiveNote, At, TypeInv, Sensible
    <2>4. k # m
        <3>1. note'[k].shelf = "archive"
            BY <1>1, <2>2, <2>3, NoteMoved DEF Shelves
        <3> QED BY <3>1 DEF Shelf
    <2>5. cli' = [cli EXCEPT ![p].keys = cli[p].keys \ {k}] /\ At(p, "sweep")
        BY <1>1, <2>1, <2>2, <2>4 DEF ArchiveNote, Typed
    <2>6. cli[p].keys \ {k} \in SUBSET Nat
        BY <1>1 DEF Doing
    <2>7. cli'[p].keys = cli[p].keys \ {k} /\ cli'[p].at = "sweep"
        BY <1>1, <2>5, <2>6, Sweeps
    <2>8. Listed(p, m)'
        BY <2>1, <2>4, <2>7 DEF Listed, At
    <2> QED BY <2>8 DEF Swept
<1> QED BY <1>3, <1>4

(* Only a listing, an unarchived note and a kill touch `stirred`. *)
LEMMA StirredBy ==
    ASSUME NEW p \in Procs, Step(p), ~stirred'
    PROVE  /\ ~UnarchiveNote(p) /\ ~Kill(p)
           /\ ~(List(p) /\ cli[p].verb # "archive") => ~stirred
<1>1. ~UnarchiveNote(p) /\ ~Kill(p)
    BY DEF UnarchiveNote, Kill
<1>2. Command(p) \/ (\E n \in Ids : Merge(p, n)) => ~stirred
    BY DEF Command, AddNote, Learn, Changes, Unarchive, Tidy, ArchiveBefore, Supersede,
           ArchiveOnly, Unlearn, Begin, AtOnce, Merge, history
<1>3. Look(p) \/ Write(p) \/ ArchiveNote(p) \/ Retire(p) \/ Replace(p) => ~stirred
    BY DEF Look, Write, ArchiveNote, Retire, Replace, history
<1>4. List(p) => cli[p].verb # "archive" \/ ~stirred
    BY Zenon DEF List
<1> QED BY <1>1, <1>2, <1>3, <1>4, Zenon DEF Step, Proceed

(* A step keeps OneEach. *)
LEMMA OneEachNext ==
    ASSUME TypeInv, OneEach, Next
    PROVE  OneEach'
<1> SUFFICES ASSUME ~stirred', NEW m \in Shelf("active")', NEW n \in Shelf("active")',
                    note'[m].type = "handoff", note'[n].type = "handoff",
                    note'[m].owner = note'[n].owner, m < n
             PROVE  Swept(m)'
    BY DEF OneEach
<1>1. CASE Elsewhere
    BY <1>1, ElsewhereNothing DEF OneEach, Swept, Listed, At, Shelf, history
<1>2. ASSUME NEW p \in Procs, Step(p) PROVE Swept(m)'
    <2>1. Notes(p) /\ ~UnarchiveNote(p) /\ (~(List(p) /\ cli[p].verb # "archive") => ~stirred)
        BY <1>2, StepNotes, StirredBy
    <2>2. m \in DOMAIN note' /\ n \in DOMAIN note' /\ note'[m].shelf = "active" /\ note'[n].shelf = "active"
        BY DEF Shelf
    <2>3. \A k \in DOMAIN note : k \in Nat
        BY DEF TypeInv, Typed
    <2>4. ASSUME NEW k \in DOMAIN note, note'[k].shelf = "active", note'[k].type = "handoff"
          PROVE  k \in Shelf("active")
        BY <2>1, <2>4 DEF Notes, Lasts, Shelved, Shelf
    <2>5. CASE n \notin DOMAIN note
        <3>1. AddNote(p)
            BY <2>1, <2>2, <2>5 DEF Notes, Arrives
        <3>2. Begin(p, "add", "list", None) /\ None \in Nat
            BY <3>1 DEF AddNote, None
        <3>3. cli'[p].verb = "add" /\ cli'[p].at = "list"
            BY <3>2, Begun DEF TypeInv
        <3> QED BY <3>3 DEF Swept, At
    <2>6. CASE n \in DOMAIN note
        <3>1. m \in DOMAIN note
            <4>1. m \notin DOMAIN note => \A k \in DOMAIN note : k < m
                BY <2>1, <2>2 DEF Notes, Arrives
            <4>2. m \in Nat /\ n \in Nat
                <5>1. note' \in Seq(Note)
                    BY <2>1 DEF Notes
                <5> QED BY <2>2, <5>1
            <4> QED BY <2>6, <4>1, <4>2
        <3>2. /\ m \in Shelf("active") /\ n \in Shelf("active")
              /\ note[m].type = "handoff" /\ note[n].type = "handoff"
              /\ note[m].owner = note[n].owner
            BY <2>1, <2>2, <2>4, <2>6, <3>1 DEF Notes, Lasts
        <3>3. CASE List(p) /\ cli[p].verb # "archive"
            <4>1. Listed(p, m)'
                BY <3>2, <3>3, SweepLists
            <4> QED BY <4>1 DEF Swept
        <3>4. CASE ~(List(p) /\ cli[p].verb # "archive")
            <4>1. Swept(m)
                BY <2>1, <3>2, <3>4 DEF OneEach
            <4> QED BY <1>2, <3>4, <4>1, SweptStays
        <3> QED BY <3>3, <3>4
    <2> QED BY <2>5, <2>6
<1> QED BY <1>1, <1>2, NextIsAStep

(* There are no handoffs yet. *)
LEMMA OneEachInit == Init => OneEach
BY DEF Init, OneEach, Shelf

-----------------------------------------------------------------------------
(* One replacement of a superseded learning.                               *)

Replacing(p, n) == At(p, "replace") /\ cli[p].n = n

(* A replaced learning is off the shelf for good, and has one replacement; *)
(* one being replaced is off the shelf already, has none, and one command  *)
(* is at it.                                                               *)
OneSuccessor ==
    \A n \in DOMAIN note :
        /\ \A a, b \in Replacements(n) : a = b /\ note[n].type = "learning" /\ note[n].shelf # "active"
        /\ \A p \in Procs : Replacing(p, n) =>
              /\ note[n].shelf # "active" /\ Replacements(n) = {}
              /\ \A q \in Procs : Replacing(q, n) => q = p

(* A process is to add a replacement only when it took the old one away. *)
LEMMA ReplacingOnceRetired ==
    ASSUME TypeInv, NEW p \in Procs, Step(p), At(p, "replace")'
    PROVE  Retire(p) /\ Move(cli[p].n, "archive") /\ cli'[p].n = cli[p].n /\ cli[p].n \in Shelf("active")
<1>1. Typed /\ cli[p] \in Doing /\ cli'[p].at = "replace" /\ None \in Nat
      /\ \A k \in DOMAIN note : k \in Nat
    BY DEF TypeInv, Typed, At, None
<1>2. ~End(p) /\ ~Put(p, "unarchive")
    BY <1>1, Ends, PutTo
<1>3. Retire(p) => /\ Move(cli[p].n, "archive") /\ cli[p].n \in Shelf("active") /\ Put(p, "replace")
    BY <1>2 DEF Retire, ArchiveLearning
<1>4. Retire(p) => cli'[p].n = cli[p].n
    BY <1>1, <1>3, PutTo
<1>5. ~List(p)
    <2> SUFFICES ASSUME List(p) PROVE FALSE
        OBVIOUS
    <2> DEFINE keys == {k \in IF cli[p].verb = "archive" THEN Before ELSE Due :
                          note[k].type # "learning"}
    <2>1. cli' = [cli EXCEPT ![p].at = "sweep", ![p].keys = keys]
        BY <1>2 DEF List
    <2>2. keys \in SUBSET Nat
        BY <1>1 DEF Before, Due, Shelf
    <2> HIDE DEF keys
    <2> QED BY <1>1, <2>1, <2>2, Sweeps
<1>6. ~ArchiveNote(p)
    <2> SUFFICES ASSUME ArchiveNote(p) PROVE FALSE
        OBVIOUS
    <2>1. PICK k \in cli[p].keys : cli' = [cli EXCEPT ![p].keys = @ \ {k}]
        BY <1>2 DEF ArchiveNote
    <2>2. cli' = [cli EXCEPT ![p].keys = cli[p].keys \ {k}] /\ At(p, "sweep")
        BY <1>1, <2>1 DEF ArchiveNote, Typed
    <2>3. cli[p].keys \ {k} \in SUBSET Nat
        BY <1>1 DEF Doing
    <2> QED BY <1>1, <2>2, <2>3, Sweeps
<1>7. ~Look(p)
    <2>1. \A status \in Statuses : cli' # [cli EXCEPT ![p].at = "write", ![p].seen = status]
        BY <1>1, Looks
    <2>2. Look(p) => cli[p].n \in DOMAIN note
        BY DEF Look, At, TypeInv, Sensible
    <2>3. \A k \in DOMAIN note : note[k] \in Note
        BY <1>1 DEF Typed
    <2>4. Look(p) => note[cli[p].n].status \in Statuses
        BY <2>2, <2>3 DEF Note
    <2> QED BY <1>2, <2>1, <2>4 DEF Look
<1>8. ~Write(p) /\ ~UnarchiveNote(p) /\ ~Replace(p) /\ ~Kill(p)
    BY <1>2 DEF Write, UnarchiveNote, Replace, Kill
<1>9. \A verb \in Verbs \cup {"add", "unarchive", "tidy", "archive", "supersede"},
         at \in {"list", "look", "unarchive", "retire"}, k \in Nat : ~Begin(p, verb, at, k)
    BY <1>1, Begun
<1>10. ~AddNote(p) /\ ~Changes(p) /\ ~Unarchive(p) /\ ~Tidy(p) /\ ~ArchiveBefore(p) /\ ~Supersede(p)
    BY <1>1, <1>9
    DEF AddNote, Changes, Unarchive, Tidy, ArchiveBefore, Supersede, Learnings, Shelf
<1>11. ~Learn(p) /\ ~ArchiveOnly(p) /\ ~Unlearn(p)
    BY <1>1 DEF Learn, ArchiveOnly, Unlearn, AtOnce, At
<1>12. ~\E k \in Ids : Merge(p, k)
    <2> SUFFICES ASSUME NEW k \in Ids, Merge(p, k) PROVE FALSE
        OBVIOUS
    <2> DEFINE doing == [Idle EXCEPT !.verb = "done", !.at = "look", !.n = k]
    <2>1. cli' = [cli EXCEPT ![p] = doing] /\ doing.at = "look"
        BY DEF Merge, Idle
    <2> HIDE DEF doing
    <2> QED BY <1>1, <2>1 DEF Typed
<1>13. Retire(p)
    BY <1>5, <1>6, <1>7, <1>8, <1>10, <1>11, <1>12 DEF Step, Command, Proceed
<1> QED BY <1>3, <1>4, <1>13

(* A step keeps OneSuccessor. *)
LEMMA SuccessorNext ==
    ASSUME TypeInv, OneSuccessor, Next
    PROVE  OneSuccessor'
<1> SUFFICES ASSUME NEW n \in DOMAIN note'
             PROVE  /\ \A a, b \in Replacements(n)' :
                         a = b /\ note'[n].type = "learning" /\ note'[n].shelf # "active"
                    /\ \A q \in Procs : Replacing(q, n)' =>
                         /\ note'[n].shelf # "active" /\ Replacements(n)' = {}
                         /\ \A r \in Procs : Replacing(r, n)' => r = q
    BY DEF OneSuccessor
<1>1. CASE Elsewhere
    BY <1>1, ElsewhereNothing DEF OneSuccessor, Replacing, Replacements, At
<1>2. ASSUME NEW p \in Procs, Step(p)
      PROVE  /\ \A a, b \in Replacements(n)' :
                  a = b /\ note'[n].type = "learning" /\ note'[n].shelf # "active"
             /\ \A q \in Procs : Replacing(q, n)' =>
                  /\ note'[n].shelf # "active" /\ Replacements(n)' = {}
                  /\ \A r \in Procs : Replacing(r, n)' => r = q
    <2>1. Notes(p) /\ \A q \in Procs : q # p => cli'[q] = cli[q]
        BY <1>2, StepNotes, StepCli
    <2>2. \A k \in DOMAIN note : k \in Nat /\ k # None /\ (note[k].back = None \/ note[k].back \in DOMAIN note)
        BY DEF TypeInv, Typed, None
    <2>3. ASSUME n \in DOMAIN note, note[n].type = "learning", note[n].shelf # "active"
          PROVE  note'[n].shelf # "active"
        <3>1. ~Shelved(p, n)
            BY <2>3 DEF Shelved, ArchiveNote, UnarchiveNote, At, TypeInv, Sensible
        <3> QED BY <2>1, <2>3, <3>1 DEF Notes, Lasts
    <2>4. ASSUME NEW a \in Replacements(n)'
          PROVE  a \in Replacements(n) \/ (a \notin DOMAIN note /\ Replacing(p, n) /\ Replace(p))
        <3>1. a \in DOMAIN note' /\ note'[a].back = n /\ n # None
            <4>1. a \in DOMAIN note' /\ note'[a].back = n
                BY <2>4 DEF Replacements
            <4>2. note' \in Seq(Note)
                BY <2>1 DEF Notes
            <4> QED BY <4>1, <4>2 DEF None
        <3>2. a \in DOMAIN note => a \in Replacements(n)
            BY <2>1, <3>1 DEF Notes, Lasts, Replacements
        <3>3. a \notin DOMAIN note => Replace(p) /\ cli[p].n = n
            BY <2>1, <3>1 DEF Notes, Arrives
        <3>4. Replace(p) => At(p, "replace")
            BY DEF Replace
        <3> QED BY <3>2, <3>3, <3>4 DEF Replacing
    <2>5. CASE n \notin DOMAIN note
        <3>0. n # None
            BY <2>1 DEF Notes, None
        <3>1. Replacements(n) = {}
            BY <2>2, <2>5, <3>0 DEF Replacements
        <3>2. \A q \in Procs : ~Replacing(q, n)
            BY <2>5 DEF Replacing, At, TypeInv, Sensible
        <3>3. \A q \in Procs : ~Replacing(q, n)'
            <4>1. ~Replacing(p, n)'
                BY <1>2, <2>5, ReplacingOnceRetired DEF Replacing, Shelf
            <4> QED BY <2>1, <3>2, <4>1 DEF Replacing, At
        <3> QED BY <2>4, <3>1, <3>2, <3>3
    <2>6. CASE n \in DOMAIN note
        <3>1. note'[n].type = note[n].type
            BY <2>1, <2>6 DEF Notes, Lasts
        <3>2. CASE Replacing(p, n) /\ Replace(p)
            <4>1. Replacements(n) = {} /\ note[n].shelf # "active" /\ note[n].type = "learning"
                BY <2>6, <3>2 DEF OneSuccessor, Replacing, At, TypeInv, Sensible
            <4>2. \A a, b \in Replacements(n)' : a = b
                BY <2>1, <2>4, <4>1 DEF Notes, Arrives, Replacements
            <4>3. ~Replacing(p, n)'
                BY <3>2, Ends DEF Replace, Replacing, At, TypeInv
            <4>4. \A q \in Procs : ~Replacing(q, n)'
                BY <2>1, <2>6, <3>2, <4>3 DEF OneSuccessor, Replacing, At
            <4> QED BY <2>3, <2>6, <3>1, <4>1, <4>2, <4>4
        <3>3. CASE ~(Replacing(p, n) /\ Replace(p))
            <4>1. Replacements(n)' \subseteq Replacements(n)
                BY <2>4, <3>3
            <4>2. \A a, b \in Replacements(n)' :
                     a = b /\ note'[n].type = "learning" /\ note'[n].shelf # "active"
                BY <2>3, <2>6, <3>1, <4>1 DEF OneSuccessor
            <4>3. ASSUME NEW q \in Procs, Replacing(q, n)'
                  PROVE  /\ note'[n].shelf # "active" /\ Replacements(n)' = {}
                         /\ \A r \in Procs : Replacing(r, n)' => r = q
                <5>1. CASE Replacing(p, n)'
                    <6>1. Retire(p) /\ Move(n, "archive") /\ n \in Shelf("active")
                        BY <1>2, <5>1, ReplacingOnceRetired DEF Replacing
                    <6>2. Replacements(n) = {} /\ \A r \in Procs : ~Replacing(r, n)
                        BY <2>6, <6>1 DEF OneSuccessor, Shelf
                    <6>3. \A r \in Procs : Replacing(r, n)' => r = p
                        BY <2>1, <6>2 DEF Replacing, At
                    <6>4. note'[n].shelf = "archive"
                        BY <2>6, <6>1, NoteMoved DEF TypeInv, Shelves
                    <6> QED BY <4>1, <4>3, <6>2, <6>3, <6>4
                <5>2. CASE ~Replacing(p, n)'
                    <6>1. \A r \in Procs : Replacing(r, n)' => Replacing(r, n)
                        BY <2>1, <5>2 DEF Replacing, At
                    <6>2. note[n].type = "learning"
                        BY <4>3, <6>1 DEF Replacing, At, TypeInv, Sensible
                    <6> QED BY <2>3, <2>6, <4>1, <4>3, <6>1, <6>2 DEF OneSuccessor
                <5> QED BY <5>1, <5>2
            <4> QED BY <4>2, <4>3
        <3> QED BY <3>2, <3>3
    <2> QED BY <2>5, <2>6
<1> QED BY <1>1, <1>2, NextIsAStep

(* There is nothing to replace yet. *)
LEMMA SuccessorInit == Init => OneSuccessor
BY DEF Init, OneSuccessor

-----------------------------------------------------------------------------
(* A set whose members are all the same has at most one. *)
LEMMA AtMostOne ==
    ASSUME NEW S, \A a, b \in S : a = b
    PROVE  Cardinality(S) <= 1 /\ (S # {} => Cardinality(S) = 1)
<1>1. CASE S = {}
    BY <1>1, FS_EmptySet
<1>2. ASSUME NEW x \in S PROVE Cardinality(S) = 1
    <2>1. S = {x}
        OBVIOUS
    <2> QED BY <2>1, FS_Singleton
<1> QED BY <1>1, <1>2

(* The three invariants say what ShelfSettles does. *)
LEMMA Settled ==
    ASSUME TypeInv, NewestKept, OneEach, OneSuccessor
    PROVE  ShelfSettles
<1>0. \A k \in DOMAIN note : k \in Nat
    BY DEF TypeInv, Typed
<1>1. ASSUME NEW o \in Owners, NEW n \in Handoffs(o), \A m \in Handoffs(o) : m <= n,
             n \in Shelf("archive")
      PROVE  note[n].status = "done" \/ n \in raced \/ Older(n, note[n].made, ArchiveDays)
    <2>1. n \in DOMAIN note /\ note[n].type = "handoff" /\ note[n].owner = o /\ note[n].shelf = "archive"
        BY <1>1 DEF Handoffs, Shelf
    <2>2. Spent(n)
        BY <2>1 DEF NewestKept
    <2>3. ~\E m \in Handoffs(o) : m > n
        BY <1>0, <1>1, <2>1 DEF Handoffs
    <2> QED BY <2>1, <2>2, <2>3 DEF Spent
<1>2. ASSUME \A p \in Procs : At(p, "idle"), ~stirred, NEW o \in Owners
      PROVE  Cardinality(Handoffs(o) \cap Shelf("active")) <= 1
    <2>1. \A m : ~Swept(m)
        BY <1>2 DEF Swept, Listed, At
    <2>2. \A a, b \in Handoffs(o) \cap Shelf("active") : a = b
        BY <1>0, <1>2, <2>1 DEF OneEach, Handoffs, Shelf
    <2> QED BY <2>2, AtMostOne
<1>3. ASSUME NEW n \in DOMAIN note, Replacements(n) # {}
      PROVE  Cardinality(Replacements(n)) = 1 /\ n \notin Shelf("active")
    <2>1. \A a, b \in Replacements(n) : a = b /\ note[n].shelf # "active"
        BY DEF OneSuccessor
    <2>2. note[n].shelf # "active"
        BY <1>3, <2>1
    <2> QED BY <1>3, <2>1, <2>2, AtMostOne DEF Shelf
<1> QED BY <1>1, <1>2, <1>3 DEF ShelfSettles

(* ShelfSettles: the newest handoff of an owner stays on the active shelf, *)
(* once all is quiet it is the only one there, and a superseded learning   *)
(* has one successor and is off the shelf (policy.py select_auto_archive,  *)
(* notes.py cmd_add, cmd_supersede, cmd_archive).                          *)
THEOREM ShelfAlwaysSettles ==
    Spec => []ShelfSettles
<1> DEFINE Inv == NewestKept /\ OneEach /\ OneSuccessor
<1>1. Init => Inv
    BY NewestInit, OneEachInit, SuccessorInit
<1>2. TypeInv /\ Inv /\ [Next]_vars => Inv'
    <2>1. Inv /\ UNCHANGED vars => Inv'
        BY DEF vars, history, NewestKept, OneEach, OneSuccessor, Spent, Older, Listed, Swept,
               Replacing, Replacements, Handoffs, Shelf, At
    <2> QED BY <2>1, NewestNext, OneEachNext, SuccessorNext
<1>3. TypeInv /\ Inv => ShelfSettles
    BY Settled
<1> QED BY <1>1, <1>2, <1>3, TypeInit, TypeStays, PTL DEF Spec
=============================================================================
