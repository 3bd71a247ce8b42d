------------------------------- MODULE NoteLife -------------------------------
(***************************************************************************)
(* The life of a note: what the commands of scribe/notes.py do to its      *)
(* status and its shelf, the retention sweep of scribe/policy.py, and the  *)
(* way of a todo through the runner and back: runner/ticket.py makes a     *)
(* ticket of it, and when the branch of its run is merged the post-merge   *)
(* hook (runner/close_source_todo.py) marks it done.  A command reads,     *)
(* decides and writes in separate steps with no lock over them; each store *)
(* operation is one step here (its files are in ScribeStore).              *)
(***************************************************************************)
EXTENDS Integers, Sequences, FiniteSets

CONSTANTS
    Procs,       \* commands at work, the hook's included
    Owners,      \* (role, mission) of a handoff
    DoneDays,    \* DONE_RETENTION_DAYS
    AgeRule,     \* _AGE_RULES: days per type
    ArchiveDays, \* DEFAULT_ARCHIVE_DAYS
    MaxNotes, MaxDays, MaxCommands, MaxKills

(* Days are whole, and handoffs have no age rule (policy.py _AGE_RULES).   *)
ASSUME NoteLifeAssumption ==
    /\ Owners # {}
    /\ DoneDays \in Nat /\ ArchiveDays \in Nat /\ AgeRule \in [DOMAIN AgeRule -> Nat]
    /\ "handoff" \notin DOMAIN AgeRule

Types == {"todo", "handoff", "learning"} \cup DOMAIN AgeRule
Statuses == {"active", "done", "dropped", "deferred"}
None == 0

VARIABLES
    note,    \* rows and bodies, by id; a later id is a later timestamp
    cli,     \* what each process is doing
    ticket,  \* where the ticket made of a note is
    day,
    raced,   \* notes written over a status nobody had read        (history)
    torn,    \* notes a killed command was at                      (history)
    stirred, \* no sweep since a kill or an unarchived note        (history)
    left     \* commands and kills left

history == <<raced, torn, stirred>>
vars == <<note, cli, ticket, day, history, left>>

Ids == 1..MaxNotes
Idle == [verb |-> "none", at |-> "idle", n |-> None, seen |-> "active", keys |-> {}]
At(p, where) == cli[p].at = where
Put(p, where) == cli' = [cli EXCEPT ![p].at = where]
End(p) == cli' = [cli EXCEPT ![p] = Idle]
Shelf(where) == {n \in DOMAIN note : note[n].shelf = where}
Move(n, where) == note' = [note EXCEPT ![n].shelf = where]
New(type, owner, back) ==
    [type |-> type, owner |-> owner, status |-> "active", shelf |-> "active",
     made |-> day, changed |-> day, back |-> back]

Init ==
    /\ note = <<>> /\ cli = [p \in Procs |-> Idle] /\ ticket = [n \in Ids |-> "none"]
    /\ day = 0 /\ raced = {} /\ torn = {} /\ stirred = FALSE
    /\ left = [commands |-> MaxCommands, kills |-> MaxKills]

(* A command begins: the verb, where it goes first, the note it names.     *)
Begin(p, verb, at, n) ==
    /\ At(p, "idle") /\ left.commands > 0
    /\ left' = [left EXCEPT !.commands = @ - 1]
    /\ cli' = [cli EXCEPT ![p] = [Idle EXCEPT !.verb = verb, !.at = at, !.n = n]]
    /\ UNCHANGED <<ticket, day, history>>

-----------------------------------------------------------------------------
(* add, learn; done, drop, defer, resume, unarchive.                       *)

AddNote(p) ==
    \E type \in Types \ {"learning"}, owner \in Owners :
        /\ Len(note) < MaxNotes
        /\ type # "handoff" => owner = CHOOSE o \in Owners : TRUE
        /\ Begin(p, "add", "list", None)
        /\ note' = Append(note, New(type, owner, None))

(* The store's operations on learnings; back is the learning a new one     *)
(* supersedes, None without one.                                           *)
AddLearning(owner, back) ==
    Len(note) < MaxNotes /\ note' = Append(note, New("learning", owner, back))
ArchiveLearning(n) == Move(n, "archive")
RemoveLearning(n) == Move(n, "gone")

(* A command of one store operation.                                       *)
AtOnce(p) ==
    /\ At(p, "idle") /\ left.commands > 0
    /\ left' = [left EXCEPT !.commands = @ - 1]
    /\ UNCHANGED <<cli, ticket, day, history>>

Learn(p) == AddLearning(CHOOSE o \in Owners : TRUE, None) /\ AtOnce(p)

Verbs == {"done", "drop", "defer", "resume"}
Target == [done |-> "done", drop |-> "dropped", defer |-> "deferred", resume |-> "active"]

(* "Already there", or a closed note.                                      *)
(* Mutant: a done note can be deferred.                                    *)
RefusedUnlessThere(verb, status) ==
    CASE verb = "done"   -> status = "done"
      [] verb = "drop"   -> status \in {"dropped", "done"}
      [] verb = "defer"  -> status = "deferred"
      [] verb = "resume" -> status # "deferred"

Refused(verb, status) ==
    CASE verb = "done"   -> status = "done"
      [] verb = "drop"   -> status \in {"dropped", "done"}
      [] verb = "defer"  -> status \in {"deferred", "done", "dropped"}
      [] verb = "resume" -> status # "deferred"

Changes(p) ==
    \E verb \in Verbs, n \in DOMAIN note :
        /\ note[n].type # "learning"
        /\ Begin(p, verb, "look", n)
        /\ UNCHANGED note

Look(p) ==
    /\ At(p, "look")
    /\ LET status == note[cli[p].n].status
       IN  IF Refused(cli[p].verb, status) THEN End(p)
           ELSE cli' = [cli EXCEPT ![p].at = "write", ![p].seen = status]
    /\ UNCHANGED <<note, ticket, day, history, left>>

Write(p) ==
    LET n == cli[p].n
    IN  /\ At(p, "write")
        /\ note' = [note EXCEPT ![n].status = Target[cli[p].verb], ![n].changed = day]
        /\ raced' = IF note[n].status # cli[p].seen THEN raced \cup {n} ELSE raced
        /\ IF cli[p].verb = "resume" /\ note[n].shelf = "archive" THEN Put(p, "unarchive")
           ELSE End(p)
        /\ UNCHANGED <<ticket, day, torn, stirred, left>>

Unarchive(p) ==
    \E n \in DOMAIN note :
        /\ note[n].type # "learning" /\ n \in Shelf("archive")
        /\ Begin(p, "unarchive", "unarchive", n)
        /\ UNCHANGED note

UnarchiveNote(p) ==
    /\ At(p, "unarchive") /\ End(p)
    /\ Move(cli[p].n, "active") /\ stirred' = TRUE
    /\ UNCHANGED <<ticket, day, raced, torn, left>>

-----------------------------------------------------------------------------
(* tidy, the sweep of every add and of a session's start; archive.         *)

Tidy(p) == Begin(p, "tidy", "list", None) /\ UNCHANGED note
ArchiveBefore(p) == Begin(p, "archive", "list", None) /\ UNCHANGED note

Older(n, clock, days) == clock < day - days

(* Mutant: the newest handoff is everybody's.                              *)
DueByWhoever ==
    {n \in Shelf("active") :
        \/ note[n].status = "done" /\ Older(n, note[n].changed, DoneDays)
        \/ note[n].type = "handoff" /\ \E m \in Shelf("active") : m > n /\ note[m].type = "handoff"
        \/ note[n].type \in DOMAIN AgeRule /\ Older(n, note[n].made, AgeRule[note[n].type])}

(* select_auto_archive: done for a while, not the newest handoff of its    *)
(* owner, or past the age of its type.                                     *)
Due ==
    {n \in Shelf("active") :
        \/ note[n].status = "done" /\ Older(n, note[n].changed, DoneDays)
        \/ /\ note[n].type = "handoff"
           /\ \E m \in Shelf("active") :
                m > n /\ note[m].type = "handoff" /\ note[m].owner = note[n].owner
        \/ note[n].type \in DOMAIN AgeRule /\ Older(n, note[n].made, AgeRule[note[n].type])}

(* select_archivable_before.                                               *)
Before ==
    {n \in Shelf("active") :
        /\ Older(n, note[n].made, ArchiveDays)
        /\ note[n].status = "done" \/ note[n].type = "handoff"}

List(p) ==
    /\ At(p, "list")
    /\ LET keys == {n \in IF cli[p].verb = "archive" THEN Before ELSE Due :
                      note[n].type # "learning"}
       IN  IF keys = {} THEN End(p)
           ELSE cli' = [cli EXCEPT ![p].at = "sweep", ![p].keys = keys]
    /\ stirred' = (stirred /\ cli[p].verb = "archive")
    /\ UNCHANGED <<note, ticket, day, raced, torn, left>>

(* archive_note finds the row in the active index, or does nothing.        *)
ArchiveNote(p) ==
    /\ At(p, "sweep")
    /\ \E n \in cli[p].keys :
        /\ Move(n, "archive")
        /\ IF cli[p].keys = {n} THEN End(p)
           ELSE cli' = [cli EXCEPT ![p].keys = @ \ {n}]
    /\ UNCHANGED <<ticket, day, history, left>>

-----------------------------------------------------------------------------
(* Learnings: supersede, archive-learning, unlearn.                        *)

Learnings == {n \in Shelf("active") : note[n].type = "learning"}

Supersede(p) ==
    \E n \in Learnings : Begin(p, "supersede", "retire", n) /\ UNCHANGED note

Retire(p) ==
    /\ At(p, "retire")
    /\ IF cli[p].n \in Shelf("active") THEN ArchiveLearning(cli[p].n) /\ Put(p, "replace")
       ELSE End(p) /\ UNCHANGED note
    /\ UNCHANGED <<ticket, day, history, left>>

Replace(p) ==
    /\ At(p, "replace") /\ End(p)
    /\ AddLearning(note[cli[p].n].owner, cli[p].n)
    /\ UNCHANGED <<ticket, day, history, left>>

ArchiveOnly(p) == \E n \in Learnings : ArchiveLearning(n) /\ AtOnce(p)
Unlearn(p) == \E n \in Learnings : RemoveLearning(n) /\ AtOnce(p)

-----------------------------------------------------------------------------
(* A todo in the runner.                                                   *)

Becomes(n, from, to) == ticket[n] = from /\ ticket' = [ticket EXCEPT ![n] = to]

Queue(n, where) == /\ n \in DOMAIN note /\ note[n].type = "todo" /\ Becomes(n, "none", where)
                   /\ UNCHANGED <<note, cli, day, history, left>>
Draft(n) == Queue(n, "backlog")
CreateIntake(n) == Queue(n, "intake")
FromNote(n) == \E where \in {"backlog", "intake"} : Queue(n, where)
MarkDone(n) == Becomes(n, "backlog", "none") /\ UNCHANGED <<note, cli, day, history, left>>
Promote(n) == Becomes(n, "backlog", "intake") /\ UNCHANGED <<note, cli, day, history, left>>
(* A run leaves a branch with step commits and its line in run_history.    *)
Run(n) == Becomes(n, "intake", "branch") /\ UNCHANGED <<note, cli, day, history, left>>

(* `git merge`: the hook finds the run's uuid in the commits of the second *)
(* parent, the ticket's source in run_history, and calls `notes.py done`.  *)
Merge(p, n) ==
    /\ Becomes(n, "branch", "merged") /\ At(p, "idle")
    /\ cli' = [cli EXCEPT ![p] = [Idle EXCEPT !.verb = "done", !.at = "look", !.n = n]]
    /\ UNCHANGED <<note, day, history, left>>

(* approval.py: HEAD has one parent, the hook finds nothing to close.      *)
SquashMerge(n) ==
    Becomes(n, "branch", "squashed") /\ UNCHANGED <<note, cli, day, history, left>>

Kill(p) ==
    /\ ~At(p, "idle") /\ left.kills > 0 /\ End(p)
    /\ left' = [left EXCEPT !.kills = @ - 1]
    /\ torn' = torn \cup ({cli[p].n} \ {None}) /\ stirred' = TRUE
    /\ UNCHANGED <<note, ticket, day, raced>>

NextDay == day < MaxDays /\ day' = day + 1 /\ UNCHANGED <<note, cli, ticket, history, left>>

Command(p) ==
    AddNote(p) \/ Learn(p) \/ Changes(p) \/ Unarchive(p) \/ Tidy(p) \/ ArchiveBefore(p)
      \/ Supersede(p) \/ ArchiveOnly(p) \/ Unlearn(p)
Proceed(p) ==
    Look(p) \/ Write(p) \/ UnarchiveNote(p) \/ List(p) \/ ArchiveNote(p) \/ Retire(p) \/ Replace(p)
Runner ==
    \E n \in Ids : \/ Draft(n) \/ CreateIntake(n) \/ FromNote(n) \/ MarkDone(n) \/ Promote(n)
                   \/ Run(n) \/ SquashMerge(n)
                   \/ \E p \in Procs : Merge(p, n)

Next == (\E p \in Procs : Command(p) \/ Proceed(p) \/ Kill(p)) \/ Runner \/ NextDay

Spec == Init /\ [][Next]_vars

-----------------------------------------------------------------------------
(* Properties.                                                             *)

Handoffs(o) == {n \in DOMAIN note : note[n].type = "handoff" /\ note[n].owner = o}
Replacements(n) == {m \in DOMAIN note : note[m].back = n}

(* Whatever sweeps, adds and supersedes overlap: the newest handoff of an  *)
(* owner stays on the active shelf, once all is quiet it is the only one   *)
(* there, and of a learning and its replacement one is on the shelf.       *)
(* Excepted: a handoff marked done, one past the date of an `archive`, and *)
(* the time between an unarchive or a kill and the next sweep.             *)
ShelfSettles ==
    /\ \A o \in Owners : \A n \in Handoffs(o) :
         (\A m \in Handoffs(o) : m <= n) /\ n \in Shelf("archive")
           => note[n].status = "done" \/ n \in raced \/ Older(n, note[n].made, ArchiveDays)
    /\ (\A p \in Procs : At(p, "idle")) /\ ~stirred
         => \A o \in Owners : Cardinality(Handoffs(o) \cap Shelf("active")) <= 1
    /\ \A n \in DOMAIN note :
         Replacements(n) # {} => Cardinality(Replacements(n)) = 1 /\ n \notin Shelf("active")

(* A todo whose branch was merged is done, and nothing reopens it: neither *)
(* a sweep, a resume nor a defer that began before the merge's hook, save  *)
(* where it wrote over a status it had not read, or the hook was killed.   *)
MergedTodoStaysClosed ==
    \A n \in Ids : ticket[n] = "merged" =>
        \/ note[n].status = "done" \/ n \in raced \cup torn
        \/ \E p \in Procs : cli[p].verb = "done" /\ cli[p].n = n

(* CLAIM of close_source_todo.py main: it "works for every merge shape".   *)
EveryMergeCloses ==
    \A n \in Ids : ticket[n] = "squashed" =>
        note[n].status = "done" \/ \E p \in Procs : cli[p].verb = "done" /\ cli[p].n = n

(* CLAIM of notes.py cmd_resume: a resumed note leaves the archive "or     *)
(* `list` and the startup banner never show it".  The next sweep takes a   *)
(* context or decision past its age back there.                            *)
ResumedStaysListed ==
    [][\A n \in DOMAIN note :
         note[n].status = "active" /\ note[n].shelf = "active" /\ note[n].type \in DOMAIN AgeRule
           /\ note[n].changed # note[n].made => note'[n].shelf = "active"]_vars

TypeOK ==
    /\ \A n \in DOMAIN note : note[n].type \in Types /\ note[n].status \in Statuses
    /\ \A p \in Procs : cli[p].keys \subseteq DOMAIN note
    /\ raced \subseteq DOMAIN note /\ torn \subseteq DOMAIN note
=============================================================================
