------------------------------ MODULE RepoRegistry ------------------------------
(***************************************************************************)
(* Who owns which uid: core/utils/state.py, core/drift.py,                 *)
(* core/cascade.py, core/install.py, core/uninstall.py, core/doctor.py.    *)
(* A main checkout keeps registry.json (uid to path), next_id and one      *)
(* state directory per uid; every bootstrapped directory keeps a           *)
(* self-pointer (uid and recorded path) and a pointer to its main          *)
(* checkout, which travel with it when the user moves or copies it.        *)
(*                                                                         *)
(* Abstractions.  All repositories have the same base name, so a state     *)
(* directory is its uid.  A read-update-write under the registry's lock    *)
(* that touches no other file is one step; everything else is a step per   *)
(* file.  What else an install writes (settings, commands, CLAUDE.md, the  *)
(* version pin) is in module RepoFiles.  The user moves, copies and        *)
(* deletes directories no command is working on.                           *)
(***************************************************************************)
EXTENDS Naturals, FiniteSets

CONSTANTS
  Repos,        \* where a repository may be
  Homes,        \* where a main checkout may be
  MaxUid,       \* bound on the uids
  Procs,        \* commands at a time
  MaxCommands,  \* bound on the commands
  MaxChanges,   \* bound on what the user does with directories
  Changes,      \* what the user does with directories
  Kills,        \* the program counters a command may be killed at
  CheckedFirst  \* a drift check has been wherever a command runs or a directory is put

None == "none"
MainUid == 1    \* MAIN_APIARY_UID
Places == Repos \union Homes
Uids == 1..MaxUid
NoPin == [uid |-> 0, path |-> None]

Pcs == {"check", "refresh", "classify", "cpin", "csave", "mpin", "msave",
        "mainpin", "mainptr", "mainentry", "cascade", "rewrite",
        "register", "statedir", "iptr", "ipin", "lookup", "unpin", "unreg", "undata", "fix"}

ASSUME RegistryAssumption ==
  /\ Repos \cap Homes = {} /\ None \notin Places \union Procs
  /\ MaxUid \in Nat \ {0, 1}
  /\ MaxCommands \in Nat /\ MaxChanges \in Nat
  /\ Changes \subseteq {"move", "copy", "delete", "create", "copymain"}
  /\ Kills \subseteq Pcs
  /\ CheckedFirst \in BOOLEAN

VARIABLES
  there,     \* the directories that exist
  pin,       \* self-pointer.json of each directory
  ptr,       \* main-apiary-pointer.json of each directory
  registry,  \* registry.json of each main checkout: the path of each uid
  next,      \* next_id of each main checkout
  kept,      \* the state directories of each main checkout
  lock,      \* who holds each registry's lock
  cmd,       \* what each process is doing
  left       \* how many commands and changes are left; has a main checkout been copied?

repo == <<there, pin, ptr>>
main == <<registry, next, kept>>
vars == <<repo, main, lock, cmd, left>>

Idle == [pc |-> "idle", at |-> None, via |-> None, uid |-> 0, pin |-> NoPin, todo |-> {}]
NoEntries == [u \in Uids |-> None]

\* One main checkout, one bootstrapped repository.
Init ==
  \E h \in Homes, r \in Repos :
    LET sites == {h, r}  uid == [d \in sites |-> IF d = h THEN MainUid ELSE 2] IN
    /\ there = sites
    /\ pin = [d \in Places |-> IF d \in sites THEN [uid |-> uid[d], path |-> d] ELSE NoPin]
    /\ ptr = [d \in Places |-> IF d \in sites THEN h ELSE None]
    /\ registry = [k \in Homes |-> IF k = h THEN [NoEntries EXCEPT ![1] = h, ![2] = r] ELSE NoEntries]
    /\ next = [k \in Homes |-> IF k = h THEN 2 ELSE 0]
    /\ kept = [k \in Homes |-> IF k = h THEN {1, 2} ELSE {}]
    /\ lock = [k \in Homes |-> None]
    /\ cmd = [p \in Procs |-> Idle]
    /\ left = [commands |-> MaxCommands, changes |-> MaxChanges, forked |-> FALSE]

At(p, where) == cmd[p].pc = where
Goto(p, to) == cmd' = [cmd EXCEPT ![p].pc = to]
Exit(p) == cmd' = [cmd EXCEPT ![p] = Idle]
Free(h) == lock[h] = None
Take(h, p) == lock' = [lock EXCEPT ![h] = p]
Release(h) == lock' = [lock EXCEPT ![h] = None]
Mains == there \intersect Homes

Undisturbed(d) == \A p \in Procs : d \notin {cmd[p].at, cmd[p].via}

\* No command runs in d.
Alone(d) == \A p \in Procs : cmd[p].at # d

\* A drift check has run in d since it came there, and no command works on it.
Checked(d) == pin[d].path \in {d, None} /\ Undisturbed(d)

\* No other directory has the uid of d.
NoCopy(d) == \A e \in there \ {d} : pin[e].uid # pin[d].uid

\* Whatever was at d before has been checked where it is now.
Vacated(d) == \A e \in there : pin[e].path # d

\* The uids whose entry, in any registry, names d.
EntriesOf(d) == {u \in Uids : \E k \in Homes : registry[k][u] = d}

NoRepair == \A p \in Procs : ~At(p, "fix")

Begin(p, start) ==
  /\ At(p, "idle")
  /\ left.commands > 0
  /\ CheckedFirst => NoRepair
  /\ left' = [left EXCEPT !.commands = @ - 1]
  /\ cmd' = [cmd EXCEPT ![p] = start]

EntriesAt(reg, d) == {u \in Uids : reg[u] = d}
\* registry.json is written with its keys sorted.
FirstEntryAt(reg, d) == CHOOSE u \in EntriesAt(reg, d) : \A v \in EntriesAt(reg, d) : u <= v

Allocate(h, uid) == uid = next[h] + 1 /\ uid \in Uids /\ next' = [next EXCEPT ![h] = uid]

Reserve(h, uid) == next' = [next EXCEPT ![h] = IF @ >= uid THEN @ ELSE uid]

-----------------------------------------------------------------------------
(* A session opens: the launcher, then check_and_handle on the first tool  *)
(* call.                                                                   *)

\* The launcher runs nothing where the main checkout is not found.
Reached(d) == d \in there /\ ptr[d] \in Mains

Session(p, d) ==
  /\ Reached(d)
  /\ CheckedFirst => Alone(d)
  /\ Begin(p, [Idle EXCEPT !.pc = "check", !.at = d])
  /\ UNCHANGED <<repo, main, lock>>

VerifiedMain(h) == h \in Mains /\ pin[h] # NoPin /\ pin[h].path = h

Check(p) ==
  LET d == cmd[p].at  mine == pin[d]
      to(pc) == cmd' = [cmd EXCEPT ![p].pc = pc, ![p].pin = mine, ![p].via = ptr[d]] IN
  /\ At(p, "check")
  /\ IF mine = NoPin THEN Exit(p)
     ELSE IF mine.uid = MainUid THEN to(IF mine.path = d THEN "refresh" ELSE "mainpin")
     ELSE IF ~VerifiedMain(ptr[d]) THEN Exit(p)
     ELSE to(IF mine.path = d THEN "refresh" ELSE "classify")
  /\ UNCHANGED <<repo, main, lock, left>>

\* last_drift_check: the pointer that was read is written back.
Refresh(p) ==
  /\ At(p, "refresh")
  /\ pin' = [pin EXCEPT ![cmd[p].at] = cmd[p].pin]
  /\ Exit(p)
  /\ UNCHANGED <<there, ptr, main, lock, left>>

(* Mutant: a directory that is still at its registered path is not asked. *)
IsNeverCopy(entry, d, uid) == FALSE
IsCopy(entry, d, uid) == entry # None /\ entry \in there /\ entry # d /\ pin[entry].uid = uid

Classify(p) ==
  LET d == cmd[p].at  h == cmd[p].via  uid == cmd[p].pin.uid  entry == registry[h][uid] IN
  /\ At(p, "classify")
  /\ Free(h) /\ Take(h, p)
  /\ \/ /\ IsCopy(entry, d, uid)
        /\ \E new \in Uids : Allocate(h, new) /\ cmd' = [cmd EXCEPT ![p].pc = "cpin", ![p].uid = new]
     \/ /\ ~IsCopy(entry, d, uid)
        /\ cmd' = [cmd EXCEPT ![p].pc = "mpin", ![p].uid = uid]
        /\ UNCHANGED next
  /\ UNCHANGED <<repo, registry, kept, left>>

\* The new uid goes into the self-pointer before the registry.
CopyPin(p) ==
  /\ At(p, "cpin")
  /\ pin' = [pin EXCEPT ![cmd[p].at] = [uid |-> cmd[p].uid, path |-> cmd[p].at]]
  /\ Goto(p, "csave")
  /\ UNCHANGED <<there, ptr, main, lock, left>>

MovePin(p) ==
  LET d == cmd[p].at  h == cmd[p].via IN
  /\ At(p, "mpin")
  /\ pin' = [pin EXCEPT ![d] = [uid |-> cmd[p].uid, path |-> d]]
  /\ IF registry[h][cmd[p].uid] = None THEN Release(h) /\ Exit(p)
                                       ELSE Goto(p, "msave") /\ UNCHANGED lock
  /\ UNCHANGED <<there, ptr, main, left>>

SaveEntry(p) ==
  LET h == cmd[p].via IN
  /\ cmd[p].pc \in {"csave", "msave"}
  /\ registry' = [registry EXCEPT ![h][cmd[p].uid] = cmd[p].at]
  /\ Release(h) /\ Exit(p)
  /\ UNCHANGED <<repo, next, kept, left>>

-----------------------------------------------------------------------------
(* _handle_main_apiary_drift and cascade_fix.                              *)

MainPin(p) ==
  /\ At(p, "mainpin")
  /\ pin' = [pin EXCEPT ![cmd[p].at] = [uid |-> cmd[p].pin.uid, path |-> cmd[p].at]]
  /\ Goto(p, "mainptr")
  /\ UNCHANGED <<there, ptr, main, lock, left>>

MainPtr(p) ==
  /\ At(p, "mainptr")
  /\ ptr' = [ptr EXCEPT ![cmd[p].at] = cmd[p].at]
  /\ IF cmd[p].at \in Homes THEN cmd' = [cmd EXCEPT ![p].pc = "mainentry", ![p].via = cmd[p].at]
                            ELSE Exit(p)
  /\ UNCHANGED <<there, pin, main, lock, left>>

MainEntry(p) ==
  LET h == cmd[p].via IN
  /\ At(p, "mainentry")
  /\ Free(h)
  /\ registry' = IF registry[h][MainUid] = None THEN registry
                                                ELSE [registry EXCEPT ![h][MainUid] = h]
  /\ Goto(p, "cascade")
  /\ UNCHANGED <<repo, next, kept, lock, left>>

\* apiary cascade-fix, apiary doctor pointers --fix
CascadeCommand(p, h) ==
  /\ h \in Mains
  /\ Begin(p, [Idle EXCEPT !.pc = "cascade", !.at = h, !.via = h])
  /\ UNCHANGED <<repo, main, lock>>

Cascade(p) ==
  LET h == cmd[p].via IN
  /\ At(p, "cascade")
  /\ Free(h) /\ Take(h, p)
  /\ cmd' = [cmd EXCEPT ![p].pc = "rewrite",
                        ![p].todo = {registry[h][u] : u \in Uids \ {MainUid}} \ {None}]
  /\ UNCHANGED <<repo, main, left>>

Rewrite(p, d) ==
  /\ At(p, "rewrite")
  /\ d \in cmd[p].todo
  /\ ptr' = IF d \in there /\ ptr[d] # None THEN [ptr EXCEPT ![d] = cmd[p].via] ELSE ptr
  /\ cmd' = [cmd EXCEPT ![p].todo = @ \ {d}]
  /\ UNCHANGED <<there, pin, main, lock, left>>

CascadeEnds(p) ==
  /\ At(p, "rewrite")
  /\ cmd[p].todo = {}
  /\ Release(cmd[p].via) /\ Exit(p)
  /\ UNCHANGED <<repo, main, left>>

-----------------------------------------------------------------------------
(* install, self_bootstrap.                                                *)

Install(p, d, h) ==
  /\ d \in there /\ h \in Mains
  /\ d \in Homes => d = h
  /\ CheckedFirst => Checked(d)
  /\ Begin(p, [Idle EXCEPT !.pc = "register", !.at = d, !.via = h, !.pin = pin[d]])
  /\ UNCHANGED <<repo, main, lock>>

\* _readoptable_uid: the registry lost the entry the self-pointer names.
Readoptable(reg, mine) == mine.uid \in Uids /\ reg[mine.uid] = None

Registers(h, d, mine, uid) ==
  LET reg == registry[h] IN
  \/ EntriesAt(reg, d) # {} /\ uid = FirstEntryAt(reg, d) /\ UNCHANGED next
  \/ EntriesAt(reg, d) = {} /\ Readoptable(reg, mine) /\ uid = mine.uid /\ Reserve(h, uid)
  \/ EntriesAt(reg, d) = {} /\ ~Readoptable(reg, mine) /\ Allocate(h, uid)

Register(p) ==
  LET d == cmd[p].at  h == cmd[p].via IN
  /\ At(p, "register")
  /\ Free(h)
  /\ \E uid \in Uids :
       /\ Registers(h, d, cmd[p].pin, uid)
       /\ registry' = [registry EXCEPT ![h][uid] = d]
       /\ cmd' = [cmd EXCEPT ![p].pc = "statedir", ![p].uid = uid]
  /\ UNCHANGED <<repo, kept, lock, left>>

StateDir(p) ==
  /\ At(p, "statedir")
  /\ kept' = [kept EXCEPT ![cmd[p].via] = @ \union {cmd[p].uid}]
  /\ Goto(p, "iptr")
  /\ UNCHANGED <<repo, registry, next, lock, left>>

InstallPtr(p) ==
  /\ At(p, "iptr")
  /\ ptr' = [ptr EXCEPT ![cmd[p].at] = cmd[p].via]
  /\ Goto(p, "ipin")
  /\ UNCHANGED <<there, pin, main, lock, left>>

InstallPin(p) ==
  /\ At(p, "ipin")
  /\ pin' = [pin EXCEPT ![cmd[p].at] = [uid |-> cmd[p].uid, path |-> cmd[p].at]]
  /\ Exit(p)
  /\ UNCHANGED <<there, ptr, main, lock, left>>

\* resolve_target_state_dir: a path the registry does not know gets a uid.
ResolveStateDir(p, d) ==
  LET h == ptr[d] IN
  /\ Reached(d) /\ At(p, "idle") /\ left.commands > 0
  /\ CheckedFirst => pin[d].path = d
  /\ Free(h)
  /\ EntriesAt(registry[h], d) = {}
  /\ \E uid \in Uids :
       /\ Allocate(h, uid)
       /\ kept' = [kept EXCEPT ![h] = @ \union {uid}]
       /\ registry' = [registry EXCEPT ![h][uid] = d]
  /\ left' = [left EXCEPT !.commands = @ - 1]
  /\ UNCHANGED <<repo, lock, cmd>>

-----------------------------------------------------------------------------
(* uninstall: the pins first, the registry entry last.                     *)

Uninstall(p, d, h) ==
  /\ d \in there \ {h} /\ h \in Mains
  /\ CheckedFirst => Checked(d) /\ (pin[d] # NoPin => NoCopy(d))
  /\ Begin(p, [Idle EXCEPT !.pc = "lookup", !.at = d, !.via = h, !.pin = pin[d]])
  /\ UNCHANGED <<repo, main, lock>>

LookUp(p) ==
  LET d == cmd[p].at  reg == registry[cmd[p].via]  mine == cmd[p].pin.uid IN
  /\ At(p, "lookup")
  /\ Free(cmd[p].via)
  /\ cmd' = [cmd EXCEPT ![p].pc = "unpin",
       ![p].uid = IF mine \in Uids /\ reg[mine] # None THEN mine
                  ELSE IF EntriesAt(reg, d) # {} THEN FirstEntryAt(reg, d) ELSE 0]
  /\ UNCHANGED <<repo, main, lock, left>>

RemovePins(p) ==
  /\ At(p, "unpin")
  /\ pin' = [pin EXCEPT ![cmd[p].at] = NoPin]
  /\ ptr' = [ptr EXCEPT ![cmd[p].at] = None]
  /\ IF cmd[p].uid = 0 THEN Exit(p) ELSE Goto(p, "unreg")
  /\ UNCHANGED <<there, main, lock, left>>

Unregister(p) ==
  LET h == cmd[p].via IN
  /\ At(p, "unreg")
  /\ Free(h)
  /\ registry' = [registry EXCEPT ![h][cmd[p].uid] = None]
  /\ Goto(p, "undata")
  /\ UNCHANGED <<repo, next, kept, lock, left>>

\* --remove-data or --keep-data
RemoveData(p) ==
  /\ At(p, "undata")
  /\ kept' \in {kept, [kept EXCEPT ![cmd[p].via] = @ \ {cmd[p].uid}]}
  /\ Exit(p)
  /\ UNCHANGED <<repo, registry, next, lock, left>>

-----------------------------------------------------------------------------
(* doctor pins --fix: the registry is read once, without its lock.         *)

FixPins(p, h) ==
  /\ h \in Mains
  /\ CheckedFirst => \A q \in Procs : At(q, "idle")
  /\ Begin(p, [Idle EXCEPT !.pc = "fix", !.at = h, !.via = h,
                 !.todo = {<<u, registry[h][u]>> : u \in {v \in Uids : registry[h][v] # None}}])
  /\ UNCHANGED <<repo, main, lock>>

FixOne(p, u, d) ==
  /\ At(p, "fix")
  /\ <<u, d>> \in cmd[p].todo
  /\ \A other \in cmd[p].todo : u <= other[1]
  /\ pin' = IF d \in there /\ pin[d] # NoPin THEN [pin EXCEPT ![d].uid = u] ELSE pin
  /\ ptr' = IF d \in there /\ ptr[d] # None THEN [ptr EXCEPT ![d] = cmd[p].via] ELSE ptr
  /\ cmd' = IF cmd[p].todo = {<<u, d>>} THEN [cmd EXCEPT ![p] = Idle]
                                       ELSE [cmd EXCEPT ![p].todo = @ \ {<<u, d>>}]
  /\ UNCHANGED <<there, main, lock, left>>

-----------------------------------------------------------------------------
(* The user and the machine.                                               *)

Change(kind) ==
  /\ kind \in Changes
  /\ left.changes > 0
  /\ CheckedFirst => NoRepair
  /\ left' = [left EXCEPT !.changes = @ - 1, !.forked = @ \/ kind = "copymain"]

Duplicate(from, to) ==
  /\ pin' = [pin EXCEPT ![to] = pin[from]]
  /\ ptr' = [ptr EXCEPT ![to] = ptr[from]]

Move(d, e) ==
  /\ Change("move")
  /\ d \in there /\ e \notin there /\ Undisturbed(d)
  /\ CheckedFirst => Vacated(e) /\ EntriesOf(e) = {}
  /\ there' = (there \ {d}) \union {e}
  /\ pin' = [pin EXCEPT ![e] = pin[d], ![d] = NoPin]
  /\ ptr' = [ptr EXCEPT ![e] = ptr[d], ![d] = None]
  /\ UNCHANGED <<main, lock, cmd>>

Copy(d, e) ==
  /\ Change("copy")
  /\ d \in there /\ e \notin there /\ Undisturbed(d)
  /\ CheckedFirst => Vacated(e) /\ EntriesOf(e) = {}
  /\ there' = there \union {e}
  /\ Duplicate(d, e)
  /\ UNCHANGED <<main, lock, cmd>>

Delete(d) ==
  /\ Change("delete")
  /\ d \in there /\ Undisturbed(d)
  /\ there' = there \ {d}
  /\ pin' = [pin EXCEPT ![d] = NoPin]
  /\ ptr' = [ptr EXCEPT ![d] = None]
  /\ UNCHANGED <<main, lock, cmd>>

Create(d) ==
  /\ Change("create")
  /\ d \notin there
  /\ CheckedFirst => Vacated(d) /\ \A e \in there : pin[e].uid \notin EntriesOf(d)
  /\ there' = there \union {d}
  /\ UNCHANGED <<pin, ptr, main, lock, cmd>>

CopyMain(h, k) ==
  /\ Change("copymain")
  /\ h \in there /\ k \notin there /\ Undisturbed(h)
  /\ there' = there \union {k}
  /\ Duplicate(h, k)
  /\ registry' = [registry EXCEPT ![k] = registry[h]]
  /\ next' = [next EXCEPT ![k] = next[h]]
  /\ kept' = [kept EXCEPT ![k] = kept[h]]
  /\ UNCHANGED <<lock, cmd>>

Kill(p) ==
  /\ cmd[p].pc \in Kills
  /\ lock' = [h \in Homes |-> IF lock[h] = p THEN None ELSE lock[h]]
  /\ Exit(p)
  /\ UNCHANGED <<repo, main, left>>

-----------------------------------------------------------------------------
Proceed(p) ==
  \/ Check(p) \/ Refresh(p) \/ Classify(p) \/ CopyPin(p) \/ MovePin(p) \/ SaveEntry(p)
  \/ MainPin(p) \/ MainPtr(p) \/ MainEntry(p)
  \/ Cascade(p) \/ CascadeEnds(p) \/ \E d \in Places : Rewrite(p, d)
  \/ Register(p) \/ StateDir(p) \/ InstallPtr(p) \/ InstallPin(p)
  \/ LookUp(p) \/ RemovePins(p) \/ Unregister(p) \/ RemoveData(p)
  \/ \E u \in Uids, d \in Places : FixOne(p, u, d)

Starts(p) ==
  \/ \E d \in Places : Session(p, d) \/ ResolveStateDir(p, d)
  \/ \E d \in Places, h \in Homes : Install(p, d, h) \/ Uninstall(p, d, h)
  \/ \E h \in Homes : CascadeCommand(p, h) \/ FixPins(p, h)

UserChanges ==
  \/ \E d, e \in Repos : Move(d, e) \/ Copy(d, e)
  \/ \E d \in Places : Delete(d)
  \/ \E d \in Repos : Create(d)
  \/ \E h, k \in Homes : CopyMain(h, k)

Next == (\E p \in Procs : Starts(p) \/ Proceed(p) \/ Kill(p)) \/ UserChanges

Spec == Init /\ [][Next]_vars

\* Commands that run go on; sessions are opened in every checkout again and again.
FairSpec ==
  /\ Spec
  /\ \A p \in Procs : WF_vars(Proceed(p))
  /\ \A d \in Places : SF_vars(\E p \in Procs : Session(p, d))

-----------------------------------------------------------------------------
(* Properties.                                                             *)

\* Every variable has its type, and a held lock has a holder at work in it.
TypeOK ==
  /\ there \subseteq Places
  /\ pin \in [Places -> [uid : 0..MaxUid, path : Places \union {None}]]
  /\ ptr \in [Places -> Homes \union Repos \union {None}]
  /\ registry \in [Homes -> [Uids -> Places \union {None}]]
  /\ next \in [Homes -> 0..MaxUid]
  /\ kept \in [Homes -> SUBSET Uids]
  /\ \A h \in Homes : lock[h] = None \/ (lock[h] \in Procs /\ cmd[lock[h]].via = h)
  /\ \A p \in Procs : cmd[p].pc \in Pcs \union {"idle"} /\ cmd[p].uid \in 0..MaxUid

\* A directory whose self-pointer is its own and no command is at work on it.
Settled(d) == d \in there /\ Undisturbed(d) /\ pin[d].uid # 0 /\ pin[d].path = d

\* Two directories never work under one registered uid: whatever is moved,
\* copied, installed and killed, the entry of a settled directory's uid names
\* that directory or is gone (core/drift.py, "never reuses the original uid for
\* two directories").
OneDirectoryPerUid ==
  ~left.forked => \A d \in there \cap Repos : Settled(d) /\ ptr[d] \in Mains => registry[ptr[d]][pin[d].uid] \in {None, d}

\* A directory has one entry, so one state directory: classifying a copy is
\* atomic under the registry's lock (core/drift.py).
OneUidPerDirectory ==
  \A h \in Homes, d \in Repos : Cardinality(EntriesAt(registry[h], d)) <= 1

\* "New UIDs only ever increase, so they never collide with existing or
\* historical entries" (allocate_next_id): no uid in use is ahead of the counter.
NoUidAhead ==
  ~left.forked =>
    /\ \A h \in Mains, u \in Uids : registry[h][u] # None \/ u \in kept[h] => u <= next[h]
    /\ \A d \in there : ptr[d] \in Mains => pin[d].uid <= next[ptr[d]]

\* Where the main checkout was moved, the repositories find it again: its drift
\* handler "cascade-fixes every other bootstrapped repo's main-apiary-pointer.json
\* to the new location" (core/drift.py), when a session opens in it.
MovedMainFound ==
  \A d \in Repos : d \in there /\ pin[d].path = d /\ Mains # {} ~> ptr[d] \in Mains \/ d \notin there \/ Mains = {}
=============================================================================
