------------------------------ MODULE RepoFiles ------------------------------
(***************************************************************************)
(* What apiary keeps inside one bootstrapped repository: its entries in    *)
(* settings.json, its slash commands, its zone in CLAUDE.md and the        *)
(* version the repository is pinned to, written by `apiary install`, taken *)
(* out by `apiary uninstall` and brought forward by `apiary update`        *)
(* (core/install.py, core/hooks_lib.py, core/context_rules.py,             *)
(* core/apiary_profiles.py, core/uninstall.py, core/update.py).  The user  *)
(* edits the same files, and a command may be killed between two writes.   *)
(***************************************************************************)
EXTENDS Integers, FiniteSets, Sequences, SequencesExt

CONSTANTS
    Values,       \* entries of the lists in settings.json, say permissions
    Names,        \* of slash commands
    Ships,        \* each release: the layers of its profile and its commands
    Migrations,   \* the releases a migration leads to, from the one before
    MaxCommands, MaxEdits

Releases == 1..Len(Ships)
Nothing == 0
Edited == Len(Ships) + 1   \* the content of a file the user wrote or edited
Broken == Len(Ships) + 1   \* a zone whose sentinels do not match

VARIABLES
    release,  \* VERSION of main-apiary
    values,   \* in the lists of settings.json
    hooks,    \* hook entries in it, by owner
    commands, \* .claude/commands: the release each file is from
    zone,     \* the release the zone in CLAUDE.md is from
    precommit, \* .git/hooks/pre-commit: absent, ours or foreign
    pin,      \* version.json
    entry,    \* version in the registry entry
    record,   \* bootstrap_state.json: what the last install contributed
    job,      \* the command at work, and the record it has read
    ran,      \* migrations run on the repository, in order       (history)
    mine,     \* values and commands the user wrote                (history)
    lost,     \* values and commands in no record any more, and the
              \* version an update did not find                   (history)
    settled,  \* the last thing that happened is an install        (history)
    left      \* commands and edits left

files == <<values, hooks, commands, zone, precommit, pin>>
history == <<ran, mine, lost>>
rest == <<history, settled, left>>
vars == <<release, files, entry, record, job, rest>>

NoRecord == [values |-> {}, commands |-> [n \in Names |-> Nothing]]
Idle == [at |-> "idle", record |-> NoRecord, todo |-> <<>>]
(* deep_merge along `extends`: lists are joined, unless "$replace".        *)
Merged(base, layer) == IF layer.replace THEN layer.values ELSE base \cup layer.values
Resolved(layers) == FoldLeft(Merged, {}, layers)
Sources == Ships[release].commands
Shipped == [values |-> Resolved(Ships[release].layers), commands |-> Sources]
At(where) == job.at = where
Goto(to) == job' = [job EXCEPT !.at = to]

(* Values and commands are told apart; a profile is made of values.        *)
RepoFilesAssumption ==
    /\ Len(Ships) \in Nat \ {0}
    /\ Values \cap Names = {} /\ {"pre-commit", "version"} \cap (Values \cup Names) = {}
    /\ \A r \in Releases : Resolved(Ships[r].layers) \subseteq Values /\ Ships[r].commands \subseteq Names

Init ==
    /\ release = 1
    /\ values = {} /\ hooks = {} /\ commands = [n \in Names |-> Nothing]
    /\ zone = Nothing /\ precommit = "absent" /\ pin = Nothing /\ entry = Nothing
    /\ record = NoRecord /\ job = Idle
    /\ ran = <<>> /\ mine = {} /\ lost = {} /\ settled = FALSE
    /\ left = [commands |-> MaxCommands, edits |-> MaxEdits]

Begin(to) ==
    /\ At("idle") /\ left.commands > 0
    /\ left' = [left EXCEPT !.commands = @ - 1]
    /\ settled' = FALSE

-----------------------------------------------------------------------------
(* apiary install.                                                         *)

(* _register_or_update, the record of the last install, the pin files.     *)
InstallPins ==
    /\ Begin("hooks")
    /\ job' = [Idle EXCEPT !.at = "hooks", !.record = record]
    /\ entry' = release /\ pin' = release
    /\ UNCHANGED <<release, values, hooks, commands, zone, precommit, record, history>>

(* What an install owns: the marked entries and those of older installers. *)
Apiarys == {"ours", "legacy"}

RegisterHooks ==
    /\ At("hooks") /\ Goto("profile")
    /\ hooks' = (hooks \ Apiarys) \cup {"ours"}
    /\ UNCHANGED <<release, values, commands, zone, precommit, pin, entry, record, rest>>

(* The profile is merged into the user's lists, what it shipped last time  *)
(* and no longer does is pruned.                                           *)
(* Mutant: everything it does not ship goes.                               *)
PrunedToTheProfile(old) == values \cap Shipped.values

Pruned(old) == values \ (old \ Shipped.values)

ApplyProfile ==
    /\ At("profile") /\ Goto("commands")
    /\ values' = Pruned(job.record.values) \cup Shipped.values
    /\ UNCHANGED <<release, hooks, commands, zone, precommit, pin, entry, record, rest>>

(* A command that is no longer shipped goes unless it was edited.          *)
Stale(n) ==
    /\ n \notin Shipped.commands /\ job.record.commands[n] # Nothing
    /\ commands[n] = job.record.commands[n]

CopyCommands ==
    /\ At("commands") /\ Goto("zone")
    /\ commands' = [n \in Names |-> IF n \in Shipped.commands THEN release
                                    ELSE IF Stale(n) THEN Nothing ELSE commands[n]]
    /\ UNCHANGED <<release, values, hooks, zone, precommit, pin, entry, record, rest>>

(* What an install that stops has put there beyond the record of the last. *)
Unrecorded ==
    (IF job.at \in {"hooks", "profile"} THEN {} ELSE Shipped.values \ record.values)
      \cup (IF job.at \in {"hooks", "profile", "commands"} THEN {}
            ELSE {n \in Shipped.commands : record.commands[n] # release})

(* Whether the sentinels in CLAUDE.md make up a zone, or there are none.   *)
ZoneSound == zone # Broken

(* InstallError: the rest of the install does not happen.                  *)
ZoneRefused ==
    /\ At("zone") /\ ~ZoneSound
    /\ job' = Idle /\ lost' = lost \cup Unrecorded
    /\ UNCHANGED <<release, files, entry, record, ran, mine, settled, left>>

WriteZone ==
    /\ At("zone") /\ ZoneSound /\ Goto("precommit")
    /\ zone' = release
    /\ UNCHANGED <<release, values, hooks, commands, precommit, pin, entry, record, rest>>

(* A hook that is not apiary's is left alone, the install goes on.         *)
Foreign == precommit = "foreign"

InstallPreCommit ==
    /\ At("precommit") /\ Goto("record")
    /\ precommit' = IF Foreign THEN precommit ELSE "ours"
    /\ UNCHANGED <<release, values, hooks, commands, zone, pin, entry, record, rest>>

WriteRecord ==
    /\ At("record") /\ job' = Idle
    /\ record' = [values |-> Shipped.values,
                  commands |-> [n \in Names |->
                                  IF n \in Shipped.commands THEN release ELSE Nothing]]
    /\ settled' = TRUE
    /\ UNCHANGED <<release, files, entry, history, left>>

-----------------------------------------------------------------------------
(* apiary uninstall: files first, registry last.                           *)

(* Mutant: the registry entry goes with the pin files.                     *)
RemovePinsAndEntry ==
    /\ entry # Nothing /\ Begin("out")
    /\ job' = [Idle EXCEPT !.at = "out_commands", !.record = record]
    /\ pin' = Nothing /\ entry' = Nothing
    /\ UNCHANGED <<release, values, hooks, commands, zone, precommit, record, history>>

RemovePins ==
    /\ entry # Nothing /\ Begin("out")
    /\ job' = [Idle EXCEPT !.at = "out_commands", !.record = record]
    /\ pin' = Nothing
    /\ UNCHANGED <<release, values, hooks, commands, zone, precommit, entry, record, history>>

(* By the names in the record; without one, by the names now shipped.      *)
Removed ==
    LET named == {n \in Names : job.record.commands[n] # Nothing}
    IN  IF named = {} THEN Shipped.commands ELSE named

RemoveCommands ==
    /\ At("out_commands") /\ Goto("out_hooks")
    /\ commands' = [n \in Names |-> IF n \in Removed THEN Nothing ELSE commands[n]]
    /\ mine' = mine \ Removed
    /\ UNCHANGED <<release, values, hooks, zone, precommit, pin, entry, record, ran, lost, settled, left>>

RemoveHooks ==
    /\ At("out_hooks") /\ Goto("out_zone")
    /\ hooks' = hooks \ Apiarys
    /\ UNCHANGED <<release, values, commands, zone, precommit, pin, entry, record, rest>>

(* A broken zone is left alone.                                            *)
StripZone ==
    /\ At("out_zone") /\ Goto("out_entry")
    /\ zone' = IF ZoneSound THEN Nothing ELSE zone
    /\ UNCHANGED <<release, values, hooks, commands, precommit, pin, entry, record, rest>>

(* A later install gets another uid, so another state directory: what the  *)
(* profile contributed stays in settings.json and in no record.            *)
Unregister ==
    /\ At("out_entry") /\ job' = Idle
    /\ entry' = Nothing /\ record' = NoRecord
    /\ lost' = lost \cup record.values
    /\ UNCHANGED <<release, files, ran, mine, settled, left>>

-----------------------------------------------------------------------------
(* apiary update.                                                          *)

(* plan_chain: from where the repository is, hop by hop, none beyond.      *)
Chain(from) ==
    LET stop == {v \in from + 1..release : v \notin Migrations}
        last == IF stop = {} THEN release ELSE (CHOOSE v \in stop : \A w \in stop : v <= w) - 1
    IN  [i \in 1..last - from |-> from + i]

RepoVersion == IF pin # Nothing THEN pin ELSE entry

(* The registry's version stands in for a lost version.json.               *)
Update ==
    /\ entry # Nothing /\ RepoVersion < release /\ Begin("migrate")
    /\ job' = [Idle EXCEPT !.at = "migrate", !.todo = Chain(RepoVersion)]
    /\ lost' = IF pin = Nothing THEN lost \cup {"version"} ELSE lost
    /\ UNCHANGED <<release, files, entry, record, ran, mine>>

Migrate ==
    /\ At("migrate") /\ job.todo # <<>> /\ Goto("pin")
    /\ ran' = Append(ran, Head(job.todo))
    /\ UNCHANGED <<release, files, entry, record, mine, lost, settled, left>>

(* upgrade() raises: the chain of this repository ends.                    *)
MigrationFails ==
    /\ At("migrate") /\ job.todo # <<>> /\ job' = Idle
    /\ UNCHANGED <<release, files, entry, record, rest>>

(* Mutant: the pin moves once, when the chain is through.                  *)
PinWhenThrough ==
    /\ At("pin")
    /\ IF Len(job.todo) = 1
       THEN Goto("entry") /\ pin' = Head(job.todo)
       ELSE job' = [job EXCEPT !.at = "migrate", !.todo = Tail(@)] /\ UNCHANGED pin
    /\ UNCHANGED <<release, values, hooks, commands, zone, precommit, entry, record, rest>>

(* _write_pin: version.json after each step, then the registry entry.      *)
Pin ==
    /\ At("pin") /\ Goto("entry")
    /\ pin' = Head(job.todo)
    /\ UNCHANGED <<release, values, hooks, commands, zone, precommit, entry, record, rest>>

PinEntry ==
    /\ At("entry")
    /\ job' = [job EXCEPT !.at = "migrate", !.todo = SubSeq(@, 2, Len(@))]
    /\ entry' = IF entry = Nothing THEN entry ELSE pin
    /\ UNCHANGED <<release, files, record, rest>>

(* The releases without a migration are skipped over.                      *)
PinRelease ==
    /\ At("migrate") /\ job.todo = <<>> /\ pin # release /\ Goto("entry")
    /\ pin' = release
    /\ UNCHANGED <<release, values, hooks, commands, zone, precommit, entry, record, rest>>

Updated ==
    /\ At("migrate") /\ job.todo = <<>> /\ pin = release /\ job' = Idle
    /\ UNCHANGED <<release, files, entry, record, rest>>

-----------------------------------------------------------------------------
(* The user and main-apiary; a kill.                                       *)

Edit == left.edits > 0 /\ left' = [left EXCEPT !.edits = @ - 1] /\ settled' = FALSE

UserAddsValue ==
    /\ Edit
    /\ \E x \in Values \ values : values' = values \cup {x} /\ mine' = mine \cup {x}
    /\ UNCHANGED <<release, hooks, commands, zone, precommit, pin, entry, record, job, ran, lost>>

UserAddsHook ==
    /\ Edit /\ \E h \in {"user", "legacy"} \ hooks : hooks' = hooks \cup {h}
    /\ UNCHANGED <<release, values, commands, zone, precommit, pin, entry, record, job, history>>

UserWritesCommand ==
    /\ Edit
    /\ \E n \in Names : /\ commands' = [commands EXCEPT ![n] = Edited]
                        /\ mine' = mine \cup {n}
    /\ UNCHANGED <<release, values, hooks, zone, precommit, pin, entry, record, job, ran, lost>>

UserWritesPreCommit ==
    /\ Edit /\ ~Foreign /\ precommit' = "foreign"
    /\ mine' = mine \cup {"pre-commit"}
    /\ UNCHANGED <<release, values, hooks, commands, zone, pin, entry, record, job, ran, lost>>

UserBreaksZone ==
    /\ Edit /\ zone \in Releases /\ zone' = Broken
    /\ UNCHANGED <<release, values, hooks, commands, precommit, pin, entry, record, job, history>>

UserRepairsZone ==
    /\ Edit /\ zone = Broken /\ zone' = Nothing
    /\ UNCHANGED <<release, values, hooks, commands, precommit, pin, entry, record, job, history>>

Release ==
    /\ At("idle") /\ release < Len(Ships) /\ release' = release + 1 /\ settled' = FALSE
    /\ UNCHANGED <<files, entry, record, job, history, left>>

Kill ==
    /\ ~At("idle") /\ job' = Idle
    /\ lost' = IF job.at \in {"hooks", "profile", "commands", "zone", "precommit", "record"}
               THEN lost \cup Unrecorded ELSE lost
    /\ UNCHANGED <<release, files, entry, record, ran, mine, settled, left>>

Install ==
    InstallPins \/ RegisterHooks \/ ApplyProfile \/ CopyCommands \/ ZoneRefused \/ WriteZone
      \/ InstallPreCommit \/ WriteRecord
Uninstall == RemovePins \/ RemoveCommands \/ RemoveHooks \/ StripZone \/ Unregister
Updates == Update \/ Migrate \/ MigrationFails \/ Pin \/ PinEntry \/ PinRelease \/ Updated
User == UserAddsValue \/ UserAddsHook \/ UserWritesCommand \/ UserWritesPreCommit \/ UserBreaksZone \/ UserRepairsZone

Next == Install \/ Uninstall \/ Updates \/ User \/ Release \/ Kill

Spec == Init /\ [][Next]_vars

-----------------------------------------------------------------------------
(* Properties.                                                             *)

EverShipped == UNION {Resolved(Ships[r].layers) \cup Ships[r].commands : r \in Releases}

(* What the user wrote is still there, whatever installs, updates and      *)
(* uninstalls ran, stopped half-way or were killed; and after an install   *)
(* nothing is left of earlier releases but what no record mentions: a      *)
(* killed install's additions, and the profile of an uninstalled repo.     *)
InstallSettles ==
    /\ (mine \cap Values) \ EverShipped \subseteq values
    /\ \A n \in (mine \cap Names) \ EverShipped : commands[n] = Edited
    /\ "pre-commit" \in mine => precommit = "foreign"
    /\ settled =>
         /\ values \subseteq Shipped.values \cup mine \cup lost
         /\ \A n \in Names : commands[n] \in {Nothing, release, Edited} \/ n \in lost

(* Files first, registry last: a repository the registry does not know has *)
(* no hook, no pin and no command of apiary's, also after kills, retries   *)
(* and a half-done install.                                                *)
UnregisteredMeansClean ==
    entry = Nothing =>
        /\ pin = Nothing /\ "ours" \notin hooks
        /\ \A n \in Names : commands[n] \in {Nothing, Edited} \/ n \in lost
        /\ zone \in {Nothing, Broken}

(* Migrations run in order: after a kill, a failure or a lost registry     *)
(* write at most the one that was in flight runs again.  Excepted is a     *)
(* repository that an uninstall stopped half-way has left without its      *)
(* version: the registry's can be behind by any number of lost writes.     *)
MigrationsInOrder ==
    "version" \notin lost => \A i, j \in DOMAIN ran : i < j => ran[i] <= ran[j]

(* README.md of migrations and update.py: a pin stands for the migrations  *)
(* up to it.  An install moves the pin and runs none.                      *)
PinMeansMigrated ==
    At("idle") => \A v \in Migrations : v \in 2..pin => v \in Range(ran)

TypeOK ==
    /\ release \in Releases /\ values \subseteq Values /\ hooks \subseteq {"ours", "user", "legacy"}
    /\ commands \in [Names -> 0..Edited] /\ zone \in 0..Broken
    /\ precommit \in {"absent", "ours", "foreign"} /\ pin \in 0..release /\ entry \in 0..release
=============================================================================
