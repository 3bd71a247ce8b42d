----------------------------- MODULE Repositories -----------------------------
(* A main checkout's registry of repositories (RepoRegistry) and what an   *)
(* install keeps in each of them (RepoFiles).  The second is of one        *)
(* registered repository and shares no state with the first, so that a     *)
(* behaviour is of the one or of the other.                                *)
EXTENDS RepoRegistry

CONSTANTS Ships, Values, Names, Migrations, MaxFileCommands, MaxEdits

VARIABLES
    half, \* whose behaviour it is
    fRelease, fValues, fHooks, fCommands, fZone, fPreCommit, fPin, fEntry, fRecord, fJob, fRan,
    fMine, fLost, fSettled, fLeft

fileVars == <<fRelease, fValues, fHooks, fCommands, fZone, fPreCommit, fPin, fEntry, fRecord,
              fJob, fRan, fMine, fLost, fSettled, fLeft>>

Files == INSTANCE RepoFiles WITH
    MaxCommands <- MaxFileCommands,
    release <- fRelease, values <- fValues, hooks <- fHooks, commands <- fCommands,
    zone <- fZone, precommit <- fPreCommit, pin <- fPin, entry <- fEntry, record <- fRecord,
    job <- fJob, ran <- fRan, mine <- fMine, lost <- fLost, settled <- fSettled, left <- fLeft

ASSUME RepositoriesAssumption == Files!RepoFilesAssumption

ReposInit == half \in {"registry", "files"} /\ Init /\ Files!Init

ReposNext ==
    \/ half = "registry" /\ Next /\ UNCHANGED <<half, fileVars>>
    \/ half = "files" /\ Files!Install /\ UNCHANGED <<half, vars>>
    \/ half = "files" /\ Files!Uninstall /\ UNCHANGED <<half, vars>>
    \/ half = "files" /\ Files!Updates /\ UNCHANGED <<half, vars>>
    \/ half = "files" /\ Files!User /\ UNCHANGED <<half, vars>>
    \/ half = "files" /\ Files!Release /\ UNCHANGED <<half, vars>>
    \/ half = "files" /\ Files!Kill /\ UNCHANGED <<half, vars>>

ReposSpec == ReposInit /\ [][ReposNext]_<<half, vars, fileVars>>

(* An install keeps what the user wrote and leaves nothing of an earlier   *)
(* release but what no record mentions (install.py).                       *)
InstallSettles == Files!InstallSettles

(* A repository the registry does not know has no hook, pin or command of  *)
(* apiary's in it: uninstall goes files first, registry last               *)
(* (uninstall.py).                                                         *)
UnregisteredMeansClean == Files!UnregisteredMeansClean

(* Migrations run in order, the one in flight at a kill at most again      *)
(* (update.py).                                                            *)
MigrationsInOrder == Files!MigrationsInOrder
=============================================================================
