------------------------------ MODULE CoreProofs ------------------------------
(***************************************************************************)
(* What the core keeps, whatever the number of repositories, commands,     *)
(* uids, releases, prompts, tools and mishaps: one uid never stands for    *)
(* two working directories, installs and uninstalls leave nothing behind   *)
(* and nothing of the user's out, migrations run in order, a condemned     *)
(* call does not run, what is recorded as told was told or is accounted    *)
(* for, and the rules reach the model.  First the registry, with the       *)
(* invariant it needs, then the files of a repository, the chains of a     *)
(* session's hooks, and the flag files they keep.                          *)
(***************************************************************************)
EXTENDS Repositories, Sessions, Sequences, WellFoundedInduction, TLAPS

-----------------------------------------------------------------------------
(* The registry.                                                           *)

(* What the file's comments ask for: a check has been wherever a command   *)
(* runs, and no check is killed between its two writes.                    *)
Orderly == CheckedFirst /\ Kills \intersect {"csave", "msave"} = {}

Site == Places \union {None}
PinType == [uid : 0..MaxUid, path : Site]
CmdType == [pc : Pcs \union {"idle"}, at : Site, via : Site, uid : 0..MaxUid, pin : PinType,
            todo : SUBSET (Places \union (Uids \X Site))]

LeftType == [commands : Nat, changes : Nat, forked : BOOLEAN]

(* There is one main checkout, h.                                          *)
Typed(h) ==
  /\ there \subseteq Repos \union {h}
  /\ pin \in [Places -> PinType]
  /\ ptr \in [Places -> {h, None}]
  /\ registry \in [Homes -> [Uids -> Site]]
  /\ next \in [Homes -> 0..MaxUid]
  /\ lock \in [Homes -> Procs \union {None}]
  /\ cmd \in [Procs -> CmdType]

(* The main checkout has uid 1, and nothing else has.                      *)
MainStays(h) ==
  /\ h \in there => pin[h] = [uid |-> MainUid, path |-> h] /\ ptr[h] = h
  /\ registry[h][MainUid] = h
  /\ \A u \in Uids : registry[h][u] = h => u = MainUid

Pinned ==
  /\ \A x \in Places \ there : pin[x] = NoPin
  /\ \A x \in there \intersect Repos :
       pin[x] = NoPin \/ (pin[x].uid \in Uids \ {MainUid} /\ pin[x].path \in Repos)

(* No uid in use is ahead of the counter.                                  *)
Counted(h) ==
  /\ \A u \in Uids : registry[h][u] # None => u <= next[h]
  /\ \A x \in there : pin[x].uid <= next[h]
  /\ \A p \in Procs : cmd[p].uid <= next[h]
  /\ next[h] >= 1

-----------------------------------------------------------------------------
(* What each command knows while it works.                                 *)

Settling == {"cpin", "csave", "mpin", "msave"}
Locking == Settling \union {"rewrite"}
Reading == {"refresh", "classify", "cpin", "mpin", "register", "lookup", "unpin"}
Leaving == {"lookup", "unpin", "unreg", "undata"}
Entering == {"statedir", "iptr", "ipin"}
Busy(p) == cmd[p].pc # "idle"

(* Where it works, through which main checkout, under whose lock.          *)
Placed(h, p) ==
  /\ cmd[p].pc \notin {"mainpin", "mainptr", "mainentry"}
  /\ Busy(p) => cmd[p].at \in there
  /\ cmd[p].pc \notin {"idle", "check"} => cmd[p].via = h
  /\ cmd[p].pc \in Locking => lock[h] = p
  /\ cmd[p].pc \in {"classify"} \union Settling \union Leaving => cmd[p].at \in Repos

(* The self-pointer is the one it read, or the one it wrote.               *)
PinRead(p) ==
  LET mine == pin[cmd[p].at] IN
  /\ cmd[p].pc \in Reading => cmd[p].pin = mine
  /\ cmd[p].pc \in {"register", "lookup", "unpin"} => mine.path \in {cmd[p].at, None}
  /\ cmd[p].pc \in {"classify", "cpin", "mpin"} => mine # NoPin
  /\ cmd[p].pc = "mpin" => mine.uid = cmd[p].uid
  /\ cmd[p].pc \in {"csave", "msave"} => mine = [uid |-> cmd[p].uid, path |-> cmd[p].at]
  /\ cmd[p].pc = "unreg" => mine = NoPin

(* No other directory has its uid.                                         *)
PinsApart(p) ==
  /\ cmd[p].pc \in {"cpin", "csave"} =>
       \A e \in there : pin[e].uid = cmd[p].uid => cmd[p].pc = "csave" /\ e = cmd[p].at
  /\ cmd[p].pc \in {"lookup", "unpin"} /\ pin[cmd[p].at] # NoPin => NoCopy(cmd[p].at)

(* The registry's entry is the one it found, or the one it wrote.          *)
Entered(h, p) ==
  LET entry == registry[h] IN
  /\ cmd[p].pc \in {"cpin", "csave"} =>
       /\ cmd[p].uid \in Uids \ {MainUid} /\ entry[cmd[p].uid] = None
       /\ EntriesAt(entry, cmd[p].at) = {}
  /\ cmd[p].pc \in {"mpin", "msave"} =>
       cmd[p].uid \in Uids /\ (entry[cmd[p].uid] = cmd[p].at \/ entry[cmd[p].uid] \notin there \union {None})
  /\ cmd[p].pc \in Entering \union {"unreg"} \/ (cmd[p].pc = "unpin" /\ cmd[p].uid # 0) =>
       cmd[p].uid \in Uids /\ entry[cmd[p].uid] = cmd[p].at

(* A repair works alone, on what is in the registry.                       *)
Repairing(h, p) ==
  cmd[p].pc = "fix" =>
    /\ \A q \in Procs \ {p} : ~Busy(q)
    /\ cmd[p].todo \subseteq {<<u, registry[h][u]>> : u \in Uids}

CommandSound(h, p) ==
  Placed(h, p) /\ PinRead(p) /\ PinsApart(p) /\ Entered(h, p) /\ Repairing(h, p)

(* No two commands work in one repository.                                 *)
Apart(h) ==
  \A p, q \in Procs : p # q /\ Busy(p) /\ Busy(q) /\ cmd[p].at = cmd[q].at => cmd[p].at = h

-----------------------------------------------------------------------------
(* What the self-pointers and the registry say of each other.              *)

OneEntry(h) ==
  \A u, v \in Uids : registry[h][u] = registry[h][v] /\ registry[h][u] \in Repos => u = v

Saving(x, pcs) == \E p \in Procs : cmd[p].pc \in pcs /\ cmd[p].at = x

(* A bootstrapped directory's uid is in the registry; a settled directory's *)
(* is there with its path; or the check at work is about to save it.       *)
Backed(h) ==
  \A x \in there \intersect Repos : pin[x] # NoPin =>
    /\ registry[h][pin[x].uid] # None \/ Saving(x, {"csave"})
    /\ pin[x].path = x => registry[h][pin[x].uid] = x \/ Saving(x, {"csave", "msave"})

(* A registered directory has the uid of its entry, or no self-pointer, and *)
(* then no other directory has that uid.                                   *)
EntrySound(h) ==
  \A x \in there \intersect Repos, u \in Uids : registry[h][u] = x =>
    /\ pin[x] = NoPin \/ pin[x].uid = u
    /\ \A y \in there \ {x} : pin[y].uid = u => pin[x].uid = u

Sound(h) ==
  /\ Typed(h) /\ MainStays(h) /\ Pinned /\ Counted(h)
  /\ \A p \in Procs : CommandSound(h, p)
  /\ Apart(h) /\ OneEntry(h) /\ Backed(h) /\ EntrySound(h)

RegistryInv == left.forked \/ \E h \in Homes : Sound(h)

-----------------------------------------------------------------------------
(* Steps of a command, and what they leave to the others.                  *)

(* What is in the types, in the form the steps use it.                     *)
LEMMA Kinds ==
  ASSUME NEW h \in Homes, Sound(h), NEW p \in Procs
  PROVE  /\ Repos \intersect Homes = {} /\ h \notin Repos /\ h \in Places
         /\ None \notin Places /\ None \notin Procs /\ MaxUid \in Nat
         /\ there \subseteq Places /\ there \subseteq Repos \union {h}
         /\ MainUid \in Uids /\ Uids \subseteq Nat /\ Uids \subseteq 0..MaxUid
         /\ cmd \in [Procs -> CmdType] /\ cmd[p] \in CmdType
         /\ cmd[p].pc \in Pcs \union {"idle"} /\ cmd[p].uid \in 0..MaxUid
         /\ cmd[p].at \in Site /\ cmd[p].pin \in PinType
         /\ pin \in [Places -> PinType]
         /\ registry \in [Homes -> [Uids -> Site]] /\ registry[h] \in [Uids -> Site]
         /\ next[h] \in 0..MaxUid
         /\ CommandSound(h, p) /\ Placed(h, p) /\ PinRead(p) /\ PinsApart(p)
         /\ Entered(h, p) /\ Repairing(h, p)
<1>1. /\ Repos \intersect Homes = {} /\ h \notin Repos /\ h \in Places
      /\ None \notin Places /\ None \notin Procs /\ MaxUid \in Nat \ {0, 1}
  BY RegistryAssumption DEF Places
<1>2. MainUid \in Uids /\ Uids \subseteq Nat /\ Uids \subseteq 0..MaxUid
  BY <1>1 DEF MainUid, Uids
<1>3. Typed(h) /\ CommandSound(h, p)
  BY DEF Sound
<1>4. cmd[p] \in CmdType
  BY <1>3 DEF Typed
<1>5. /\ cmd[p].pc \in Pcs \union {"idle"} /\ cmd[p].uid \in 0..MaxUid
      /\ cmd[p].at \in Site /\ cmd[p].pin \in PinType
  BY <1>4 DEF CmdType
<1> QED BY <1>1, <1>2, <1>3, <1>4, <1>5 DEF Typed, CommandSound, Places

(* A step of p that leaves alone what q knows: it takes no lock another     *)
(* holds, and writes no self-pointer but d's and no entry but u's, which   *)
(* are not q's.                                                            *)
Spares(h, p, q, d, u) ==
  /\ there' = there /\ cmd'[q] = cmd[q] /\ cmd[q].pc # "fix"
  /\ lock'[h] = lock[h] \/ lock[h] \in {None, p}
  /\ Busy(q) => cmd[q].at # d \/ d = h
  /\ pin' = [pin EXCEPT ![d] = pin'[d]]
  /\ pin'[d] = pin[d] \/ d # h
  /\ cmd[q].pc \in {"cpin", "csave"} => pin'[d].uid # cmd[q].uid \/ pin'[d] = pin[d]
  /\ cmd[q].pc \in {"lookup", "unpin"} /\ pin[cmd[q].at] # NoPin =>
       pin'[d].uid # pin[cmd[q].at].uid \/ pin'[d] = pin[d]
  /\ registry'[h] = [registry[h] EXCEPT ![u] = registry'[h][u]]
  /\ \/ registry'[h][u] = registry[h][u]
     \/ d \in Repos /\ lock[h] \in {None, p} /\ registry[h][u] \notin there \ {d}

(* A step that spares q keeps what q knows.                                *)
LEMMA OthersKept ==
  ASSUME NEW h \in Homes, Sound(h), NEW p \in Procs, NEW q \in Procs \ {p},
         NEW d \in Places, NEW u \in Uids, Spares(h, p, q, d, u)
  PROVE  CommandSound(h, q)'
<1>1. /\ h \notin Repos /\ h \in Places /\ None \notin Places /\ None \notin Procs
      /\ there \subseteq Places /\ pin \in [Places -> PinType] /\ registry[h] \in [Uids -> Site]
      /\ Uids \subseteq Nat
      /\ Placed(h, q) /\ PinRead(q) /\ PinsApart(q) /\ Entered(h, q)
  BY Kinds
<1>2. Busy(q) => cmd[q].at \in there /\ cmd[q].at \in Places /\ pin'[cmd[q].at] = pin[cmd[q].at]
  BY <1>1 DEF Placed, Spares
<1>3. cmd[q].pc \in Locking => lock[h] = q /\ lock'[h] = q
  BY <1>1 DEF Placed, Spares
<1>4. cmd[q].pc \in Settling => registry'[h] = registry[h]
  BY <1>1, <1>3 DEF Locking, Spares
<1>5. ASSUME Busy(q), NEW v \in Uids, registry[h][v] = cmd[q].at
      PROVE  registry'[h][v] = cmd[q].at
  BY <1>1, <1>2, <1>5 DEF Spares
<1>6. Placed(h, q)'
  BY <1>1, <1>3 DEF Placed, Busy, Spares
<1>7. PinRead(q)'
  <2>1. ~Busy(q) => PinRead(q)'
    BY DEF PinRead, Busy, Reading, Spares
  <2> QED BY <1>1, <1>2, <2>1 DEF PinRead, Spares
<1>8. PinsApart(q)'
  <2>1. ASSUME cmd[q].pc \in {"cpin", "csave"}, NEW e \in there, pin'[e].uid = cmd[q].uid
        PROVE  cmd[q].pc = "csave" /\ e = cmd[q].at
    BY <1>1, <2>1 DEF PinsApart, Spares
  <2>2. ASSUME cmd[q].pc \in {"lookup", "unpin"}, pin'[cmd[q].at] # NoPin
        PROVE  NoCopy(cmd[q].at)'
    <3>1. Busy(q) /\ pin'[cmd[q].at] = pin[cmd[q].at] /\ NoCopy(cmd[q].at)
      BY <1>1, <1>2, <2>2 DEF Busy, PinsApart, Spares
    <3> QED BY <1>1, <2>2, <3>1 DEF NoCopy, Spares
  <2> QED BY <2>1, <2>2 DEF PinsApart, Spares
<1>9. Entered(h, q)'
  <2>1. CASE cmd[q].pc \in Settling
    BY <1>1, <1>4, <2>1 DEF Entered, EntriesAt, Settling, Entering, Spares
  <2>2. CASE cmd[q].pc \notin Settling
    <3>1. cmd[q].pc \in Entering \union {"unreg"} \/ (cmd[q].pc = "unpin" /\ cmd[q].uid # 0) =>
            cmd[q].uid \in Uids /\ registry'[h][cmd[q].uid] = cmd[q].at
      BY <1>1, <1>5 DEF Entered, Entering, Busy, Spares
    <3> QED BY <2>2, <3>1 DEF Entered, Settling, Spares
  <2> QED BY <2>1, <2>2
<1>10. Repairing(h, q)'
  BY DEF Repairing, Spares
<1> QED BY <1>6, <1>7, <1>8, <1>9, <1>10 DEF CommandSound

(* What a command may be told to do next: it stays where it is, or it       *)
(* begins where no other command runs, or in the main checkout.            *)
Keeps(h, p, c) ==
  /\ c \in CmdType /\ cmd' = [cmd EXCEPT ![p] = c]
  /\ c.uid <= next'[h]
  /\ c.pc # "idle" => c.at = h \/ (Busy(p) /\ c.at = cmd[p].at) \/ Alone(c.at)

(* A step of p that keeps its directory keeps the commands apart.          *)
LEMMA ApartKept ==
  ASSUME NEW h \in Homes, Sound(h), NEW p \in Procs, NEW c, Keeps(h, p, c)
  PROVE  Apart(h)'
<1>1. cmd \in [Procs -> CmdType] /\ Apart(h)
  BY Kinds DEF Sound
<1>2. \A q \in Procs : cmd'[q] = IF q = p THEN c ELSE cmd[q]
  BY <1>1 DEF Keeps
<1>3. ASSUME NEW q \in Procs \ {p}, Busy(q), c.pc # "idle", c.at = cmd[q].at
      PROVE  c.at = h
  BY <1>1, <1>3 DEF Keeps, Alone, Apart
<1> QED BY <1>1, <1>2, <1>3 DEF Apart, Busy

(* A step that writes no self-pointer and no entry.                        *)
LEMMA QuietStep ==
  ASSUME NEW h \in Homes, Sound(h), NEW p \in Procs, NEW c, Keeps(h, p, c),
         UNCHANGED <<there, pin, registry>>,
         ptr' \in [Places -> {h, None}], ptr'[h] = ptr[h],
         next' \in [Homes -> 0..MaxUid], next'[h] >= next[h],
         lock' \in [Homes -> Procs \union {None}],
         lock'[h] = lock[h] \/ lock[h] \in {None, p},
         cmd[p].pc \notin {"csave", "msave"},
         \A q \in Procs \ {p} : cmd[q].pc # "fix",
         Placed(h, p)', PinRead(p)', PinsApart(p)', Entered(h, p)', Repairing(h, p)'
  PROVE  Sound(h)'
<1>1. /\ Typed(h) /\ MainStays(h) /\ Pinned /\ Counted(h) /\ Apart(h)
      /\ OneEntry(h) /\ Backed(h) /\ EntrySound(h)
  BY DEF Sound
<1>2. /\ h \in Places /\ h \notin Repos /\ MainUid \in Uids /\ Uids \subseteq Nat /\ there \subseteq Places
      /\ pin \in [Places -> PinType] /\ registry[h] \in [Uids -> Site] /\ next[h] \in 0..MaxUid
      /\ MaxUid \in Nat
  BY Kinds
<1>3. cmd \in [Procs -> CmdType]
  BY <1>1 DEF Typed
<1>4. /\ cmd' \in [Procs -> CmdType] /\ cmd'[p] = c
      /\ \A q \in Procs \ {p} : cmd'[q] = cmd[q]
  BY <1>3 DEF Keeps
<1>5. Typed(h)'
  BY <1>1, <1>4 DEF Typed
<1>6. MainStays(h)'
  BY <1>1 DEF MainStays
<1>7. Pinned'
  BY <1>1 DEF Pinned
<1>8. Counted(h)'
  <2>1. next'[h] \in Nat /\ next[h] \in Nat /\ next'[h] >= next[h]
    BY <1>2
  <2>2. \A x \in there : pin[x].uid \in Nat
    BY <1>2 DEF PinType
  <2>3. \A q \in Procs : cmd[q].uid \in Nat /\ c.uid \in Nat
    BY <1>2, <1>3 DEF CmdType, Keeps
  <2>4. \A q \in Procs : cmd'[q].uid <= next'[h]
    BY <1>1, <1>4, <2>1, <2>3 DEF Counted, Keeps
  <2> QED BY <1>1, <1>2, <2>1, <2>2, <2>4 DEF Counted
<1>9. \A q \in Procs : CommandSound(h, q)'
  <2>1. CommandSound(h, p)'
    BY DEF CommandSound
  <2>2. ASSUME NEW q \in Procs \ {p} PROVE CommandSound(h, q)'
    <3>1. pin' = [pin EXCEPT ![h] = pin'[h]]
      BY <1>2
    <3>2. registry'[h] = [registry[h] EXCEPT ![MainUid] = registry'[h][MainUid]]
      BY <1>2
    <3>3. Spares(h, p, q, h, MainUid)
      BY <1>2, <1>4, <3>1, <3>2 DEF Spares
    <3> QED BY <1>2, <3>3, OthersKept
  <2> QED BY <2>1, <2>2
<1>10. Apart(h)'
  BY ApartKept
<1>11. OneEntry(h)'
  BY <1>1 DEF OneEntry
<1>12. Backed(h)'
  <2>1. ASSUME NEW x, NEW pcs \in {{"csave"}, {"csave", "msave"}}, Saving(x, pcs) PROVE Saving(x, pcs)'
    BY <1>4, <2>1 DEF Saving
  <2> QED BY <1>1, <2>1 DEF Backed
<1>13. EntrySound(h)'
  BY <1>1 DEF EntrySound
<1> QED BY <1>5, <1>6, <1>7, <1>8, <1>9, <1>10, <1>11, <1>12, <1>13 DEF Sound

(* While a command works no repair is at work.                             *)
LEMMA NoRepairElse ==
  ASSUME NEW h \in Homes, Sound(h), NEW p \in Procs, Busy(p) \/ NoRepair
  PROVE  \A q \in Procs \ {p} : cmd[q].pc # "fix"
<1>1. \A q \in Procs : Repairing(h, q)
  BY DEF Sound, CommandSound
<1> QED BY <1>1 DEF Repairing, NoRepair, At, Busy

(* The record of a command that does nothing.                              *)
LEMMA Idles ==
  NoPin \in PinType /\ Idle \in CmdType /\ Idle.pc = "idle" /\ Idle.uid = 0 /\ Idle.todo = {}
<1>1. NoPin \in PinType
  BY RegistryAssumption DEF NoPin, PinType, Site
<1> QED BY <1>1, RegistryAssumption DEF Idle, CmdType, Site, Pcs

(* A command that ends is sound.                                           *)
LEMMA IdleSound ==
  ASSUME NEW h \in Homes, NEW p \in Procs, cmd'[p] = Idle
  PROVE  Placed(h, p)' /\ PinRead(p)' /\ PinsApart(p)' /\ Entered(h, p)' /\ Repairing(h, p)'
BY DEF Idle, Placed, PinRead, PinsApart, Entered, Repairing, Busy, Locking, Settling, Leaving, Reading, Entering

(* A command that ends, with no save outstanding, leaves all else as it is. *)
LEMMA ExitStep ==
  ASSUME NEW h \in Homes, Sound(h), NEW p \in Procs, Exit(p), Busy(p),
         UNCHANGED <<there, pin, registry, next>>,
         ptr' \in [Places -> {h, None}], ptr'[h] = ptr[h],
         lock' \in [Homes -> Procs \union {None}],
         lock'[h] = lock[h] \/ lock[h] \in {None, p},
         cmd[p].pc \notin {"csave", "msave"}
  PROVE  Sound(h)'
<1>1. Typed(h) /\ next[h] \in Nat
  <2>1. MaxUid \in Nat /\ next[h] \in 0..MaxUid
    BY Kinds
  <2> QED BY <2>1 DEF Sound
<1>2. cmd'[p] = Idle /\ Keeps(h, p, Idle)
  BY <1>1, Idles DEF Exit, Keeps, Typed
<1>3. Placed(h, p)' /\ PinRead(p)' /\ PinsApart(p)' /\ Entered(h, p)' /\ Repairing(h, p)'
  BY <1>2, IdleSound
<1>4. next' \in [Homes -> 0..MaxUid] /\ next'[h] >= next[h]
  BY <1>1 DEF Typed
<1>5. \A q \in Procs \ {p} : cmd[q].pc # "fix"
  BY NoRepairElse
<1> QED BY <1>2, <1>3, <1>4, <1>5, QuietStep

(* The main checkout a repository's pointer names is h.                    *)
LEMMA TheMain ==
  ASSUME NEW h \in Homes, Sound(h), NEW d \in Places, ptr[d] \in Mains \/ VerifiedMain(ptr[d])
  PROVE  ptr[d] = h /\ h \in there
<1>1. Typed(h) /\ None \notin Places
  BY RegistryAssumption DEF Sound
<1> QED BY <1>1 DEF Typed, VerifiedMain, Mains, Places

(* The check reads the self-pointer and the pointer to the main checkout.  *)
LEMMA CheckStep ==
  ASSUME NEW h \in Homes, Sound(h), NEW p \in Procs, Check(p)
  PROVE  Sound(h)'
<1> DEFINE d == cmd[p].at
           c(pc) == [cmd[p] EXCEPT !.pc = pc, !.pin = pin[d], !.via = ptr[d]]
<1>1. /\ cmd[p].pc = "check" /\ Busy(p) /\ d \in there /\ d \in Places
      /\ UNCHANGED <<there, pin, ptr, registry, next, kept, lock, left>>
  BY Kinds DEF Check, At, Busy, Placed, repo, main
<1>2. Typed(h) /\ MainStays(h) /\ Pinned
  BY DEF Sound
<1>3. CASE Exit(p)
  BY <1>1, <1>2, <1>3, ExitStep DEF Typed
<1>4. ASSUME NEW pc \in {"refresh", "classify"}, cmd' = [cmd EXCEPT ![p] = c(pc)],
             ptr[d] = h, pin[d] # NoPin, pc = "classify" => d \in Repos
      PROVE  Sound(h)'
  <2>1. cmd \in [Procs -> CmdType] /\ cmd[p] \in CmdType /\ pin[d] \in PinType /\ ptr[d] \in Site
    BY <1>1, <1>2, Kinds DEF Typed, Site, Places
  <2>2. c(pc) \in CmdType /\ pc \in Pcs
    BY <2>1 DEF Pcs, CmdType
  <2>3. /\ cmd'[p] = c(pc) /\ c(pc).pc = pc /\ c(pc).at = d /\ c(pc).via = h /\ c(pc).pin = pin[d]
        /\ c(pc).uid = cmd[p].uid
    BY <1>4, <2>1 DEF CmdType
  <2> HIDE DEF c
  <2>4. Keeps(h, p, c(pc))
    BY <1>1, <1>4, <2>1, <2>2, <2>3 DEF Keeps, Sound, Counted
  <2>5. Placed(h, p)'
    BY <1>1, <1>4, <2>3 DEF Placed, Busy, Locking, Settling, Leaving
  <2>6. PinRead(p)'
    BY <1>1, <1>4, <2>3 DEF PinRead, Reading
  <2>7. PinsApart(p)' /\ Entered(h, p)' /\ Repairing(h, p)'
    BY <1>4, <2>3 DEF PinsApart, Entered, Repairing, Entering
  <2>8. \A q \in Procs \ {p} : cmd[q].pc # "fix"
    BY <1>1, NoRepairElse
  <2>9. next' \in [Homes -> 0..MaxUid] /\ next'[h] >= next[h]
    BY <1>1, <1>2 DEF Typed
  <2> QED BY <1>1, <1>2, <2>4, <2>5, <2>6, <2>7, <2>8, <2>9, QuietStep DEF Typed
<1>5. ~Exit(p) => /\ pin[d] # NoPin
                  /\ \/ pin[d].uid = MainUid /\ cmd' = [cmd EXCEPT ![p] = c(IF pin[d].path = d THEN "refresh" ELSE "mainpin")]
                     \/ /\ pin[d].uid # MainUid /\ VerifiedMain(ptr[d])
                        /\ cmd' = [cmd EXCEPT ![p] = c(IF pin[d].path = d THEN "refresh" ELSE "classify")]
  BY <1>1 DEF Check
<1>6. pin[d].uid = MainUid /\ pin[d] # NoPin => d = h /\ ptr[d] = h /\ pin[d].path = d
  BY <1>1, <1>2 DEF Typed, MainStays, Pinned
<1>7. VerifiedMain(ptr[d]) => ptr[d] = h
  BY <1>1, TheMain
<1>8. pin[d].uid # MainUid => d \in Repos
  BY <1>1, <1>2 DEF Typed, MainStays
<1> HIDE DEF c
<1> QED BY <1>3, <1>4, <1>5, <1>6, <1>7, <1>8

(* A refresh writes what is there already: no drift was seen.              *)
LEMMA RefreshStep ==
  ASSUME NEW h \in Homes, Sound(h), NEW p \in Procs, Refresh(p)
  PROVE  Sound(h)'
<1>1. /\ cmd[p].pc = "refresh" /\ Busy(p) /\ pin \in [Places -> PinType] /\ Typed(h)
      /\ cmd[p].pin = pin[cmd[p].at] /\ Exit(p)
      /\ UNCHANGED <<there, ptr, registry, next, kept, lock, left>>
  BY Kinds DEF Refresh, At, Busy, PinRead, Reading, main, Sound
<1>2. pin' = pin
  BY <1>1 DEF Refresh
<1> QED BY <1>1, <1>2, ExitStep DEF Typed

(* What a session takes for a copy or for a move, under the lock.          *)
LEMMA ClassifyStep ==
  ASSUME NEW h \in Homes, Sound(h), NEW p \in Procs, Classify(p)
  PROVE  Sound(h)'
<1> DEFINE d == cmd[p].at
           uid == pin[d].uid
           R == registry[h]
           c(pc, u) == [cmd[p] EXCEPT !.pc = pc, !.uid = u]
<1>1. /\ cmd[p].pc = "classify" /\ Busy(p) /\ d \in there /\ d \in Repos /\ cmd[p].via = h
      /\ cmd[p].pin = pin[d] /\ pin[d] # NoPin /\ lock[h] = None /\ lock' = [lock EXCEPT ![h] = p]
      /\ UNCHANGED <<there, pin, ptr, registry>>
  BY Kinds DEF Classify, At, Busy, Placed, PinRead, Reading, repo, Free, Take
<1>2. Typed(h) /\ MainStays(h) /\ Pinned /\ Counted(h) /\ EntrySound(h) /\ Backed(h)
  BY DEF Sound
<1>3. uid \in Uids \ {MainUid} /\ pin[d].path \in Repos
  BY <1>1, <1>2 DEF Pinned
<1>4. /\ Uids \subseteq Nat /\ Uids \subseteq 0..MaxUid /\ MaxUid \in Nat /\ h \notin Repos /\ next[h] \in 0..MaxUid
      /\ cmd \in [Procs -> CmdType] /\ cmd[p] \in CmdType /\ R \in [Uids -> Site] /\ pin \in [Places -> PinType]
      /\ there \subseteq Places /\ None \notin Procs /\ MainUid = 1 /\ None \notin Places
      /\ there \subseteq Repos \union {h}
  BY Kinds DEF MainUid
<1>5. \A x \in there : pin[x].uid \in Nat /\ pin[x].uid <= next[h]
  BY <1>2, <1>4 DEF PinType, Counted
<1>6. R[uid] # None
  <2>1. ~Saving(d, {"csave"})
    <3>1. \A q \in Procs : cmd[q].pc = "csave" => lock[h] = q
      BY DEF Sound, CommandSound, Placed, Locking, Settling
    <3> QED BY <1>1, <1>4, <3>1 DEF Saving
  <2> QED BY <1>1, <1>2, <2>1 DEF Backed
<1>7. ASSUME NEW pc \in {"cpin", "mpin"}, NEW u \in Uids, cmd' = [cmd EXCEPT ![p] = c(pc, u)],
             u <= next'[h], next' \in [Homes -> 0..MaxUid], next'[h] >= next[h],
             pc = "mpin" => u = uid /\ (R[uid] = d \/ R[uid] \notin there \union {None}),
             pc = "cpin" => /\ u # MainUid /\ R[u] = None /\ EntriesAt(R, d) = {}
                            /\ \A e \in there : pin[e].uid # u
      PROVE  Sound(h)'
  <2>1. c(pc, u) \in CmdType
    BY <1>4 DEF Pcs, CmdType
  <2>2. /\ cmd'[p] = c(pc, u) /\ c(pc, u).pc = pc /\ c(pc, u).at = d /\ c(pc, u).via = h
        /\ c(pc, u).pin = pin[d] /\ c(pc, u).uid = u
    BY <1>1, <1>4, <1>7 DEF CmdType
  <2> HIDE DEF c
  <2>3. Keeps(h, p, c(pc, u))
    BY <1>1, <1>7, <2>1, <2>2 DEF Keeps
  <2>4. Placed(h, p)'
    BY <1>1, <1>2, <1>7, <2>2 DEF Placed, Busy, Typed
  <2>5. PinRead(p)'
    BY <1>1, <1>7, <2>2 DEF PinRead, Reading
  <2>6. PinsApart(p)'
    BY <1>1, <1>7, <2>2 DEF PinsApart
  <2>7. Entered(h, p)' /\ Repairing(h, p)'
    BY <1>1, <1>7, <2>2 DEF Entered, Repairing, Entering
  <2>8. \A q \in Procs \ {p} : cmd[q].pc # "fix"
    BY <1>1, NoRepairElse
  <2>9. /\ ptr' \in [Places -> {h, None}] /\ ptr'[h] = ptr[h]
        /\ lock' \in [Homes -> Procs \union {None}] /\ lock[h] \in {None, p}
    BY <1>1, <1>2 DEF Typed
  <2>10. cmd[p].pc \notin {"csave", "msave"} /\ UNCHANGED <<there, pin, registry>>
    BY <1>1
  <2> QED BY <1>7, <2>3, <2>4, <2>5, <2>6, <2>7, <2>8, <2>9, <2>10, QuietStep
<1>8. IsCopy(R[uid], d, uid) => EntriesAt(R, d) = {}
  <2>1. \A u \in Uids : R[u] = d => u = uid
    BY <1>1, <1>2 DEF EntrySound
  <2> QED BY <2>1 DEF IsCopy, EntriesAt
<1>9. ~IsCopy(R[uid], d, uid) => R[uid] = d \/ R[uid] \notin there \union {None}
  <2>1. R[uid] # h
    BY <1>2, <1>3 DEF MainStays
  <2>2. R[uid] \in there /\ R[uid] # d => pin[R[uid]].uid = uid
    <3> SUFFICES ASSUME R[uid] \in there, R[uid] # d PROVE pin[R[uid]].uid = uid
      OBVIOUS
    <3>1. R[uid] \in there \intersect Repos /\ d \in there \ {R[uid]} /\ uid \in Uids
      BY <1>1, <1>3, <1>4, <2>1
    <3> QED BY <1>2, <3>1 DEF EntrySound
  <2> QED BY <1>6, <2>2 DEF IsCopy
<1>10. \/ IsCopy(R[uid], d, uid) /\ \E new \in Uids : Allocate(h, new) /\ cmd' = [cmd EXCEPT ![p] = c("cpin", new)]
       \/ ~IsCopy(R[uid], d, uid) /\ cmd' = [cmd EXCEPT ![p] = c("mpin", uid)] /\ next' = next
  BY <1>1 DEF Classify
<1> HIDE DEF c
<1>11. CASE IsCopy(R[uid], d, uid)
  <2>1. PICK new \in Uids : Allocate(h, new) /\ cmd' = [cmd EXCEPT ![p] = c("cpin", new)]
    BY <1>10, <1>11
  <2>2. next[h] >= 1 /\ \A u \in Uids : R[u] # None => u <= next[h]
    BY <1>2 DEF Counted
  <2>3. new = next[h] + 1 /\ next[h] \in Nat
    BY <1>4, <2>1 DEF Allocate
  <2>4. next' = [next EXCEPT ![h] = new] /\ next \in [Homes -> 0..MaxUid]
    BY <1>2, <2>1 DEF Allocate, Typed
  <2>5. next' \in [Homes -> 0..MaxUid] /\ next'[h] = new
    BY <1>4, <2>4
  <2>6. new # MainUid /\ R[new] = None /\ \A e \in there : pin[e].uid # new
    BY <1>4, <1>5, <2>2, <2>3
  <2>7. EntriesAt(R, d) = {}
    BY <1>8, <1>11
  <2>8. new <= next'[h] /\ next'[h] >= next[h]
    BY <1>4, <2>3, <2>5
  <2> QED BY <1>7, <2>1, <2>5, <2>6, <2>7, <2>8
<1>12. CASE ~IsCopy(R[uid], d, uid)
  <2>1. cmd' = [cmd EXCEPT ![p] = c("mpin", uid)] /\ next' = next
    BY <1>10, <1>12
  <2>2. uid <= next'[h] /\ next' \in [Homes -> 0..MaxUid] /\ next'[h] >= next[h]
    BY <1>1, <1>2, <1>4, <1>5, <2>1 DEF Typed
  <2> QED BY <1>3, <1>7, <1>9, <1>12, <2>1, <2>2
<1> QED BY <1>11, <1>12

(* A cascade lists what the registry knows.                                *)
LEMMA CascadeStep ==
  ASSUME NEW h \in Homes, Sound(h), NEW p \in Procs, Cascade(p)
  PROVE  Sound(h)'
<1> DEFINE todo == {registry[h][u] : u \in Uids \ {MainUid}} \ {None}
           c == [cmd[p] EXCEPT !.pc = "rewrite", !.todo = todo]
<1>0. cmd[p].pc = "cascade" /\ Busy(p) /\ cmd[p].at \in there /\ cmd[p].via = h
  BY Kinds DEF Cascade, At, Busy, Placed
<1>1. /\ cmd[p].pc = "cascade" /\ Busy(p) /\ cmd[p].at \in there /\ cmd[p].via = h
      /\ lock[h] = None /\ lock' = [lock EXCEPT ![h] = p] /\ cmd' = [cmd EXCEPT ![p] = c]
      /\ UNCHANGED <<there, pin, ptr, registry, next>>
  <2>1. lock[h] = None /\ lock' = [lock EXCEPT ![h] = p]
    BY <1>0 DEF Cascade, Free, Take
  <2>2. UNCHANGED <<there, pin, ptr, registry, next>>
    BY DEF Cascade, repo, main
  <2>3. cmd' = [cmd EXCEPT ![p].pc = "rewrite", ![p].todo = todo]
    BY <1>0 DEF Cascade
  <2> HIDE DEF todo
  <2>4. cmd' = [cmd EXCEPT ![p] = c]
    BY <2>3
  <2> QED BY <1>0, <2>1, <2>2, <2>4
<1>2. Typed(h) /\ Counted(h)
  BY DEF Sound
<1>3. /\ cmd \in [Procs -> CmdType] /\ cmd[p] \in CmdType /\ registry[h] \in [Uids -> Site]
      /\ next[h] \in 0..MaxUid /\ MaxUid \in Nat
  BY Kinds
<1>4. todo \subseteq Places
  BY <1>3 DEF Site
<1> HIDE DEF todo
<1>5. c \in CmdType /\ c.pc = "rewrite" /\ c.at = cmd[p].at /\ c.via = h /\ c.uid = cmd[p].uid
  BY <1>1, <1>3, <1>4 DEF Pcs, CmdType
<1>6. cmd'[p] = c
  BY <1>1, <1>3
<1> HIDE DEF c
<1>7. Keeps(h, p, c)
  BY <1>1, <1>2, <1>5 DEF Keeps, Counted
<1>8. Placed(h, p)'
  BY <1>1, <1>2, <1>5, <1>6 DEF Placed, Busy, Typed, Settling, Leaving
<1>9. PinRead(p)' /\ PinsApart(p)' /\ Entered(h, p)' /\ Repairing(h, p)'
  BY <1>5, <1>6 DEF PinRead, Reading, PinsApart, Entered, Entering, Repairing
<1>10. \A q \in Procs \ {p} : cmd[q].pc # "fix"
  BY <1>1, NoRepairElse
<1>11. /\ ptr' \in [Places -> {h, None}] /\ ptr'[h] = ptr[h] /\ next' \in [Homes -> 0..MaxUid]
       /\ lock' \in [Homes -> Procs \union {None}] /\ lock[h] \in {None, p}
  BY <1>1, <1>2 DEF Typed
<1>12. next'[h] >= next[h] /\ cmd[p].pc \notin {"csave", "msave"}
  BY <1>1, <1>3
<1> QED BY <1>1, <1>7, <1>8, <1>9, <1>10, <1>11, <1>12, QuietStep

(* A command that goes on in its place.                                    *)
LEMMA OnwardStep ==
  ASSUME NEW h \in Homes, Sound(h), NEW p \in Procs, Busy(p), NEW c \in CmdType,
         cmd' = [cmd EXCEPT ![p] = c], c.at = cmd[p].at, c.uid <= next[h],
         UNCHANGED <<there, pin, registry, next, lock>>,
         ptr' \in [Places -> {h, None}], ptr'[h] = ptr[h],
         cmd[p].pc \notin {"csave", "msave"}, CommandSound(h, p)'
  PROVE  Sound(h)'
<1>1. Typed(h) /\ next[h] \in 0..MaxUid /\ MaxUid \in Nat
  BY Kinds DEF Sound
<1>2. Keeps(h, p, c)
  BY DEF Keeps
<1>3. /\ next' \in [Homes -> 0..MaxUid] /\ next'[h] >= next[h]
      /\ lock' \in [Homes -> Procs \union {None}]
  BY <1>1 DEF Typed
<1>4. \A q \in Procs \ {p} : cmd[q].pc # "fix"
  BY NoRepairElse
<1>5. Placed(h, p)' /\ PinRead(p)' /\ PinsApart(p)' /\ Entered(h, p)' /\ Repairing(h, p)'
  BY DEF CommandSound
<1> QED BY <1>2, <1>3, <1>4, <1>5, QuietStep

(* One pointer of a cascade.                                               *)
LEMMA RewriteStep ==
  ASSUME NEW h \in Homes, Sound(h), NEW p \in Procs, NEW d \in Places, Rewrite(p, d)
  PROVE  Sound(h)'
<1> DEFINE c == [cmd[p] EXCEPT !.todo = @ \ {d}]
<1>1. /\ cmd[p].pc = "rewrite" /\ Busy(p) /\ cmd[p].at \in there /\ cmd[p].via = h /\ lock[h] = p
      /\ cmd \in [Procs -> CmdType] /\ cmd[p] \in CmdType
  BY Kinds DEF Rewrite, At, Busy, Placed, Locking
<1>2. /\ cmd' = [cmd EXCEPT ![p] = c] /\ UNCHANGED <<there, pin, registry, next, lock>>
      /\ ptr' = IF d \in there /\ ptr[d] # None THEN [ptr EXCEPT ![d] = h] ELSE ptr
  BY <1>1 DEF Rewrite, main
<1>3. Typed(h) /\ MainStays(h) /\ Counted(h)
  BY DEF Sound
<1>4. c \in CmdType /\ c.pc = "rewrite" /\ c.at = cmd[p].at /\ c.via = h /\ c.uid = cmd[p].uid
  BY <1>1 DEF CmdType
<1>5. cmd'[p] = c
  BY <1>1, <1>2
<1> HIDE DEF c
<1>6. Placed(h, p)'
  BY <1>1, <1>2, <1>4, <1>5 DEF Placed, Busy, Settling, Leaving
<1>7. CommandSound(h, p)'
  BY <1>4, <1>5, <1>6 DEF CommandSound, PinRead, Reading, PinsApart, Entered, Entering, Repairing
<1>8. ptr' \in [Places -> {h, None}] /\ ptr'[h] = ptr[h]
  BY <1>2, <1>3 DEF Typed, MainStays
<1>9. c.uid <= next[h]
  BY <1>3, <1>4 DEF Counted
<1> QED BY <1>1, <1>2, <1>4, <1>7, <1>8, <1>9, OnwardStep

(* What ends a command, a kill between its writes included.                *)
LEMMA EndingSteps ==
  ASSUME NEW h \in Homes, Sound(h), NEW p \in Procs, Orderly,
         CascadeEnds(p) \/ RemoveData(p) \/ Kill(p)
  PROVE  Sound(h)'
<1>1. Placed(h, p) /\ cmd[p].pc \in Pcs \union {"idle"} /\ Typed(h) /\ None \notin Procs
  BY Kinds DEF Sound
<1>2. CASE CascadeEnds(p)
  <2>1. Busy(p) /\ cmd[p].via = h /\ lock[h] = p
    BY <1>1, <1>2 DEF CascadeEnds, At, Busy, Placed, Locking
  <2> QED BY <1>1, <1>2, <2>1, ExitStep DEF CascadeEnds, At, Release, repo, main, Typed
<1>3. CASE RemoveData(p)
  BY <1>1, <1>3, ExitStep DEF RemoveData, At, Busy, repo, Typed
<1>4. CASE Kill(p)
  <2>1. Busy(p) /\ cmd[p].pc \notin {"csave", "msave"}
    BY <1>4, RegistryAssumption DEF Kill, Busy, Orderly, Pcs
  <2>2. lock' \in [Homes -> Procs \union {None}] /\ (lock'[h] = lock[h] \/ lock[h] \in {None, p})
    BY <1>1, <1>4 DEF Kill, Typed
  <2> QED BY <1>1, <1>4, <2>1, <2>2, ExitStep DEF Kill, repo, main, Typed
<1> QED BY <1>2, <1>3, <1>4

(* An install makes the state directory and the pointer to the main.       *)
LEMMA StateDirStep ==
  ASSUME NEW h \in Homes, Sound(h), NEW p \in Procs, StateDir(p) \/ InstallPtr(p)
  PROVE  Sound(h)'
<1> DEFINE c(pc) == [cmd[p] EXCEPT !.pc = pc]
<1>1. /\ cmd[p].pc \in {"statedir", "iptr"} /\ Busy(p) /\ cmd[p].at \in there /\ cmd[p].via = h
      /\ cmd[p].uid \in Uids /\ registry[h][cmd[p].uid] = cmd[p].at
      /\ cmd \in [Procs -> CmdType] /\ cmd[p] \in CmdType
  BY Kinds DEF StateDir, InstallPtr, At, Busy, Placed, Entered, Entering
<1>2. PICK pc \in {"iptr", "ipin"} : cmd' = [cmd EXCEPT ![p] = c(pc)]
  BY DEF StateDir, InstallPtr, Goto
<1>3. /\ UNCHANGED <<there, pin, registry, next, lock>>
      /\ ptr' = ptr \/ ptr' = [ptr EXCEPT ![cmd[p].at] = h]
  BY <1>1 DEF StateDir, InstallPtr, repo, main
<1>4. Typed(h) /\ MainStays(h) /\ Counted(h)
  BY DEF Sound
<1>5. /\ c(pc) \in CmdType /\ c(pc).pc = pc /\ c(pc).at = cmd[p].at /\ c(pc).via = h
      /\ c(pc).uid = cmd[p].uid
  BY <1>1 DEF CmdType, Pcs
<1>6. cmd'[p] = c(pc)
  BY <1>1, <1>2
<1> HIDE DEF c
<1>7. Placed(h, p)'
  BY <1>1, <1>3, <1>5, <1>6 DEF Placed, Busy, Locking, Settling, Leaving
<1>8. Entered(h, p)'
  BY <1>1, <1>3, <1>5, <1>6 DEF Entered, Entering
<1>9. CommandSound(h, p)'
  BY <1>5, <1>6, <1>7, <1>8 DEF CommandSound, PinRead, Reading, PinsApart, Repairing
<1>10. ptr' \in [Places -> {h, None}] /\ ptr'[h] = ptr[h]
  <2>1. cmd[p].at = h => ptr[h] = h
    BY <1>1, <1>4 DEF MainStays
  <2>2. h \in Places
    BY DEF Places
  <2> QED BY <1>3, <1>4, <2>1, <2>2 DEF Typed
<1>11. c(pc).uid <= next[h]
  BY <1>4, <1>5 DEF Counted
<1>12. cmd[p].pc \notin {"csave", "msave"}
  BY <1>1
<1> QED BY <1>1, <1>2, <1>3, <1>5, <1>9, <1>10, <1>11, <1>12, OnwardStep

(* The entry that is found by its path.                                    *)
LEMMA FirstIsThe ==
  ASSUME NEW h \in Homes, Sound(h), NEW d \in Repos \union {h}, EntriesAt(registry[h], d) # {}
  PROVE  /\ FirstEntryAt(registry[h], d) \in Uids
         /\ registry[h][FirstEntryAt(registry[h], d)] = d
<1>1. OneEntry(h) /\ MainStays(h) /\ Uids \subseteq Nat
  BY RegistryAssumption DEF Sound, Uids
<1>2. PICK u \in Uids : registry[h][u] = d
  BY DEF EntriesAt
<1>3. EntriesAt(registry[h], d) = {u}
  BY <1>1, <1>2 DEF EntriesAt, OneEntry, MainStays
<1>4. FirstEntryAt(registry[h], d) \in {u}
  BY <1>1, <1>3 DEF FirstEntryAt
<1> QED BY <1>2, <1>4

(* An uninstall looks up its uid.                                          *)
LEMMA LookUpStep ==
  ASSUME NEW h \in Homes, Sound(h), NEW p \in Procs, LookUp(p)
  PROVE  Sound(h)'
<1> DEFINE d == cmd[p].at
           R == registry[h]
           c(u) == [cmd[p] EXCEPT !.pc = "unpin", !.uid = u]
           found == IF pin[d].uid \in Uids /\ R[pin[d].uid] # None THEN pin[d].uid
                    ELSE IF EntriesAt(R, d) # {} THEN FirstEntryAt(R, d) ELSE 0
<1>1. /\ cmd[p].pc = "lookup" /\ Busy(p) /\ d \in there /\ d \in Repos /\ cmd[p].via = h
      /\ cmd[p].pin = pin[d] /\ pin[d].path \in {d, None} /\ (pin[d] # NoPin => NoCopy(d))
  BY Kinds DEF LookUp, At, Busy, Placed, PinRead, Reading, PinsApart, Leaving
<1>2. /\ UNCHANGED <<there, pin, ptr, registry, next, lock>>
      /\ cmd' = [cmd EXCEPT ![p] = c(found)]
  BY <1>1 DEF LookUp, repo, main
<1>3. Typed(h) /\ Pinned /\ Counted(h) /\ Backed(h) /\ Apart(h)
  BY DEF Sound
<1>4. /\ cmd \in [Procs -> CmdType] /\ cmd[p] \in CmdType /\ h \notin Repos /\ None \notin Places
      /\ there \subseteq Places /\ MaxUid \in Nat /\ next[h] \in 0..MaxUid /\ Uids \subseteq 0..MaxUid
      /\ Uids \subseteq Nat /\ Repos \subseteq Places
  BY Kinds DEF Places
<1>5. found = 0 \/ (found \in Uids /\ R[found] = d)
  <2>1. CASE pin[d].uid \in Uids /\ R[pin[d].uid] # None
    <3>1. pin[d] # NoPin
      BY <2>1 DEF NoPin, Uids
    <3>2. pin[d].path = d
      BY <1>1, <1>3, <1>4, <3>1 DEF Pinned
    <3>3. ~Saving(d, {"csave", "msave"})
      BY <1>1, <1>3, <1>4 DEF Saving, Apart, Busy
    <3> QED BY <1>1, <1>3, <2>1, <3>1, <3>2, <3>3 DEF Backed
  <2>2. CASE ~(pin[d].uid \in Uids /\ R[pin[d].uid] # None)
    BY <1>1, <2>2, FirstIsThe
  <2> QED BY <2>1, <2>2
<1> HIDE DEF found
<1>6. found \in 0..MaxUid /\ found <= next[h]
  <2>1. CASE found = 0
    BY <1>4, <2>1
  <2>2. CASE found # 0
    <3>1. found \in Uids /\ R[found] # None
      BY <1>1, <1>4, <1>5, <2>2
    <3> QED BY <1>3, <1>4, <3>1 DEF Counted
  <2> QED BY <2>1, <2>2
<1>7. /\ c(found) \in CmdType /\ c(found).pc = "unpin" /\ c(found).at = d /\ c(found).via = h
      /\ c(found).uid = found /\ c(found).pin = pin[d]
  BY <1>1, <1>4, <1>6 DEF CmdType, Pcs
<1>8. cmd'[p] = c(found)
  BY <1>2, <1>4
<1> HIDE DEF c
<1>9. Placed(h, p)' /\ Entered(h, p)'
  BY <1>1, <1>2, <1>5, <1>7, <1>8 DEF Placed, Busy, Locking, Settling, Entered, Entering
<1>10. PinRead(p)' /\ PinsApart(p)' /\ Repairing(h, p)'
  BY <1>1, <1>2, <1>7, <1>8 DEF PinRead, Reading, PinsApart, NoCopy, Repairing
<1>11. CommandSound(h, p)'
  BY <1>9, <1>10 DEF CommandSound
<1>12. ptr' \in [Places -> {h, None}] /\ ptr'[h] = ptr[h] /\ cmd[p].pc \notin {"csave", "msave"}
  BY <1>1, <1>2, <1>3 DEF Typed
<1> QED BY <1>1, <1>2, <1>6, <1>7, <1>11, <1>12, OnwardStep

(* A command that begins.                                                  *)
LEMMA BeginStep ==
  ASSUME NEW h \in Homes, Sound(h), NEW p \in Procs, Orderly, NEW c \in CmdType, Begin(p, c),
         UNCHANGED <<repo, main, lock>>, c.uid = 0, c.at = h \/ Alone(c.at), CommandSound(h, p)'
  PROVE  Sound(h)'
<1>1. /\ Typed(h) /\ next[h] \in 0..MaxUid /\ MaxUid \in Nat
      /\ cmd' = [cmd EXCEPT ![p] = c] /\ cmd[p].pc = "idle" /\ NoRepair
      /\ UNCHANGED <<there, pin, ptr, registry, next, lock>>
  BY Kinds DEF Sound, Begin, At, repo, main, Orderly
<1>2. Keeps(h, p, c)
  BY <1>1 DEF Keeps
<1>3. /\ next' \in [Homes -> 0..MaxUid] /\ next'[h] >= next[h]
      /\ lock' \in [Homes -> Procs \union {None}] /\ ptr' \in [Places -> {h, None}]
  BY <1>1 DEF Typed
<1>4. \A q \in Procs \ {p} : cmd[q].pc # "fix"
  BY <1>1, NoRepairElse
<1>5. Placed(h, p)' /\ PinRead(p)' /\ PinsApart(p)' /\ Entered(h, p)' /\ Repairing(h, p)'
  BY DEF CommandSound
<1> QED BY <1>1, <1>2, <1>3, <1>4, <1>5, QuietStep

(* There is no other main checkout.                                        *)
LEMMA TheOnlyMain ==
  ASSUME NEW h \in Homes, Sound(h), NEW k \in Mains
  PROVE  k = h /\ h \in there
<1>1. Typed(h)
  BY DEF Sound
<1> QED BY <1>1, RegistryAssumption DEF Typed, Mains

(* A session, or a command in its place, begins with a check.              *)
LEMMA SessionStep ==
  ASSUME NEW h \in Homes, Sound(h), NEW p \in Procs, Orderly, NEW d \in Places, Session(p, d)
  PROVE  Sound(h)'
<1> DEFINE c == [Idle EXCEPT !.pc = "check", !.at = d]
<1>1. /\ d \in there /\ Alone(d) /\ Begin(p, c) /\ UNCHANGED <<repo, main, lock>>
  BY DEF Session, Reached, Orderly
<1>2. c \in CmdType /\ c.pc = "check" /\ c.at = d /\ c.uid = 0
  BY Idles DEF CmdType, Pcs, Site
<1>3. cmd'[p] = c /\ there' = there
  BY <1>1, Kinds DEF Begin, repo
<1> HIDE DEF c
<1>4. CommandSound(h, p)'
  BY <1>1, <1>2, <1>3 DEF CommandSound, Placed, PinRead, PinsApart, Entered, Repairing, Busy,
                          Locking, Settling, Leaving, Reading, Entering
<1> QED BY <1>1, <1>2, <1>4, BeginStep

(* An install or an uninstall begins after its check.                      *)
LEMMA StartSteps ==
  ASSUME NEW h \in Homes, Sound(h), NEW p \in Procs, Orderly, NEW d \in Places, NEW k \in Homes,
         Install(p, d, k) \/ Uninstall(p, d, k)
  PROVE  Sound(h)'
<1> DEFINE c(pc) == [Idle EXCEPT !.pc = pc, !.at = d, !.via = k, !.pin = pin[d]]
<1>1. PICK pc \in {"register", "lookup"} :
        /\ Begin(p, c(pc)) /\ d \in there /\ k \in Mains /\ Checked(d)
        /\ pc = "lookup" => d # h /\ (pin[d] # NoPin => NoCopy(d))
        /\ UNCHANGED <<repo, main, lock>>
  <2>1. k \in Mains => k = h
    BY TheOnlyMain
  <2> QED BY <2>1 DEF Install, Uninstall, Orderly
<1>2. /\ k = h /\ cmd'[p] = c(pc) /\ h \notin Repos /\ there \subseteq Repos \union {h}
      /\ pin \in [Places -> PinType]
  <2>1. cmd \in [Procs -> CmdType] /\ h \notin Repos /\ there \subseteq Repos \union {h}
        /\ pin \in [Places -> PinType]
    BY Kinds
  <2> QED BY <1>1, <2>1, TheOnlyMain DEF Begin
<1>3. /\ c(pc) \in CmdType /\ c(pc).pc = pc /\ c(pc).at = d /\ c(pc).via = h /\ c(pc).uid = 0
      /\ c(pc).pin = pin[d]
  BY <1>2, Idles DEF CmdType, Pcs, Site, Places
<1> HIDE DEF c
<1>4. there' = there /\ pin' = pin
  BY <1>1 DEF repo
<1>5. pin[d].path \in {d, None} /\ Alone(d)
  BY <1>1 DEF Checked, Undisturbed, Alone
<1>6. Placed(h, p)' /\ Entered(h, p)' /\ Repairing(h, p)'
  BY <1>1, <1>2, <1>3, <1>4 DEF Placed, Busy, Locking, Settling, Leaving, Entered, Entering, Repairing
<1>7. PinRead(p)' /\ PinsApart(p)'
  BY <1>1, <1>2, <1>3, <1>4, <1>5 DEF PinRead, Reading, PinsApart, NoCopy
<1> QED BY <1>1, <1>3, <1>5, <1>6, <1>7, BeginStep DEF CommandSound

(* A cascade or a repair from the main checkout begins.                    *)
LEMMA RepairSteps ==
  ASSUME NEW h \in Homes, Sound(h), NEW p \in Procs, Orderly, NEW k \in Homes,
         CascadeCommand(p, k) \/ FixPins(p, k)
  PROVE  Sound(h)'
<1> DEFINE todo == {<<u, registry[h][u]>> : u \in {v \in Uids : registry[h][v] # None}}
           c(pc, t) == [Idle EXCEPT !.pc = pc, !.at = h, !.via = h, !.todo = t]
<1>0. k = h /\ h \in there
  BY TheOnlyMain DEF CascadeCommand, FixPins
<1>1. PICK pc \in {"cascade", "fix"}, t \in {{}, todo} :
        /\ Begin(p, c(pc, t)) /\ UNCHANGED <<repo, main, lock>>
        /\ pc = "fix" => \A q \in Procs : cmd[q].pc = "idle"
  <2>1. CASE CascadeCommand(p, k)
    <3>1. [Idle EXCEPT !.pc = "cascade", !.at = h, !.via = h] = c("cascade", {})
      BY Idles DEF Idle
    <3> QED BY <1>0, <2>1, <3>1 DEF CascadeCommand
  <2>2. CASE FixPins(p, k)
    BY <1>0, <2>2 DEF FixPins, Orderly, At
  <2> QED BY <2>1, <2>2
<1>2. registry[h] \in [Uids -> Site] /\ cmd \in [Procs -> CmdType] /\ h \in Site
  BY Kinds DEF Site
<1>3. t \subseteq Uids \X Site /\ t \subseteq {<<u, registry[h][u]>> : u \in Uids}
  BY <1>2
<1> HIDE DEF todo
<1>4. /\ c(pc, t) \in CmdType /\ c(pc, t).pc = pc /\ c(pc, t).at = h /\ c(pc, t).via = h
      /\ c(pc, t).uid = 0 /\ c(pc, t).todo = t
  BY <1>2, <1>3, Idles DEF CmdType, Pcs
<1>5. cmd'[p] = c(pc, t) /\ \A q \in Procs \ {p} : cmd'[q] = cmd[q]
  BY <1>1, <1>2 DEF Begin
<1> HIDE DEF c
<1>6. there' = there /\ registry' = registry
  BY <1>1 DEF repo, main
<1>7. Placed(h, p)' /\ PinRead(p)' /\ PinsApart(p)' /\ Entered(h, p)'
  BY <1>0, <1>4, <1>5, <1>6 DEF Placed, Busy, Locking, Settling, Leaving, PinRead, Reading, PinsApart,
                                Entered, Entering
<1>8. Repairing(h, p)'
  BY <1>1, <1>3, <1>4, <1>5, <1>6 DEF Repairing, Busy
<1> QED BY <1>1, <1>4, <1>7, <1>8, BeginStep DEF CommandSound

(* doctor --fix writes what is there already.                              *)
LEMMA FixStep ==
  ASSUME NEW h \in Homes, Sound(h), NEW p \in Procs, NEW u \in Uids, NEW d \in Places, FixOne(p, u, d)
  PROVE  Sound(h)'
<1>1. /\ cmd[p].pc = "fix" /\ Busy(p) /\ cmd[p].at \in there /\ cmd[p].via = h
      /\ \A q \in Procs \ {p} : ~Busy(q)
      /\ cmd[p].todo \subseteq {<<v, registry[h][v]>> : v \in Uids}
      /\ cmd \in [Procs -> CmdType] /\ cmd[p] \in CmdType
  BY Kinds DEF FixOne, At, Busy, Placed, Repairing
<1>2. <<u, d>> \in cmd[p].todo /\ registry[h][u] = d
  BY <1>1 DEF FixOne
<1>3. Typed(h) /\ MainStays(h) /\ Pinned /\ Counted(h) /\ EntrySound(h)
  BY DEF Sound
<1>4. d \in there /\ pin[d] # NoPin => pin[d].uid = u
  <2>1. CASE d = h
    BY <1>2, <1>3, <2>1 DEF MainStays
  <2>2. CASE d # h
    BY <1>2, <1>3, <2>2 DEF EntrySound, Typed
  <2> QED BY <2>1, <2>2
<1>5. pin' = pin
  <2>1. pin' = IF d \in there /\ pin[d] # NoPin THEN [pin EXCEPT ![d].uid = u] ELSE pin
    BY DEF FixOne
  <2>2. pin \in [Places -> PinType]
    BY <1>3 DEF Typed
  <2>3. d \in there /\ pin[d] # NoPin => [pin EXCEPT ![d].uid = u] = pin
    BY <1>4, <2>2 DEF PinType
  <2> QED BY <2>1, <2>3
<1>6. ptr' \in [Places -> {h, None}] /\ ptr'[h] = ptr[h]
  <2>1. ptr' = IF d \in there /\ ptr[d] # None THEN [ptr EXCEPT ![d] = h] ELSE ptr
    BY <1>1 DEF FixOne
  <2>2. d = h /\ d \in there => ptr[h] = h
    BY <1>3 DEF MainStays
  <2> QED BY <1>3, <2>1, <2>2 DEF Typed
<1>7. UNCHANGED <<there, registry, next, lock>>
  BY DEF FixOne, main
<1>8. CASE cmd' = [cmd EXCEPT ![p] = Idle]
  BY <1>1, <1>3, <1>5, <1>6, <1>7, <1>8, ExitStep DEF Exit, Typed
<1>9. CASE cmd' = [cmd EXCEPT ![p].todo = @ \ {<<u, d>>}]
  <2> DEFINE c == [cmd[p] EXCEPT !.todo = @ \ {<<u, d>>}]
  <2>1. cmd' = [cmd EXCEPT ![p] = c]
    BY <1>9
  <2>2. /\ c \in CmdType /\ c.pc = "fix" /\ c.at = cmd[p].at /\ c.via = h /\ c.uid = cmd[p].uid
        /\ c.todo \subseteq cmd[p].todo
    BY <1>1 DEF CmdType
  <2>3. cmd'[p] = c /\ \A q \in Procs \ {p} : cmd'[q] = cmd[q]
    BY <1>1, <2>1
  <2> HIDE DEF c
  <2>4. Placed(h, p)' /\ PinRead(p)' /\ PinsApart(p)' /\ Entered(h, p)'
    BY <1>1, <1>7, <2>2, <2>3 DEF Placed, Busy, Locking, Settling, Leaving, PinRead, Reading, PinsApart,
                                  Entered, Entering
  <2>5. Repairing(h, p)'
    BY <1>1, <1>7, <2>2, <2>3 DEF Repairing, Busy
  <2>6. CommandSound(h, p)' /\ c.uid <= next[h]
    BY <1>3, <2>2, <2>4, <2>5 DEF CommandSound, Counted
  <2> QED BY <1>1, <1>5, <1>6, <1>7, <2>1, <2>2, <2>6, OnwardStep
<1> QED BY <1>8, <1>9 DEF FixOne

-----------------------------------------------------------------------------
(* Steps that write a self-pointer or an entry.                            *)

(* p goes on as c; d gets the self-pointer m and the entry of u becomes w. *)
Writes(h, p, c, d, m, u, w) ==
  /\ Busy(p) /\ Keeps(h, p, c) /\ cmd[p].at = d
  /\ there' = there
  /\ \/ lock' = lock
     \/ lock' = [lock EXCEPT ![h] = None] /\ lock[h] = p
  /\ ptr' \in [Places -> {h, None}] /\ ptr'[h] = ptr[h]
  /\ next' \in [Homes -> 0..MaxUid] /\ next'[h] >= next[h]
  /\ pin' = [pin EXCEPT ![d] = m] /\ m.uid <= next'[h]
  /\ m = NoPin \/ (m.uid \in Uids \ {MainUid} /\ m.path \in Repos)
  /\ \A q \in Procs \ {p} :
       /\ cmd[q].pc \in {"cpin", "csave"} => m.uid # cmd[q].uid \/ m = pin[d]
       /\ cmd[q].pc \in {"lookup", "unpin"} /\ pin[cmd[q].at] # NoPin =>
            m.uid # pin[cmd[q].at].uid \/ m = pin[d]
  /\ registry' = [registry EXCEPT ![h][u] = w]
  /\ w = None \/ u <= next'[h]
  /\ \/ w = registry[h][u]
     \/ w \in {d, None} /\ lock[h] \in {None, p} /\ registry[h][u] \notin there \ {d}

(* A step that writes at most one self-pointer and one entry: what is      *)
(* left to show of it.                                                     *)
LEMMA WriteStep ==
  ASSUME NEW h \in Homes, Sound(h), NEW p \in Procs, NEW c, NEW d \in Repos, NEW m \in PinType,
         NEW u \in Uids \ {MainUid}, NEW w, Writes(h, p, c, d, m, u, w),
         CommandSound(h, p)', OneEntry(h)', Backed(h)', EntrySound(h)'
  PROVE  Sound(h)'
<1>1. /\ Typed(h) /\ MainStays(h) /\ Pinned /\ Counted(h) /\ Apart(h)
  BY DEF Sound
<1>2. /\ h \in Places /\ h \notin Repos /\ MainUid \in Uids /\ Uids \subseteq Nat /\ there \subseteq Places
      /\ registry[h] \in [Uids -> Site] /\ next[h] \in 0..MaxUid /\ MaxUid \in Nat
      /\ d \in Places /\ Places \subseteq Site /\ d \in there /\ None \in Site
      /\ None \notin Places
  BY Kinds DEF Placed, Places, Site, Writes
<1>3. /\ cmd \in [Procs -> CmdType] /\ pin \in [Places -> PinType]
      /\ registry \in [Homes -> [Uids -> Site]] /\ lock \in [Homes -> Procs \union {None}]
  BY <1>1 DEF Typed
<1>4. /\ cmd' \in [Procs -> CmdType] /\ cmd'[p] = c
      /\ \A q \in Procs \ {p} : cmd'[q] = cmd[q]
  BY <1>3 DEF Keeps, Writes
<1>5. /\ pin' \in [Places -> PinType] /\ pin'[d] = m /\ \A x \in Places \ {d} : pin'[x] = pin[x]
      /\ registry' \in [Homes -> [Uids -> Site]] /\ registry'[h] = [registry[h] EXCEPT ![u] = w]
      /\ registry'[h][u] = w /\ \A v \in Uids \ {u} : registry'[h][v] = registry[h][v]
  BY <1>2, <1>3 DEF Writes
<1>6. there' = there /\ lock' \in [Homes -> Procs \union {None}]
      /\ (lock'[h] = lock[h] \/ lock[h] \in {None, p})
  BY <1>3 DEF Writes
<1>7. Typed(h)'
  BY <1>1, <1>4, <1>5, <1>6 DEF Typed, Writes
<1>8. MainStays(h)'
  BY <1>1, <1>2, <1>5, <1>6 DEF MainStays, Writes
<1>9. Pinned'
  BY <1>1, <1>2, <1>5, <1>6 DEF Pinned, Writes
<1>10. Counted(h)'
  <2>1. next'[h] \in Nat /\ next[h] \in Nat /\ next'[h] >= next[h]
    BY <1>2 DEF Writes
  <2>2. \A x \in there : pin[x].uid \in Nat
    BY <1>2, <1>3 DEF PinType
  <2>3. \A q \in Procs : cmd[q].uid \in Nat /\ c.uid \in Nat
    BY <1>2, <1>3 DEF CmdType, Keeps, Writes
  <2>4. \A q \in Procs : cmd'[q].uid <= next'[h]
    BY <1>1, <1>4, <2>1, <2>3 DEF Counted, Keeps, Writes
  <2>5. \A x \in there : pin'[x].uid <= next'[h]
    BY <1>1, <1>2, <1>5, <2>1, <2>2 DEF Counted, Writes
  <2>6. \A v \in Uids : registry'[h][v] # None => v <= next'[h]
    BY <1>1, <1>2, <1>5, <2>1 DEF Counted, Writes
  <2>7. next'[h] >= 1
    BY <1>1, <2>1 DEF Counted, Writes
  <2> QED BY <1>6, <2>4, <2>5, <2>6, <2>7 DEF Counted, Writes
<1>11. ASSUME NEW q \in Procs \ {p} PROVE CommandSound(h, q)'
  <2>1. cmd[q].pc # "fix"
    BY NoRepairElse DEF Writes
  <2>2. Busy(q) => cmd[q].at # d
    BY <1>1, <1>2 DEF Apart, Writes
  <2>3. pin' = [pin EXCEPT ![d] = pin'[d]] /\ registry'[h] = [registry[h] EXCEPT ![u] = registry'[h][u]]
    BY <1>5 DEF Writes
  <2>4. /\ cmd[q].pc \in {"cpin", "csave"} => pin'[d].uid # cmd[q].uid \/ pin'[d] = pin[d]
        /\ cmd[q].pc \in {"lookup", "unpin"} /\ pin[cmd[q].at] # NoPin =>
             pin'[d].uid # pin[cmd[q].at].uid \/ pin'[d] = pin[d]
    BY <1>5 DEF Writes
  <2>5. \/ registry'[h][u] = registry[h][u]
        \/ d \in Repos /\ lock[h] \in {None, p} /\ registry[h][u] \notin there \ {d}
    BY <1>5 DEF Writes
  <2>6. Spares(h, p, q, d, u)
    BY <1>2, <1>4, <1>6, <2>1, <2>2, <2>3, <2>4, <2>5 DEF Spares
  <2> QED BY <1>2, <2>6, OthersKept
<1>12. Apart(h)'
  BY ApartKept DEF Writes
<1>13. \A q \in Procs : CommandSound(h, q)'
  BY <1>11
<1> QED BY <1>7, <1>8, <1>9, <1>10, <1>12, <1>13 DEF Sound

(* A check is alone under the lock.                                        *)
LEMMA LockIsHeld ==
  ASSUME NEW h \in Homes, Sound(h), NEW p \in Procs
  PROVE  /\ cmd[p].pc \in Locking => lock[h] = p /\ \A q \in Procs \ {p} : cmd[q].pc \notin Locking
         /\ lock[h] = None => \A q \in Procs : cmd[q].pc \notin Locking
<1>1. \A q \in Procs : cmd[q].pc \in Locking => lock[h] = q
  BY DEF Sound, CommandSound, Placed
<1> QED BY <1>1, RegistryAssumption

(* A step of p at d that writes its self-pointer only.                     *)
Pins(h, p, c, d, m) ==
  /\ Busy(p) /\ Keeps(h, p, c) /\ cmd[p].at = d
  /\ UNCHANGED <<there, registry, next, lock>>
  /\ ptr' \in [Places -> {h, None}] /\ ptr'[h] = ptr[h]
  /\ pin' = [pin EXCEPT ![d] = m] /\ m.uid <= next[h]
  /\ m = NoPin \/ (m.uid \in Uids \ {MainUid} /\ m.path \in Repos)
  /\ \A q \in Procs \ {p} :
       /\ cmd[q].pc \in {"cpin", "csave"} => m.uid # cmd[q].uid \/ m = pin[d]
       /\ cmd[q].pc \in {"lookup", "unpin"} /\ pin[cmd[q].at] # NoPin =>
            m.uid # pin[cmd[q].at].uid \/ m = pin[d]

(* A step that writes one self-pointer and no entry.                       *)
LEMMA PinStep ==
  ASSUME NEW h \in Homes, Sound(h), NEW p \in Procs, NEW c, NEW d \in Repos, NEW m \in PinType,
         Pins(h, p, c, d, m), CommandSound(h, p)', Backed(h)', EntrySound(h)'
  PROVE  Sound(h)'
<1>1. Typed(h) /\ OneEntry(h) /\ 2 \in Uids \ {MainUid} /\ next[h] \in Nat
  BY Kinds, RegistryAssumption DEF Sound, Uids, MainUid
<1>2. OneEntry(h)'
  BY <1>1 DEF OneEntry, Pins
<1>3. registry' = [registry EXCEPT ![h][2] = registry[h][2]]
  BY <1>1 DEF Typed, Pins
<1>4. next' \in [Homes -> 0..MaxUid] /\ next'[h] >= next[h] /\ m.uid <= next'[h]
  BY <1>1 DEF Typed, Pins
<1>5. registry[h][2] = None \/ 2 <= next'[h]
  BY <1>1 DEF Sound, Counted, Pins
<1>6. Writes(h, p, c, d, m, 2, registry[h][2])
  BY <1>3, <1>4, <1>5 DEF Writes, Pins
<1> QED BY <1>1, <1>2, <1>6, WriteStep

(* A copy gets a uid of its own (_handle_drift).                           *)
LEMMA CopyPinStep ==
  ASSUME NEW h \in Homes, Sound(h), NEW p \in Procs, CopyPin(p)
  PROVE  Sound(h)'
<1> DEFINE d == cmd[p].at
           new == cmd[p].uid
           R == registry[h]
           m == [uid |-> new, path |-> d]
           c == [cmd[p] EXCEPT !.pc = "csave"]
<1>1. /\ cmd[p].pc = "cpin" /\ Busy(p) /\ d \in there /\ d \in Repos /\ cmd[p].via = h /\ lock[h] = p
      /\ new \in Uids \ {MainUid} /\ R[new] = None /\ EntriesAt(R, d) = {}
      /\ \A e \in there : pin[e].uid # new
  BY ZenonT(60), Kinds DEF CopyPin, At, Busy, Placed, Settling, Locking, Entered, PinsApart
<1>2. /\ cmd' = [cmd EXCEPT ![p] = c] /\ pin' = [pin EXCEPT ![d] = m]
      /\ UNCHANGED <<there, ptr, registry, next, kept, lock, left>>
  BY DEF CopyPin, Goto, main
<1>3. /\ Typed(h) /\ Pinned /\ Counted(h) /\ Backed(h) /\ EntrySound(h)
  BY DEF Sound
<1>4. /\ cmd \in [Procs -> CmdType] /\ cmd[p] \in CmdType /\ h \notin Repos /\ None \notin Places
      /\ there \subseteq Places /\ Uids \subseteq 0..MaxUid /\ d \in Places /\ pin \in [Places -> PinType]
      /\ there \subseteq Repos \union {h}
  BY <1>1, Kinds
<1>5. m \in PinType /\ m.uid <= next[h]
  BY <1>1, <1>3, <1>4 DEF PinType, Site, Counted
<1>6. c \in CmdType /\ c.pc = "csave" /\ c.at = d /\ c.via = h /\ c.uid = new
  BY <1>1, <1>4 DEF CmdType, Pcs
<1>7. cmd'[p] = c /\ \A q \in Procs \ {p} : cmd'[q] = cmd[q]
  BY <1>2, <1>4
<1>8. pin'[d] = m /\ \A x \in Places \ {d} : pin'[x] = pin[x]
  BY <1>2, <1>4
<1> HIDE DEF c
<1>9. Keeps(h, p, c)
  BY <1>1, <1>2, <1>3, <1>6 DEF Keeps, Counted
<1>10. Placed(h, p)' /\ Entered(h, p)' /\ Repairing(h, p)'
  BY <1>1, <1>2, <1>6, <1>7 DEF Placed, Busy, Locking, Settling, Leaving, Entered, Entering, Repairing
<1>11. PinRead(p)' /\ PinsApart(p)'
  BY <1>1, <1>2, <1>4, <1>6, <1>7, <1>8 DEF PinRead, Reading, PinsApart
<1>12. Backed(h)'
  <2> SUFFICES ASSUME NEW x \in there \intersect Repos, pin'[x] # NoPin
               PROVE  /\ R[pin'[x].uid] # None \/ Saving(x, {"csave"})'
                      /\ pin'[x].path = x => R[pin'[x].uid] = x \/ Saving(x, {"csave", "msave"})'
    BY <1>2 DEF Backed
  <2>1. CASE x = d
    BY <1>6, <1>7, <2>1 DEF Saving
  <2>2. CASE x # d
    <3>1. ASSUME NEW pcs \in {{"csave"}, {"csave", "msave"}}, Saving(x, pcs) PROVE Saving(x, pcs)'
      BY <1>1, <1>7, <3>1 DEF Saving
    <3> QED BY <1>3, <1>4, <1>8, <2>2, <3>1 DEF Backed
  <2> QED BY <2>1, <2>2
<1>13. EntrySound(h)'
  <2> SUFFICES ASSUME NEW x \in there \intersect Repos, NEW u \in Uids, R[u] = x
               PROVE  /\ pin'[x] = NoPin \/ pin'[x].uid = u
                      /\ \A y \in there \ {x} : pin'[y].uid = u => pin'[x].uid = u
    BY <1>2 DEF EntrySound
  <2>1. x # d /\ u # new
    BY <1>1, <1>4 DEF EntriesAt
  <2>2. pin'[x] = pin[x] /\ \A y \in there : pin'[y].uid = u => pin[y].uid = u
    BY <1>4, <1>8, <2>1
  <2> QED BY <1>3, <2>2 DEF EntrySound
<1>14. \A q \in Procs \ {p} : cmd[q].pc \notin {"cpin", "csave"}
  BY <1>1, LockIsHeld DEF Locking, Settling
<1>15. ASSUME NEW q \in Procs \ {p}, cmd[q].pc \in {"lookup", "unpin"} PROVE m.uid # pin[cmd[q].at].uid
  BY <1>1, <1>15, Kinds DEF Placed, Busy
<1>16. CommandSound(h, p)' /\ ptr' \in [Places -> {h, None}]
  BY <1>2, <1>3, <1>10, <1>11 DEF CommandSound, Typed
<1>17. m.uid \in Uids \ {MainUid} /\ m.path \in Repos
  BY <1>1
<1> HIDE DEF m
<1>18. Pins(h, p, c, d, m)
  BY <1>1, <1>2, <1>5, <1>9, <1>14, <1>15, <1>16, <1>17 DEF Pins
<1> QED BY <1>1, <1>5, <1>12, <1>13, <1>16, <1>18, PinStep

(* A moved directory keeps its uid (_handle_drift).                        *)
LEMMA MovePinStep ==
  ASSUME NEW h \in Homes, Sound(h), NEW p \in Procs, MovePin(p)
  PROVE  Sound(h)'
<1> DEFINE d == cmd[p].at
           uid == cmd[p].uid
           R == registry[h]
           m == [uid |-> uid, path |-> d]
           c == [cmd[p] EXCEPT !.pc = "msave"]
<1>1. /\ cmd[p].pc = "mpin" /\ Busy(p) /\ d \in there /\ d \in Repos /\ cmd[p].via = h /\ lock[h] = p
      /\ pin[d] # NoPin /\ pin[d].uid = uid
      /\ uid \in Uids /\ (R[uid] = d \/ R[uid] \notin there \union {None})
  BY Kinds DEF MovePin, At, Busy, Placed, Settling, Locking, Entered, PinRead
<1>2. /\ cmd' = [cmd EXCEPT ![p] = c] /\ pin' = [pin EXCEPT ![d] = m]
      /\ UNCHANGED <<there, ptr, registry, next, kept, lock, left>>
  <2>1. R[uid] # None
    BY <1>1, RegistryAssumption DEF Places
  <2> QED BY <1>1, <2>1 DEF MovePin, Goto, main
<1>3. /\ Typed(h) /\ Pinned /\ Counted(h) /\ Backed(h) /\ EntrySound(h)
  BY DEF Sound
<1>4. /\ cmd \in [Procs -> CmdType] /\ cmd[p] \in CmdType /\ h \notin Repos /\ None \notin Places
      /\ there \subseteq Places /\ Uids \subseteq 0..MaxUid /\ d \in Places /\ pin \in [Places -> PinType]
      /\ there \subseteq Repos \union {h}
  BY <1>1, Kinds
<1>5. m \in PinType /\ m.uid <= next[h] /\ m.uid \in Uids \ {MainUid} /\ m.path \in Repos
  BY <1>1, <1>3, <1>4 DEF PinType, Site, Counted, Pinned
<1>6. c \in CmdType /\ c.pc = "msave" /\ c.at = d /\ c.via = h /\ c.uid = uid
  BY <1>1, <1>4 DEF CmdType, Pcs
<1>7. cmd'[p] = c /\ \A q \in Procs \ {p} : cmd'[q] = cmd[q]
  BY <1>2, <1>4
<1>8. pin'[d] = m /\ \A x \in Places \ {d} : pin'[x] = pin[x]
  BY <1>2, <1>4
<1> HIDE DEF c
<1>9. Keeps(h, p, c)
  BY <1>1, <1>2, <1>3, <1>6 DEF Keeps, Counted
<1>10. Placed(h, p)' /\ Entered(h, p)' /\ Repairing(h, p)'
  BY <1>1, <1>2, <1>6, <1>7 DEF Placed, Busy, Locking, Settling, Leaving, Entered, Entering, Repairing
<1>11. PinRead(p)' /\ PinsApart(p)'
  BY <1>1, <1>2, <1>4, <1>6, <1>7, <1>8 DEF PinRead, Reading, PinsApart
<1>12. Backed(h)'
  <2> SUFFICES ASSUME NEW x \in there \intersect Repos, pin'[x] # NoPin
               PROVE  /\ R[pin'[x].uid] # None \/ Saving(x, {"csave"})'
                      /\ pin'[x].path = x => R[pin'[x].uid] = x \/ Saving(x, {"csave", "msave"})'
    BY <1>2 DEF Backed
  <2>1. CASE x = d
    <3>1. R[uid] # None
      BY <1>1, <1>4
    <3> QED BY <1>6, <1>7, <1>8, <2>1, <3>1 DEF Saving
  <2>2. CASE x # d
    <3>1. ASSUME NEW pcs \in {{"csave"}, {"csave", "msave"}}, Saving(x, pcs) PROVE Saving(x, pcs)'
      BY <1>1, <1>7, <3>1 DEF Saving
    <3> QED BY <1>3, <1>4, <1>8, <2>2, <3>1 DEF Backed
  <2> QED BY <2>1, <2>2
<1>13. EntrySound(h)'
  <2>1. \A x \in there : pin'[x].uid = pin[x].uid /\ (pin'[x] = NoPin => pin[x] = NoPin)
    BY <1>1, <1>4, <1>5, <1>8 DEF NoPin, Uids
  <2>2. \A x \in there : pin[x] = NoPin => pin'[x] = NoPin
    BY <1>1, <1>4, <1>8
  <2> QED BY <1>2, <1>3, <2>1, <2>2 DEF EntrySound
<1>14. \A q \in Procs \ {p} : cmd[q].pc \notin {"cpin", "csave"}
  BY <1>1, LockIsHeld DEF Locking, Settling
<1>15. ASSUME NEW q \in Procs \ {p}, cmd[q].pc \in {"lookup", "unpin"}, pin[cmd[q].at] # NoPin
       PROVE  m.uid # pin[cmd[q].at].uid
  <2>1. /\ cmd[q].at \in Repos /\ Busy(q) /\ NoCopy(cmd[q].at) /\ Apart(h)
    BY <1>15, Kinds DEF Placed, Busy, Leaving, PinsApart, Sound
  <2>2. cmd[q].at # d
    BY <1>1, <1>4, <2>1 DEF Apart
  <2> QED BY <1>1, <2>1, <2>2 DEF NoCopy
<1>16. CommandSound(h, p)' /\ ptr' \in [Places -> {h, None}]
  BY <1>2, <1>3, <1>10, <1>11 DEF CommandSound, Typed
<1> HIDE DEF m
<1>17. Pins(h, p, c, d, m)
  BY <1>1, <1>2, <1>5, <1>9, <1>14, <1>15, <1>16 DEF Pins
<1> QED BY <1>1, <1>5, <1>12, <1>13, <1>16, <1>17, PinStep

(* An install writes its self-pointer, outside the lock.                   *)
LEMMA InstallPinStep ==
  ASSUME NEW h \in Homes, Sound(h), NEW p \in Procs, InstallPin(p)
  PROVE  Sound(h)'
<1> DEFINE d == cmd[p].at
           uid == cmd[p].uid
           R == registry[h]
           m == [uid |-> uid, path |-> d]
<1>1. /\ cmd[p].pc = "ipin" /\ Busy(p) /\ d \in there /\ cmd[p].via = h
      /\ uid \in Uids /\ R[uid] = d
  BY Kinds DEF InstallPin, At, Busy, Placed, Entering, Entered
<1>2. /\ cmd' = [cmd EXCEPT ![p] = Idle] /\ pin' = [pin EXCEPT ![d] = m] /\ Exit(p)
      /\ UNCHANGED <<there, ptr, registry, next, kept, lock, left>>
  BY DEF InstallPin, Exit, main
<1>3. /\ Typed(h) /\ MainStays(h) /\ Pinned /\ Counted(h) /\ Backed(h) /\ EntrySound(h) /\ OneEntry(h)
  BY DEF Sound
<1>4. /\ cmd \in [Procs -> CmdType] /\ cmd[p] \in CmdType /\ h \notin Repos /\ None \notin Places
      /\ there \subseteq Places /\ Uids \subseteq 0..MaxUid /\ d \in Places /\ pin \in [Places -> PinType]
      /\ there \subseteq Repos \union {h} /\ next[h] \in 0..MaxUid /\ MaxUid \in Nat
  BY <1>1, Kinds
<1>5. CASE d = h
  <2>1. uid = MainUid /\ pin[d] = m
    BY <1>1, <1>3, <1>5 DEF MainStays
  <2>2. pin' = pin
    BY <1>2, <1>4, <2>1
  <2> QED BY <1>1, <1>2, <1>3, <2>2, ExitStep DEF Typed
<1>6. CASE d # h
  <2>1. d \in Repos
    BY <1>1, <1>4, <1>6
  <2>2. m \in PinType /\ m.uid <= next[h] /\ m.uid \in Uids \ {MainUid} /\ m.path \in Repos
    BY <1>1, <1>3, <1>4, <1>6, <2>1 DEF PinType, Site, Counted, MainStays
  <2>3. cmd'[p] = Idle /\ \A q \in Procs \ {p} : cmd'[q] = cmd[q]
    BY <1>2, <1>4
  <2>4. pin'[d] = m /\ \A x \in Places \ {d} : pin'[x] = pin[x]
    BY <1>2, <1>4
  <2>5. Keeps(h, p, Idle)
    BY <1>2, <1>4, Idles DEF Keeps
  <2>6. CommandSound(h, p)'
    BY <2>3, IdleSound DEF CommandSound
  <2>7. Backed(h)'
    <3> SUFFICES ASSUME NEW x \in there \intersect Repos, pin'[x] # NoPin
                 PROVE  /\ R[pin'[x].uid] # None \/ Saving(x, {"csave"})'
                        /\ pin'[x].path = x => R[pin'[x].uid] = x \/ Saving(x, {"csave", "msave"})'
      BY <1>2 DEF Backed
    <3>1. CASE x = d
      BY <1>1, <1>4, <2>4, <3>1
    <3>2. CASE x # d
      <4>1. ASSUME NEW pcs \in {{"csave"}, {"csave", "msave"}}, Saving(x, pcs) PROVE Saving(x, pcs)'
        BY <1>1, <2>3, <4>1 DEF Saving
      <4> QED BY <1>3, <1>4, <2>4, <3>2, <4>1 DEF Backed
    <3> QED BY <3>1, <3>2
  <2>8. EntrySound(h)'
    <3> SUFFICES ASSUME NEW x \in there \intersect Repos, NEW u \in Uids, R[u] = x
                 PROVE  /\ pin'[x] = NoPin \/ pin'[x].uid = u
                        /\ \A y \in there \ {x} : pin'[y].uid = u => pin'[x].uid = u
      BY <1>2 DEF EntrySound
    <3>1. CASE x = d
      BY <1>1, <1>3, <2>1, <2>4, <3>1 DEF OneEntry
    <3>2. CASE x # d
      <4>1. u # uid /\ pin'[x] = pin[x]
        BY <1>1, <1>4, <2>4, <3>2
      <4>2. \A y \in there : pin'[y].uid = u => pin[y].uid = u
        BY <1>4, <2>4, <4>1
      <4> QED BY <1>3, <4>1, <4>2 DEF EntrySound
    <3> QED BY <3>1, <3>2
  <2>9. ASSUME NEW q \in Procs \ {p}, cmd[q].pc \in {"cpin", "csave"} PROVE m.uid # cmd[q].uid
    BY <1>1, <1>4, <2>9, Kinds DEF Entered
  <2>10. ASSUME NEW q \in Procs \ {p}, cmd[q].pc \in {"lookup", "unpin"}, pin[cmd[q].at] # NoPin
         PROVE  m.uid # pin[cmd[q].at].uid
    <3>1. cmd[q].at \in there /\ cmd[q].at \in Repos /\ Busy(q) /\ NoCopy(cmd[q].at) /\ Apart(h)
      BY <2>10, Kinds DEF Placed, Busy, Leaving, PinsApart, Sound
    <3>2. cmd[q].at # d
      BY <1>1, <1>6, <3>1 DEF Apart
    <3>3. pin[cmd[q].at].uid = uid => pin[d].uid = uid
      BY <1>1, <1>3, <2>1, <3>1, <3>2 DEF EntrySound
    <3> QED BY <1>1, <3>1, <3>2, <3>3 DEF NoCopy
  <2>11. ptr' \in [Places -> {h, None}]
    BY <1>2, <1>3 DEF Typed
  <2> HIDE DEF m
  <2>12. Pins(h, p, Idle, d, m)
    BY <1>1, <1>2, <2>2, <2>5, <2>9, <2>10, <2>11 DEF Pins
  <2> QED BY <2>1, <2>2, <2>6, <2>7, <2>8, <2>12, PinStep
<1> QED BY <1>5, <1>6

(* An uninstall removes the self-pointer.                                  *)
LEMMA RemovePinsStep ==
  ASSUME NEW h \in Homes, Sound(h), NEW p \in Procs, RemovePins(p)
  PROVE  Sound(h)'
<1> DEFINE d == cmd[p].at
           uid == cmd[p].uid
           R == registry[h]
           c == IF uid = 0 THEN Idle ELSE [cmd[p] EXCEPT !.pc = "unreg"]
<1>1. /\ cmd[p].pc = "unpin" /\ Busy(p) /\ d \in there /\ d \in Repos /\ cmd[p].via = h
      /\ (pin[d] # NoPin => NoCopy(d)) /\ (uid # 0 => uid \in Uids /\ R[uid] = d)
  BY Kinds DEF RemovePins, At, Busy, Placed, Leaving, Entered, PinsApart
<1>2. /\ cmd' = [cmd EXCEPT ![p] = c] /\ pin' = [pin EXCEPT ![d] = NoPin]
      /\ ptr' = [ptr EXCEPT ![d] = None]
      /\ UNCHANGED <<there, registry, next, kept, lock, left>>
  BY DEF RemovePins, Goto, Exit, main
<1>3. /\ Typed(h) /\ Counted(h) /\ Backed(h) /\ EntrySound(h)
  BY DEF Sound
<1>4. /\ cmd \in [Procs -> CmdType] /\ cmd[p] \in CmdType /\ h \notin Repos /\ h \in Places
      /\ there \subseteq Places /\ Uids \subseteq Nat /\ d \in Places /\ pin \in [Places -> PinType]
      /\ there \subseteq Repos \union {h} /\ next[h] \in 0..MaxUid /\ MaxUid \in Nat
  BY <1>1, Kinds
<1>5. NoPin \in PinType /\ NoPin.uid = 0 /\ NoPin.uid <= next[h] /\ 0 \notin Uids
  BY <1>4, Idles DEF NoPin, Uids
<1>6. c \in CmdType /\ c.uid <= next[h] /\ (c = Idle \/ (c.pc = "unreg" /\ c.at = d /\ c.via = h /\ c.uid = uid /\ uid # 0))
  <2>1. CASE uid = 0
    BY <1>4, <2>1, Idles
  <2>2. CASE uid # 0
    BY <1>1, <1>3, <1>4, <2>2 DEF CmdType, Pcs, Counted
  <2> QED BY <2>1, <2>2
<1>7. cmd'[p] = c /\ \A q \in Procs \ {p} : cmd'[q] = cmd[q]
  BY <1>2, <1>4
<1>8. pin'[d] = NoPin /\ \A x \in Places \ {d} : pin'[x] = pin[x]
  BY <1>2, <1>4
<1> HIDE DEF c
<1>9. Keeps(h, p, c)
  BY <1>1, <1>2, <1>6, Idles DEF Keeps
<1>10. CommandSound(h, p)'
  <2>1. CASE c = Idle
    BY <1>7, <2>1, IdleSound DEF CommandSound
  <2>2. CASE c # Idle
    <3>1. Placed(h, p)' /\ Entered(h, p)' /\ Repairing(h, p)'
      BY <1>1, <1>2, <1>6, <1>7, <2>2 DEF Placed, Busy, Locking, Settling, Leaving, Entered, Entering, Repairing
    <3>2. PinRead(p)' /\ PinsApart(p)'
      BY <1>6, <1>7, <1>8, <2>2 DEF PinRead, Reading, PinsApart
    <3> QED BY <3>1, <3>2 DEF CommandSound
  <2> QED BY <2>1, <2>2
<1>11. Backed(h)'
  <2> SUFFICES ASSUME NEW x \in there \intersect Repos, pin'[x] # NoPin
               PROVE  /\ R[pin'[x].uid] # None \/ Saving(x, {"csave"})'
                      /\ pin'[x].path = x => R[pin'[x].uid] = x \/ Saving(x, {"csave", "msave"})'
    BY <1>2 DEF Backed
  <2>1. x # d /\ pin'[x] = pin[x]
    BY <1>4, <1>8
  <2>2. ASSUME NEW pcs \in {{"csave"}, {"csave", "msave"}}, Saving(x, pcs) PROVE Saving(x, pcs)'
    BY <1>1, <1>7, <2>2 DEF Saving
  <2> QED BY <1>3, <2>1, <2>2 DEF Backed
<1>12. EntrySound(h)'
  <2> SUFFICES ASSUME NEW x \in there \intersect Repos, NEW u \in Uids, R[u] = x
               PROVE  /\ pin'[x] = NoPin \/ pin'[x].uid = u
                      /\ \A y \in there \ {x} : pin'[y].uid = u => pin'[x].uid = u
    BY <1>2 DEF EntrySound
  <2>1. \A y \in there : pin'[y].uid = u => y # d /\ pin[y].uid = u
    BY <1>4, <1>5, <1>8
  <2>2. CASE x = d
    <3>1. \A y \in there \ {d} : pin[y].uid # u
      <4>1. SUFFICES ASSUME NEW y \in there \ {d}, pin[y].uid = u PROVE FALSE
        OBVIOUS
      <4>2. pin[d].uid = u
        BY <1>3, <2>2, <4>1 DEF EntrySound
      <4>3. NoCopy(d)
        BY <1>1, <1>5, <4>2
      <4> QED BY <4>1, <4>2, <4>3 DEF NoCopy
    <3> QED BY <1>8, <2>1, <2>2, <3>1
  <2>3. CASE x # d
    BY <1>3, <1>4, <1>8, <2>1, <2>3 DEF EntrySound
  <2> QED BY <2>2, <2>3
<1>13. ASSUME NEW q \in Procs \ {p}, cmd[q].pc \in {"cpin", "csave"} PROVE NoPin.uid # cmd[q].uid
  BY <1>5, <1>13, Kinds DEF Entered
<1>14. ASSUME NEW q \in Procs \ {p}, cmd[q].pc \in {"lookup", "unpin"}, pin[cmd[q].at] # NoPin
       PROVE  NoPin.uid # pin[cmd[q].at].uid
  <2>1. cmd[q].at \in there /\ cmd[q].at \in Repos /\ Pinned
    BY <1>14, Kinds DEF Placed, Busy, Leaving, Sound
  <2> QED BY <1>5, <1>14, <2>1 DEF Pinned
<1>15. ptr' \in [Places -> {h, None}] /\ ptr'[h] = ptr[h]
  BY <1>1, <1>2, <1>3, <1>4 DEF Typed
<1>16. Pins(h, p, c, d, NoPin)
  BY <1>1, <1>2, <1>5, <1>9, <1>13, <1>14, <1>15 DEF Pins
<1> QED BY <1>1, <1>5, <1>10, <1>11, <1>12, <1>16, PinStep

(* A step of p at d that writes the entry of u only.                       *)
Enters(h, p, c, d, u, w) ==
  /\ Busy(p) /\ Keeps(h, p, c) /\ cmd[p].at = d
  /\ UNCHANGED <<there, pin, ptr>>
  /\ \/ lock' = lock
     \/ lock' = [lock EXCEPT ![h] = None] /\ lock[h] = p
  /\ next' \in [Homes -> 0..MaxUid] /\ next'[h] >= next[h]
  /\ registry' = [registry EXCEPT ![h][u] = w] /\ w \in {d, None}
  /\ w = None \/ u <= next'[h]
  /\ lock[h] \in {None, p} /\ registry[h][u] \notin there \ {d}

(* A step that writes one entry and no self-pointer.                       *)
LEMMA EntryStep ==
  ASSUME NEW h \in Homes, Sound(h), NEW p \in Procs, NEW c, NEW d \in Repos,
         NEW u \in Uids \ {MainUid}, NEW w, Enters(h, p, c, d, u, w),
         CommandSound(h, p)', OneEntry(h)', Backed(h)', EntrySound(h)'
  PROVE  Sound(h)'
<1>1. Typed(h) /\ Pinned /\ Counted(h) /\ next[h] \in Nat /\ d \in there /\ d \in Places
  BY Kinds DEF Sound, Placed, Enters, Places
<1>2. pin' = [pin EXCEPT ![d] = pin[d]] /\ pin[d] \in PinType /\ pin[d].uid \in Nat
  BY <1>1, RegistryAssumption DEF Typed, Enters, PinType
<1>3. pin[d].uid <= next'[h]
  BY <1>1, <1>2, RegistryAssumption DEF Counted, Enters
<1>4. pin[d] = NoPin \/ (pin[d].uid \in Uids \ {MainUid} /\ pin[d].path \in Repos)
  BY <1>1 DEF Pinned
<1>5. Writes(h, p, c, d, pin[d], u, w)
  BY <1>1, <1>2, <1>3, <1>4 DEF Writes, Enters, Typed
<1> QED BY <1>2, <1>5, WriteStep

(* The check saves the entry of the uid it wrote.                          *)
LEMMA SaveEntryStep ==
  ASSUME NEW h \in Homes, Sound(h), NEW p \in Procs, SaveEntry(p)
  PROVE  Sound(h)'
<1> DEFINE d == cmd[p].at
           uid == cmd[p].uid
           R == registry[h]
<1>1. /\ cmd[p].pc \in {"csave", "msave"} /\ Busy(p) /\ d \in there /\ d \in Repos /\ cmd[p].via = h
      /\ lock[h] = p /\ pin[d] = [uid |-> uid, path |-> d] /\ uid \in Uids
      /\ cmd[p].pc = "csave" => R[uid] = None /\ EntriesAt(R, d) = {}
                                /\ \A e \in there : pin[e].uid = uid => e = d
      /\ cmd[p].pc = "msave" => R[uid] = d \/ R[uid] \notin there \union {None}
  <2>1. cmd[p].pc \in {"csave", "msave"} /\ Busy(p)
    BY DEF SaveEntry, Busy
  <2>2. Placed(h, p) /\ PinRead(p) /\ PinsApart(p) /\ Entered(h, p)
    BY Kinds
  <2>3. d \in there /\ d \in Repos /\ cmd[p].via = h /\ lock[h] = p
    BY <2>1, <2>2 DEF Placed, Settling, Locking
  <2> QED BY <2>1, <2>2, <2>3 DEF Entered, PinRead, PinsApart
<1>2. /\ registry' = [registry EXCEPT ![h][uid] = d] /\ lock' = [lock EXCEPT ![h] = None]
      /\ cmd' = [cmd EXCEPT ![p] = Idle]
      /\ UNCHANGED <<there, pin, ptr, next, kept, left>>
  BY <1>1 DEF SaveEntry, Release, Exit, repo
<1>3. /\ Typed(h) /\ Pinned /\ Counted(h) /\ Backed(h) /\ EntrySound(h) /\ OneEntry(h)
  BY DEF Sound
<1>4. /\ cmd \in [Procs -> CmdType] /\ h \notin Repos /\ None \notin Places
      /\ there \subseteq Places /\ Uids \subseteq Nat /\ d \in Places /\ R \in [Uids -> Site]
      /\ next[h] \in 0..MaxUid /\ MaxUid \in Nat
  BY <1>1, Kinds
<1>5. uid \in Uids \ {MainUid} /\ uid <= next[h]
  <2>1. pin[d].uid = uid /\ pin[d] # NoPin
    BY <1>1 DEF NoPin, Uids
  <2> QED BY <1>1, <1>3, <2>1 DEF Pinned, Counted
<1>6. cmd'[p] = Idle /\ \A q \in Procs \ {p} : cmd'[q] = cmd[q]
  BY <1>2, <1>4
<1>7. registry'[h][uid] = d /\ \A v \in Uids \ {uid} : registry'[h][v] = R[v]
  BY <1>1, <1>2, <1>3 DEF Typed
<1>8. Keeps(h, p, Idle)
  BY <1>2, <1>4, Idles DEF Keeps
<1>9. CommandSound(h, p)'
  BY <1>6, IdleSound DEF CommandSound
<1>10. \A v \in Uids : R[v] = d => v = uid
  <2>1. pin[d].uid = uid /\ pin[d] # NoPin
    BY <1>1 DEF NoPin, Uids
  <2> QED BY <1>1, <1>3, <2>1 DEF EntrySound
<1>11. OneEntry(h)'
  BY <1>3, <1>7, <1>10 DEF OneEntry
<1>12. \A x \in there \intersect Repos : x # d => ~Saving(x, {"csave", "msave"}) /\ ~Saving(x, {"csave"})
  <2>1. \A q \in Procs \ {p} : cmd[q].pc \notin {"csave", "msave"}
    BY <1>1, LockIsHeld DEF Locking, Settling
  <2> QED BY <2>1 DEF Saving
<1>13. Backed(h)'
  <2> SUFFICES ASSUME NEW x \in there \intersect Repos, pin[x] # NoPin
               PROVE  registry'[h][pin[x].uid] # None /\ (pin[x].path = x => registry'[h][pin[x].uid] = x)
    BY <1>2 DEF Backed
  <2>1. CASE x = d
    BY <1>1, <1>4, <1>7, <2>1
  <2>2. CASE x # d
    <3>1. R[pin[x].uid] # None /\ (pin[x].path = x => R[pin[x].uid] = x) /\ pin[x].uid \in Uids
      BY <1>3, <1>12, <2>2 DEF Backed, Pinned
    <3>2. pin[x].uid = uid => cmd[p].pc = "msave"
      BY <1>1, <2>2
    <3>3. pin[x].uid = uid => pin[x].path # x
      BY <1>1, <2>2, <3>1, <3>2
    <3> QED BY ZenonT(60), <1>1, <1>4, <1>7, <3>1, <3>3
  <2> QED BY <2>1, <2>2
<1>14. EntrySound(h)'
  <2> SUFFICES ASSUME NEW x \in there \intersect Repos, NEW u \in Uids, registry'[h][u] = x
               PROVE  /\ pin[x] = NoPin \/ pin[x].uid = u
                      /\ \A y \in there \ {x} : pin[y].uid = u => pin[x].uid = u
    BY <1>2 DEF EntrySound
  <2> QED BY <1>1, <1>3, <1>7 DEF EntrySound
<1>15. Enters(h, p, Idle, d, uid, d)
  BY <1>1, <1>2, <1>3, <1>4, <1>5, <1>8 DEF Enters, Typed
<1> QED BY <1>1, <1>5, <1>9, <1>11, <1>13, <1>14, <1>15, EntryStep

(* An install finds or allocates its entry.                                *)
LEMMA RegisterStep ==
  ASSUME NEW h \in Homes, Sound(h), NEW p \in Procs, Register(p)
  PROVE  Sound(h)'
<1> DEFINE d == cmd[p].at
           R == registry[h]
           c(u) == [cmd[p] EXCEPT !.pc = "statedir", !.uid = u]
<1>1. /\ cmd[p].pc = "register" /\ Busy(p) /\ d \in there /\ cmd[p].via = h /\ lock[h] = None
      /\ cmd[p].pin = pin[d] /\ pin[d].path \in {d, None}
  BY Kinds DEF Register, At, Busy, Placed, PinRead, Reading, Free
<1>2. PICK uid \in Uids :
        /\ Registers(h, d, pin[d], uid) /\ registry' = [registry EXCEPT ![h][uid] = d]
        /\ cmd' = [cmd EXCEPT ![p] = c(uid)]
  <2>1. PICK uid \in Uids :
          /\ Registers(cmd[p].via, d, cmd[p].pin, uid) /\ registry' = [registry EXCEPT ![cmd[p].via][uid] = d]
          /\ cmd' = [cmd EXCEPT ![p].pc = "statedir", ![p].uid = uid]
    BY DEF Register
  <2>2. cmd' = [cmd EXCEPT ![p] = c(uid)]
    BY <2>1
  <2> QED BY <1>1, <2>1, <2>2
<1>3. UNCHANGED <<there, pin, ptr, lock>>
  BY DEF Register, repo
<1>4. /\ Typed(h) /\ MainStays(h) /\ Pinned /\ Counted(h) /\ Backed(h) /\ EntrySound(h) /\ OneEntry(h) /\ Apart(h)
  BY DEF Sound
<1>5. /\ cmd \in [Procs -> CmdType] /\ cmd[p] \in CmdType /\ h \notin Repos /\ None \notin Places
      /\ there \subseteq Places /\ Uids \subseteq Nat /\ Uids \subseteq 0..MaxUid /\ d \in Places /\ R \in [Uids -> Site]
      /\ next[h] \in 0..MaxUid /\ MaxUid \in Nat /\ pin \in [Places -> PinType]
      /\ there \subseteq Repos \union {h}
  BY <1>1, Kinds
<1>6. c(uid) \in CmdType /\ c(uid).pc = "statedir" /\ c(uid).at = d /\ c(uid).via = h /\ c(uid).uid = uid
  BY <1>1, <1>5 DEF CmdType, Pcs
<1>7. cmd'[p] = c(uid) /\ \A q \in Procs \ {p} : cmd'[q] = cmd[q]
  BY <1>2, <1>5
<1>8. registry'[h][uid] = d /\ \A v \in Uids \ {uid} : registry'[h][v] = R[v]
  BY <1>2, <1>4 DEF Typed
<1> HIDE DEF c
<1>9. CommandSound(h, p)'
  <2>1. Placed(h, p)' /\ Entered(h, p)'
    BY <1>1, <1>3, <1>6, <1>7, <1>8 DEF Placed, Busy, Locking, Settling, Leaving, Entered, Entering
  <2>2. PinRead(p)' /\ PinsApart(p)' /\ Repairing(h, p)'
    BY <1>6, <1>7 DEF PinRead, Reading, PinsApart, Repairing
  <2> QED BY <2>1, <2>2 DEF CommandSound
<1>10. CASE EntriesAt(R, d) # {}
  <2>1. next' = next /\ R[uid] = d
    <3>1. FirstEntryAt(R, d) \in Uids /\ R[FirstEntryAt(R, d)] = d
      BY <1>1, <1>5, <1>10, FirstIsThe
    <3> QED BY <1>2, <1>10, <3>1 DEF Registers
  <2>2. registry' = registry
    BY <1>2, <1>4, <2>1 DEF Typed
  <2>3. uid <= next[h]
    BY <1>4, <1>5, <2>1 DEF Counted
  <2> QED BY <1>1, <1>2, <1>3, <1>4, <1>6, <1>9, <2>1, <2>2, <2>3, OnwardStep DEF Typed
<1>11. CASE EntriesAt(R, d) = {}
  <2>1. d # h /\ d \in Repos
    BY <1>1, <1>4, <1>5, <1>11, RegistryAssumption DEF MainStays, EntriesAt, Uids, MainUid
  <2>2. pin[d] = NoPin
    <3>1. SUFFICES ASSUME pin[d] # NoPin PROVE FALSE
      OBVIOUS
    <3>2. pin[d].path = d /\ pin[d].uid \in Uids
      BY <1>1, <1>4, <2>1, <3>1, RegistryAssumption DEF Pinned, Places
    <3>3. ~Saving(d, {"csave", "msave"})
      BY <1>1, <1>4, <2>1 DEF Saving, Apart, Busy
    <3>4. R[pin[d].uid] = d
      BY <1>1, <1>4, <2>1, <3>1, <3>2, <3>3 DEF Backed
    <3> QED BY <1>11, <3>2, <3>4 DEF EntriesAt
  <2>3. Allocate(h, uid)
    BY <1>2, <1>11, <2>2 DEF Registers, Readoptable, NoPin, Uids
  <2>4. uid = next[h] + 1 /\ next' = [next EXCEPT ![h] = uid]
    BY <2>3 DEF Allocate
  <2>5. next' \in [Homes -> 0..MaxUid] /\ next'[h] = uid /\ next'[h] >= next[h]
    BY <1>4, <1>5, <2>4 DEF Typed
  <2>6. R[uid] = None /\ uid # MainUid /\ \A e \in there : pin[e].uid # uid
    <3>1. \A e \in there : pin[e].uid \in Nat
      BY <1>5 DEF PinType
    <3> QED BY <1>4, <1>5, <2>4, <3>1 DEF Counted, MainUid
  <2>7. Keeps(h, p, c(uid))
    BY <1>1, <1>2, <1>5, <1>6, <2>5 DEF Keeps
  <2>8. OneEntry(h)'
    BY <1>4, <1>8, <1>11 DEF OneEntry, EntriesAt
  <2>9. Backed(h)'
    <3> SUFFICES ASSUME NEW x \in there \intersect Repos, pin[x] # NoPin
                 PROVE  /\ registry'[h][pin[x].uid] # None \/ Saving(x, {"csave"})'
                        /\ pin[x].path = x => registry'[h][pin[x].uid] = x \/ Saving(x, {"csave", "msave"})'
      BY <1>3 DEF Backed
    <3>1. pin[x].uid \in Uids \ {uid}
      BY <1>4, <2>6 DEF Pinned
    <3>2. ASSUME NEW pcs \in {{"csave"}, {"csave", "msave"}}, Saving(x, pcs) PROVE Saving(x, pcs)'
      BY <1>1, <1>7, <3>2 DEF Saving
    <3> QED BY <1>4, <1>8, <3>1, <3>2 DEF Backed
  <2>10. EntrySound(h)'
    <3> SUFFICES ASSUME NEW x \in there \intersect Repos, NEW u \in Uids, registry'[h][u] = x
                 PROVE  /\ pin[x] = NoPin \/ pin[x].uid = u
                        /\ \A y \in there \ {x} : pin[y].uid = u => pin[x].uid = u
      BY <1>3 DEF EntrySound
    <3> QED BY <1>4, <1>8, <2>2, <2>6 DEF EntrySound
  <2>11. Enters(h, p, c(uid), d, uid, d)
    BY <1>1, <1>2, <1>3, <1>5, <2>5, <2>6, <2>7 DEF Enters
  <2> QED BY <1>9, <2>1, <2>6, <2>8, <2>9, <2>10, <2>11, EntryStep
<1> QED BY <1>10, <1>11

(* An uninstall removes its entry.                                         *)
LEMMA UnregisterStep ==
  ASSUME NEW h \in Homes, Sound(h), NEW p \in Procs, Unregister(p)
  PROVE  Sound(h)'
<1> DEFINE d == cmd[p].at
           uid == cmd[p].uid
           R == registry[h]
           c == [cmd[p] EXCEPT !.pc = "undata"]
<1>1. /\ cmd[p].pc = "unreg" /\ Busy(p) /\ d \in there /\ d \in Repos /\ cmd[p].via = h
      /\ lock[h] = None /\ pin[d] = NoPin /\ uid \in Uids /\ R[uid] = d
  BY Kinds DEF Unregister, At, Busy, Placed, Leaving, Entered, PinRead, Free
<1>2. /\ registry' = [registry EXCEPT ![h][uid] = None] /\ cmd' = [cmd EXCEPT ![p] = c]
      /\ UNCHANGED <<there, pin, ptr, next, kept, lock, left>>
  BY <1>1 DEF Unregister, Goto, repo
<1>3. /\ Typed(h) /\ MainStays(h) /\ Pinned /\ Counted(h) /\ Backed(h) /\ EntrySound(h) /\ OneEntry(h)
  BY DEF Sound
<1>4. /\ cmd \in [Procs -> CmdType] /\ cmd[p] \in CmdType /\ h \notin Repos /\ None \notin Places
      /\ there \subseteq Places /\ Uids \subseteq Nat /\ d \in Places /\ R \in [Uids -> Site]
      /\ next[h] \in 0..MaxUid /\ MaxUid \in Nat
  BY <1>1, Kinds
<1>5. uid \in Uids \ {MainUid} /\ uid <= next[h]
  BY <1>1, <1>3, <1>4 DEF MainStays, Counted
<1>6. c \in CmdType /\ c.pc = "undata" /\ c.at = d /\ c.via = h /\ c.uid = uid
  BY <1>1, <1>4 DEF CmdType, Pcs
<1>7. cmd'[p] = c /\ \A q \in Procs \ {p} : cmd'[q] = cmd[q]
  BY <1>2, <1>4
<1>8. registry'[h][uid] = None /\ \A v \in Uids \ {uid} : registry'[h][v] = R[v]
  BY <1>1, <1>2, <1>3 DEF Typed
<1> HIDE DEF c
<1>9. Keeps(h, p, c)
  BY <1>1, <1>2, <1>5, <1>6 DEF Keeps
<1>10. CommandSound(h, p)'
  BY <1>1, <1>2, <1>6, <1>7 DEF CommandSound, Placed, Busy, Locking, Settling, Leaving, Entered, Entering,
                                PinRead, Reading, PinsApart, Repairing
<1>11. OneEntry(h)'
  BY <1>3, <1>4, <1>8, RegistryAssumption DEF OneEntry, Places
<1>12. Backed(h)'
  <2> SUFFICES ASSUME NEW x \in there \intersect Repos, pin[x] # NoPin
               PROVE  /\ registry'[h][pin[x].uid] # None \/ Saving(x, {"csave"})'
                      /\ pin[x].path = x => registry'[h][pin[x].uid] = x \/ Saving(x, {"csave", "msave"})'
    BY <1>2 DEF Backed
  <2>1. pin[x].uid \in Uids \ {uid}
    <3>1. x # d /\ pin[x].uid = uid => pin[d].uid = uid
      BY <1>1, <1>3 DEF EntrySound
    <3> QED BY <1>1, <1>3, <3>1 DEF Pinned, NoPin, Uids
  <2>2. ASSUME NEW pcs \in {{"csave"}, {"csave", "msave"}}, Saving(x, pcs) PROVE Saving(x, pcs)'
    BY <1>1, <1>7, <2>2 DEF Saving
  <2> QED BY <1>3, <1>8, <2>1, <2>2 DEF Backed
<1>13. EntrySound(h)'
  <2> SUFFICES ASSUME NEW x \in there \intersect Repos, NEW u \in Uids, registry'[h][u] = x
               PROVE  /\ pin[x] = NoPin \/ pin[x].uid = u
                      /\ \A y \in there \ {x} : pin[y].uid = u => pin[x].uid = u
    BY <1>2 DEF EntrySound
  <2>1. R[u] = x
    BY <1>4, <1>8
  <2> QED BY <1>3, <2>1 DEF EntrySound
<1>14. Enters(h, p, c, d, uid, None)
  BY <1>1, <1>2, <1>3, <1>4, <1>9 DEF Enters, Typed
<1> QED BY <1>1, <1>5, <1>10, <1>11, <1>12, <1>13, <1>14, EntryStep

-----------------------------------------------------------------------------
(* What the user does.                                                     *)

(* A directory that comes is empty of apiary's files or brings those of one *)
(* no command works in; where a command works nothing changes.             *)
Rearranged(h) ==
  /\ UNCHANGED <<registry, next, lock, cmd>> /\ NoRepair
  /\ there' \subseteq Repos \union {h}
  /\ h \in there' => h \in there /\ pin'[h] = pin[h] /\ ptr'[h] = ptr[h]
  /\ pin' \in [Places -> PinType] /\ ptr' \in [Places -> {h, None}]
  /\ \A x \in Places \ there' : pin'[x] = NoPin
  /\ \A q \in Procs : Busy(q) => cmd[q].at \in there' /\ pin'[cmd[q].at] = pin[cmd[q].at]
  /\ \A x \in there' :
       \/ pin'[x] = NoPin
       \/ x \in there /\ pin'[x] = pin[x]
       \/ \E y \in there \intersect Repos : pin'[x] = pin[y] /\ Undisturbed(y)
  /\ \A x \in there' \ there, q \in Procs : cmd[q].pc \in {"mpin", "msave"} => registry[h][cmd[q].uid] # x

(* A change of the user that leaves the registry alone: what is left to    *)
(* show of it.                                                             *)
LEMMA RearrangedStep ==
  ASSUME NEW h \in Homes, Sound(h), Rearranged(h), Backed(h)', EntrySound(h)'
  PROVE  Sound(h)'
<1>1. /\ Typed(h) /\ MainStays(h) /\ Pinned /\ Counted(h) /\ Apart(h) /\ OneEntry(h)
  BY DEF Sound
<1>2. /\ h \notin Repos /\ None \notin Places /\ MaxUid \in Nat /\ h \in Places
      /\ Repos \subseteq Places
  BY RegistryAssumption DEF Places
<1>3. Typed(h)'
  BY <1>1 DEF Typed, Rearranged
<1>4. MainStays(h)'
  BY <1>1 DEF MainStays, Rearranged
<1>5. Pinned'
  BY <1>1, <1>2 DEF Pinned, Rearranged
<1>6. Counted(h)'
  <2>1. NoPin.uid = 0 /\ next[h] \in Nat /\ next[h] >= 0
    BY <1>1, <1>2 DEF NoPin, Typed
  <2>2. \A x \in there' : pin'[x].uid <= next[h]
    BY <1>1, <2>1 DEF Counted, Rearranged
  <2> QED BY <1>1, <2>2 DEF Counted, Rearranged
<1>7. ASSUME NEW q \in Procs PROVE CommandSound(h, q)'
  <2>1. /\ Placed(h, q) /\ PinRead(q) /\ PinsApart(q) /\ Entered(h, q) /\ cmd[q].at \in Site
        /\ cmd'[q] = cmd[q] /\ Uids \subseteq Nat /\ cmd[q].pc # "fix" /\ UNCHANGED <<registry, lock>>
    BY Kinds DEF Rearranged, NoRepair, At
  <2>2. Busy(q) => cmd[q].at \in there /\ cmd[q].at \in there' /\ pin'[cmd[q].at] = pin[cmd[q].at]
    BY <2>1 DEF Rearranged, Placed
  <2>3. Placed(h, q)'
    BY <2>1, <2>2 DEF Placed, Busy
  <2>4. PinRead(q)'
    <3>1. ~Busy(q) => PinRead(q)'
      BY <2>1 DEF PinRead, Busy, Reading
    <3> QED BY <2>1, <2>2, <3>1 DEF PinRead
  <2>5. PinsApart(q)'
    <3>1. ASSUME cmd[q].pc \in {"cpin", "csave"}, NEW e \in there', pin'[e].uid = cmd[q].uid
          PROVE  cmd[q].pc = "csave" /\ e = cmd[q].at
      <4>1. cmd[q].uid # 0 /\ Busy(q)
        BY <2>1, <3>1 DEF Entered, Uids, Busy
      <4>2. pin'[e] # NoPin
        BY <3>1, <4>1 DEF NoPin
      <4>3. CASE e \in there /\ pin'[e] = pin[e]
        BY <2>1, <3>1, <4>3 DEF PinsApart
      <4>4. CASE \E y \in there \intersect Repos : pin'[e] = pin[y] /\ Undisturbed(y)
        <5>1. PICK y \in there : pin'[e] = pin[y] /\ Undisturbed(y)
          BY <4>4
        <5>2. pin[y].uid = cmd[q].uid
          BY <3>1, <5>1
        <5> QED BY <2>1, <3>1, <5>1, <5>2 DEF PinsApart, Undisturbed
      <4> QED BY <4>2, <4>3, <4>4 DEF Rearranged
    <3>2. ASSUME cmd[q].pc \in {"lookup", "unpin"}, pin'[cmd[q].at] # NoPin
          PROVE  NoCopy(cmd[q].at)'
      <4>1. Busy(q) /\ pin'[cmd[q].at] = pin[cmd[q].at] /\ NoCopy(cmd[q].at) /\ cmd[q].at \in there /\ cmd[q].at \in Repos
        BY <2>1, <2>2, <3>2 DEF Busy, PinsApart, Placed, Leaving
      <4>2. pin[cmd[q].at].uid # 0
        BY <1>1, <3>2, <4>1 DEF Pinned, Uids
      <4>3. ASSUME NEW e \in there' \ {cmd[q].at}, pin'[e].uid = pin[cmd[q].at].uid PROVE FALSE
        <5>1. pin'[e] # NoPin
          BY <4>2, <4>3 DEF NoPin
        <5>2. CASE e \in there /\ pin'[e] = pin[e]
          BY <4>1, <4>3, <5>2 DEF NoCopy
        <5>3. CASE \E y \in there \intersect Repos : pin'[e] = pin[y] /\ Undisturbed(y)
          BY <4>1, <4>3, <5>3 DEF NoCopy, Undisturbed
        <5> QED BY <5>1, <5>2, <5>3 DEF Rearranged
      <4> QED BY <2>1, <4>1, <4>3 DEF NoCopy
    <3> QED BY <2>1, <3>1, <3>2 DEF PinsApart
  <2>6. Entered(h, q)'
    <3>1. \A x \in there' \ there : cmd[q].pc \in {"mpin", "msave"} => registry[h][cmd[q].uid] # x
      BY DEF Rearranged
    <3> QED BY <2>1, <3>1 DEF Entered
  <2>7. Repairing(h, q)'
    BY <2>1 DEF Repairing
  <2> QED BY <2>3, <2>4, <2>5, <2>6, <2>7 DEF CommandSound
<1>8. Apart(h)' /\ OneEntry(h)'
  BY <1>1 DEF Apart, OneEntry, Busy, Rearranged
<1> QED BY <1>3, <1>4, <1>5, <1>6, <1>7, <1>8 DEF Sound

(* No check is about to save an entry for a directory nobody works in.     *)
LEMMA NobodySaves ==
  ASSUME NEW x, Undisturbed(x), NEW pcs PROVE ~Saving(x, pcs)
BY DEF Undisturbed, Saving

(* The user does no save.                                                  *)
LEMMA SaversStay ==
  ASSUME cmd' = cmd, NEW x, NEW pcs PROVE Saving(x, pcs)' <=> Saving(x, pcs)
BY DEF Saving

(* A directory is moved to, or copied to, a place nothing remembers.       *)
LEMMA MoveStep ==
  ASSUME NEW h \in Homes, Sound(h), Orderly, NEW d \in Repos, NEW e \in Repos, Move(d, e) \/ Copy(d, e)
  PROVE  Sound(h)'
<1>1. /\ d \in there /\ e \notin there /\ Undisturbed(d) /\ Vacated(e) /\ EntriesOf(e) = {} /\ NoRepair
      /\ UNCHANGED <<registry, next, kept, lock, cmd>> /\ e \in there' /\ there' \subseteq there \union {e}
  BY DEF Move, Copy, Change, Orderly, main
<1>2. /\ Typed(h) /\ MainStays(h) /\ Pinned /\ Backed(h) /\ EntrySound(h)
  BY DEF Sound
<1>3. /\ h \notin Repos /\ Repos \subseteq Places /\ h \in Places /\ d # e /\ NoPin \in PinType
  BY <1>1, RegistryAssumption, Idles DEF Places
<1>4. /\ pin' \in [Places -> PinType] /\ pin'[e] = pin[d]
      /\ \A x \in Places \ {d, e} : pin'[x] = pin[x]
      /\ IF d \in there' THEN pin'[d] = pin[d] ELSE pin'[d] = NoPin
      /\ ptr' \in [Places -> {h, None}] /\ ptr'[h] = ptr[h]
      /\ \A x \in there \ {d} : x \in there'
  <2>1. CASE Move(d, e)
    BY <1>1, <1>2, <1>3, <2>1 DEF Move, Typed
  <2>2. CASE Copy(d, e)
    BY <1>1, <1>2, <1>3, <2>2 DEF Copy, Duplicate, Typed
  <2> QED BY <2>1, <2>2
<1>5. there \subseteq Places /\ there \subseteq Repos \union {h} /\ \A u \in Uids : registry[h][u] # e
  BY <1>1, <1>2, <1>3 DEF Typed, EntriesOf
<1>6. \A x \in there' : pin'[x] = IF x = e THEN pin[d] ELSE pin[x]
  BY <1>1, <1>4, <1>5
<1>7. ASSUME NEW q \in Procs, Busy(q) PROVE cmd[q].at \in there' /\ pin'[cmd[q].at] = pin[cmd[q].at]
  <2>1. cmd[q].at \in there /\ cmd[q].at # d
    BY <1>1, <1>7, Kinds DEF Placed, Undisturbed
  <2> QED BY <1>1, <1>4, <1>5, <2>1
<1>8. \A q \in Procs : cmd[q].pc \in {"mpin", "msave"} => registry[h][cmd[q].uid] # e
  <2>1. \A q \in Procs : Entered(h, q)
    BY Kinds
  <2> QED BY <1>5, <2>1 DEF Entered
<1>9. Rearranged(h)
  <2>1. \A x \in Places \ there' : pin'[x] = NoPin
    BY <1>1, <1>2, <1>4 DEF Pinned
  <2>2. \A x \in there' :
          (x \in there /\ pin'[x] = pin[x]) \/ \E y \in there \intersect Repos : pin'[x] = pin[y] /\ Undisturbed(y)
    BY <1>1, <1>6
  <2>3. h \in there' => h \in there /\ pin'[h] = pin[h] /\ ptr'[h] = ptr[h]
    BY <1>1, <1>3, <1>4, <1>6
  <2> QED BY <1>1, <1>3, <1>4, <1>5, <1>7, <1>8, <2>1, <2>2, <2>3 DEF Rearranged
<1>10. Backed(h)'
  <2> SUFFICES ASSUME NEW x \in there' \intersect Repos, pin'[x] # NoPin
               PROVE  /\ registry[h][pin'[x].uid] # None \/ Saving(x, {"csave"})
                      /\ pin'[x].path = x => registry[h][pin'[x].uid] = x \/ Saving(x, {"csave", "msave"})
    BY <1>1, SaversStay DEF Backed
  <2>1. CASE x = e
    <3>1. pin'[x] = pin[d] /\ pin[d].path # e /\ ~Saving(d, {"csave"})
      BY <1>1, <1>6, <2>1, NobodySaves DEF Vacated
    <3> QED BY <1>1, <1>2, <2>1, <3>1 DEF Backed
  <2>2. CASE x # e
    BY <1>1, <1>2, <1>6, <2>2 DEF Backed
  <2> QED BY <2>1, <2>2
<1>11. EntrySound(h)'
  <2> SUFFICES ASSUME NEW x \in there' \intersect Repos, NEW u \in Uids, registry[h][u] = x
               PROVE  /\ pin'[x] = NoPin \/ pin'[x].uid = u
                      /\ \A y \in there' \ {x} : pin'[y].uid = u => pin'[x].uid = u
    BY <1>1 DEF EntrySound
  <2>1. x # e /\ x \in there /\ pin'[x] = pin[x]
    BY <1>1, <1>5, <1>6
  <2>2. ASSUME NEW y \in there' \ {x}, pin'[y].uid = u PROVE pin'[x].uid = u
    <3>1. CASE y = e
      BY <1>1, <1>2, <1>6, <2>1, <2>2, <3>1 DEF EntrySound
    <3>2. CASE y # e
      BY <1>1, <1>2, <1>6, <2>1, <2>2, <3>2 DEF EntrySound
    <3> QED BY <3>1, <3>2
  <2> QED BY <1>2, <2>1, <2>2 DEF EntrySound
<1> QED BY <1>9, <1>10, <1>11, RearrangedStep

(* A directory is deleted.                                                 *)
LEMMA DeleteStep ==
  ASSUME NEW h \in Homes, Sound(h), Orderly, NEW d \in Places, Delete(d)
  PROVE  Sound(h)'
<1>1. /\ d \in there /\ Undisturbed(d) /\ NoRepair /\ there' = there \ {d}
      /\ UNCHANGED <<registry, next, kept, lock, cmd>>
      /\ pin' = [pin EXCEPT ![d] = NoPin] /\ ptr' = [ptr EXCEPT ![d] = None]
  BY DEF Delete, Change, Orderly, main
<1>2. /\ Typed(h) /\ MainStays(h) /\ Pinned /\ Backed(h) /\ EntrySound(h)
  BY DEF Sound
<1>3. /\ Repos \subseteq Places /\ h \in Places /\ NoPin \in PinType
  BY Idles DEF Places
<1>4. /\ pin' \in [Places -> PinType] /\ pin'[d] = NoPin /\ \A x \in Places \ {d} : pin'[x] = pin[x]
      /\ ptr' \in [Places -> {h, None}] /\ \A x \in Places \ {d} : ptr'[x] = ptr[x]
      /\ there \subseteq Places /\ there \subseteq Repos \union {h}
  BY <1>1, <1>2, <1>3 DEF Typed
<1>5. ASSUME NEW q \in Procs, Busy(q) PROVE cmd[q].at \in there' /\ pin'[cmd[q].at] = pin[cmd[q].at]
  BY <1>1, <1>4, <1>5, Kinds DEF Placed, Undisturbed
<1>6. Rearranged(h)
  BY <1>1, <1>2, <1>3, <1>4, <1>5 DEF Rearranged, Pinned
<1>7. \A x \in there' : x \in there /\ x # d /\ pin'[x] = pin[x]
  BY <1>1, <1>4
<1>8. Backed(h)'
  BY <1>1, <1>2, <1>7, SaversStay DEF Backed
<1>9. EntrySound(h)'
  BY <1>1, <1>2, <1>7 DEF EntrySound
<1> QED BY <1>6, <1>8, <1>9, RearrangedStep

(* A directory is created where no entry waits for another.                *)
LEMMA CreateStep ==
  ASSUME NEW h \in Homes, Sound(h), Orderly, NEW d \in Repos, Create(d)
  PROVE  Sound(h)'
<1>1. /\ d \notin there /\ NoRepair /\ there' = there \union {d}
      /\ \A e \in there : pin[e].uid \notin EntriesOf(d)
      /\ UNCHANGED <<pin, ptr, registry, next, kept, lock, cmd>>
  BY DEF Create, Change, Orderly, main
<1>2. /\ Typed(h) /\ MainStays(h) /\ Pinned /\ Backed(h) /\ EntrySound(h)
  BY DEF Sound
<1>3. /\ Repos \subseteq Places /\ h \in Places /\ h \notin Repos
  BY RegistryAssumption DEF Places
<1>4. pin[d] = NoPin /\ 0 \notin Uids /\ NoPin.uid = 0
  BY <1>1, <1>2, <1>3 DEF Pinned, Uids, NoPin
<1>5. ASSUME NEW q \in Procs, Busy(q) PROVE cmd[q].at \in there
  BY <1>5, Kinds DEF Placed
<1>6. ASSUME NEW q \in Procs, cmd[q].pc \in {"mpin", "msave"} PROVE registry[h][cmd[q].uid] # d
  <2>1. pin[cmd[q].at].uid = cmd[q].uid /\ cmd[q].uid \in Uids /\ Busy(q)
    <3>1. PinRead(q) /\ Entered(h, q)
      BY Kinds
    <3> QED BY <1>6, <3>1 DEF PinRead, Entered, Busy
  <2>2. cmd[q].uid \notin EntriesOf(d)
    BY <1>1, <1>5, <2>1
  <2> QED BY <2>1, <2>2 DEF EntriesOf
<1>7. Rearranged(h)
  <2>1. \A x \in there' : pin[x] = NoPin \/ x \in there
    BY <1>1, <1>4
  <2> QED BY <1>1, <1>2, <1>3, <1>5, <1>6, <2>1 DEF Rearranged, Typed, Pinned
<1>8. Backed(h)'
  BY <1>1, <1>2, <1>4, SaversStay DEF Backed
<1>9. EntrySound(h)'
  <2> SUFFICES ASSUME NEW x \in there' \intersect Repos, NEW u \in Uids, registry[h][u] = x
               PROVE  /\ pin[x] = NoPin \/ pin[x].uid = u
                      /\ \A y \in there' \ {x} : pin[y].uid = u => pin[x].uid = u
    BY <1>1 DEF EntrySound
  <2>1. CASE x = d
    <3>1. \A y \in there : pin[y].uid # u
      BY <1>1, <2>1 DEF EntriesOf
    <3> QED BY <1>1, <1>4, <2>1, <3>1
  <2>2. CASE x # d
    <3>1. \A y \in there' : pin[y].uid = u => y \in there
      BY <1>1, <1>4
    <3> QED BY <1>1, <1>2, <2>2, <3>1 DEF EntrySound
  <2> QED BY <2>1, <2>2
<1> QED BY <1>7, <1>8, <1>9, RearrangedStep

-----------------------------------------------------------------------------
(* The theorems.                                                           *)

(* One bootstrapped repository at first.                                   *)
LEMMA InitSound == Init => RegistryInv /\ left.forked = FALSE
<1> SUFFICES ASSUME Init PROVE RegistryInv /\ left.forked = FALSE
  OBVIOUS
<1>1. PICK h \in Homes, r \in Repos :
        LET sites == {h, r}  uid == [d \in sites |-> IF d = h THEN MainUid ELSE 2] IN
        /\ there = sites
        /\ pin = [d \in Places |-> IF d \in sites THEN [uid |-> uid[d], path |-> d] ELSE NoPin]
        /\ ptr = [d \in Places |-> IF d \in sites THEN h ELSE None]
        /\ registry = [k \in Homes |-> IF k = h THEN [NoEntries EXCEPT ![1] = h, ![2] = r] ELSE NoEntries]
        /\ next = [k \in Homes |-> IF k = h THEN 2 ELSE 0]
        /\ kept = [k \in Homes |-> IF k = h THEN {1, 2} ELSE {}]
        /\ lock = [k \in Homes |-> None]
        /\ cmd = [p \in Procs |-> Idle]
        /\ left = [commands |-> MaxCommands, changes |-> MaxChanges, forked |-> FALSE]
  BY DEF Init
<1>2. /\ h \notin Repos /\ r \notin Homes /\ h # r /\ h # None /\ r # None
      /\ h \in Places /\ r \in Places /\ None \in Site /\ h \in Site /\ r \in Site
      /\ 1 \in Uids /\ 2 \in Uids /\ 0 \notin Uids /\ 1 \in 0..MaxUid /\ 2 \in 0..MaxUid /\ 0 \in 0..MaxUid
      /\ NoPin \in PinType /\ Idle \in CmdType
  BY RegistryAssumption, Idles DEF Places, Site, Uids
<1>3. /\ there = {h, r}
      /\ pin = [d \in Places |-> IF d = h THEN [uid |-> 1, path |-> h]
                                 ELSE IF d = r THEN [uid |-> 2, path |-> r] ELSE NoPin]
      /\ ptr = [d \in Places |-> IF d \in {h, r} THEN h ELSE None]
      /\ registry \in [Homes -> [Uids -> Site]]
      /\ registry[h] = [u \in Uids |-> IF u = 1 THEN h ELSE IF u = 2 THEN r ELSE None]
  BY <1>1, <1>2 DEF MainUid, NoEntries
<1>4. Typed(h)
  <2>1. pin \in [Places -> PinType]
    <3>1. [uid |-> 1, path |-> h] \in PinType /\ [uid |-> 2, path |-> r] \in PinType
      BY <1>2 DEF PinType
    <3> QED BY <1>2, <1>3, <3>1
  <2>2. next \in [Homes -> 0..MaxUid]
    BY <1>1, <1>2
  <2>3. lock \in [Homes -> Procs \union {None}] /\ cmd \in [Procs -> CmdType]
    BY <1>1, <1>2
  <2> QED BY <1>2, <1>3, <2>1, <2>2, <2>3 DEF Typed
<1>5. MainStays(h) /\ Pinned
  BY <1>2, <1>3 DEF MainStays, Pinned, MainUid
<1>6. Counted(h)
  <2>1. next[h] = 2 /\ \A p \in Procs : cmd[p].uid = 0
    BY <1>1, Idles
  <2>2. \A u \in Uids : registry[h][u] # None => u <= 2
    BY <1>2, <1>3
  <2>3. pin[h].uid = 1 /\ pin[r].uid = 2
    BY <1>2, <1>3
  <2> QED BY <1>3, <2>1, <2>2, <2>3 DEF Counted
<1>7. \A p \in Procs : CommandSound(h, p)
  BY <1>1 DEF CommandSound, Placed, PinRead, PinsApart, Entered, Repairing, Busy, Idle,
              Locking, Settling, Leaving, Reading, Entering
<1>8. Apart(h) /\ OneEntry(h)
  <2>1. Apart(h)
    BY <1>1 DEF Apart, Busy, Idle
  <2>2. \A u \in Uids : registry[h][u] \in Repos => u = 2
    BY <1>2, <1>3, RegistryAssumption DEF Places
  <2> QED BY <2>1, <2>2 DEF OneEntry
<1>9. Backed(h) /\ EntrySound(h)
  BY <1>2, <1>3 DEF Backed, EntrySound
<1> QED BY <1>1, <1>4, <1>5, <1>6, <1>7, <1>8, <1>9 DEF Sound, RegistryInv

(* What the checks of a main checkout that moved would do never happens:   *)
(* it did not move.  And a reached directory has its entry.                *)
LEMMA OtherSteps ==
  ASSUME NEW h \in Homes, Sound(h), Orderly, NEW p \in Procs
  PROVE  /\ ~MainPin(p) /\ ~MainPtr(p) /\ ~MainEntry(p)
         /\ \A d \in Places : ~ResolveStateDir(p, d)
<1>1. ~MainPin(p) /\ ~MainPtr(p) /\ ~MainEntry(p)
  BY Kinds DEF Placed, MainPin, MainPtr, MainEntry, At
<1>2. SUFFICES ASSUME NEW d \in Places, ResolveStateDir(p, d) PROVE FALSE
  BY <1>1
<1>3. Typed(h) /\ MainStays(h) /\ Pinned /\ Backed(h)
  BY DEF Sound
<1>4. d \in there /\ ptr[d] = h /\ pin[d].path = d /\ lock[h] = None /\ EntriesAt(registry[h], d) = {}
  BY <1>2, TheMain DEF ResolveStateDir, Reached, Orderly, Free
<1>5. MainUid \in Uids /\ None \notin Places
  BY RegistryAssumption DEF Uids, MainUid
<1>6. d \in Repos /\ d # None
  BY <1>3, <1>4, <1>5 DEF Typed, MainStays, EntriesAt
<1>7. ~Saving(d, {"csave", "msave"})
  BY <1>4, LockIsHeld DEF Saving, Locking, Settling
<1>8. pin[d] # NoPin
  BY <1>4, <1>6 DEF NoPin
<1>9. registry[h][pin[d].uid] = d /\ pin[d].uid \in Uids
  BY <1>3, <1>4, <1>6, <1>7, <1>8 DEF Backed, Pinned
<1> QED BY <1>4, <1>9 DEF EntriesAt

(* Once a main checkout has been copied it stays so; nothing else says so.  *)
LEMMA ForkedStays ==
  ASSUME left \in LeftType, Next
  PROVE  /\ left' \in LeftType
         /\ ~left'.forked => ~left.forked /\ \A a, b \in Homes : ~CopyMain(a, b)
<1> DEFINE Same == left' = left
           Counts == left.commands > 0 /\ left' = [left EXCEPT !.commands = @ - 1]
<1>1. ASSUME NEW kind, Change(kind)
      PROVE  left' \in LeftType /\ (~left'.forked => ~left.forked /\ kind # "copymain")
  <2> DEFINE f == left.forked \/ kind = "copymain"
  <2>1. left = [commands |-> left.commands, changes |-> left.changes, forked |-> left.forked]
        /\ left.commands \in Nat /\ left.changes \in Nat
    BY DEF LeftType
  <2>2. left.changes - 1 \in Nat
    BY <1>1, <2>1 DEF Change
  <2>3. left' = [commands |-> left.commands, changes |-> left.changes - 1, forked |-> f]
    BY <1>1, <2>1, Zenon DEF Change
  <2>4. f \in BOOLEAN /\ left'.forked = f
    BY <2>3, Zenon
  <2>5. left' \in LeftType
    BY <2>1, <2>2, <2>3, <2>4 DEF LeftType
  <2> QED BY <2>4, <2>5, Zenon
<1>2. ASSUME NEW a \in Homes, NEW b \in Homes, CopyMain(a, b) PROVE left' \in LeftType /\ left'.forked
  BY <1>1, <1>2 DEF CopyMain, Change, LeftType
<1>3. ASSUME NEW p \in Procs, Starts(p) PROVE Counts
  BY <1>3 DEF Starts, Session, ResolveStateDir, Install, Uninstall, CascadeCommand, FixPins, Begin
<1>4. ASSUME NEW p \in Procs, Proceed(p) \/ Kill(p) PROVE Same
  BY <1>4 DEF Proceed, Kill, Check, Refresh, Classify, CopyPin, MovePin, SaveEntry, MainPin, MainPtr, MainEntry,
              Cascade, CascadeEnds, Rewrite, Register, StateDir, InstallPtr, InstallPin,
              LookUp, RemovePins, Unregister, RemoveData, FixOne
<1>5. ASSUME UserChanges PROVE \E kind : Change(kind)
  BY <1>5 DEF UserChanges, Move, Copy, Delete, Create, CopyMain
<1>6. Same \/ Counts => left' \in LeftType /\ left'.forked = left.forked
  BY DEF LeftType
<1>7. left' \in LeftType /\ (~left'.forked => ~left.forked)
  BY <1>1, <1>3, <1>4, <1>5, <1>6 DEF Next
<1> QED BY <1>2, <1>7

(* Every step but the copy of a main checkout keeps Sound.                 *)
LEMMA SoundStep ==
  ASSUME NEW h \in Homes, Sound(h), Orderly, Next
  PROVE  Sound(h)' \/ \E a, b \in Homes : CopyMain(a, b)
<1>1. ASSUME NEW p \in Procs, Starts(p) PROVE Sound(h)'
  BY <1>1, SessionStep, StartSteps, RepairSteps, OtherSteps DEF Starts
<1>2. ASSUME NEW p \in Procs, Proceed(p) PROVE Sound(h)'
  <2>1. CASE Check(p) \/ Refresh(p) \/ Classify(p) \/ CopyPin(p) \/ MovePin(p) \/ SaveEntry(p)
    BY <2>1, CheckStep, RefreshStep, ClassifyStep, CopyPinStep, MovePinStep, SaveEntryStep
  <2>2. CASE MainPin(p) \/ MainPtr(p) \/ MainEntry(p)
    BY <2>2, OtherSteps
  <2>3. CASE Cascade(p) \/ CascadeEnds(p) \/ \E d \in Places : Rewrite(p, d)
    BY <2>3, CascadeStep, EndingSteps, RewriteStep
  <2>4. CASE Register(p) \/ StateDir(p) \/ InstallPtr(p) \/ InstallPin(p)
    BY <2>4, RegisterStep, StateDirStep, InstallPinStep
  <2>5. CASE LookUp(p) \/ RemovePins(p) \/ Unregister(p) \/ RemoveData(p)
    BY <2>5, LookUpStep, RemovePinsStep, UnregisterStep, EndingSteps
  <2>6. CASE \E u \in Uids, d \in Places : FixOne(p, u, d)
    BY <2>6, FixStep
  <2> QED BY <1>2, <2>1, <2>2, <2>3, <2>4, <2>5, <2>6 DEF Proceed
<1>3. ASSUME NEW p \in Procs, Kill(p) PROVE Sound(h)'
  BY <1>3, EndingSteps
<1>4. ASSUME UserChanges PROVE Sound(h)' \/ \E a, b \in Homes : CopyMain(a, b)
  BY <1>4, MoveStep, DeleteStep, CreateStep DEF UserChanges
<1> QED BY <1>1, <1>2, <1>3, <1>4 DEF Next

(* Of every state of an orderly system: what the registry and the pins say. *)
RegistryState == left \in LeftType /\ RegistryInv

(* The invariant is inductive.                                             *)
LEMMA RegistryNext ==
  ASSUME Orderly, RegistryState, [Next]_vars PROVE RegistryState'
<1>1. CASE UNCHANGED vars
  <2>1. UNCHANGED <<there, pin, ptr, registry, next, lock, cmd, left>>
    BY <1>1 DEF vars, repo, main
  <2>2. \A h : Sound(h) => Sound(h)'
    <3>1. \A h : Typed(h) => Typed(h)'
      BY <2>1 DEF Typed
    <3>2. \A h : MainStays(h) => MainStays(h)'
      BY <2>1 DEF MainStays
    <3>3. Pinned => Pinned'
      BY <2>1 DEF Pinned
    <3>4. \A h : Counted(h) => Counted(h)'
      BY <2>1 DEF Counted
    <3>5. \A h, p : CommandSound(h, p) => CommandSound(h, p)'
      <4>1. \A h, p : Placed(h, p) => Placed(h, p)'
        BY <2>1 DEF Placed, Busy
      <4>2. \A p : PinRead(p) => PinRead(p)'
        BY <2>1 DEF PinRead
      <4>3. \A p : PinsApart(p) => PinsApart(p)'
        BY <2>1 DEF PinsApart, NoCopy
      <4>4. \A h, p : Entered(h, p) => Entered(h, p)'
        BY <2>1 DEF Entered, EntriesAt
      <4>5. \A h, p : Repairing(h, p) => Repairing(h, p)'
        BY <2>1 DEF Repairing, Busy
      <4> QED BY <4>1, <4>2, <4>3, <4>4, <4>5 DEF CommandSound
    <3>6. \A h : Apart(h) => Apart(h)'
      BY <2>1 DEF Apart, Busy
    <3>7. \A h : OneEntry(h) => OneEntry(h)'
      BY <2>1 DEF OneEntry
    <3>8. \A h : Backed(h) => Backed(h)'
      BY <2>1 DEF Backed, Saving
    <3>9. \A h : EntrySound(h) => EntrySound(h)'
      BY <2>1 DEF EntrySound
    <3> QED BY <3>1, <3>2, <3>3, <3>4, <3>5, <3>6, <3>7, <3>8, <3>9 DEF Sound
  <2> QED BY <2>1, <2>2 DEF RegistryState, RegistryInv
<1>2. CASE Next
  <2>1. left' \in LeftType
    BY <1>2, ForkedStays DEF RegistryState
  <2>2. CASE left'.forked
    BY <2>1, <2>2 DEF RegistryState, RegistryInv
  <2>3. CASE ~left'.forked
    <3>1. ~left.forked /\ \A a, b \in Homes : ~CopyMain(a, b)
      BY <1>2, <2>3, ForkedStays DEF RegistryState
    <3>2. PICK h \in Homes : Sound(h)
      BY <3>1 DEF RegistryState, RegistryInv
    <3>3. Sound(h)'
      BY <1>2, <3>1, <3>2, SoundStep
    <3> QED BY <2>1, <3>3 DEF RegistryState, RegistryInv
  <2> QED BY <2>2, <2>3
<1> QED BY <1>1, <1>2

(* One uid never stands for two working directories (drift.py): a settled  *)
(* repository has the uid of no other directory its registry knows.        *)
THEOREM OneDirectory == Orderly => (Spec => []OneDirectoryPerUid)
<1> SUFFICES ASSUME Orderly PROVE Spec => []OneDirectoryPerUid
  OBVIOUS
<1>1. Init => RegistryState
  <2>1. Init => left \in LeftType
    BY RegistryAssumption DEF Init, LeftType
  <2> QED BY <2>1, InitSound DEF RegistryState
<1>2. RegistryState => OneDirectoryPerUid
  <2> SUFFICES ASSUME RegistryState, ~left.forked, NEW d \in there \cap Repos, Settled(d), ptr[d] \in Mains
               PROVE  registry[ptr[d]][pin[d].uid] \in {None, d}
    BY DEF OneDirectoryPerUid
  <2>1. PICK h \in Homes : Sound(h)
    BY DEF RegistryState, RegistryInv
  <2>2. ptr[d] = h
    BY <2>1, TheMain DEF Places
  <2>3. pin[d].path = d /\ pin[d] # NoPin /\ ~Saving(d, {"csave", "msave"})
    BY NobodySaves DEF Settled, NoPin
  <2>4. Backed(h)
    BY <2>1 DEF Sound
  <2> QED BY <2>2, <2>3, <2>4 DEF Backed
<1>3. RegistryState /\ [Next]_vars => RegistryState'
  BY RegistryNext
<1> QED BY <1>1, <1>2, <1>3, PTL DEF Spec

-----------------------------------------------------------------------------
(* The files in a repository.                                              *)

Installing == {"hooks", "profile", "commands", "zone", "precommit", "record"}
Removing == {"out_commands", "out_hooks", "out_zone", "out_entry"}
Updating == {"migrate", "pin", "entry"}

Records == [values : SUBSET Values, commands : [Names -> Nat]]
FileJobs == [at : {"idle"} \cup Installing \cup Removing \cup Updating, record : Records, todo : Seq(Nat)]

(* A record says what some release shipped.                                *)
OfReleases(r) ==
    /\ r.values \subseteq Files!EverShipped
    /\ \A n \in Names : r.commands[n] # Files!Nothing => n \in Files!EverShipped

FileTypes ==
    /\ fRelease \in Files!Releases /\ fValues \subseteq Values /\ fCommands \in [Names -> Nat]
    /\ fPin \in 0..fRelease /\ fEntry \in 0..fRelease /\ fRan \in Seq(0..fRelease)
    /\ fRecord \in Records /\ OfReleases(fRecord)
    /\ fJob \in FileJobs /\ (fJob.at \in Installing \cup Removing => fJob.record = fRecord)
    /\ \A i \in DOMAIN fJob.todo : fJob.todo[i] \in 1..fRelease
    /\ fJob.at = "pin" => fJob.todo # <<>>

(* What the user wrote.                                                    *)
MineKept ==
    /\ (fMine \cap Values) \ Files!EverShipped \subseteq fValues
    /\ \A n \in (fMine \cap Names) \ Files!EverShipped : fCommands[n] = Files!Edited
    /\ "pre-commit" \in fMine => fPreCommit = "foreign"

(* Where a value comes from.                                               *)
ValuesKnown ==
    fValues \subseteq fMine \cup fLost \cup
        (IF fJob.at \in {"commands", "zone", "precommit", "record"} THEN Files!Shipped.values
         ELSE fRecord.values)

(* Where a command comes from.                                             *)
CommandKnown(n) ==
    \/ fCommands[n] \in {Files!Nothing, Files!Edited}
    \/ n \in fLost
    \/ /\ fJob.at \in {"zone", "precommit", "record"}
       /\ n \in Files!Shipped.commands /\ fCommands[n] = fRelease
    \/ /\ fJob.at \notin {"zone", "precommit", "record", "out_hooks", "out_zone", "out_entry"}
       /\ fCommands[n] = fRecord.commands[n]

(* An install that is through.                                             *)
Through ==
    fSettled =>
        /\ fJob.at = "idle" /\ fRecord.values = Files!Shipped.values
        /\ \A n \in Names : fRecord.commands[n] \in {Files!Nothing, fRelease}

(* What an uninstall has taken out already.                                *)
TakenOut ==
    /\ fEntry = Files!Nothing =>
         /\ fJob.at = "idle" /\ fRecord = Files!NoRecord
         /\ fPin = Files!Nothing /\ "ours" \notin fHooks /\ fZone \in {Files!Nothing, Files!Broken}
    /\ fJob.at \in Removing => fPin = Files!Nothing
    /\ fJob.at \in {"out_zone", "out_entry"} => "ours" \notin fHooks
    /\ fJob.at = "out_entry" => fZone \in {Files!Nothing, Files!Broken}

(* The registry entry is written after version.json.                       *)
PinnedFirst == fJob.at = "entry" => fPin # Files!Nothing

(* No migration but the next one has run; the chain goes on from the pin.  *)
InOrder ==
    "version" \notin fLost =>
        /\ \A i, j \in DOMAIN fRan : i < j => fRan[i] <= fRan[j]
        /\ fPin # Files!Nothing => \A i \in DOMAIN fRan : fRan[i] <= fPin + 1
        /\ fJob.at \in Updating => fPin # Files!Nothing
        /\ fJob.at \in {"migrate", "pin"} => \A i \in DOMAIN fJob.todo : fJob.todo[i] = fPin + i
        /\ fJob.at = "entry" => \A i \in DOMAIN fJob.todo : fJob.todo[i] = fPin + i - 1

FilesInv ==
    /\ FileTypes /\ MineKept /\ ValuesKnown /\ (\A n \in Names : CommandKnown(n))
    /\ Through /\ PinnedFirst /\ TakenOut /\ InOrder

-----------------------------------------------------------------------------
(* What a release ships, and the chain of an update.                       *)

(* A set of numbers has a smallest one. *)
LEMMA SmallestOne ==
    ASSUME NEW S \in SUBSET Nat, S # {}
    PROVE  \E m \in S : \A k \in S : m <= k
<1>1. PICK t \in S : \A u \in S : <<u, t>> \notin OpToRel(<, Nat)
    BY WFMin, NatLessThanWellFounded
<1>2. ASSUME NEW u \in S, u < t PROVE FALSE
    <2>1. <<u, t>> \in Nat \X Nat /\ <<u, t>>[1] < <<u, t>>[2]
        BY <1>2
    <2>2. <<u, t>> \in OpToRel(<, Nat)
        BY <2>1 DEF OpToRel
    <2> QED BY <1>1, <2>2
<1>3. \A u \in S : t <= u
    BY <1>2
<1> QED BY <1>3

(* The chain goes hop by hop from where the repository is. *)
LEMMA HopByHop ==
    ASSUME NEW from \in Nat, fRelease \in Nat, from <= fRelease
    PROVE  /\ Files!Chain(from) \in Seq(Nat)
           /\ \A i \in DOMAIN Files!Chain(from) : Files!Chain(from)[i] = from + i /\ from + i \in 1..fRelease
<1> DEFINE ends == {v \in from + 1..fRelease : v \notin Migrations}
           first == CHOOSE v \in ends : \A w \in ends : v <= w
           last == IF ends = {} THEN fRelease ELSE first - 1
<1>1. ends # {} => first \in ends
    <2>1. ends \in SUBSET Nat
        OBVIOUS
    <2> HIDE DEF ends
    <2> QED BY <2>1, SmallestOne
<1>2. last \in Nat /\ from <= last /\ last <= fRelease
    <2>1. CASE ends = {}
        BY <2>1
    <2>2. CASE ends # {}
        <3>1. first \in from + 1..fRelease
            BY <1>1, <2>2
        <3> HIDE DEF first
        <3> QED BY <2>2, <3>1
    <2> QED BY <2>1, <2>2
<1>3. Files!Chain(from) = [i \in 1..last - from |-> from + i]
    BY DEF Files!Chain
<1> HIDE DEF last
<1>4. last - from \in Nat
    BY <1>2
<1> QED BY <1>2, <1>3, <1>4

(* What a release ships, it has shipped. *)
LEMMA ShippedOnce ==
    ASSUME Files!RepoFilesAssumption, fRelease \in Files!Releases
    PROVE  /\ Files!Shipped.values \subseteq Values \cap Files!EverShipped
           /\ Files!Shipped.commands \subseteq Names \cap Files!EverShipped
           /\ fRelease \in Nat \ {0} /\ Len(Ships) \in Nat \ {0} /\ Files!Edited = Len(Ships) + 1
           /\ Values \cap Names = {} /\ "pre-commit" \notin Values \cup Names
           /\ "version" \notin Values \cup Names
<1>1. Files!Shipped.values = Files!Resolved(Ships[fRelease].layers) /\ Files!Shipped.commands = Ships[fRelease].commands
    BY DEF Files!Shipped, Files!Sources
<1>2. Files!Shipped.values \cup Files!Shipped.commands \subseteq Files!EverShipped
    BY <1>1 DEF Files!EverShipped
<1> QED BY <1>1, <1>2 DEF Files!RepoFilesAssumption, Files!Releases, Files!Edited

(* The command at work, in the form the steps use it. *)
LEMMA JobShape ==
    ASSUME FileTypes
    PROVE  /\ fJob.at \in {"idle"} \cup Installing \cup Removing \cup Updating
           /\ fJob.record \in Records /\ fJob.todo \in Seq(Nat)
           /\ \A to : /\ [fJob EXCEPT !.at = to].at = to
                      /\ [fJob EXCEPT !.at = to].record = fJob.record
                      /\ [fJob EXCEPT !.at = to].todo = fJob.todo
           /\ \A to \in {"idle"} \cup Installing \cup Removing \cup Updating :
                [fJob EXCEPT !.at = to] \in FileJobs
           /\ Files!Idle \in FileJobs /\ Files!Idle.at = "idle" /\ Files!Idle.todo = <<>> /\ Files!NoRecord \in Records
           /\ OfReleases(Files!NoRecord)
<1>1. fJob \in FileJobs
    BY DEF FileTypes
<1>2. /\ fJob.at \in {"idle"} \cup Installing \cup Removing \cup Updating
      /\ fJob.record \in Records /\ fJob.todo \in Seq(Nat)
    BY <1>1 DEF FileJobs
<1>3. \A to : /\ [fJob EXCEPT !.at = to].at = to
              /\ [fJob EXCEPT !.at = to].record = fJob.record
              /\ [fJob EXCEPT !.at = to].todo = fJob.todo
    BY <1>1 DEF FileJobs
<1>4. \A to \in {"idle"} \cup Installing \cup Removing \cup Updating : [fJob EXCEPT !.at = to] \in FileJobs
    BY <1>1 DEF FileJobs
<1>5. Files!NoRecord \in Records /\ OfReleases(Files!NoRecord)
    BY DEF Files!NoRecord, Records, OfReleases, Files!Nothing
<1>6. Files!Idle \in FileJobs /\ Files!Idle.at = "idle" /\ Files!Idle.todo = <<>>
    BY <1>5 DEF Files!Idle, FileJobs
<1> QED BY <1>2, <1>3, <1>4, <1>5, <1>6

-----------------------------------------------------------------------------
(* The types.                                                              *)

(* A step that goes on to another place of the same command. *)
LEMMA GoesOn ==
    ASSUME FileTypes, NEW to, Files!Goto(to),
           \/ to \in Installing /\ fJob.at \in Installing
           \/ to \in Removing /\ fJob.at \in Removing
           \/ to \in Updating,
           to = "pin" => fJob.todo # <<>>, UNCHANGED <<fRelease, fRecord>>
    PROVE  /\ fJob' \in FileJobs /\ fJob'.at = to /\ fJob'.record = fJob.record /\ fJob'.todo = fJob.todo
           /\ fJob'.at \in Installing \cup Removing => fJob'.record = fRecord'
           /\ \A i \in DOMAIN fJob'.todo : fJob'.todo[i] \in 1..fRelease'
           /\ fJob'.at = "pin" => fJob'.todo # <<>>
           /\ fRecord' \in Records /\ OfReleases(fRecord') /\ fRelease' \in Files!Releases'
<1>1. fJob' = [fJob EXCEPT !.at = to] /\ fJob' \in FileJobs
    BY JobShape DEF Files!Goto
<1>2. fJob'.at = to /\ fJob'.record = fJob.record /\ fJob'.todo = fJob.todo
    BY <1>1, JobShape
<1> QED BY <1>1, <1>2 DEF FileTypes, Installing, Removing, Updating, Files!Releases

(* An install keeps the types. *)
LEMMA InstallTypes ==
    ASSUME Files!RepoFilesAssumption, FileTypes, Files!Install
    PROVE  FileTypes'
<1>0. FileTypes
    OBVIOUS
<1>1. CASE Files!InstallPins
    <2>1. fJob' = [Files!Idle EXCEPT !.at = "hooks", !.record = fRecord]
        BY <1>1 DEF Files!InstallPins
    <2>2. fJob' \in FileJobs /\ fJob'.at = "hooks" /\ fJob'.record = fRecord /\ fJob'.todo = <<>>
        BY <2>1, JobShape DEF FileTypes, FileJobs, Files!Idle, Installing
    <2>3. 1 <= fRelease
        BY ShippedOnce DEF FileTypes
    <2> QED BY <1>1, <2>2, ShippedOnce DEF Files!InstallPins, FileTypes, OfReleases, Files!Releases, Files!EverShipped, Files!history
<1>2. CASE Files!RegisterHooks
    <2>1. fJob.at = "hooks" /\ Files!Goto("profile") /\ UNCHANGED <<fRelease, fRecord>>
        BY <1>2 DEF Files!RegisterHooks, Files!At
    <2> QED BY <1>2, <2>1, GoesOn DEF Files!RegisterHooks, FileTypes, Installing, Files!rest, Files!history
<1>3. CASE Files!ApplyProfile
    <2>1. fJob.at = "profile" /\ Files!Goto("commands") /\ UNCHANGED <<fRelease, fRecord>>
        BY <1>3 DEF Files!ApplyProfile, Files!At
    <2>2. fValues' \subseteq Values
        BY <1>3, ShippedOnce DEF Files!ApplyProfile, Files!Pruned, FileTypes
    <2> QED BY <1>3, <2>1, <2>2, GoesOn DEF Files!ApplyProfile, FileTypes, Installing, Files!rest, Files!history
<1>4. CASE Files!CopyCommands
    <2>1. fJob.at = "commands" /\ Files!Goto("zone") /\ UNCHANGED <<fRelease, fRecord>>
        BY <1>4 DEF Files!CopyCommands, Files!At
    <2>2. fCommands' \in [Names -> Nat]
        BY <1>4, ShippedOnce DEF Files!CopyCommands, FileTypes, Files!Nothing
    <2> QED BY <1>4, <2>1, <2>2, GoesOn DEF Files!CopyCommands, FileTypes, Installing, Files!rest, Files!history
<1>5. CASE Files!ZoneRefused
    BY <1>5, JobShape DEF Files!ZoneRefused, FileTypes, Files!files, Installing, Removing, OfReleases, Files!Releases
<1>6. CASE Files!WriteZone
    <2>1. fJob.at = "zone" /\ Files!Goto("precommit") /\ UNCHANGED <<fRelease, fRecord>>
        BY <1>6 DEF Files!WriteZone, Files!At
    <2> QED BY <1>6, <2>1, GoesOn DEF Files!WriteZone, FileTypes, Installing, Files!rest, Files!history
<1>7. CASE Files!InstallPreCommit
    <2>1. fJob.at = "precommit" /\ Files!Goto("record") /\ UNCHANGED <<fRelease, fRecord>>
        BY <1>7 DEF Files!InstallPreCommit, Files!At
    <2> QED BY <1>7, <2>1, GoesOn DEF Files!InstallPreCommit, FileTypes, Installing, Files!rest, Files!history
<1>8. CASE Files!WriteRecord
    <2>1. fRecord' = [values |-> Files!Shipped.values,
                     commands |-> [n \in Names |-> IF n \in Files!Shipped.commands THEN fRelease ELSE Files!Nothing]]
        BY <1>8 DEF Files!WriteRecord
    <2>2. fRecord' \in Records /\ OfReleases(fRecord')
        BY <2>1, ShippedOnce DEF Records, OfReleases, FileTypes, Files!Nothing
    <2>3. Files!EverShipped' = Files!EverShipped
        BY DEF Files!EverShipped
    <2> QED BY <1>8, <2>2, JobShape DEF Files!WriteRecord, FileTypes, Files!files, Installing, Removing, Files!history, OfReleases, Files!Releases
<1> QED BY <1>1, <1>2, <1>3, <1>4, <1>5, <1>6, <1>7, <1>8 DEF Files!Install

(* An uninstall keeps the types. *)
LEMMA UninstallTypes ==
    ASSUME Files!RepoFilesAssumption, FileTypes, Files!Uninstall
    PROVE  FileTypes'
<1>1. CASE Files!RemovePins
    <2>1. fJob' = [Files!Idle EXCEPT !.at = "out_commands", !.record = fRecord]
        BY <1>1 DEF Files!RemovePins
    <2>2. fJob' \in FileJobs /\ fJob'.at = "out_commands" /\ fJob'.record = fRecord /\ fJob'.todo = <<>>
        BY <2>1, JobShape DEF FileTypes, FileJobs, Files!Idle, Removing
    <2> QED BY <1>1, <2>2, ShippedOnce DEF Files!RemovePins, FileTypes, OfReleases, Files!Releases, Files!EverShipped, Files!history, Files!Nothing
<1>2. CASE Files!RemoveCommands
    <2>1. fJob.at = "out_commands" /\ Files!Goto("out_hooks") /\ UNCHANGED <<fRelease, fRecord>>
        BY <1>2 DEF Files!RemoveCommands, Files!At
    <2>2. fCommands' \in [Names -> Nat]
        BY <1>2 DEF Files!RemoveCommands, FileTypes, Files!Nothing
    <2> QED BY <1>2, <2>1, <2>2, GoesOn DEF Files!RemoveCommands, FileTypes, Removing
<1>3. CASE Files!RemoveHooks
    <2>1. fJob.at = "out_hooks" /\ Files!Goto("out_zone") /\ UNCHANGED <<fRelease, fRecord>>
        BY <1>3 DEF Files!RemoveHooks, Files!At
    <2> QED BY <1>3, <2>1, GoesOn DEF Files!RemoveHooks, FileTypes, Removing, Files!rest, Files!history
<1>4. CASE Files!StripZone
    <2>1. fJob.at = "out_zone" /\ Files!Goto("out_entry") /\ UNCHANGED <<fRelease, fRecord>>
        BY <1>4 DEF Files!StripZone, Files!At
    <2> QED BY <1>4, <2>1, GoesOn DEF Files!StripZone, FileTypes, Removing, Files!rest, Files!history
<1>5. CASE Files!Unregister
    <2>1. fRecord' = Files!NoRecord /\ fJob' = Files!Idle
        BY <1>5 DEF Files!Unregister
    <2> QED BY <1>5, <2>1, JobShape, ShippedOnce
            DEF Files!Unregister, FileTypes, Files!files, Installing, Removing, Files!Releases, Files!Nothing
<1> QED BY <1>1, <1>2, <1>3, <1>4, <1>5 DEF Files!Uninstall

(* An update keeps the types. *)
LEMMA UpdatesTypes ==
    ASSUME Files!RepoFilesAssumption, FileTypes, Files!Updates
    PROVE  FileTypes'
<1>1. CASE Files!Update
    <2>1. Files!RepoVersion \in Nat /\ fRelease \in Nat /\ Files!RepoVersion <= fRelease
        BY <1>1, ShippedOnce DEF Files!Update, Files!RepoVersion, FileTypes
    <2>2. /\ Files!Chain(Files!RepoVersion) \in Seq(Nat)
          /\ \A i \in DOMAIN Files!Chain(Files!RepoVersion) : Files!Chain(Files!RepoVersion)[i] \in 1..fRelease
        BY <2>1, HopByHop
    <2> DEFINE todo == Files!Chain(Files!RepoVersion)
    <2>3. fJob' = [Files!Idle EXCEPT !.at = "migrate", !.todo = todo]
        BY <1>1 DEF Files!Update
    <2> HIDE DEF todo
    <2>4. fJob' \in FileJobs /\ fJob'.at = "migrate" /\ fJob'.todo = todo
        BY <2>2, <2>3, JobShape DEF FileJobs, Files!Idle, Updating, todo
    <2> QED BY <1>1, <2>2, <2>4 DEF Files!Update, FileTypes, Files!files, Installing, Removing, OfReleases, Files!Releases, todo
<1>2. CASE Files!Migrate
    <2>1. Files!Goto("pin") /\ UNCHANGED <<fRelease, fRecord>> /\ fJob.todo # <<>>
        BY <1>2 DEF Files!Migrate
    <2>2. 1 \in DOMAIN fJob.todo /\ Head(fJob.todo) = fJob.todo[1]
        BY <2>1, JobShape
    <2>3. fRan' = Append(fRan, Head(fJob.todo)) /\ Head(fJob.todo) \in 0..fRelease
        BY <1>2, <2>2, ShippedOnce DEF Files!Migrate, FileTypes
    <2>4. fRan' \in Seq(0..fRelease)
        BY <2>3 DEF FileTypes
    <2> QED BY <1>2, <2>1, <2>4, GoesOn DEF Files!Migrate, FileTypes, Files!files, Updating
<1>3. CASE Files!MigrationFails
    BY <1>3, JobShape DEF Files!MigrationFails, FileTypes, Files!files, Files!rest, Files!history, Installing, Removing, OfReleases, Files!Releases
<1>4. CASE Files!Pin
    <2>1. Files!Goto("entry") /\ UNCHANGED <<fRelease, fRecord>>
        BY <1>4 DEF Files!Pin
    <2>2. fPin' \in 0..fRelease
        <3>1. 1 \in DOMAIN fJob.todo /\ Head(fJob.todo) = fJob.todo[1]
            BY <1>4, JobShape DEF Files!Pin, Files!At, FileTypes
        <3> QED BY <1>4, <3>1, ShippedOnce DEF Files!Pin, FileTypes
    <2> QED BY <1>4, <2>1, <2>2, GoesOn DEF Files!Pin, FileTypes, Updating, Files!rest, Files!history
<1>5. CASE Files!PinEntry
    <2> DEFINE todo == SubSeq(fJob.todo, 2, Len(fJob.todo))
    <2>1. /\ todo \in Seq(Nat)
          /\ \A i \in DOMAIN todo : i + 1 \in DOMAIN fJob.todo /\ todo[i] = fJob.todo[i + 1]
        BY JobShape
    <2>2. fJob' = [fJob EXCEPT !.at = "migrate", !.todo = todo]
        BY <1>5 DEF Files!PinEntry
    <2>3. fJob' \in FileJobs /\ fJob'.at = "migrate" /\ fJob'.todo = todo
        BY <2>1, <2>2 DEF FileTypes, FileJobs, Updating
    <2>4. \A i \in DOMAIN todo : todo[i] \in 1..fRelease
        BY <2>1 DEF FileTypes
    <2> HIDE DEF todo
    <2> QED BY <1>5, <2>3, <2>4 DEF Files!PinEntry, FileTypes, Files!files, Files!rest, Files!history, Installing, Removing, OfReleases, Files!Releases
<1>6. CASE Files!PinRelease
    <2>1. Files!Goto("entry") /\ UNCHANGED <<fRelease, fRecord>>
        BY <1>6 DEF Files!PinRelease
    <2>2. fPin' \in 0..fRelease
        BY <1>6, ShippedOnce DEF Files!PinRelease, FileTypes
    <2> QED BY <1>6, <2>1, <2>2, GoesOn DEF Files!PinRelease, FileTypes, Updating, Files!rest, Files!history
<1>7. CASE Files!Updated
    BY <1>7, JobShape DEF Files!Updated, FileTypes, Files!files, Files!rest, Files!history, Installing, Removing, OfReleases, Files!Releases
<1> QED BY <1>1, <1>2, <1>3, <1>4, <1>5, <1>6, <1>7 DEF Files!Updates

(* The user, a new release and a kill keep the types. *)
LEMMA OthersTypes ==
    ASSUME Files!RepoFilesAssumption, FileTypes, Files!User \/ Files!Release \/ Files!Kill
    PROVE  FileTypes'
<1>1. CASE Files!UserAddsValue
    BY <1>1 DEF Files!UserAddsValue, FileTypes, OfReleases, Files!Releases
<1>2. CASE Files!UserAddsHook
    BY <1>2 DEF Files!UserAddsHook, FileTypes, OfReleases, Files!Releases, Files!history
<1>3. CASE Files!UserWritesCommand
    BY <1>3, ShippedOnce DEF Files!UserWritesCommand, FileTypes, OfReleases, Files!Releases
<1>4. CASE Files!UserWritesPreCommit
    BY <1>4 DEF Files!UserWritesPreCommit, FileTypes, OfReleases, Files!Releases
<1>5. CASE Files!UserBreaksZone \/ Files!UserRepairsZone
    BY <1>5 DEF Files!UserBreaksZone, Files!UserRepairsZone, FileTypes, OfReleases, Files!Releases, Files!history
<1>6. CASE Files!Release
    <2>1. /\ fRelease' = fRelease + 1 /\ fRelease' \in Files!Releases /\ fRelease \in Nat
          /\ UNCHANGED <<fValues, fCommands, fPin, fEntry, fRan, fRecord, fJob>>
        BY <1>6, ShippedOnce DEF Files!Release, FileTypes, Files!Releases, Files!files, Files!history
    <2>2. 0..fRelease \subseteq 0..fRelease' /\ 1..fRelease \subseteq 1..fRelease'
        BY <2>1
    <2>3. fRan' \in Seq(0..fRelease') /\ fPin' \in 0..fRelease' /\ fEntry' \in 0..fRelease'
        BY <2>1, <2>2 DEF FileTypes
    <2> QED BY <2>1, <2>2, <2>3 DEF FileTypes, OfReleases, Files!Releases
<1>7. CASE Files!Kill
    BY SMTT(40), <1>7, JobShape DEF Files!Kill, FileTypes, Files!files, Installing, Removing, OfReleases, Files!Releases
<1> QED BY <1>1, <1>2, <1>3, <1>4, <1>5, <1>6, <1>7 DEF Files!User

-----------------------------------------------------------------------------
(* What the user wrote stays.                                              *)

(* Which steps touch what the user may have written. *)
LEMMA MineUntouched ==
    ASSUME Files!Next
    PROVE  \/ UNCHANGED <<fValues, fCommands, fPreCommit, fMine>>
           \/ Files!ApplyProfile \/ Files!CopyCommands \/ Files!InstallPreCommit \/ Files!RemoveCommands
           \/ Files!UserAddsValue \/ Files!UserWritesCommand \/ Files!UserWritesPreCommit
<1>1. Files!Install => \/ UNCHANGED <<fValues, fCommands, fPreCommit, fMine>>
                 \/ Files!ApplyProfile \/ Files!CopyCommands \/ Files!InstallPreCommit
    BY DEF Files!Install, Files!InstallPins, Files!RegisterHooks, Files!ZoneRefused, Files!WriteZone, Files!WriteRecord, Files!files, Files!rest, Files!history
<1>2. Files!Uninstall => UNCHANGED <<fValues, fCommands, fPreCommit, fMine>> \/ Files!RemoveCommands
    BY DEF Files!Uninstall, Files!RemovePins, Files!RemoveHooks, Files!StripZone, Files!Unregister, Files!files, Files!rest, Files!history
<1>3. Files!Updates => UNCHANGED <<fValues, fCommands, fPreCommit, fMine>>
    BY DEF Files!Updates, Files!Update, Files!Migrate, Files!MigrationFails, Files!Pin, Files!PinEntry, Files!PinRelease, Files!Updated, Files!files, Files!rest, Files!history
<1>4. Files!User => \/ UNCHANGED <<fValues, fCommands, fPreCommit, fMine>>
              \/ Files!UserAddsValue \/ Files!UserWritesCommand \/ Files!UserWritesPreCommit
    BY DEF Files!User, Files!UserAddsHook, Files!UserBreaksZone, Files!UserRepairsZone, Files!history
<1>5. Files!Release \/ Files!Kill => UNCHANGED <<fValues, fCommands, fPreCommit, fMine>>
    BY DEF Files!Release, Files!Kill, Files!files, Files!history
<1> QED BY <1>1, <1>2, <1>3, <1>4, <1>5 DEF Files!Next

(* Only values and commands of a release are pruned or removed. *)
LEMMA MineKeptNext ==
    ASSUME Files!RepoFilesAssumption, FileTypes, MineKept, Files!Next
    PROVE  MineKept'
<1>1. /\ Files!Shipped.values \subseteq Values \cap Files!EverShipped /\ Files!Shipped.commands \subseteq Names \cap Files!EverShipped
      /\ Values \cap Names = {} /\ "pre-commit" \notin Values \cup Names
    BY ShippedOnce DEF FileTypes
<1>2. fJob.at \in Installing \cup Removing =>
        fJob.record.values \subseteq Files!EverShipped
        /\ \A n \in Names : fJob.record.commands[n] # Files!Nothing => n \in Files!EverShipped
    BY DEF FileTypes, OfReleases
<1>3. CASE UNCHANGED <<fValues, fCommands, fPreCommit, fMine>>
    BY <1>3 DEF MineKept
<1>4. CASE Files!ApplyProfile
    <2>1. fJob.record.values \subseteq Files!EverShipped
        BY <1>2, <1>4 DEF Files!ApplyProfile, Files!At, Installing
    <2> QED BY <1>1, <1>4, <2>1 DEF Files!ApplyProfile, Files!Pruned, MineKept, Files!rest, Files!history
<1>5. CASE Files!CopyCommands
    <2>1. \A n \in Names \ Files!EverShipped : n \notin Files!Shipped.commands /\ ~Files!Stale(n)
        BY <1>1, <1>2, <1>5 DEF Files!CopyCommands, Files!At, Installing, Files!Stale
    <2>2. \A n \in Names \ Files!EverShipped : fCommands'[n] = fCommands[n]
        BY <1>5, <2>1 DEF Files!CopyCommands
    <2> QED BY <1>5, <2>2 DEF Files!CopyCommands, MineKept, Files!rest, Files!history
<1>6. CASE Files!InstallPreCommit
    BY <1>6 DEF Files!InstallPreCommit, Files!Foreign, MineKept, Files!rest, Files!history
<1>7. CASE Files!RemoveCommands
    <2>1. Files!Removed \subseteq Names \cap Files!EverShipped
        BY <1>1, <1>2, <1>7 DEF Files!RemoveCommands, Files!At, Removing, Files!Removed
    <2>2. /\ fMine' = fMine \ Files!Removed /\ UNCHANGED <<fValues, fPreCommit>>
          /\ fCommands' = [n \in Names |-> IF n \in Files!Removed THEN Files!Nothing ELSE fCommands[n]]
        BY <1>7 DEF Files!RemoveCommands
    <2> QED BY <2>1, <2>2 DEF MineKept
<1>8. CASE Files!UserAddsValue
    BY <1>1, <1>8 DEF Files!UserAddsValue, MineKept
<1>9. CASE Files!UserWritesCommand
    <2>1. PICK n \in Names : fCommands' = [fCommands EXCEPT ![n] = Files!Edited] /\ fMine' = fMine \cup {n}
        BY <1>9 DEF Files!UserWritesCommand
    <2>2. fCommands \in [Names -> Nat] /\ UNCHANGED <<fValues, fPreCommit>>
        BY <1>9 DEF Files!UserWritesCommand, FileTypes
    <2> QED BY <1>1, <2>1, <2>2 DEF MineKept
<1>10. CASE Files!UserWritesPreCommit
    BY <1>1, <1>10 DEF Files!UserWritesPreCommit, MineKept
<1> QED BY <1>3, <1>4, <1>5, <1>6, <1>7, <1>8, <1>9, <1>10, MineUntouched

-----------------------------------------------------------------------------
(* Where values and commands come from.                                    *)

(* A kill forgets what its install has put there. *)
LEMMA KillForgets ==
    ASSUME FileTypes, Files!Kill \/ Files!ZoneRefused
    PROVE  /\ fJob' = Files!Idle /\ fJob'.at = "idle" /\ fLost \subseteq fLost' /\ fJob.at # "idle"
           /\ UNCHANGED <<fRelease, fValues, fHooks, fCommands, fZone, fPin, fEntry, fRecord, fRan, fMine, fSettled>>
           /\ "version" \in fLost' \ fLost => Files!Kill \/ Files!ZoneRefused
           /\ fJob.at \in {"commands", "zone", "precommit", "record"} => Files!Shipped.values \ fRecord.values \subseteq fLost'
           /\ fJob.at \in {"zone", "precommit", "record"} =>
                \A n \in Files!Shipped.commands : fRecord.commands[n] # fRelease => n \in fLost'
<1>1. fJob.at # "idle" /\ fJob' = Files!Idle /\ Files!Idle.at = "idle"
      /\ UNCHANGED <<fRelease, fValues, fHooks, fCommands, fZone, fPin, fEntry, fRecord, fRan, fMine, fSettled>>
    BY JobShape DEF Files!Kill, Files!ZoneRefused, Files!At, Files!files
<1>2. fJob.at \in Installing => fLost' = fLost \cup Files!Unrecorded
    BY DEF Files!Kill, Files!ZoneRefused, Installing
<1>3. fLost \subseteq fLost'
    BY DEF Files!Kill, Files!ZoneRefused
<1> QED BY <1>1, <1>2, <1>3 DEF Files!Unrecorded, Installing

(* As long as the release stays, it ships the same. *)
LEMMA SameShip ==
    ASSUME fRelease' = fRelease
    PROVE  Files!Shipped' = Files!Shipped
BY DEF Files!Shipped, Files!Sources

(* The command at work after a step that goes on. *)
LEMMA GoneOn ==
    ASSUME FileTypes, NEW to, Files!Goto(to)
    PROVE  fJob'.at = to /\ fJob'.record = fJob.record /\ fJob'.todo = fJob.todo
BY JobShape DEF Files!Goto

(* Values come from the user, the last record or the install at work. *)
LEMMA ValuesKnownNext ==
    ASSUME Files!RepoFilesAssumption, FileTypes, ValuesKnown, Files!Next
    PROVE  ValuesKnown'
<1> DEFINE Late == {"commands", "zone", "precommit", "record"}
<1>1. /\ Files!Shipped.values \subseteq Values /\ Files!Shipped.commands \subseteq Names
      /\ Values \cap Names = {} /\ "pre-commit" \notin Values \cup Names
    BY ShippedOnce DEF FileTypes
<1>2. fValues \subseteq fMine \cup fLost \cup (IF fJob.at \in Late THEN Files!Shipped.values ELSE fRecord.values)
    BY DEF ValuesKnown
<1>3. ASSUME UNCHANGED <<fRelease, fValues, fRecord>>, fMine \subseteq fMine', fLost \subseteq fLost',
             fJob.at \in Late <=> fJob'.at \in Late
      PROVE  ValuesKnown'
    BY <1>2, <1>3, SameShip DEF ValuesKnown
<1>4. CASE Files!Install
    <2>1. CASE Files!InstallPins
        <3>1. fJob.at = "idle" /\ fJob'.at = "hooks"
            BY <2>1 DEF Files!InstallPins, Files!Begin, Files!At, Files!Idle
        <3> QED BY <1>3, <2>1, <3>1 DEF Files!InstallPins, Files!history
    <2>2. CASE Files!RegisterHooks
        BY <1>3, <2>2, GoneOn DEF Files!RegisterHooks, Files!At, Files!rest, Files!history
    <2>3. CASE Files!ApplyProfile
        <3>1. fJob.record = fRecord
            BY <2>3 DEF Files!ApplyProfile, Files!At, FileTypes, Installing
        <3>2. fJob'.at = "commands" /\ Files!Shipped' = Files!Shipped /\ UNCHANGED <<fMine, fLost>>
            BY <2>3, GoneOn, SameShip DEF Files!ApplyProfile, Files!rest, Files!history
        <3>3. fValues' = Files!Pruned(fRecord.values) \cup Files!Shipped.values /\ fJob.at = "profile"
            BY <2>3, <3>1 DEF Files!ApplyProfile, Files!At
        <3> QED BY <1>2, <3>2, <3>3 DEF ValuesKnown, Files!Pruned
    <2>4. CASE Files!CopyCommands
        BY <1>3, <2>4, GoneOn DEF Files!CopyCommands, Files!At, Files!rest, Files!history
    <2>5. CASE Files!ZoneRefused
        <3>1. /\ fJob'.at = "idle" /\ fLost \subseteq fLost' /\ UNCHANGED <<fValues, fRecord, fMine>>
              /\ fJob.at \in Late => Files!Shipped.values \ fRecord.values \subseteq fLost'
            BY <2>5, KillForgets
        <3> QED BY <1>2, <3>1 DEF ValuesKnown
    <2>6. CASE Files!WriteZone
        BY <1>3, <2>6, GoneOn DEF Files!WriteZone, Files!At, Files!rest, Files!history
    <2>7. CASE Files!InstallPreCommit
        BY <1>3, <2>7, GoneOn DEF Files!InstallPreCommit, Files!At, Files!rest, Files!history
    <2>8. CASE Files!WriteRecord
        <3>1. fJob.at = "record" /\ fJob'.at = "idle" /\ fRecord'.values = Files!Shipped.values
              /\ UNCHANGED <<fValues, fMine, fLost>>
            BY <2>8 DEF Files!WriteRecord, Files!At, Files!Idle, Files!files, Files!history
        <3> QED BY <1>2, <3>1 DEF ValuesKnown
    <2> QED BY <1>4, <2>1, <2>2, <2>3, <2>4, <2>5, <2>6, <2>7, <2>8 DEF Files!Install
<1>5. CASE Files!Uninstall
    <2>1. CASE Files!RemovePins
        <3>1. fJob.at = "idle" /\ fJob'.at = "out_commands"
            BY <2>1 DEF Files!RemovePins, Files!Begin, Files!At, Files!Idle
        <3> QED BY <1>3, <2>1, <3>1 DEF Files!RemovePins, Files!history
    <2>2. CASE Files!RemoveCommands
        <3>1. Files!Removed \subseteq Names
            BY <1>1 DEF Files!Removed
        <3>2. fJob.at = "out_commands" /\ fJob'.at = "out_hooks" /\ fMine' = fMine \ Files!Removed
              /\ UNCHANGED <<fValues, fLost, fRecord>>
            BY <2>2, GoneOn DEF Files!RemoveCommands, Files!At
        <3>3. fValues \subseteq Values
            BY DEF FileTypes
        <3> QED BY <1>1, <1>2, <3>1, <3>2, <3>3 DEF ValuesKnown
    <2>3. CASE Files!RemoveHooks \/ Files!StripZone
        BY <1>3, <2>3, GoneOn DEF Files!RemoveHooks, Files!StripZone, Files!At, Files!rest, Files!history
    <2>4. CASE Files!Unregister
        <3>1. fJob.at = "out_entry" /\ fJob'.at = "idle" /\ fLost' = fLost \cup fRecord.values
              /\ UNCHANGED <<fValues, fMine>>
            BY <2>4 DEF Files!Unregister, Files!At, Files!Idle, Files!files
        <3> QED BY <1>2, <3>1 DEF ValuesKnown
    <2> QED BY <1>5, <2>1, <2>2, <2>3, <2>4 DEF Files!Uninstall
<1>6. CASE Files!Updates
    <2>1. /\ UNCHANGED <<fRelease, fValues, fRecord, fMine>> /\ fLost \subseteq fLost' /\ fJob.at \notin Late
        BY <1>6 DEF Files!Updates, Files!Update, Files!Migrate, Files!MigrationFails, Files!Pin, Files!PinEntry, Files!PinRelease, Files!Updated, Files!Begin, Files!At,
                    Files!files, Files!rest, Files!history
    <2>2. CASE Files!Update
        <3>1. fJob'.at = "migrate"
            BY <2>2 DEF Files!Update, Files!Idle
        <3> QED BY <1>3, <2>1, <3>1
    <2>3. CASE Files!Migrate \/ Files!Pin \/ Files!PinRelease
        BY <1>3, <2>1, <2>3, GoneOn DEF Files!Migrate, Files!Pin, Files!PinRelease
    <2>4. CASE Files!MigrationFails \/ Files!Updated
        BY <1>3, <2>1, <2>4, JobShape DEF Files!MigrationFails, Files!Updated
    <2>5. CASE Files!PinEntry
        <3>1. fJob'.at = "migrate"
            BY <2>5 DEF Files!PinEntry, FileTypes, FileJobs
        <3> QED BY <1>3, <2>1, <3>1
    <2> QED BY <1>6, <2>2, <2>3, <2>4, <2>5 DEF Files!Updates
<1>7. CASE Files!User
    <2>1. CASE Files!UserAddsValue
        <3>1. PICK x \in Values : fValues' = fValues \cup {x} /\ fMine' = fMine \cup {x}
            BY <2>1 DEF Files!UserAddsValue
        <3>2. UNCHANGED <<fRelease, fRecord, fLost, fJob>> /\ Files!Shipped' = Files!Shipped
            BY <2>1, SameShip DEF Files!UserAddsValue
        <3> QED BY <1>2, <3>1, <3>2 DEF ValuesKnown
    <2>2. CASE ~Files!UserAddsValue
        BY <1>3, <1>7, <2>2 DEF Files!User, Files!UserAddsHook, Files!UserWritesCommand, Files!UserWritesPreCommit, Files!UserBreaksZone,
                                Files!UserRepairsZone, Files!history
    <2> QED BY <2>1, <2>2
<1>8. CASE Files!Release
    <2>1. fJob.at = "idle" /\ UNCHANGED <<fValues, fRecord, fMine, fLost, fJob>>
        BY <1>8 DEF Files!Release, Files!At, Files!files, Files!history
    <2> QED BY <1>2, <2>1 DEF ValuesKnown
<1>9. CASE Files!Kill
    <2>1. /\ fJob'.at = "idle" /\ fLost \subseteq fLost' /\ UNCHANGED <<fValues, fRecord, fMine>>
          /\ fJob.at \in Late => Files!Shipped.values \ fRecord.values \subseteq fLost'
        BY <1>9, KillForgets
    <2> QED BY <1>2, <2>1 DEF ValuesKnown
<1> QED BY <1>4, <1>5, <1>6, <1>7, <1>8, <1>9 DEF Files!Next

(* Commands come from the user, the last record or the install at work. *)
LEMMA CommandsKnownNext ==
    ASSUME Files!RepoFilesAssumption, FileTypes, Files!Next, NEW n \in Names, CommandKnown(n)
    PROVE  CommandKnown(n)'
<1> DEFINE Late == {"zone", "precommit", "record"}
           Cleared == Late \cup {"out_hooks", "out_zone", "out_entry"}
<1>1. fCommands \in [Names -> Nat]
    BY DEF FileTypes
<1>2. \/ fCommands[n] \in {Files!Nothing, Files!Edited}
      \/ n \in fLost
      \/ fJob.at \in Late /\ n \in Files!Shipped.commands /\ fCommands[n] = fRelease
      \/ fJob.at \notin Cleared /\ fCommands[n] = fRecord.commands[n]
    BY DEF CommandKnown
<1>3. ASSUME UNCHANGED <<fRelease, fRecord>>, fCommands'[n] \in {fCommands[n], Files!Edited}, fLost \subseteq fLost',
             fJob.at \in Late <=> fJob'.at \in Late, fJob'.at \in Cleared => fJob.at \in Cleared
      PROVE  CommandKnown(n)'
    BY <1>2, <1>3, SameShip DEF CommandKnown, Files!Edited
<1>4. CASE Files!Install
    <2>1. CASE Files!InstallPins
        <3>1. fJob.at = "idle" /\ fJob'.at = "hooks"
            BY <2>1 DEF Files!InstallPins, Files!Begin, Files!At, Files!Idle
        <3> QED BY <1>3, <2>1, <3>1 DEF Files!InstallPins, Files!history
    <2>2. CASE Files!RegisterHooks
        BY <1>3, <2>2, GoneOn DEF Files!RegisterHooks, Files!At, Files!rest, Files!history
    <2>3. CASE Files!ApplyProfile
        BY <1>3, <2>3, GoneOn DEF Files!ApplyProfile, Files!At, Files!rest, Files!history
    <2>4. CASE Files!CopyCommands
        <3>1. fJob.record = fRecord /\ fJob.at = "commands"
            BY <2>4 DEF Files!CopyCommands, Files!At, FileTypes, Installing
        <3>2. fJob'.at = "zone" /\ Files!Shipped' = Files!Shipped /\ UNCHANGED <<fLost, fRelease>>
            BY <2>4, GoneOn, SameShip DEF Files!CopyCommands, Files!rest, Files!history
        <3>3. fCommands'[n] = IF n \in Files!Shipped.commands THEN fRelease
                             ELSE IF Files!Stale(n) THEN Files!Nothing ELSE fCommands[n]
            BY <2>4 DEF Files!CopyCommands
        <3> QED BY <1>2, <3>1, <3>2, <3>3 DEF CommandKnown, Files!Stale, Files!Edited
    <2>5. CASE Files!ZoneRefused
        <3>1. /\ fJob'.at = "idle" /\ fLost \subseteq fLost' /\ UNCHANGED <<fCommands, fRecord>>
              /\ fJob.at \in Late => \A m \in Files!Shipped.commands : fRecord.commands[m] # fRelease => m \in fLost'
            BY <2>5, KillForgets
        <3> QED BY <1>2, <3>1 DEF CommandKnown, Files!Edited
    <2>6. CASE Files!WriteZone
        BY <1>3, <2>6, GoneOn DEF Files!WriteZone, Files!At, Files!rest, Files!history
    <2>7. CASE Files!InstallPreCommit
        BY <1>3, <2>7, GoneOn DEF Files!InstallPreCommit, Files!At, Files!rest, Files!history
    <2>8. CASE Files!WriteRecord
        <3>1. /\ fJob.at = "record" /\ fJob'.at = "idle" /\ UNCHANGED <<fCommands, fLost>>
              /\ n \in Files!Shipped.commands => fRecord'.commands[n] = fRelease
            BY <2>8 DEF Files!WriteRecord, Files!At, Files!Idle, Files!files, Files!history
        <3> QED BY <1>2, <3>1 DEF CommandKnown, Files!Edited
    <2> QED BY <1>4, <2>1, <2>2, <2>3, <2>4, <2>5, <2>6, <2>7, <2>8 DEF Files!Install
<1>5. CASE Files!Uninstall
    <2>1. CASE Files!RemovePins
        <3>1. fJob.at = "idle" /\ fJob'.at = "out_commands"
            BY <2>1 DEF Files!RemovePins, Files!Begin, Files!At, Files!Idle
        <3> QED BY <1>3, <2>1, <3>1 DEF Files!RemovePins, Files!history
    <2>2. CASE Files!RemoveCommands
        <3>1. fJob.record = fRecord /\ fJob.at = "out_commands"
            BY <2>2 DEF Files!RemoveCommands, Files!At, FileTypes, Removing
        <3>2. fCommands'[n] = (IF n \in Files!Removed THEN Files!Nothing ELSE fCommands[n]) /\ UNCHANGED fLost
            BY <2>2 DEF Files!RemoveCommands
        <3>3. n \in Files!Removed \/ fRecord.commands[n] = Files!Nothing
            BY <3>1 DEF Files!Removed
        <3> QED BY <1>2, <3>1, <3>2, <3>3 DEF CommandKnown, Files!Edited
    <2>3. CASE Files!RemoveHooks \/ Files!StripZone
        BY <1>3, <2>3, GoneOn DEF Files!RemoveHooks, Files!StripZone, Files!At, Files!rest, Files!history
    <2>4. CASE Files!Unregister
        <3>1. fJob.at = "out_entry" /\ fLost \subseteq fLost' /\ UNCHANGED fCommands
            BY <2>4 DEF Files!Unregister, Files!At, Files!files
        <3> QED BY <1>2, <3>1 DEF CommandKnown, Files!Edited
    <2> QED BY <1>5, <2>1, <2>2, <2>3, <2>4 DEF Files!Uninstall
<1>6. CASE Files!Updates
    <2>1. /\ UNCHANGED <<fRelease, fCommands, fRecord>> /\ fLost \subseteq fLost' /\ fJob.at \notin Cleared
        BY <1>6 DEF Files!Updates, Files!Update, Files!Migrate, Files!MigrationFails, Files!Pin, Files!PinEntry, Files!PinRelease, Files!Updated, Files!Begin, Files!At,
                    Files!files, Files!rest, Files!history
    <2>2. CASE Files!Update
        <3>1. fJob'.at = "migrate"
            BY <2>2 DEF Files!Update, Files!Idle
        <3> QED BY <1>3, <2>1, <3>1
    <2>3. CASE Files!Migrate \/ Files!Pin \/ Files!PinRelease
        BY <1>3, <2>1, <2>3, GoneOn DEF Files!Migrate, Files!Pin, Files!PinRelease
    <2>4. CASE Files!MigrationFails \/ Files!Updated
        BY <1>3, <2>1, <2>4, JobShape DEF Files!MigrationFails, Files!Updated
    <2>5. CASE Files!PinEntry
        <3>1. fJob'.at = "migrate"
            BY <2>5 DEF Files!PinEntry, FileTypes, FileJobs
        <3> QED BY <1>3, <2>1, <3>1
    <2> QED BY <1>6, <2>2, <2>3, <2>4, <2>5 DEF Files!Updates
<1>7. CASE Files!User
    <2>1. CASE Files!UserWritesCommand
        <3>1. PICK m \in Names : fCommands' = [fCommands EXCEPT ![m] = Files!Edited]
            BY <2>1 DEF Files!UserWritesCommand
        <3>2. fCommands'[n] \in {fCommands[n], Files!Edited}
            BY <1>1, <3>1
        <3> QED BY <1>3, <2>1, <3>2 DEF Files!UserWritesCommand
    <2>2. CASE ~Files!UserWritesCommand
        BY <1>3, <1>7, <2>2 DEF Files!User, Files!UserAddsValue, Files!UserAddsHook, Files!UserWritesPreCommit, Files!UserBreaksZone,
                                Files!UserRepairsZone, Files!history
    <2> QED BY <2>1, <2>2
<1>8. CASE Files!Release
    <2>1. fJob.at = "idle" /\ UNCHANGED <<fCommands, fRecord, fLost, fJob>>
        BY <1>8 DEF Files!Release, Files!At, Files!files, Files!history
    <2> QED BY <1>2, <2>1 DEF CommandKnown, Files!Edited
<1>9. CASE Files!Kill
    <2>1. /\ fJob'.at = "idle" /\ fLost \subseteq fLost' /\ UNCHANGED <<fCommands, fRecord>>
          /\ fJob.at \in Late => \A m \in Files!Shipped.commands : fRecord.commands[m] # fRelease => m \in fLost'
        BY <1>9, KillForgets
    <2> QED BY <1>2, <2>1 DEF CommandKnown, Files!Edited
<1> QED BY <1>4, <1>5, <1>6, <1>7, <1>8, <1>9 DEF Files!Next

(* An install that is through stays so until the next step. *)
LEMMA ThroughNext ==
    ASSUME Files!RepoFilesAssumption, FileTypes, Through, Files!Next
    PROVE  Through'
<1>1. CASE Files!WriteRecord
    <2>1. fJob'.at = "idle" /\ Files!Shipped' = Files!Shipped
        BY <1>1, JobShape, SameShip DEF Files!WriteRecord
    <2>2. fRecord' = [values |-> Files!Shipped.values,
                     commands |-> [n \in Names |-> IF n \in Files!Shipped.commands THEN fRelease ELSE Files!Nothing]]
          /\ fRelease' = fRelease
        BY <1>1 DEF Files!WriteRecord
    <2> QED BY <2>1, <2>2 DEF Through
<1>2. fSettled' = FALSE \/ (fSettled' = fSettled /\ fJob.at # "idle") \/ Files!WriteRecord
    BY JobShape DEF Files!Next, Files!Install, Files!InstallPins, Files!RegisterHooks, Files!ApplyProfile, Files!CopyCommands, Files!ZoneRefused, Files!WriteZone,
           Files!InstallPreCommit, Files!Uninstall, Files!RemovePins, Files!RemoveCommands, Files!RemoveHooks, Files!StripZone,
           Files!Unregister, Files!Updates, Files!Update, Files!Migrate, Files!MigrationFails, Files!Pin, Files!PinEntry, Files!PinRelease, Files!Updated,
           Files!User, Files!UserAddsValue, Files!UserAddsHook, Files!UserWritesCommand, Files!UserWritesPreCommit, Files!UserBreaksZone,
           Files!UserRepairsZone, Files!Release, Files!Kill, Files!Begin, Files!Edit, Files!At, Files!rest
<1> QED BY <1>1, <1>2 DEF Through

-----------------------------------------------------------------------------
(* An uninstall, and the order of migrations.                              *)

(* An update writes the registry entry after version.json. *)
LEMMA PinnedFirstNext ==
    ASSUME Files!RepoFilesAssumption, FileTypes, PinnedFirst, Files!Next
    PROVE  PinnedFirst'
<1>1. fRelease \in Nat \ {0} /\ Files!Nothing = 0 /\ fJob.todo \in Seq(Nat)
    BY ShippedOnce, JobShape DEF FileTypes, Files!Nothing
<1>2. CASE Files!Pin
    <2>1. fJob.todo # <<>>
        BY <1>2 DEF Files!Pin, Files!At, FileTypes
    <2>2. 1 \in DOMAIN fJob.todo /\ Head(fJob.todo) = fJob.todo[1]
        BY <1>1, <2>1
    <2>3. fPin' = fJob.todo[1] /\ fJob.todo[1] \in 1..fRelease
        BY <1>2, <2>2 DEF Files!Pin, FileTypes
    <2> QED BY <1>1, <2>3 DEF PinnedFirst
<1>3. CASE Files!PinRelease
    BY <1>1, <1>3 DEF Files!PinRelease, PinnedFirst
<1>4. CASE Files!InstallPins
    BY <1>1, <1>4 DEF Files!InstallPins, PinnedFirst
<1>5. CASE Files!RemovePins \/ Files!Update
    <2>1. fJob'.at # "entry"
        BY <1>5 DEF Files!RemovePins, Files!Update, Files!Idle
    <2> QED BY <2>1 DEF PinnedFirst
<1>6. CASE Files!PinEntry
    <2>1. fJob'.at = "migrate"
        BY <1>6 DEF Files!PinEntry, FileTypes, FileJobs
    <2> QED BY <2>1 DEF PinnedFirst
<1>7. CASE Files!RegisterHooks \/ Files!ApplyProfile \/ Files!CopyCommands \/ Files!WriteZone \/ Files!InstallPreCommit
           \/ Files!RemoveCommands \/ Files!RemoveHooks \/ Files!StripZone \/ Files!Migrate
    <2>1. fJob'.at # "entry"
        BY <1>7, GoneOn DEF Files!RegisterHooks, Files!ApplyProfile, Files!CopyCommands, Files!WriteZone, Files!InstallPreCommit,
                            Files!RemoveCommands, Files!RemoveHooks, Files!StripZone, Files!Migrate
    <2> QED BY <2>1 DEF PinnedFirst
<1>8. CASE Files!ZoneRefused \/ Files!WriteRecord \/ Files!Unregister \/ Files!MigrationFails \/ Files!Updated \/ Files!Release \/ Files!Kill
    <2>1. fJob'.at = "idle"
        BY <1>8, JobShape DEF Files!ZoneRefused, Files!WriteRecord, Files!Unregister, Files!MigrationFails, Files!Updated, Files!Release, Files!Kill, Files!At
    <2> QED BY <2>1 DEF PinnedFirst
<1>9. CASE Files!User
    <2>1. UNCHANGED <<fPin, fJob>>
        BY <1>9 DEF Files!User, Files!UserAddsValue, Files!UserAddsHook, Files!UserWritesCommand, Files!UserWritesPreCommit, Files!UserBreaksZone,
                    Files!UserRepairsZone
    <2> QED BY <2>1 DEF PinnedFirst
<1> QED BY <1>2, <1>3, <1>4, <1>5, <1>6, <1>7, <1>8, <1>9 DEF Files!Next, Files!Install, Files!Uninstall, Files!Updates

(* Files are out before the registry entry is. *)
LEMMA TakenOutNext ==
    ASSUME Files!RepoFilesAssumption, FileTypes, PinnedFirst, TakenOut, Files!Next
    PROVE  TakenOut'
<1>1. /\ fRelease \in Nat \ {0} /\ Len(Ships) \in Nat \ {0} /\ Files!Nothing = 0 /\ Files!Broken = Len(Ships) + 1
      /\ fPin \in Nat /\ fEntry \in Nat /\ fJob.todo \in Seq(Nat)
    BY ShippedOnce, JobShape DEF FileTypes, Files!Nothing, Files!Broken
<1>2. /\ fEntry = Files!Nothing =>
           /\ fJob.at = "idle" /\ fRecord = Files!NoRecord
           /\ fPin = Files!Nothing /\ "ours" \notin fHooks /\ fZone \in {Files!Nothing, Files!Broken}
      /\ fJob.at \in Removing => fPin = Files!Nothing
      /\ fJob.at \in {"out_zone", "out_entry"} => "ours" \notin fHooks
      /\ fJob.at = "out_entry" => fZone \in {Files!Nothing, Files!Broken}
    BY DEF TakenOut
<1>3. ASSUME fEntry' # Files!Nothing, fJob'.at \notin Removing
      PROVE  TakenOut'
    BY <1>3 DEF TakenOut, Removing
<1>4. CASE Files!Install
    <2>1. CASE Files!InstallPins
        <3>1. fJob'.at = "hooks" /\ fEntry' = fRelease
            BY <2>1 DEF Files!InstallPins, Files!Idle
        <3> QED BY <1>1, <1>3, <3>1 DEF Removing
    <2>2. CASE Files!RegisterHooks \/ Files!ApplyProfile \/ Files!CopyCommands \/ Files!WriteZone \/ Files!InstallPreCommit
        <3>1. fJob.at # "idle" /\ fEntry' = fEntry /\ fJob'.at \notin Removing
            BY <2>2, GoneOn DEF Files!RegisterHooks, Files!ApplyProfile, Files!CopyCommands, Files!WriteZone, Files!InstallPreCommit, Files!At,
                                Removing
        <3> QED BY <1>2, <1>3, <3>1
    <2>3. CASE Files!ZoneRefused \/ Files!WriteRecord
        <3>1. fJob.at # "idle" /\ fEntry' = fEntry /\ fJob'.at = "idle"
            BY <2>3, JobShape DEF Files!ZoneRefused, Files!WriteRecord, Files!At
        <3> QED BY <1>2, <1>3, <3>1 DEF Removing
    <2> QED BY <1>4, <2>1, <2>2, <2>3 DEF Files!Install
<1>5. CASE Files!Uninstall
    <2>1. CASE Files!RemovePins
        <3>1. fJob'.at = "out_commands" /\ fEntry' = fEntry /\ fEntry # Files!Nothing /\ fPin' = Files!Nothing
            BY <2>1 DEF Files!RemovePins, Files!Idle
        <3> QED BY <3>1 DEF TakenOut
    <2>2. CASE Files!RemoveCommands
        <3>1. /\ fJob.at = "out_commands" /\ fJob'.at = "out_hooks"
              /\ UNCHANGED <<fPin, fEntry>>
            BY <2>2, GoneOn DEF Files!RemoveCommands, Files!At
        <3> QED BY <1>2, <3>1 DEF TakenOut, Removing
    <2>3. CASE Files!RemoveHooks
        <3>1. /\ fJob.at = "out_hooks" /\ fJob'.at = "out_zone" /\ fHooks' = fHooks \ Files!Apiarys
              /\ UNCHANGED <<fPin, fEntry>>
            BY <2>3, GoneOn DEF Files!RemoveHooks, Files!At
        <3> QED BY <1>2, <3>1 DEF TakenOut, Removing, Files!Apiarys
    <2>4. CASE Files!StripZone
        <3>1. /\ fJob.at = "out_zone" /\ fJob'.at = "out_entry" /\ fZone' \in {Files!Nothing, Files!Broken}
              /\ UNCHANGED <<fPin, fEntry, fHooks>>
            BY <2>4, GoneOn DEF Files!StripZone, Files!At, Files!ZoneSound
        <3> QED BY <1>2, <3>1 DEF TakenOut, Removing
    <2>5. CASE Files!Unregister
        <3>1. /\ fJob.at = "out_entry" /\ fJob'.at = "idle" /\ fRecord' = Files!NoRecord
              /\ UNCHANGED <<fPin, fHooks, fZone>>
            BY <2>5, JobShape DEF Files!Unregister, Files!At, Files!files
        <3> QED BY <1>2, <3>1 DEF TakenOut, Removing
    <2> QED BY <1>5, <2>1, <2>2, <2>3, <2>4, <2>5 DEF Files!Uninstall
<1>6. CASE Files!Updates
    <2>1. CASE Files!Update
        <3>1. fJob'.at = "migrate" /\ fEntry' = fEntry /\ fEntry # Files!Nothing
            BY <2>1 DEF Files!Update, Files!Idle
        <3> QED BY <1>3, <3>1 DEF Removing
    <2>2. CASE Files!Migrate \/ Files!Pin \/ Files!PinRelease
        <3>1. fJob.at # "idle" /\ fEntry' = fEntry /\ fJob'.at \notin Removing
            BY <2>2, GoneOn DEF Files!Migrate, Files!Pin, Files!PinRelease, Files!At, Removing
        <3> QED BY <1>2, <1>3, <3>1
    <2>3. CASE Files!MigrationFails \/ Files!Updated
        <3>1. fJob.at # "idle" /\ fEntry' = fEntry /\ fJob'.at = "idle"
            BY <2>3, JobShape DEF Files!MigrationFails, Files!Updated, Files!At
        <3> QED BY <1>2, <1>3, <3>1 DEF Removing
    <2>4. CASE Files!PinEntry
        <3>1. fJob'.at = "migrate" /\ fJob.at = "entry"
            BY <2>4 DEF Files!PinEntry, Files!At, FileTypes, FileJobs
        <3>2. fPin # Files!Nothing
            BY <3>1 DEF PinnedFirst
        <3>3. fEntry # Files!Nothing
            BY <1>2, <3>1
        <3>4. fEntry' = fPin
            BY <2>4, <3>3 DEF Files!PinEntry
        <3> QED BY <1>3, <3>1, <3>2, <3>4 DEF Removing
    <2> QED BY <1>6, <2>1, <2>2, <2>3, <2>4 DEF Files!Updates
<1>7. CASE Files!User
    <2>1. UNCHANGED <<fPin, fEntry, fRecord, fJob>> /\ ("ours" \in fHooks' => "ours" \in fHooks)
        BY <1>7 DEF Files!User, Files!UserAddsValue, Files!UserAddsHook, Files!UserWritesCommand, Files!UserWritesPreCommit, Files!UserBreaksZone,
                    Files!UserRepairsZone, Files!history
    <2>2. fZone' \in {fZone, Files!Nothing, Files!Broken}
        BY <1>7 DEF Files!User, Files!UserAddsValue, Files!UserAddsHook, Files!UserWritesCommand, Files!UserWritesPreCommit, Files!UserBreaksZone,
                    Files!UserRepairsZone
    <2> QED BY <1>2, <2>1, <2>2 DEF TakenOut
<1>8. CASE Files!Release \/ Files!Kill
    <2>1. UNCHANGED <<fPin, fEntry, fRecord, fHooks, fZone>> /\ fJob'.at = "idle"
        BY <1>8, JobShape DEF Files!Release, Files!Kill, Files!At, Files!files
    <2> QED BY <1>2, <2>1 DEF TakenOut, Removing
<1> QED BY <1>4, <1>5, <1>6, <1>7, <1>8 DEF Files!Next

(* The chain goes on from the pin, and no later migration has run. *)
LEMMA InOrderNext ==
    ASSUME Files!RepoFilesAssumption, FileTypes, TakenOut, InOrder, Files!Next
    PROVE  InOrder'
<1>1. /\ fRelease \in Nat \ {0} /\ Files!Nothing = 0 /\ fPin \in 0..fRelease /\ fEntry \in 0..fRelease
      /\ fRan \in Seq(0..fRelease) /\ fJob.todo \in Seq(Nat)
      /\ \A i \in DOMAIN fJob.todo : fJob.todo[i] \in 1..fRelease
      /\ "version" \notin Values \cup Names
    BY ShippedOnce, JobShape DEF FileTypes, Files!Nothing
<1>2. \A i \in DOMAIN fRan : fRan[i] \in 0..fRelease
    BY <1>1
<1> SUFFICES ASSUME "version" \notin fLost'
             PROVE  /\ \A i, j \in DOMAIN fRan' : i < j => fRan'[i] <= fRan'[j]
                    /\ fPin' # Files!Nothing => \A i \in DOMAIN fRan' : fRan'[i] <= fPin' + 1
                    /\ fJob'.at \in Updating => fPin' # Files!Nothing
                    /\ fJob'.at \in {"migrate", "pin"} => \A i \in DOMAIN fJob'.todo : fJob'.todo[i] = fPin' + i
                    /\ fJob'.at = "entry" => \A i \in DOMAIN fJob'.todo : fJob'.todo[i] = fPin' + i - 1
    BY DEF InOrder
<1>3. "version" \notin fLost
    BY DEF Files!Next, Files!Install, Files!InstallPins, Files!RegisterHooks, Files!ApplyProfile, Files!CopyCommands, Files!ZoneRefused, Files!WriteZone,
           Files!InstallPreCommit, Files!WriteRecord, Files!Uninstall, Files!RemovePins, Files!RemoveCommands, Files!RemoveHooks, Files!StripZone,
           Files!Unregister, Files!Updates, Files!Update, Files!Migrate, Files!MigrationFails, Files!Pin, Files!PinEntry, Files!PinRelease, Files!Updated,
           Files!User, Files!UserAddsValue, Files!UserAddsHook, Files!UserWritesCommand, Files!UserWritesPreCommit, Files!UserBreaksZone,
           Files!UserRepairsZone, Files!Release, Files!Kill, Files!rest, Files!history
<1>4. /\ \A i, j \in DOMAIN fRan : i < j => fRan[i] <= fRan[j]
      /\ fPin # Files!Nothing => \A i \in DOMAIN fRan : fRan[i] <= fPin + 1
      /\ fJob.at \in Updating => fPin # Files!Nothing
      /\ fJob.at \in {"migrate", "pin"} => \A i \in DOMAIN fJob.todo : fJob.todo[i] = fPin + i
      /\ fJob.at = "entry" => \A i \in DOMAIN fJob.todo : fJob.todo[i] = fPin + i - 1
    BY <1>3 DEF InOrder
<1>5. CASE Files!Migrate
    <2>1. /\ fJob.at = "migrate" /\ fJob.todo # <<>> /\ fJob'.at = "pin" /\ fJob'.todo = fJob.todo
          /\ fPin' = fPin /\ fRan' = Append(fRan, Head(fJob.todo))
        BY <1>5, GoneOn DEF Files!Migrate, Files!At, Files!files
    <2>2. 1 \in DOMAIN fJob.todo /\ Head(fJob.todo) = fJob.todo[1]
        BY <1>1, <2>1
    <2>3. fPin # Files!Nothing /\ Head(fJob.todo) = fPin + 1
        BY <1>4, <2>1, <2>2 DEF Updating
    <2>4. /\ DOMAIN fRan' = 1..Len(fRan) + 1 /\ Len(fRan) \in Nat /\ DOMAIN fRan = 1..Len(fRan)
          /\ \A i \in DOMAIN fRan : fRan'[i] = fRan[i]
          /\ fRan'[Len(fRan) + 1] = fPin + 1
        BY <1>1, <2>1, <2>3
    <2>5. \A i \in DOMAIN fRan' : fRan'[i] \in Nat /\ fRan'[i] <= fPin + 1
        BY SMTT(40), <1>1, <1>2, <1>4, <2>3, <2>4
    <2>6. \A i, j \in DOMAIN fRan' : i < j => fRan'[i] <= fRan'[j]
        <3> SUFFICES ASSUME NEW i \in DOMAIN fRan', NEW j \in DOMAIN fRan', i < j PROVE fRan'[i] <= fRan'[j]
            OBVIOUS
        <3>1. CASE j = Len(fRan) + 1
            BY <2>4, <2>5, <3>1
        <3>2. CASE j # Len(fRan) + 1
            <4>1. i \in DOMAIN fRan /\ j \in DOMAIN fRan
                BY <2>4, <3>2
            <4> QED BY <1>4, <2>4, <4>1
        <3> QED BY <3>1, <3>2
    <2> QED BY <1>4, <2>1, <2>3, <2>5, <2>6 DEF Updating
<1>6. CASE Files!Pin
    <2>1. /\ fJob.at = "pin" /\ fJob'.at = "entry" /\ fJob'.todo = fJob.todo /\ fPin' = Head(fJob.todo) /\ fRan' = fRan
          /\ fJob.todo # <<>>
        BY <1>6, GoneOn DEF Files!Pin, Files!At, Files!rest, Files!history, FileTypes
    <2>2. 1 \in DOMAIN fJob.todo /\ Head(fJob.todo) = fJob.todo[1]
        BY <1>1, <2>1
    <2>3. fPin' = fPin + 1 /\ fPin # Files!Nothing
        BY <1>4, <2>1, <2>2 DEF Updating
    <2>4. \A i \in DOMAIN fJob.todo : fJob.todo[i] = fPin' + i - 1
        BY <1>1, <1>4, <2>1, <2>3
    <2> QED BY SMTT(40), <1>1, <1>2, <1>4, <2>1, <2>3, <2>4
<1>7. CASE Files!PinEntry
    <2> DEFINE todo == SubSeq(fJob.todo, 2, Len(fJob.todo))
    <2>1. /\ todo \in Seq(Nat)
          /\ \A i \in DOMAIN todo : i \in Nat /\ i + 1 \in DOMAIN fJob.todo /\ todo[i] = fJob.todo[i + 1]
        BY SMTT(40), <1>1
    <2>2. fJob.at = "entry" /\ fJob' = [fJob EXCEPT !.at = "migrate", !.todo = todo] /\ UNCHANGED <<fRan, fPin>>
        BY <1>7 DEF Files!PinEntry, Files!At, Files!files, Files!rest, Files!history
    <2>3. fJob'.at = "migrate" /\ fJob'.todo = todo
        BY <2>2 DEF FileTypes, FileJobs
    <2>4. \A i \in DOMAIN todo : todo[i] = fPin + i
        BY <1>1, <1>4, <2>1, <2>2
    <2> HIDE DEF todo
    <2> QED BY <1>4, <2>2, <2>3, <2>4 DEF Updating
<1>8. CASE Files!PinRelease
    <2>1. /\ fJob.at = "migrate" /\ fJob'.at = "entry" /\ fJob'.todo = <<>> /\ fPin' = fRelease /\ fRan' = fRan
        BY <1>8, GoneOn DEF Files!PinRelease, Files!At, Files!rest, Files!history
    <2> QED BY <1>1, <1>2, <1>4, <2>1
<1>9. CASE Files!Update
    <2>1. fPin # Files!Nothing
        BY <1>9 DEF Files!Update
    <2>2. Files!RepoVersion = fPin /\ fPin \in Nat /\ fRelease \in Nat /\ fPin <= fRelease
        BY <1>1, <2>1 DEF Files!RepoVersion
    <2> DEFINE todo == Files!Chain(Files!RepoVersion)
    <2>3. \A i \in DOMAIN todo : todo[i] = fPin + i
        BY <2>2, HopByHop
    <2>4. fJob' = [Files!Idle EXCEPT !.at = "migrate", !.todo = todo] /\ UNCHANGED <<fRan, fPin>>
        BY <1>9 DEF Files!Update, Files!files
    <2> HIDE DEF todo
    <2>5. fJob'.at = "migrate" /\ fJob'.todo = todo
        BY <2>4 DEF Files!Idle
    <2> QED BY <1>4, <2>1, <2>3, <2>4, <2>5
<1>10. CASE Files!InstallPins
    <2>1. fPin' = fRelease /\ fRan' = fRan /\ fJob'.at = "hooks"
        BY <1>10 DEF Files!InstallPins, Files!Idle, Files!history
    <2> QED BY <1>1, <1>2, <1>4, <2>1 DEF Updating
<1>11. CASE Files!RemovePins
    <2>1. fPin' = Files!Nothing /\ fRan' = fRan /\ fJob'.at = "out_commands"
        BY <1>11 DEF Files!RemovePins, Files!Idle, Files!history
    <2> QED BY <1>4, <2>1 DEF Updating
<1>12. ASSUME UNCHANGED <<fRan, fPin>>, fJob'.at \notin Updating
       PROVE  InOrder'
    BY <1>4, <1>12 DEF InOrder, Updating
<1>13. CASE Files!RegisterHooks \/ Files!ApplyProfile \/ Files!CopyCommands \/ Files!WriteZone \/ Files!InstallPreCommit
            \/ Files!RemoveCommands \/ Files!RemoveHooks \/ Files!StripZone
    BY <1>12, <1>13, GoneOn DEF Files!RegisterHooks, Files!ApplyProfile, Files!CopyCommands, Files!WriteZone, Files!InstallPreCommit,
            Files!RemoveCommands, Files!RemoveHooks, Files!StripZone, Files!rest, Files!history, Updating, InOrder
<1>14. CASE Files!ZoneRefused \/ Files!WriteRecord \/ Files!Unregister \/ Files!MigrationFails \/ Files!Updated \/ Files!Release \/ Files!Kill
    <2>1. fJob'.at = "idle" /\ UNCHANGED <<fRan, fPin>>
        BY <1>14, JobShape DEF Files!ZoneRefused, Files!WriteRecord, Files!Unregister, Files!MigrationFails, Files!Updated, Files!Release, Files!Kill, Files!At,
            Files!files, Files!rest, Files!history
    <2> QED BY <1>12, <2>1 DEF Updating, InOrder
<1>15. CASE Files!User
    <2>1. UNCHANGED <<fRan, fPin, fJob>>
        BY <1>15 DEF Files!User, Files!UserAddsValue, Files!UserAddsHook, Files!UserWritesCommand, Files!UserWritesPreCommit, Files!UserBreaksZone,
                    Files!UserRepairsZone, Files!history
    <2> QED BY <1>4, <2>1
<1>16. InOrder'
    BY <1>5, <1>6, <1>7, <1>8, <1>9, <1>10, <1>11, <1>13, <1>14, <1>15
       DEF Files!Next, Files!Install, Files!Uninstall, Files!Updates, InOrder
<1> QED BY <1>16 DEF InOrder

-----------------------------------------------------------------------------
(* The invariant, and what it says.                                        *)

(* A fresh repository. *)
LEMMA FilesInit ==
    ASSUME Files!RepoFilesAssumption, Files!Init
    PROVE  FilesInv
<1>1. fJob = Files!Idle /\ Files!Idle.at = "idle" /\ Files!Idle.todo = <<>> /\ Files!Idle.record = Files!NoRecord /\ fRecord = Files!NoRecord
    BY DEF Files!Init, Files!Idle
<1>2. Files!NoRecord \in Records /\ OfReleases(Files!NoRecord) /\ Files!NoRecord.commands = [n \in Names |-> Files!Nothing]
    BY DEF Files!NoRecord, Records, OfReleases, Files!Nothing
<1>3. Files!Idle \in FileJobs
    BY <1>2 DEF Files!Idle, FileJobs
<1>4. fRelease = 1 /\ 1 \in Files!Releases
    BY DEF Files!Init, Files!RepoFilesAssumption, Files!Releases
<1>5. FileTypes
    BY <1>1, <1>2, <1>3, <1>4 DEF Files!Init, FileTypes, Files!Nothing, Installing, Removing
<1>6. MineKept
    BY DEF Files!Init, MineKept
<1>7. ValuesKnown
    BY DEF Files!Init, ValuesKnown
<1>8. \A n \in Names : CommandKnown(n)
    BY DEF Files!Init, CommandKnown
<1>9. Through /\ PinnedFirst /\ TakenOut /\ InOrder
    BY <1>1 DEF Files!Init, Through, PinnedFirst, TakenOut, InOrder, Removing, Updating, Files!Nothing
<1> QED BY <1>5, <1>6, <1>7, <1>8, <1>9 DEF FilesInv

(* Every step keeps the invariant. *)
LEMMA FilesNext ==
    ASSUME Files!RepoFilesAssumption, FilesInv, [Files!Next]_(Files!vars)
    PROVE  FilesInv'
<1>1. CASE Files!Next
    <2>1. FileTypes /\ MineKept /\ ValuesKnown /\ (\A n \in Names : CommandKnown(n))
          /\ Through /\ PinnedFirst /\ TakenOut /\ InOrder
        BY DEF FilesInv
    <2>2. FileTypes'
        BY <1>1, <2>1, InstallTypes, UninstallTypes, UpdatesTypes, OthersTypes DEF Files!Next
    <2>3. MineKept'
        BY <1>1, <2>1, MineKeptNext
    <2>4. ValuesKnown'
        BY <1>1, <2>1, ValuesKnownNext
    <2>5. \A n \in Names : CommandKnown(n)'
        BY <1>1, <2>1, CommandsKnownNext
    <2>6. Through' /\ PinnedFirst' /\ TakenOut' /\ InOrder'
        BY <1>1, <2>1, ThroughNext, PinnedFirstNext, TakenOutNext, InOrderNext
    <2> QED BY <2>2, <2>3, <2>4, <2>5, <2>6 DEF FilesInv
<1>2. CASE UNCHANGED Files!vars
    <2>1. UNCHANGED <<fRelease, fValues, fHooks, fCommands, fZone, fPreCommit, fPin, fEntry, fRecord, fJob, fRan, fMine,
                      fLost, fSettled>>
        BY <1>2 DEF Files!vars, Files!files, Files!rest, Files!history
    <2>2. FileTypes' /\ MineKept'
        BY <2>1 DEF FilesInv, FileTypes, MineKept, OfReleases, Files!Releases
    <2>3. ValuesKnown' /\ Through' /\ \A n \in Names : CommandKnown(n)'
        BY <2>1, SameShip DEF FilesInv, ValuesKnown, Through, CommandKnown, Files!Edited
    <2>4. PinnedFirst' /\ TakenOut' /\ InOrder'
        BY <2>1 DEF FilesInv, PinnedFirst, TakenOut, InOrder, Files!Broken
    <2> QED BY <2>2, <2>3, <2>4 DEF FilesInv
<1> QED BY <1>1, <1>2

(* What the invariant says of an install, an uninstall and the migrations. *)
LEMMA FilesPromise ==
    ASSUME FilesInv
    PROVE  Files!InstallSettles /\ Files!UnregisteredMeansClean /\ Files!MigrationsInOrder
<1>1. MineKept /\ ValuesKnown /\ (\A n \in Names : CommandKnown(n)) /\ Through /\ TakenOut /\ InOrder
    BY DEF FilesInv
<1>2. Files!InstallSettles
    <2>1. fSettled => fValues \subseteq Files!Shipped.values \cup fMine \cup fLost
        BY <1>1 DEF Through, ValuesKnown
    <2>2. fSettled => \A n \in Names : fCommands[n] \in {Files!Nothing, fRelease, Files!Edited} \/ n \in fLost
        BY <1>1 DEF Through, CommandKnown
    <2> QED BY <1>1, <2>1, <2>2 DEF MineKept, Files!InstallSettles
<1>3. Files!UnregisteredMeansClean
    <2>1. fEntry = Files!Nothing => \A n \in Names : fCommands[n] \in {Files!Nothing, Files!Edited} \/ n \in fLost
        BY <1>1 DEF TakenOut, CommandKnown, Files!NoRecord
    <2> QED BY <1>1, <2>1 DEF TakenOut, Files!UnregisteredMeansClean
<1>4. Files!MigrationsInOrder
    BY <1>1 DEF InOrder, Files!MigrationsInOrder
<1> QED BY <1>2, <1>3, <1>4

(* Every state of a repository. *)
LEMMA FilesAlways == Files!Spec => []FilesInv
<1>1. Files!Init => FilesInv
    BY FilesInit, RepositoriesAssumption
<1>2. FilesInv /\ [Files!Next]_(Files!vars) => FilesInv'
    BY FilesNext, RepositoriesAssumption
<1> QED BY <1>1, <1>2, PTL DEF Files!Spec

(* InstallSettles: what the user wrote is still there whatever installs,   *)
(* updates and uninstalls ran or were killed, and an install that is       *)
(* through leaves only what it ships, what the user wrote and what no      *)
(* record mentions any more (install.py, apiary_profiles.py).              *)
THEOREM InstallsSettle == Files!Spec => []InstallSettles
<1>1. FilesInv => InstallSettles
    BY FilesPromise DEF InstallSettles
<1> QED BY <1>1, FilesAlways, PTL

(* UnregisteredMeansClean: a repository without a registry entry has no    *)
(* hook, pin or command of apiary's in it (uninstall.py: files first,      *)
(* registry last).                                                         *)
THEOREM UninstallsClean == Files!Spec => []UnregisteredMeansClean
<1>1. FilesInv => UnregisteredMeansClean
    BY FilesPromise DEF UnregisteredMeansClean
<1> QED BY <1>1, FilesAlways, PTL

(* MigrationsInOrder: no migration runs after a later one, unless an       *)
(* uninstall that was stopped has taken the repository's version.json      *)
(* (update.py apply_chain).                                                *)
THEOREM MigrationsRunInOrder == Files!Spec => []MigrationsInOrder
<1>1. FilesInv => MigrationsInOrder
    BY FilesPromise DEF MigrationsInOrder
<1> QED BY <1>1, FilesAlways, PTL

-----------------------------------------------------------------------------
(* The chains of a session's hooks.                                        *)

(* A slot of d is a record of these fields. *)
IsDispatch(c) ==
    c \in [event : {c.event}, tool : {c.tool}, agent : {c.agent}, bad : {c.bad},
           at : Nat, ctx : {c.ctx}, read : {c.read}, stage : {c.stage}]

Shape == slots = [s \in Hooks!Slots |-> slots[s]] /\ \A s \in Hooks!Slots : IsDispatch(slots[s])

-----------------------------------------------------------------------------
(* The chain.                                                              *)

(* The hook after i is no later than any hook after i that takes the call. *)
LEMMA NextAtFirst ==
    ASSUME NEW event \in {"PreToolUse", "PostToolUse", "Stop"}, NEW tool, NEW i \in Nat
    PROVE  /\ Hooks!NextAt(event, tool, i) \in Nat
           /\ \A j \in DOMAIN Hooks!Chain(event) :
                i < j /\ tool \in Hooks!Matcher(Hooks!Chain(event)[j]) => Hooks!NextAt(event, tool, i) <= j
<1> DEFINE later == {j \in (i + 1)..Len(Hooks!Chain(event)) : tool \in Hooks!Matcher(Hooks!Chain(event)[j])}
<1>1. Len(Hooks!Chain(event)) \in Nat /\ DOMAIN Hooks!Chain(event) = 1..Len(Hooks!Chain(event))
    <2>1. CASE event = "PreToolUse"
        BY <2>1 DEF Hooks!Chain
    <2>2. CASE event = "PostToolUse"
        BY <2>2 DEF Hooks!Chain
    <2>3. CASE event = "Stop"
        BY <2>3 DEF Hooks!Chain
    <2> QED BY <2>1, <2>2, <2>3
<1>2. \A j \in DOMAIN Hooks!Chain(event) :
         i < j /\ tool \in Hooks!Matcher(Hooks!Chain(event)[j]) => j \in later
    BY <1>1
<1>3. later \subseteq Nat
    BY <1>1
<1>4. Hooks!NextAt(event, tool, i) = IF later = {} THEN Len(Hooks!Chain(event)) + 1 ELSE Hooks!Min(later)
    BY DEF Hooks!NextAt
<1> HIDE DEF later
<1>5. CASE later = {}
    BY <1>1, <1>2, <1>4, <1>5
<1>6. CASE later # {}
    <2>1. PICK t \in later : \A u \in later : <<u, t>> \notin OpToRel(<, Nat)
        BY <1>3, <1>6, WFMin, NatLessThanWellFounded
    <2>2. ASSUME NEW u \in later, u < t PROVE FALSE
        <3>1. <<u, t>> \in Nat \X Nat /\ <<u, t>>[1] < <<u, t>>[2]
            BY <1>3, <2>2
        <3>2. <<u, t>> \in OpToRel(<, Nat)
            BY <3>1 DEF OpToRel
        <3> QED BY <2>1, <3>2
    <2>3. t \in later
        BY <2>1
    <2>4. \A u \in later : t <= u
        BY <1>3, <2>2, <2>3
    <2>5. Hooks!Min(later) \in later /\ \A u \in later : Hooks!Min(later) <= u
        BY <2>3, <2>4 DEF Hooks!Min
    <2> QED BY <1>2, <1>3, <1>4, <1>6, <2>5
<1> QED BY <1>5, <1>6

(* A call starts at the first hook that takes it. *)
LEMMA StartShape ==
    ASSUME NEW event \in {"PreToolUse", "PostToolUse", "Stop"}, NEW tool, NEW agent, NEW bad
    PROVE  LET c == Hooks!Start(event, tool, agent, bad) IN
           /\ IsDispatch(c) /\ c.event = event /\ c.tool = tool /\ c.bad = bad /\ c.ctx = {}
           /\ c.at = Hooks!NextAt(event, tool, 0)
<1>1. Hooks!NextAt(event, tool, 0) \in Nat
    BY NextAtFirst
<1> DEFINE c == Hooks!Start(event, tool, agent, bad)
<1>2. /\ c.event = event /\ c.tool = tool /\ c.bad = bad /\ c.ctx = {}
      /\ c.at = Hooks!NextAt(event, tool, 0)
    BY DEF Hooks!Start, Hooks!Idle
<1>3. IsDispatch(c)
    BY <1>1 DEF Hooks!Start, Hooks!Idle, IsDispatch
<1> QED BY <1>2, <1>3

(* An idle slot. *)
LEMMA IdleShape ==
    IsDispatch(Hooks!Idle) /\ Hooks!Idle.event = Nothing /\ Hooks!Idle.bad = Nothing /\ Hooks!Idle.ctx = {}
BY DEF Hooks!Idle, IsDispatch

-----------------------------------------------------------------------------
(* What a step does to the slots.                                          *)

Others(s) == \A o \in Hooks!Slots \ {s} : slots'[o] = slots[o]

(* The hook has run: slot s is at the next one, with what it had to say.   *)
Went(s, context) ==
    /\ slots'[s].event = slots[s].event /\ slots'[s].tool = slots[s].tool /\ slots'[s].bad = slots[s].bad
    /\ slots'[s].at = Hooks!NextAt(slots[s].event, slots[s].tool, slots[s].at)
    /\ slots'[s].ctx = slots[s].ctx \cup context
    /\ Others(s)

(* A hook goes on. *)
LEMMA Continues ==
    ASSUME Shape, NEW s \in Hooks!Slots, Hooks!InChain(s), NEW context, Hooks!Continue(s, context)
    PROVE  Shape' /\ Went(s, context)
<1> DEFINE c == [slots[s] EXCEPT !.at = Hooks!NextAt(slots[s].event, slots[s].tool, slots[s].at),
                             !.ctx = slots[s].ctx \cup context, !.read = Nothing, !.stage = 0]
<1>1. Hooks!NextAt(slots[s].event, slots[s].tool, slots[s].at) \in Nat
    BY NextAtFirst DEF Shape, IsDispatch, Hooks!InChain, Hooks!Dispatching
<1>2. /\ c.event = slots[s].event /\ c.tool = slots[s].tool /\ c.bad = slots[s].bad
      /\ c.at = Hooks!NextAt(slots[s].event, slots[s].tool, slots[s].at) /\ c.ctx = slots[s].ctx \cup context
      /\ IsDispatch(c)
    BY <1>1 DEF Shape, IsDispatch
<1>3. slots' = [slots EXCEPT ![s] = c]
    BY DEF Hooks!Continue, Shape
<1> HIDE DEF c
<1>4. slots' = [o \in Hooks!Slots |-> IF o = s THEN c ELSE slots[o]]
    BY <1>3 DEF Shape
<1> QED BY <1>2, <1>4 DEF Shape, Went, Others

(* A slot is given something else to do. *)
LEMMA Given ==
    ASSUME Shape, NEW s \in Hooks!Slots, NEW c, IsDispatch(c), slots' = [slots EXCEPT ![s] = c]
    PROVE  Shape' /\ slots'[s] = c /\ Others(s)
<1>1. slots' = [o \in Hooks!Slots |-> IF o = s THEN c ELSE slots[o]]
    BY DEF Shape
<1> QED BY <1>1 DEF Shape, Others

Gates == Hooks!PushGates \cup {"prose_check"}

HookMoves(s) ==
    \/ Hooks!InjectSession(s) \/ Hooks!LearningsInject(s) \/ Hooks!ResearchReminder(s) \/ Hooks!RemindStandards(s)
    \/ Hooks!ToolRule(s) \/ Hooks!AskRule(s) \/ Hooks!DriftCheck(s) \/ Hooks!DocConformer(s) \/ Hooks!SecretScan(s)
    \/ Hooks!ProseCheck(s) \/ Hooks!ProseRaises(s) \/ Hooks!ErrorReminder(s) \/ Hooks!PreSaves(s) \/ Hooks!PostLogs(s)
    \/ Hooks!StopLogs(s) \/ Hooks!Raise(s)

(* A hook lets the chain go on; a gate that condemns the call only when it *)
(* failed.  What it records as told is new to the contexts, or lost.       *)
LetsGoOn(s) ==
    /\ Hooks!InChain(s) /\ (slots[s].bad \in Gates /\ Hooks!Hook(s) = slots[s].bad => slots[s].bad \in spoiled')
    /\ spoiled \subseteq spoiled' /\ told' = told /\ lost \subseteq lost'
    /\ \E context : /\ Hooks!Continue(s, context)
                     /\ flags' \subseteq flags \cup context \cup lost' \cup {"drift"}

(* A gate ends the chain and the call. *)
EndsCall(s) ==
    /\ spoiled' = spoiled /\ told' = told
    /\ \E context : Hooks!Block(s, context) /\ flags' \subseteq flags \cup context

(* Whatever hook runs, it does one or the other. *)
LEMMA HookSteps ==
    ASSUME NEW s \in Hooks!Slots, HookMoves(s)
    PROVE  LetsGoOn(s) \/ EndsCall(s)
<1>1. ASSUME NEW flag, Hooks!Say(s, flag), Hooks!InChain(s), Hooks!Hook(s) \notin Gates PROVE LetsGoOn(s)
    <2>1. Hooks!Continue(s, {flag} \ flags) /\ flags' = flags \cup {flag} /\ UNCHANGED <<spoiled, told, lost>>
        BY <1>1 DEF Hooks!Say, Hooks!world
    <2> QED BY <1>1, <2>1 DEF LetsGoOn
<1>2. CASE \/ Hooks!InjectSession(s) \/ Hooks!LearningsInject(s) \/ Hooks!ResearchReminder(s) \/ Hooks!RemindStandards(s)
           \/ Hooks!ToolRule(s)
    <2>1. Hooks!InChain(s) /\ Hooks!Hook(s) \notin Gates
        BY <1>2 DEF Hooks!InjectSession, Hooks!LearningsInject, Hooks!ResearchReminder, Hooks!RemindStandards, Hooks!ToolRule, Hooks!At,
                    Gates, Hooks!PushGates
    <2>2. \E flag : Hooks!Say(s, flag)
        BY <1>2, Zenon DEF Hooks!InjectSession, Hooks!LearningsInject, Hooks!ResearchReminder, Hooks!RemindStandards, Hooks!ToolRule
    <2> QED BY <1>1, <2>1, <2>2
<1>3. CASE Hooks!AskRule(s) \/ Hooks!DriftCheck(s) \/ Hooks!PostLogs(s) \/ Hooks!StopLogs(s)
    <2>1. Hooks!InChain(s) /\ Hooks!Hook(s) \notin Gates
        BY <1>3 DEF Hooks!AskRule, Hooks!DriftCheck, Hooks!PostLogs, Hooks!StopLogs, Hooks!At, Gates, Hooks!PushGates
    <2>2. \E context : Hooks!Continue(s, context)
        BY <1>3, Zenon DEF Hooks!AskRule, Hooks!DriftCheck, Hooks!PostLogs, Hooks!StopLogs
    <2>3. /\ spoiled \subseteq spoiled' /\ told' = told /\ lost' = lost
          /\ flags' \subseteq flags \cup {"drift"}
        BY <1>3 DEF Hooks!AskRule, Hooks!DriftCheck, Hooks!PostLogs, Hooks!StopLogs, Hooks!files, Hooks!world, Hooks!Mishap
    <2> QED BY <2>1, <2>2, <2>3 DEF LetsGoOn
<1>4. CASE Hooks!Raise(s)
    <2>1. /\ Hooks!InChain(s) /\ Hooks!Continue(s, {}) /\ spoiled' = spoiled \cup {Hooks!Hook(s)}
          /\ told' = told /\ lost' = lost /\ flags' = flags
        BY <1>4 DEF Hooks!Raise, Hooks!Mishap, Hooks!files
    <2> QED BY <2>1 DEF LetsGoOn
<1>5. CASE Hooks!ErrorReminder(s)
    <2>1. Hooks!InChain(s) /\ Hooks!Hook(s) \notin Gates
        BY <1>5 DEF Hooks!ErrorReminder, Hooks!At, Gates, Hooks!PushGates
    <2>2. \E context : Hooks!Continue(s, context) /\ flags' = flags \cup context
        BY <1>5 DEF Hooks!ErrorReminder
    <2>3. spoiled' = spoiled /\ told' = told /\ lost' = lost
        BY <1>5 DEF Hooks!ErrorReminder, Hooks!world
    <2> QED BY <2>1, <2>2, <2>3 DEF LetsGoOn
<1>6. CASE Hooks!PreSaves(s)
    <2>1. Hooks!InChain(s) /\ Hooks!Hook(s) \notin Gates
        BY <1>6 DEF Hooks!PreSaves, Hooks!At, Gates, Hooks!PushGates
    <2>2. Hooks!Continue(s, Hooks!Nudge) /\ flags' \subseteq flags \cup Hooks!Nudge
        BY <1>6 DEF Hooks!PreSaves
    <2>3. spoiled' = spoiled /\ told' = told /\ lost' = lost
        BY <1>6 DEF Hooks!PreSaves, Hooks!world
    <2> QED BY <2>1, <2>2, <2>3 DEF LetsGoOn
<1>7. ASSUME NEW hook \in Hooks!PushGates, Hooks!Gate(s, hook) PROVE LetsGoOn(s) \/ EndsCall(s)
    <2>1. /\ Hooks!InChain(s) /\ Hooks!Hook(s) = hook /\ flags' = flags /\ spoiled' = spoiled /\ told' = told
        BY <1>7 DEF Hooks!Gate, Hooks!At, Hooks!files, Hooks!world
    <2>2. CASE slots[s].bad = hook
        <3>1. Hooks!Block(s, {})
            BY <1>7, <2>2 DEF Hooks!Gate
        <3> QED BY <2>1, <3>1 DEF EndsCall
    <2>3. CASE slots[s].bad # hook
        <3>1. Hooks!Continue(s, {}) /\ lost' = lost
            BY <1>7, <2>3 DEF Hooks!Gate
        <3> QED BY <2>1, <2>3, <3>1 DEF LetsGoOn
    <2> QED BY <2>2, <2>3
<1>8. CASE Hooks!ProseCheck(s)
    <2>1. Hooks!InChain(s) /\ Hooks!Hook(s) = "prose_check" /\ spoiled' = spoiled /\ told' = told
        BY <1>8 DEF Hooks!ProseCheck, Hooks!At, Hooks!world
    <2>2. PICK reminder : /\ flags' = flags \cup reminder
                          /\ IF slots[s].bad = "prose_check" THEN Hooks!Block(s, reminder)
                             ELSE Hooks!Continue(s, reminder) /\ UNCHANGED lost
        BY <1>8, Zenon DEF Hooks!ProseCheck
    <2>3. CASE slots[s].bad = "prose_check"
        <3>1. Hooks!Block(s, reminder)
            BY <2>2, <2>3
        <3> QED BY <2>1, <2>2, <3>1 DEF EndsCall
    <2>4. CASE slots[s].bad # "prose_check"
        <3>1. Hooks!Continue(s, reminder) /\ lost' = lost
            BY <2>2, <2>4
        <3> QED BY <2>1, <2>2, <2>4, <3>1 DEF LetsGoOn
    <2> QED BY <2>3, <2>4
<1>9. CASE Hooks!ProseRaises(s)
    <2>1. /\ Hooks!InChain(s) /\ Hooks!Hook(s) = "prose_check" /\ spoiled' = spoiled \cup {"prose_check"}
          /\ told' = told /\ flags' = flags \cup {"prose"} /\ lost' = lost \cup ({"prose"} \ flags)
          /\ Hooks!Continue(s, {})
        BY <1>9 DEF Hooks!ProseRaises, Hooks!At, Hooks!Mishap
    <2>2. flags' \subseteq flags \cup lost'
        BY <2>1
    <2> QED BY <2>1, <2>2 DEF LetsGoOn
<1> QED BY <1>2, <1>3, <1>4, <1>5, <1>6, <1>7, <1>8, <1>9
        DEF HookMoves, Hooks!DocConformer, Hooks!SecretScan, Hooks!PushGates

-----------------------------------------------------------------------------
(* What the rest of a session does to the slots.                           *)

(* A process of the chain is given what the slots that were free get. *)
Arrives(s) ==
    \/ slots'[s] = slots[s]
    \/ /\ slots[s].event \in {Nothing, "running"} /\ slots[s].ctx = {}
       /\ \/ slots'[s].event \in {"PostToolUse", "Stop"} /\ slots'[s].bad = Nothing
          \/ /\ slots'[s].event = "PreToolUse" /\ slots'[s].at = Hooks!NextAt("PreToolUse", slots'[s].tool, 0)
             /\ slots'[s].bad \in Hooks!Verdicts(slots'[s].tool)
       /\ slots'[s].ctx = {}

(* A step that touches no context but those of free slots. *)
Elsewhere ==
    /\ Shape' /\ \A s \in Hooks!Slots : Arrives(s)
    /\ spoiled \subseteq spoiled' /\ UNCHANGED <<flags, told, lost>>

(* The budgeter's PRE between its reads and writes. *)
Halfway(s) ==
    /\ Others(s) /\ slots'[s].event = slots[s].event /\ slots'[s].tool = slots[s].tool /\ slots'[s].bad = slots[s].bad
    /\ slots'[s].at = slots[s].at /\ slots'[s].ctx = slots[s].ctx /\ Shape'
    /\ spoiled \subseteq spoiled' /\ UNCHANGED <<flags, told, lost>>

(* The response is out, or the process dead. *)
Out(s) ==
    /\ Shape' /\ Others(s) /\ Hooks!Dispatching(s) /\ spoiled \subseteq spoiled'
    /\ flags' = flags /\ told \cup lost \cup slots[s].ctx \subseteq told' \cup lost'
    /\ slots'[s].ctx = {}
    /\ \/ slots'[s].event = Nothing /\ slots'[s].bad = Nothing
       \/ /\ slots'[s].event = "running" /\ slots[s].event = "PreToolUse" /\ slots'[s].bad = slots[s].bad
          /\ ~Hooks!InChain(s) \/ "died" \in spoiled'

(* PRE's read and its log write are steps halfway through a dispatch. *)
LEMMA HalfwaySteps ==
    ASSUME Shape, NEW s \in Hooks!Slots, Hooks!PreReads(s) \/ Hooks!PreLogs(s)
    PROVE  Halfway(s)
<1>1. IsDispatch(slots[s])
    BY DEF Shape
<1>2. CASE Hooks!PreReads(s)
    <2> DEFINE c == [slots[s] EXCEPT !.stage = 1, !.read = [tokens |-> Hooks!Tokens(lines),
                                   number |-> Hooks!TurnNumber(lines), base |-> baseline]]
    <2>1. slots' = [slots EXCEPT ![s] = c] /\ spoiled \subseteq spoiled' /\ UNCHANGED <<flags, told, lost>>
        BY <1>2 DEF Hooks!PreReads, Shape, Hooks!files
    <2>2. /\ IsDispatch(c) /\ c.event = slots[s].event /\ c.tool = slots[s].tool /\ c.bad = slots[s].bad
          /\ c.at = slots[s].at /\ c.ctx = slots[s].ctx
        BY <1>1 DEF IsDispatch
    <2> HIDE DEF c
    <2> QED BY <2>1, <2>2, Given DEF Halfway
<1>3. CASE Hooks!PreLogs(s)
    <2> DEFINE c == [slots[s] EXCEPT !.stage = 2]
    <2>1. slots' = [slots EXCEPT ![s] = c] /\ spoiled' = spoiled /\ UNCHANGED <<flags, told, lost>>
        BY <1>3 DEF Hooks!PreLogs, Shape, Hooks!world
    <2>2. /\ IsDispatch(c) /\ c.event = slots[s].event /\ c.tool = slots[s].tool /\ c.bad = slots[s].bad
          /\ c.at = slots[s].at /\ c.ctx = slots[s].ctx
        BY <1>1 DEF IsDispatch
    <2> HIDE DEF c
    <2> QED BY <2>1, <2>2, Given DEF Halfway
<1> QED BY <1>2, <1>3

(* A dispatch ends when its response is delivered or its process dies. *)
LEMMA OutSteps ==
    ASSUME Shape, NEW s \in Hooks!Slots, Hooks!Deliver(s) \/ Hooks!Die(s)
    PROVE  Out(s)
<1> DEFINE c == IF slots[s].event # "PreToolUse" THEN Hooks!Idle
                ELSE [slots[s] EXCEPT !.event = "running", !.ctx = {}, !.read = Nothing, !.stage = 0]
<1>1. Hooks!Dispatching(s) /\ IsDispatch(slots[s])
    BY DEF Shape, Hooks!Deliver, Hooks!Die
<1>2. slots' = [slots EXCEPT ![s] = c]
    BY DEF Hooks!Deliver, Hooks!Die, Hooks!Ended, Shape
<1>3. /\ IsDispatch(c) /\ c.ctx = {}
      /\ \/ c.event = Nothing /\ c.bad = Nothing
         \/ c.event = "running" /\ slots[s].event = "PreToolUse" /\ c.bad = slots[s].bad
    BY <1>1, IdleShape DEF IsDispatch
<1> HIDE DEF c
<1>4. /\ flags' = flags /\ spoiled \subseteq spoiled' /\ (~Hooks!InChain(s) \/ "died" \in spoiled')
      /\ told \cup lost \cup slots[s].ctx \subseteq told' \cup lost'
    BY DEF Hooks!Deliver, Hooks!Die, Hooks!Mishap, Hooks!files, Hooks!world
<1> QED BY <1>1, <1>2, <1>3, <1>4, Given DEF Out

SessionMoves ==
    \/ Hooks!Prompt \/ Hooks!ApiCall \/ Hooks!SubCall \/ Hooks!Compact \/ Hooks!Toggle \/ Hooks!RollOver \/ \E s \in Hooks!Slots : Hooks!ToolDone(s)

(* A tool that runs has no context left, and neither has an idle slot. *)
Emptied == \A s \in Hooks!Slots : slots[s].event \in {Nothing, "running"} => slots[s].ctx = {}

(* A call that starts is of this kind. *)
LEMMA CallStarts ==
    ASSUME Shape, NEW s \in Hooks!Slots, slots[s].event \in {Nothing, "running"}, slots[s].ctx = {},
           NEW tool, NEW agent, NEW bad \in Hooks!Verdicts(tool)
    PROVE  LET c == Hooks!Start("PreToolUse", tool, agent, bad) IN
           /\ IsDispatch(c)
           /\ slots'[s] = c => Arrives(s)
<1> DEFINE c == Hooks!Start("PreToolUse", tool, agent, bad)
<1>1. /\ IsDispatch(c) /\ c.event = "PreToolUse" /\ c.tool = tool /\ c.bad = bad /\ c.ctx = {}
      /\ c.at = Hooks!NextAt("PreToolUse", tool, 0)
    BY StartShape
<1> HIDE DEF c
<1>2. slots'[s] = c => Arrives(s)
    BY <1>1 DEF Arrives
<1> QED BY <1>1, <1>2 DEF c

(* An end of a turn, or a tool's, is of this kind. *)
LEMMA Follows ==
    ASSUME Shape, NEW s \in Hooks!Slots, slots[s].event \in {Nothing, "running"}, slots[s].ctx = {},
           NEW event \in {"PostToolUse", "Stop"}, NEW tool, NEW agent
    PROVE  LET c == Hooks!Start(event, tool, agent, Nothing) IN
           /\ IsDispatch(c)
           /\ slots'[s] = c => Arrives(s)
<1> DEFINE c == Hooks!Start(event, tool, agent, Nothing)
<1>1. IsDispatch(c) /\ c.event = event /\ c.bad = Nothing /\ c.ctx = {}
    BY StartShape
<1> HIDE DEF c
<1>2. slots'[s] = c => Arrives(s)
    BY <1>1 DEF Arrives
<1> QED BY <1>1, <1>2 DEF c

(* A call no gate looks at has no objection. *)
LEMMA NoObjection == \A tool : Nothing \in Hooks!Verdicts(tool)
BY DEF Hooks!Verdicts

(* Prompts, compactions, toggles, the day's end and new calls leave the dispatches alone. *)
LEMMA SessionSteps ==
    ASSUME Shape, Emptied, SessionMoves
    PROVE  Elsewhere
<1>1. CASE Hooks!Prompt \/ Hooks!Compact \/ Hooks!Toggle \/ Hooks!RollOver
    <2>1. slots' = slots /\ spoiled \subseteq spoiled' /\ UNCHANGED <<flags, told, lost>>
        BY <1>1 DEF Hooks!Prompt, Hooks!Compact, Hooks!Toggle, Hooks!RollOver, Hooks!Mishap, Hooks!files, Hooks!world
    <2> QED BY <2>1 DEF Elsewhere, Shape, Arrives
<1>2. CASE Hooks!ApiCall
    <2>1. /\ UNCHANGED <<spoiled, flags, told, lost>>
          /\ \A s \in Hooks!Slots : slots[s].event \in {Nothing, "running"} /\ slots[s].ctx = {}
        BY <1>2, IdleShape DEF Hooks!ApiCall, Hooks!Busy, Hooks!files, Hooks!world
    <2>2. CASE slots' = [slots EXCEPT !["stop"] = Hooks!Start("Stop", Nothing, "main", Nothing)]
        <3>1. "stop" \in Hooks!Slots
            BY DEF Hooks!Slots
        <3>2. IsDispatch(Hooks!Start("Stop", Nothing, "main", Nothing))
            BY <2>1, <3>1, Follows
        <3>3. Shape' /\ slots'["stop"] = Hooks!Start("Stop", Nothing, "main", Nothing) /\ Others("stop")
            BY <2>2, <3>1, <3>2, Given
        <3>4. Arrives("stop")
            BY <2>1, <3>1, <3>3, Follows
        <3> QED BY <2>1, <3>3, <3>4 DEF Elsewhere, Others, Arrives
    <2>3. ASSUME NEW t \in Tools, NEW bad \in Hooks!Verdicts(t),
                 slots' = [slots EXCEPT !["c1"] = Hooks!Start("PreToolUse", t, "main", bad)]
          PROVE  Elsewhere
        <3>1. "c1" \in Hooks!Slots
            BY DEF Hooks!Slots
        <3>2. IsDispatch(Hooks!Start("PreToolUse", t, "main", bad))
            BY <2>1, <3>1, CallStarts
        <3>3. Shape' /\ slots'["c1"] = Hooks!Start("PreToolUse", t, "main", bad) /\ Others("c1")
            BY <2>3, <3>1, <3>2, Given
        <3>4. Arrives("c1")
            BY <2>1, <3>1, <3>3, CallStarts
        <3> QED BY <2>1, <3>3, <3>4 DEF Elsewhere, Others, Arrives
    <2>4. ASSUME NEW p \in Pairs,
                 slots' = [slots EXCEPT !["c1"] = Hooks!Start("PreToolUse", p[1], "main", Nothing),
                                !["c2"] = Hooks!Start("PreToolUse", p[2], "main", Nothing)]
          PROVE  Elsewhere
        <3>1. "c1" \in Hooks!Slots /\ "c2" \in Hooks!Slots /\ "c1" # "c2"
            BY DEF Hooks!Slots
        <3> DEFINE x == Hooks!Start("PreToolUse", p[1], "main", Nothing)
                   y == Hooks!Start("PreToolUse", p[2], "main", Nothing)
        <3>2. IsDispatch(x) /\ IsDispatch(y)
            BY <2>1, <3>1, CallStarts, NoObjection
        <3>3. (slots'["c1"] = x => Arrives("c1")) /\ (slots'["c2"] = y => Arrives("c2"))
            BY <2>1, <3>1, CallStarts, NoObjection
        <3>4. slots' = [[slots EXCEPT !["c1"] = x] EXCEPT !["c2"] = y]
            BY <2>4
        <3> HIDE DEF x, y
        <3>5. slots' = [s \in Hooks!Slots |-> IF s = "c2" THEN y ELSE IF s = "c1" THEN x ELSE slots[s]]
            BY <3>1, <3>4 DEF Shape
        <3>6. Arrives("c1") /\ Arrives("c2")
            BY <3>1, <3>3, <3>5
        <3>7. Shape'
            BY <3>2, <3>5 DEF Shape
        <3>8. \A s \in Hooks!Slots \ {"c1", "c2"} : slots'[s] = slots[s]
            BY <3>5
        <3> QED BY <2>1, <3>6, <3>7, <3>8 DEF Elsewhere, Arrives
    <2> QED BY <1>2, <2>2, <2>3, <2>4 DEF Hooks!ApiCall
<1>3. CASE Hooks!SubCall
    <2>1. /\ UNCHANGED <<spoiled, flags, told, lost>> /\ "c2" \in Hooks!Slots
          /\ slots["c2"].event \in {Nothing, "running"} /\ slots["c2"].ctx = {}
        BY <1>3, IdleShape DEF Hooks!SubCall, Hooks!files, Hooks!world, Hooks!Slots
    <2>2. PICK t \in SubTools : slots' = [slots EXCEPT !["c2"] = Hooks!Start("PreToolUse", t, "sub", Nothing)]
        BY <1>3 DEF Hooks!SubCall
    <2>3. IsDispatch(Hooks!Start("PreToolUse", t, "sub", Nothing))
        BY <2>1, CallStarts, NoObjection
    <2>4. Shape' /\ slots'["c2"] = Hooks!Start("PreToolUse", t, "sub", Nothing) /\ Others("c2")
        BY <2>1, <2>2, <2>3, Given
    <2>5. Arrives("c2")
        BY <2>1, <2>4, CallStarts, NoObjection
    <2> QED BY <2>1, <2>4, <2>5 DEF Elsewhere, Others, Arrives
<1>4. ASSUME NEW s \in Hooks!Slots, Hooks!ToolDone(s) PROVE Elsewhere
    <2>1. /\ UNCHANGED <<spoiled, flags, told, lost>>
          /\ slots[s].event \in {Nothing, "running"} /\ slots[s].ctx = {}
          /\ slots' = [slots EXCEPT ![s] = Hooks!Start("PostToolUse", slots[s].tool, slots[s].agent, Nothing)]
        BY <1>4 DEF Hooks!ToolDone, Hooks!files, Hooks!world, Emptied
    <2>2. IsDispatch(Hooks!Start("PostToolUse", slots[s].tool, slots[s].agent, Nothing))
        BY <2>1, Follows
    <2>3. Shape' /\ slots'[s] = Hooks!Start("PostToolUse", slots[s].tool, slots[s].agent, Nothing) /\ Others(s)
        BY <2>1, <2>2, Given
    <2>4. Arrives(s)
        BY <2>1, <2>3, Follows
    <2> QED BY <2>1, <2>3, <2>4 DEF Elsewhere, Others, Arrives
<1> QED BY <1>1, <1>2, <1>3, <1>4 DEF SessionMoves

(* The user's interrupt. *)
LEMMA InterruptCuts ==
    ASSUME Hooks!Interrupt
    PROVE  /\ Shape' /\ \A s \in Hooks!Slots : slots'[s] = Hooks!Idle
           /\ spoiled \subseteq spoiled' /\ UNCHANGED <<flags, told>>
           /\ lost' = lost \cup UNION {slots[s].ctx : s \in Hooks!Slots}
<1>1. slots' = [s \in Hooks!Slots |-> Hooks!Idle]
    BY DEF Hooks!Interrupt
<1>2. Shape' /\ \A s \in Hooks!Slots : slots'[s] = Hooks!Idle
    BY <1>1, IdleShape DEF Shape
<1> QED BY <1>2 DEF Hooks!Interrupt, Hooks!Mishap, Hooks!files, Hooks!world

(* Every step is one of these. *)
LEMMA ChainSteps ==
    ASSUME Hooks!Next
    PROVE  \/ SessionMoves \/ Hooks!Interrupt
           \/ \E s \in Hooks!Slots : \/ HookMoves(s) \/ Hooks!PreReads(s) \/ Hooks!PreLogs(s)
                             \/ Hooks!Deliver(s) \/ Hooks!Die(s)
BY Zenon DEF Hooks!Next, SessionMoves, HookMoves

(* The gate that ends a call leaves its slot idle. *)
LEMMA BlockEnds ==
    ASSUME Shape, NEW s \in Hooks!Slots, NEW context, Hooks!Block(s, context)
    PROVE  Shape' /\ slots'[s] = Hooks!Idle /\ Others(s) /\ lost' = lost \cup slots[s].ctx \cup context
BY IdleShape, Given DEF Hooks!Block

-----------------------------------------------------------------------------
(* The invariant.                                                          *)

(* A condemned call has its gate still before it, at a place of the chain  *)
(* whose matcher takes the call, or that gate failed or a dispatcher died. *)
GateAt == [gate \in Gates |-> CASE gate = "pre_push_doc_conformer" -> 6
                               [] gate = "pre_push_secret_scan" -> 7
                               [] gate = "prose_check" -> 10]
Failed(s) == {slots[s].bad, "died"} \cap spoiled # {}

Condemned ==
    \A s \in Hooks!Slots : slots[s].bad # Nothing =>
        /\ slots[s].bad \in Gates /\ slots[s].event \in {"PreToolUse", "running"}
        /\ slots[s].event = "running" => Failed(s)
        /\ \/ Failed(s)
           \/ slots[s].at <= GateAt[slots[s].bad] /\ slots[s].tool \in Hooks!Matcher(slots[s].bad)

ChainInv == Shape /\ Emptied /\ Condemned /\ Hooks!FlagMeansTold

(* The chain of a PreToolUse has the gates at their places. *)
LEMMA GatesPlaced ==
    /\ \A gate \in Gates : /\ GateAt[gate] \in DOMAIN Hooks!Chain("PreToolUse")
                           /\ Hooks!Chain("PreToolUse")[GateAt[gate]] = gate
                           /\ GateAt[gate] \in Nat
    /\ DOMAIN Hooks!Chain("PreToolUse") = 1..10 /\ Len(Hooks!Chain("PreToolUse")) = 10
<1>1. Hooks!Chain("PreToolUse") = <<"drift_check", "inject_session", "learnings_inject",
             "research_reminder", "compass_rules", "pre_push_doc_conformer",
             "pre_push_secret_scan", "budgeter_pre", "remind_standards",
             "prose_check">>
    BY DEF Hooks!Chain
<1>2. ASSUME NEW gate \in Gates
      PROVE  \/ gate = "pre_push_doc_conformer" /\ GateAt[gate] = 6
             \/ gate = "pre_push_secret_scan" /\ GateAt[gate] = 7
             \/ gate = "prose_check" /\ GateAt[gate] = 10
    BY DEF Gates, Hooks!PushGates, GateAt
<1> QED BY <1>1, <1>2

(* A verdict is a gate whose matcher takes the call. *)
LEMMA VerdictsOfGates ==
    \A tool : \A bad \in Hooks!Verdicts(tool) : bad = Nothing \/ (bad \in Gates /\ tool \in Hooks!Matcher(bad))
<1> SUFFICES ASSUME NEW tool, NEW bad \in Hooks!Verdicts(tool), bad # Nothing
             PROVE  bad \in Gates /\ tool \in Hooks!Matcher(bad)
    OBVIOUS
<1>1. CASE tool = "Bash"
    BY <1>1 DEF Hooks!Verdicts, Gates, Hooks!PushGates, Hooks!Matcher
<1>2. CASE tool \in {"Write", "Edit"}
    BY <1>2 DEF Hooks!Verdicts, Gates, Hooks!Matcher
<1> QED BY <1>1, <1>2 DEF Hooks!Verdicts

(* A gate still before the call is there, or before it, after another hook. *)
LEMMA GateAhead ==
    ASSUME Shape, Condemned, NEW s \in Hooks!Slots, LetsGoOn(s), slots[s].bad # Nothing
    PROVE  Failed(s)' \/ (slots'[s].at <= GateAt[slots[s].bad] /\ slots[s].tool \in Hooks!Matcher(slots[s].bad))
<1>1. PICK context : Hooks!Continue(s, context)
    BY DEF LetsGoOn
<1>2. Went(s, context) /\ Hooks!InChain(s) /\ spoiled \subseteq spoiled'
    BY <1>1, Continues DEF LetsGoOn
<1>3. slots[s].event = "PreToolUse" /\ slots[s].bad \in Gates /\ slots'[s].bad = slots[s].bad /\ slots[s].at \in Nat
    BY <1>2 DEF Hooks!InChain, Hooks!Dispatching, Condemned, Shape, IsDispatch, Went
<1> DEFINE place == GateAt[slots[s].bad]
<1>4. place \in Nat /\ place \in DOMAIN Hooks!Chain("PreToolUse") /\ Hooks!Chain("PreToolUse")[place] = slots[s].bad
    BY <1>3, GatesPlaced
<1> HIDE DEF place
<1>5. CASE Failed(s)
    BY <1>2, <1>3, <1>5 DEF Failed
<1>6. CASE ~Failed(s) /\ slots[s].at = place
    <2>1. Hooks!Hook(s) = slots[s].bad
        BY <1>3, <1>4, <1>6 DEF Hooks!Hook
    <2> QED BY <1>3, <2>1 DEF LetsGoOn, Failed
<1>7. CASE ~Failed(s) /\ slots[s].at # place
    <2>1. slots[s].at <= place /\ slots[s].tool \in Hooks!Matcher(slots[s].bad)
        BY <1>7 DEF Condemned, place
    <2>2. Hooks!NextAt("PreToolUse", slots[s].tool, slots[s].at) <= place
        BY <1>3, <1>4, <1>7, <2>1, NextAtFirst
    <2> QED BY <1>2, <1>3, <2>1, <2>2 DEF Went, place
<1> QED BY <1>5, <1>6, <1>7

(* A step keeps Shape, Emptied and Condemned. *)
LEMMA CondemnedNext ==
    ASSUME Shape, Emptied, Condemned, Hooks!Next
    PROVE  (Shape /\ Emptied /\ Condemned)'
<1>1. CASE SessionMoves
    <2>1. Elsewhere
        BY <1>1, SessionSteps
    <2>2. ASSUME NEW s \in Hooks!Slots
          PROVE  /\ slots'[s].event \in {Nothing, "running"} => slots'[s].ctx = {}
                 /\ slots'[s].bad # Nothing =>
                      /\ slots'[s].bad \in Gates /\ slots'[s].event \in {"PreToolUse", "running"}
                      /\ slots'[s].event = "running" => Failed(s)'
                      /\ \/ Failed(s)'
                         \/ slots'[s].at <= GateAt[slots'[s].bad] /\ slots'[s].tool \in Hooks!Matcher(slots'[s].bad)
        <3>1. CASE slots'[s] = slots[s]
            <4>1. Failed(s) => Failed(s)'
                BY <2>1, <3>1 DEF Elsewhere, Failed
            <4> QED BY <3>1, <4>1 DEF Emptied, Condemned
        <3>2. CASE slots'[s] # slots[s]
            <4>1. slots'[s].ctx = {}
                BY <2>1, <3>2 DEF Elsewhere, Arrives
            <4>2. ASSUME slots'[s].bad # Nothing
                  PROVE  /\ slots'[s].bad \in Gates /\ slots'[s].event = "PreToolUse"
                         /\ slots'[s].at <= GateAt[slots'[s].bad] /\ slots'[s].tool \in Hooks!Matcher(slots'[s].bad)
                <5>1. /\ slots'[s].event = "PreToolUse" /\ slots'[s].at = Hooks!NextAt("PreToolUse", slots'[s].tool, 0)
                      /\ slots'[s].bad \in Hooks!Verdicts(slots'[s].tool)
                    BY <2>1, <3>2, <4>2 DEF Elsewhere, Arrives
                <5>2. slots'[s].bad \in Gates /\ slots'[s].tool \in Hooks!Matcher(slots'[s].bad)
                    BY <4>2, <5>1, VerdictsOfGates
                <5>3. /\ GateAt[slots'[s].bad] \in DOMAIN Hooks!Chain("PreToolUse") /\ 0 < GateAt[slots'[s].bad]
                      /\ Hooks!Chain("PreToolUse")[GateAt[slots'[s].bad]] = slots'[s].bad
                    BY <5>2, GatesPlaced
                <5> QED BY <5>1, <5>2, <5>3, NextAtFirst
            <4> QED BY <4>1, <4>2
        <3> QED BY <3>1, <3>2
    <2> QED BY <2>1, <2>2 DEF Elsewhere, Emptied, Condemned
<1>2. CASE Hooks!Interrupt
    BY <1>2, InterruptCuts, IdleShape DEF Emptied, Condemned
<1>3. ASSUME NEW s \in Hooks!Slots, LetsGoOn(s)
      PROVE  (Shape /\ Emptied /\ Condemned)'
    <2>1. PICK context : Hooks!Continue(s, context)
        BY <1>3 DEF LetsGoOn
    <2>2. Shape' /\ Went(s, context) /\ Hooks!InChain(s) /\ spoiled \subseteq spoiled'
        BY <1>3, <2>1, Continues DEF LetsGoOn
    <2>3. Emptied'
        BY <2>2, SessionsAssumption DEF Hooks!HookChainAssumption, Emptied, Went, Others, Hooks!InChain, Hooks!Dispatching
    <2>4. ASSUME NEW o \in Hooks!Slots, slots'[o].bad # Nothing
          PROVE  /\ slots'[o].bad \in Gates /\ slots'[o].event \in {"PreToolUse", "running"}
                 /\ slots'[o].event = "running" => Failed(o)'
                 /\ \/ Failed(o)'
                    \/ slots'[o].at <= GateAt[slots'[o].bad] /\ slots'[o].tool \in Hooks!Matcher(slots'[o].bad)
        <3>1. CASE o # s
            <4>1. slots'[o] = slots[o]
                BY <2>2, <3>1 DEF Went, Others
            <4>2. Failed(o) => Failed(o)'
                BY <2>2, <4>1 DEF Failed
            <4> QED BY <2>4, <4>1, <4>2 DEF Condemned
        <3>2. CASE o = s
            <4>1. /\ slots'[s].bad = slots[s].bad /\ slots'[s].event = slots[s].event /\ slots'[s].tool = slots[s].tool
                  /\ slots[s].event # "running"
                BY <2>2 DEF Went, Hooks!InChain, Hooks!Dispatching
            <4>2. slots[s].bad \in Gates /\ slots[s].event \in {"PreToolUse", "running"}
                BY <2>4, <3>2, <4>1 DEF Condemned
            <4>3. Failed(s)' \/ (slots'[s].at <= GateAt[slots[s].bad] /\ slots[s].tool \in Hooks!Matcher(slots[s].bad))
                BY <1>3, <2>4, <3>2, <4>1, GateAhead
            <4> QED BY <3>2, <4>1, <4>2, <4>3
        <3> QED BY <3>1, <3>2
    <2> QED BY <2>2, <2>3, <2>4 DEF Condemned
<1>4. ASSUME NEW s \in Hooks!Slots, Shape', Others(s), spoiled \subseteq spoiled',
             \/ slots'[s].event = Nothing /\ slots'[s].bad = Nothing /\ slots'[s].ctx = {}
             \/ /\ slots'[s].event = "running" /\ slots'[s].bad = slots[s].bad /\ slots'[s].ctx = {}
                /\ slots'[s].bad # Nothing => slots[s].bad \in Gates /\ Failed(s)'
             \/ /\ slots'[s].event = slots[s].event /\ slots'[s].tool = slots[s].tool /\ slots'[s].bad = slots[s].bad
                /\ slots'[s].at = slots[s].at /\ slots'[s].ctx = slots[s].ctx
      PROVE  (Shape /\ Emptied /\ Condemned)'
    <2>1. \A o \in Hooks!Slots : o # s => slots'[o] = slots[o]
        BY <1>4 DEF Others
    <2>2. \A o \in Hooks!Slots : slots'[o].bad = slots[o].bad /\ Failed(o) => Failed(o)'
        BY <1>4 DEF Failed
    <2>3. Emptied'
        BY <1>4, <2>1 DEF Emptied
    <2>4. ASSUME NEW o \in Hooks!Slots, slots'[o].bad # Nothing
          PROVE  /\ slots'[o].bad \in Gates /\ slots'[o].event \in {"PreToolUse", "running"}
                 /\ slots'[o].event = "running" => Failed(o)'
                 /\ \/ Failed(o)'
                    \/ slots'[o].at <= GateAt[slots'[o].bad] /\ slots'[o].tool \in Hooks!Matcher(slots'[o].bad)
        BY <1>4, <2>1, <2>2, <2>4 DEF Condemned
    <2> QED BY <1>4, <2>3, <2>4 DEF Condemned
<1>5. ASSUME NEW s \in Hooks!Slots, EndsCall(s)
      PROVE  (Shape /\ Emptied /\ Condemned)'
    <2>1. PICK context : Hooks!Block(s, context)
        BY <1>5 DEF EndsCall
    <2> QED BY <1>4, <1>5, <2>1, BlockEnds, IdleShape DEF EndsCall
<1>6. ASSUME NEW s \in Hooks!Slots, Halfway(s)
      PROVE  (Shape /\ Emptied /\ Condemned)'
    BY <1>4, <1>6 DEF Halfway
<1>7. ASSUME NEW s \in Hooks!Slots, Out(s)
      PROVE  (Shape /\ Emptied /\ Condemned)'
    <2>1. CASE slots'[s].event = "running" /\ slots[s].event = "PreToolUse" /\ slots'[s].bad = slots[s].bad
               /\ (~Hooks!InChain(s) \/ "died" \in spoiled')
        <3>1. ASSUME slots'[s].bad # Nothing PROVE slots[s].bad \in Gates /\ Failed(s)'
            <4>1. slots[s].bad \in Gates
                BY <2>1, <3>1 DEF Condemned
            <4>2. CASE "died" \in spoiled'
                BY <4>1, <4>2 DEF Failed
            <4>3. CASE ~Hooks!InChain(s)
                <5>1. ~(slots[s].at <= GateAt[slots[s].bad])
                    <6>1. slots[s].at \in Nat /\ ~(slots[s].at <= 10)
                        BY <1>7, <2>1, <4>3, GatesPlaced DEF Hooks!InChain, Out, Shape, IsDispatch
                    <6>2. GateAt[slots[s].bad] \in 1..10
                        BY <4>1, GatesPlaced
                    <6> QED BY <6>1, <6>2
                <5>2. Failed(s)
                    BY <2>1, <3>1, <5>1 DEF Condemned
                <5> QED BY <1>7, <2>1, <4>1, <5>2 DEF Failed, Out
            <4> QED BY <2>1, <4>1, <4>2, <4>3
        <3> QED BY <1>4, <1>7, <2>1, <3>1 DEF Out
    <2>2. CASE slots'[s].event = Nothing /\ slots'[s].bad = Nothing
        BY <1>4, <1>7, <2>2 DEF Out
    <2> QED BY <1>7, <2>1, <2>2 DEF Out
<1>8. ASSUME NEW s \in Hooks!Slots,
             HookMoves(s) \/ Hooks!PreReads(s) \/ Hooks!PreLogs(s) \/ Hooks!Deliver(s) \/ Hooks!Die(s)
      PROVE  (Shape /\ Emptied /\ Condemned)'
    <2>1. LetsGoOn(s) \/ EndsCall(s) \/ Halfway(s) \/ Out(s)
        BY <1>8, HookSteps, HalfwaySteps, OutSteps
    <2> QED BY <1>3, <1>5, <1>6, <1>7, <2>1
<1> QED BY <1>1, <1>2, <1>8, ChainSteps

(* A step keeps FlagMeansTold. *)
LEMMA FlagsNext ==
    ASSUME Shape, Emptied, Hooks!FlagMeansTold, Hooks!Next
    PROVE  Hooks!FlagMeansTold'
<1> SUFFICES ASSUME NEW x \in flags' \ {"drift"}
             PROVE  x \in told' \cup lost' \/ \E o \in Hooks!Slots : x \in slots'[o].ctx
    BY DEF Hooks!FlagMeansTold
<1>1. x \in flags => x \in told \cup lost \/ \E o \in Hooks!Slots : x \in slots[o].ctx
    BY DEF Hooks!FlagMeansTold
<1>2. CASE SessionMoves
    <2>1. \A o \in Hooks!Slots : slots'[o] = slots[o] \/ slots[o].ctx = {}
        BY <1>2, SessionSteps DEF Elsewhere, Arrives
    <2> QED BY <1>1, <1>2, <2>1, SessionSteps DEF Elsewhere
<1>3. CASE Hooks!Interrupt
    BY <1>1, <1>3, InterruptCuts
<1>4. ASSUME NEW s \in Hooks!Slots, LetsGoOn(s)
      PROVE  x \in told' \cup lost' \/ \E o \in Hooks!Slots : x \in slots'[o].ctx
    <2>1. PICK context : Hooks!Continue(s, context) /\ flags' \subseteq flags \cup context \cup lost' \cup {"drift"}
        BY <1>4 DEF LetsGoOn
    <2>2. Went(s, context) /\ told' = told /\ lost \subseteq lost'
        BY <1>4, <2>1, Continues DEF LetsGoOn
    <2>3. \A o \in Hooks!Slots : slots[o].ctx \subseteq slots'[o].ctx
        BY <2>2 DEF Went, Others
    <2>4. context \subseteq slots'[s].ctx
        BY <2>2 DEF Went
    <2> QED BY <1>1, <2>1, <2>2, <2>3, <2>4
<1>5. ASSUME NEW s \in Hooks!Slots, EndsCall(s)
      PROVE  x \in told' \cup lost' \/ \E o \in Hooks!Slots : x \in slots'[o].ctx
    <2>1. PICK context : Hooks!Block(s, context) /\ flags' \subseteq flags \cup context
        BY <1>5 DEF EndsCall
    <2>2. lost' = lost \cup slots[s].ctx \cup context /\ Others(s) /\ told' = told
        BY <1>5, <2>1, BlockEnds DEF EndsCall
    <2> QED BY <1>1, <2>1, <2>2 DEF Others
<1>6. ASSUME NEW s \in Hooks!Slots, Halfway(s)
      PROVE  x \in told' \cup lost' \/ \E o \in Hooks!Slots : x \in slots'[o].ctx
    BY <1>1, <1>6 DEF Halfway, Others
<1>7. ASSUME NEW s \in Hooks!Slots, Out(s)
      PROVE  x \in told' \cup lost' \/ \E o \in Hooks!Slots : x \in slots'[o].ctx
    BY <1>1, <1>7 DEF Out, Others
<1>8. ASSUME NEW s \in Hooks!Slots,
             HookMoves(s) \/ Hooks!PreReads(s) \/ Hooks!PreLogs(s) \/ Hooks!Deliver(s) \/ Hooks!Die(s)
      PROVE  x \in told' \cup lost' \/ \E o \in Hooks!Slots : x \in slots'[o].ctx
    <2>1. LetsGoOn(s) \/ EndsCall(s) \/ Halfway(s) \/ Out(s)
        BY <1>8, HookSteps, HalfwaySteps, OutSteps
    <2> QED BY <1>4, <1>5, <1>6, <1>7, <2>1
<1> QED BY <1>2, <1>3, <1>8, ChainSteps

(* No slot has a call at first. *)
LEMMA ChainInit == Hooks!Init => ChainInv
<1> SUFFICES ASSUME Hooks!Init PROVE ChainInv
    OBVIOUS
<1>1. slots = [s \in Hooks!Slots |-> Hooks!Idle] /\ flags = {}
    BY DEF Hooks!Init
<1> QED BY <1>1, IdleShape DEF ChainInv, Shape, Emptied, Condemned, Hooks!FlagMeansTold

(* The invariant is inductive. *)
LEMMA ChainNext == ChainInv /\ [Hooks!Next]_(Hooks!vars) => ChainInv'
<1>1. ChainInv /\ UNCHANGED Hooks!vars => ChainInv'
    BY DEF ChainInv, Hooks!vars, Hooks!session, Hooks!files, Hooks!world, Shape, Emptied, Condemned, Failed, Hooks!FlagMeansTold
<1> QED BY <1>1, CondemnedNext, FlagsNext DEF ChainInv

(* CondemnedCallNeverRuns: a call that a gate condemns never runs, unless  *)
(* that gate failed or its dispatcher died (dispatch.py run_chain).        *)
THEOREM CondemnedNeverRuns == Hooks!Spec => []CondemnedCallNeverRuns
<1>1. ChainInv => CondemnedCallNeverRuns
    BY DEF ChainInv, Condemned, Failed, CondemnedCallNeverRuns, Hooks!CondemnedCallNeverRuns
<1> QED BY <1>1, ChainInit, ChainNext, PTL DEF Hooks!Spec

(* FlagMeansTold: what a once-per-session flag records as told was told,   *)
(* is on its way, or went with a block, an interrupt or a dead dispatcher  *)
(* (dispatch.py run_chain and the hooks' flag files).                      *)
THEOREM FlagsMeanTold == Hooks!Spec => []FlagMeansTold
<1>1. ChainInv => FlagMeansTold
    BY DEF ChainInv, FlagMeansTold
<1> QED BY <1>1, ChainInit, ChainNext, PTL DEF Hooks!Spec
-----------------------------------------------------------------------------
(* The flag files of sessions.                                             *)

Stages == {"idle", "startup", "init", "pin", "submit", "answer", "history", "last", "sweep"}
ChainType == [at : Stages, rules : BOOLEAN, todo : SUBSET Flags!Flags]

FlagTypes ==
    /\ today \in Nat /\ fMishaps \in Nat
    /\ chain \in [FileSessions -> ChainType]
    /\ startup \in [FileSessions -> Nat \cup {Nothing}]
    /\ counter \in [FileSessions -> [count : Nat, day : Nat] \cup {Nothing}]
    /\ since \in [FileSessions -> Nat]
    /\ \A s \in FileSessions : startup[s] # Nothing => startup[s] <= today

(* The startup flag is gone, or a sweep at work takes it.                  *)
Doomed(s) ==
    \/ startup[s] = Nothing
    \/ \E t \in FileSessions : Flags!At(t, "sweep") /\ <<"startup",
        s>> \in chain[t].todo /\ Flags!Old(startup[s], FlagDays)

(* The next rules are due before PinEvery prompts have passed.             *)
Count(s) == IF counter[s] = Nothing THEN 0 ELSE counter[s].count
Due(s) == since[s] + (IF Flags!At(s, "submit") THEN 1 ELSE 0) <= Count(s) % PinEvery
Bringing(s) == Flags!At(s, "init") \/ (chain[s].rules /\ chain[s].at \in {"pin", "submit"})
InReach(s) == Due(s) \/ Bringing(s) \/ Doomed(s)

(* The startup flag is the older one.                                      *)
OlderFlag(s) ==
    \/ startup[s] = Nothing \/ counter[s] = Nothing
    \/ startup[s] <= counter[s].day
    \/ Bringing(s) /\ ~Flags!At(s, "submit")

(* A sweep leaves no old flag behind.                                      *)
Passed(t) ==
    Flags!At(t, "sweep") =>
        \A s \in FileSessions : startup[s] = Nothing \/ <<"startup",
            s>> \in chain[t].todo \/ ~Flags!Old(startup[s], FlagDays)

ReachInv ==
    /\ FlagTypes
    /\ \A s \in FileSessions : Passed(s)
    /\ fMishaps = 0 => \A s \in FileSessions : InReach(s) /\ OlderFlag(s)

(* Counting goes up by one, or starts again with the rules. *)
LEMMA NextRemainder ==
    ASSUME NEW P \in Nat \ {0}, NEW c \in Nat
    PROVE  /\ c % P \in 0..P - 1 /\ 0 % P = 0
           /\ (c + 1) % P = 0 \/ (c + 1) % P = (c % P) + 1
<1> DEFINE q == c \div P
           r == c % P
<1>1. c = P * q + r /\ q \in Nat /\ r \in 0..P - 1
    OBVIOUS
<1>2. \A k \in Nat, i \in 0..P - 1 : (P * k + i) % P = i
    OBVIOUS
<1> HIDE DEF q, r
<1>3. CASE r + 1 < P
    <2>1. c + 1 = P * q + (r + 1) /\ r + 1 \in 0..P - 1
        BY <1>1, <1>3
    <2>2. (c + 1) % P = r + 1
        BY <1>1, <1>2, <2>1
    <2> QED BY <1>1, <2>2 DEF r
<1>4. CASE r + 1 = P
    <2>1. c + 1 = P * (q + 1) + 0 /\ q + 1 \in Nat /\ 0 \in 0..P - 1
        BY <1>1, <1>4
    <2>2. (c + 1) % P = 0
        BY <1>2, <2>1
    <2> QED BY <1>1, <2>2 DEF r
<1>5. r + 1 < P \/ r + 1 = P
    BY <1>1
<1>6. 0 % P = 0
    OBVIOUS
<1> QED BY <1>1, <1>3, <1>4, <1>5, <1>6 DEF r

(* The steps of one session. *)
FlagMoves(t) ==
    \/ Flags!Prompt(t) \/ Flags!Startup(t) \/ Flags!StartupBlock(t) \/ Flags!Pin(t) \/ Flags!Submit(t)
    \/ Flags!EndTurn(t) \/ Flags!AppendToHistory(t) \/ Flags!WriteLast(t) \/ Flags!Sweep(t) \/ Flags!Swept(t) \/ Flags!Killed(t)

(* The types are kept. *)
LEMMA FlagTypesNext ==
    ASSUME Flags!SessionFilesAssumption, FlagTypes, Flags!Next
    PROVE  FlagTypes'
<1>1. CASE Flags!NextDay
    BY <1>1 DEF Flags!NextDay, FlagTypes, Flags!flagFiles
<1>2. ASSUME NEW t \in FileSessions, FlagMoves(t) PROVE FlagTypes'
    <2>0. /\ chain[t] \in ChainType /\ Flags!Quiet \in ChainType /\ Flags!Bumped(t) \in Nat
          /\ Flags!Quiet.at = "idle" /\ Nothing \notin Nat
          /\ chain[t].todo \subseteq Flags!Flags /\ chain[t].rules \in BOOLEAN
        BY DEF FlagTypes, ChainType, Flags!Quiet, Stages, Flags!Bumped, Flags!SessionFilesAssumption
    <2>1. CASE Flags!Prompt(t)
        <3>1. chain' \in [FileSessions -> ChainType]
            BY <2>0, <2>1 DEF Flags!Prompt, FlagTypes, ChainType, Flags!Quiet, Stages
        <3> QED BY <2>1, <3>1 DEF Flags!Prompt, FlagTypes, Flags!flagFiles
    <2>2. CASE Flags!Startup(t)
        <3>1. chain' \in [FileSessions -> ChainType]
            BY <2>0, <2>2 DEF Flags!Startup, Flags!Goto, FlagTypes, ChainType, Stages
        <3> QED BY <2>2, <3>1 DEF Flags!Startup, FlagTypes
    <2>3. CASE Flags!StartupBlock(t)
        <3>1. chain' \in [FileSessions -> ChainType]
            BY <2>0, <2>3 DEF Flags!StartupBlock, FlagTypes, ChainType, Stages
        <3> QED BY <2>3, <3>1 DEF Flags!StartupBlock, FlagTypes
    <2>4. CASE Flags!Pin(t)
        <3>1. chain' \in [FileSessions -> ChainType]
            BY <2>0, <2>4 DEF Flags!Pin, FlagTypes, ChainType, Stages
        <3>2. counter' \in [FileSessions -> [count : Nat, day : Nat] \cup {Nothing}] /\ fMishaps' \in Nat
            BY <2>0, <2>4 DEF Flags!Pin, FlagTypes
        <3> QED BY <2>4, <3>1, <3>2 DEF Flags!Pin, FlagTypes
    <2>5. CASE Flags!Submit(t)
        <3>1. chain' \in [FileSessions -> ChainType] /\ since' \in [FileSessions -> Nat]
            BY <2>0, <2>5 DEF Flags!Submit, Flags!Goto, FlagTypes, ChainType, Stages
        <3> QED BY <2>5, <3>1 DEF Flags!Submit, FlagTypes, Flags!flagFiles
    <2>6. CASE Flags!EndTurn(t) \/ Flags!AppendToHistory(t)
        <3>1. \E to \in {"history", "idle", "last"} : chain' = [chain EXCEPT ![t].at = to]
            BY <2>6 DEF Flags!EndTurn, Flags!AppendToHistory, Flags!Goto
        <3>2. \A to \in {"history", "idle", "last"} : [chain[t] EXCEPT !.at = to] \in ChainType
            BY <2>0 DEF ChainType, Stages
        <3>3. chain' \in [FileSessions -> ChainType]
            BY <3>1, <3>2 DEF FlagTypes
        <3> QED BY <2>6, <3>3 DEF Flags!EndTurn, Flags!AppendToHistory, FlagTypes, Flags!flagFiles
    <2>7. CASE Flags!WriteLast(t)
        <3>1. [chain[t] EXCEPT !.at = "sweep", !.todo = Flags!Flags] \in ChainType
            BY <2>0 DEF ChainType, Stages
        <3>2. chain' \in [FileSessions -> ChainType]
            BY <2>0, <2>7, <3>1 DEF Flags!WriteLast, FlagTypes
        <3> QED BY <2>7, <3>2 DEF Flags!WriteLast, FlagTypes, Flags!flagFiles
    <2>8. CASE Flags!Sweep(t)
        <3>1. PICK f \in chain[t].todo :
                 /\ chain' = [chain EXCEPT ![t].todo = @ \ {f}]
                 /\ startup' = [u \in FileSessions |->
                      IF f = <<"startup", u>> /\ Flags!Old(startup[u], FlagDays) THEN Nothing ELSE startup[u]]
                 /\ counter' = [u \in FileSessions |->
                      IF f = <<"counter", u>> /\ counter[u] # Nothing /\ Flags!Old(counter[u].day, FlagDays)
                      THEN Nothing ELSE counter[u]]
            BY <2>8 DEF Flags!Sweep
        <3>2. chain' \in [FileSessions -> ChainType]
            BY <2>0, <3>1 DEF FlagTypes, ChainType
        <3>3. \A u \in FileSessions : startup'[u] \in {startup[u], Nothing} /\ counter'[u] \in {counter[u], Nothing}
            BY <3>1
        <3>4. startup' \in [FileSessions -> Nat \cup {Nothing}] /\ counter' \in [FileSessions -> [count : Nat, day : Nat] \cup {Nothing}]
            BY <3>1 DEF FlagTypes
        <3> QED BY <2>8, <3>2, <3>3, <3>4 DEF Flags!Sweep, FlagTypes
    <2>9. CASE Flags!Swept(t)
        <3>1. chain' \in [FileSessions -> ChainType]
            BY <2>0, <2>9 DEF Flags!Swept, FlagTypes
        <3> QED BY <2>9, <3>1 DEF Flags!Swept, FlagTypes
    <2>10. CASE Flags!Killed(t)
        <3>1. [Flags!Quiet EXCEPT !.at = "answer"] \in ChainType
            BY DEF Flags!Quiet, ChainType, Stages
        <3>2. chain' \in [FileSessions -> ChainType] /\ since' \in [FileSessions -> Nat] /\ fMishaps' \in Nat
            BY <2>0, <2>10, <3>1 DEF Flags!Killed, FlagTypes
        <3> QED BY <2>10, <3>2 DEF Flags!Killed, FlagTypes, Flags!flagFiles
    <2> QED BY <1>2, <2>1, <2>2, <2>3, <2>4, <2>5, <2>6, <2>7, <2>8, <2>9, <2>10 DEF FlagMoves
<1> QED BY <1>1, <1>2 DEF Flags!Next, FlagMoves

(* What a session's step leaves to the others. *)
LEMMA OthersStay ==
    ASSUME FlagTypes, NEW t \in FileSessions, FlagMoves(t), NEW s \in FileSessions, s # t
    PROVE  /\ chain'[s] = chain[s] /\ since'[s] = since[s] /\ today' = today
           /\ ~Flags!Sweep(t) => startup'[s] = startup[s] /\ counter'[s] = counter[s]
<1>1. /\ chain \in [FileSessions -> ChainType] /\ since \in [FileSessions -> Nat]
      /\ startup \in [FileSessions -> Nat \cup {Nothing}]
      /\ counter \in [FileSessions -> [count : Nat, day : Nat] \cup {Nothing}]
    BY DEF FlagTypes
<1>2. CASE Flags!Prompt(t) \/ Flags!Startup(t) \/ Flags!StartupBlock(t) \/ Flags!Pin(t) \/ Flags!Submit(t)
    BY <1>1, <1>2 DEF Flags!Prompt, Flags!Startup, Flags!StartupBlock, Flags!Pin, Flags!Submit, Flags!Goto,
        Flags!flagFiles, Flags!Sweep
<1>3. CASE Flags!EndTurn(t) \/ Flags!AppendToHistory(t) \/ Flags!WriteLast(t) \/ Flags!Swept(t) \/ Flags!Killed(t)
    BY <1>1, <1>3 DEF Flags!EndTurn, Flags!AppendToHistory, Flags!WriteLast, Flags!Swept, Flags!Killed,
        Flags!Goto, Flags!flagFiles
<1>4. CASE Flags!Sweep(t)
    BY <1>1, <1>4 DEF Flags!Sweep
<1> QED BY <1>2, <1>3, <1>4 DEF FlagMoves

(* What a sweep does to the files of any session. *)
LEMMA SweepStep ==
    ASSUME FlagTypes, NEW t \in FileSessions, Flags!Sweep(t)
    PROVE  /\ Flags!At(t, "sweep") /\ UNCHANGED <<today, since, fMishaps>>
           /\ \A s \in FileSessions : chain'[s].at = chain[s].at /\ chain'[s].rules = chain[s].rules
           /\ \A s \in FileSessions \ {t} : chain'[s].todo = chain[s].todo
           /\ \A s \in FileSessions :
                /\ startup'[s] \in {startup[s], Nothing} /\ counter'[s] \in {counter[s], Nothing}
                /\ counter'[s] # counter[s] => Flags!Old(counter[s].day, FlagDays)
                /\ <<"startup", s>> \in chain[t].todo =>
                     \/ <<"startup", s>> \in chain'[t].todo
                     \/ startup'[s] = (IF Flags!Old(startup[s], FlagDays) THEN Nothing ELSE startup[s])
<1>1. PICK f \in chain[t].todo :
         /\ chain' = [chain EXCEPT ![t].todo = @ \ {f}]
         /\ startup' = [u \in FileSessions |->
              IF f = <<"startup", u>> /\ Flags!Old(startup[u], FlagDays) THEN Nothing ELSE startup[u]]
         /\ counter' = [u \in FileSessions |->
              IF f = <<"counter", u>> /\ counter[u] # Nothing /\ Flags!Old(counter[u].day, FlagDays)
              THEN Nothing ELSE counter[u]]
    BY DEF Flags!Sweep
<1>2. chain \in [FileSessions -> ChainType]
    BY DEF FlagTypes
<1>3. /\ \A s \in FileSessions : chain'[s].at = chain[s].at /\ chain'[s].rules = chain[s].rules
      /\ \A s \in FileSessions \ {t} : chain'[s].todo = chain[s].todo
      /\ chain'[t].todo = chain[t].todo \ {f}
    BY <1>1, <1>2 DEF ChainType
<1>4. \A s \in FileSessions :
         /\ startup'[s] \in {startup[s], Nothing} /\ counter'[s] \in {counter[s], Nothing}
         /\ counter'[s] # counter[s] => Flags!Old(counter[s].day, FlagDays)
         /\ f = <<"startup", s>> => startup'[s] = (IF Flags!Old(startup[s], FlagDays) THEN Nothing ELSE startup[s])
    BY <1>1
<1> QED BY <1>3, <1>4 DEF Flags!Sweep

(* A flag that is gone or about to go stays so until the next prompt. *)
LEMMA DoomedStays ==
    ASSUME FlagTypes, Flags!Next, fMishaps' = fMishaps, NEW s \in FileSessions, Doomed(s)
    PROVE  Doomed(s)' \/ (Flags!Startup(s) /\ startup[s] = Nothing)
<1>1. CASE Flags!NextDay
    <2>1. \A t \in FileSessions : ~Flags!At(t, "sweep")
        BY <1>1 DEF Flags!NextDay, Flags!At
    <2>2. startup' = startup
        BY <1>1 DEF Flags!NextDay, Flags!flagFiles
    <2> QED BY <2>1, <2>2 DEF Doomed
<1>2. ASSUME NEW t \in FileSessions, FlagMoves(t), ~(Flags!Startup(s) /\ startup[s] = Nothing)
      PROVE  Doomed(s)'
    <2>1. today' = today /\ startup'[s] \in {startup[s], Nothing}
        <3>1. CASE Flags!Sweep(t)
            BY <3>1, SweepStep
        <3>2. CASE Flags!Startup(t)
            BY <1>2, <3>2 DEF Flags!Startup, FlagTypes
        <3>3. CASE ~Flags!Sweep(t) /\ ~Flags!Startup(t)
            BY <1>2, <3>3 DEF FlagMoves, Flags!Prompt, Flags!StartupBlock, Flags!Pin, Flags!Submit,
                Flags!EndTurn, Flags!AppendToHistory, Flags!WriteLast,
                              Flags!Swept, Flags!Killed, Flags!flagFiles
        <3> QED BY <3>1, <3>2, <3>3
    <2>2. CASE startup[s] = Nothing
        BY <2>1, <2>2 DEF Doomed
    <2>3. ASSUME NEW u \in FileSessions, Flags!At(u, "sweep"), <<"startup", s>> \in chain[u].todo,
        Flags!Old(startup[s], FlagDays)
          PROVE  Doomed(s)'
        <3>1. CASE u # t
            <4>1. chain'[u].at = chain[u].at /\ chain'[u].todo = chain[u].todo
                BY <1>2, <3>1, OthersStay
            <4> QED BY <2>1, <2>3, <4>1 DEF Doomed, Flags!At, Flags!Old
        <3>2. CASE u = t
            <4>1. Flags!Sweep(t)
                <5>1. ~Flags!Killed(t)
                    BY DEF Flags!Killed, FlagTypes
                <5> QED BY <1>2, <2>3, <3>2, <5>1
                        DEF FlagMoves, Flags!Prompt, Flags!Startup, Flags!StartupBlock, Flags!Pin,
                            Flags!Submit, Flags!EndTurn, Flags!AppendToHistory, Flags!WriteLast,
                            Flags!Swept, Flags!At
            <4>2. chain'[t].at = "sweep" /\ (<<"startup", s>> \in chain'[t].todo \/ startup'[s] = Nothing)
                BY <2>3, <3>2, <4>1, SweepStep DEF Flags!At
            <4> QED BY <2>1, <2>3, <3>2, <4>2 DEF Doomed, Flags!At, Flags!Old
        <3> QED BY <3>1, <3>2
    <2> QED BY <2>2, <2>3 DEF Doomed
<1> QED BY <1>1, <1>2 DEF Flags!Next, FlagMoves

(* No sweep leaves an old flag behind. *)
LEMMA PassedNext ==
    ASSUME Flags!SessionFilesAssumption, FlagTypes, \A u \in FileSessions : Passed(u), Flags!Next,
        NEW t \in FileSessions
    PROVE  Passed(t)'
<1> SUFFICES ASSUME Flags!At(t, "sweep")', NEW s \in FileSessions
             PROVE  startup'[s] = Nothing \/ <<"startup", s>> \in chain'[t].todo \/ ~Flags!Old(startup[s], FlagDays)'
    BY DEF Passed
<1>0. Nothing \notin Nat /\ today \in Nat /\ FlagDays \in Nat
      /\ startup \in [FileSessions -> Nat \cup {Nothing}] /\ chain \in [FileSessions -> ChainType]
    BY DEF FlagTypes, Flags!SessionFilesAssumption
<1>1. CASE Flags!NextDay
    BY <1>1 DEF Flags!NextDay, Flags!At
<1>2. ASSUME NEW u \in FileSessions, FlagMoves(u) PROVE startup'[s] = Nothing \/ <<"startup",
    s>> \in chain'[t].todo \/ ~Flags!Old(startup[s], FlagDays)'
    <2>1. today' = today /\ startup'[s] \in {startup[s], Nothing, today}
        <3>1. CASE Flags!Sweep(u)
            BY <3>1, SweepStep
        <3>2. CASE Flags!Startup(u)
            BY <1>0, <1>2, <3>2 DEF Flags!Startup
        <3>3. CASE ~Flags!Sweep(u) /\ ~Flags!Startup(u)
            BY <1>2, <3>3 DEF FlagMoves, Flags!Prompt, Flags!StartupBlock, Flags!Pin, Flags!Submit,
                Flags!EndTurn, Flags!AppendToHistory, Flags!WriteLast,
                              Flags!Swept, Flags!Killed, Flags!flagFiles
        <3> QED BY <3>1, <3>2, <3>3
    <2>2. ~Flags!Old(today, FlagDays)
        BY <1>0 DEF Flags!Old
    <2>3. CASE u # t
        <3>1. chain'[t] = chain[t]
            BY <1>2, <2>3, OthersStay
        <3>2. startup[s] = Nothing \/ <<"startup", s>> \in chain[t].todo \/ ~Flags!Old(startup[s], FlagDays)
            BY <3>1 DEF Passed, Flags!At
        <3> QED BY <2>1, <2>2, <3>1, <3>2 DEF Flags!Old
    <2>4. CASE u = t /\ Flags!WriteLast(t)
        <3>1. chain'[t].todo = Flags!Flags
            BY <1>0, <2>4 DEF Flags!WriteLast, Flags!At, ChainType, Flags!Quiet
        <3> QED BY <3>1 DEF Flags!Flags
    <2>5. CASE u = t /\ Flags!Sweep(t)
        <3>1. Flags!At(t, "sweep")
            BY <2>5, SweepStep
        <3>2. startup[s] = Nothing \/ <<"startup", s>> \in chain[t].todo \/ ~Flags!Old(startup[s], FlagDays)
            BY <3>1 DEF Passed
        <3>3. /\ startup'[s] \in {startup[s], Nothing}
              /\ <<"startup", s>> \in chain[t].todo =>
                     \/ <<"startup", s>> \in chain'[t].todo
                     \/ startup'[s] = (IF Flags!Old(startup[s], FlagDays) THEN Nothing ELSE startup[s])
            BY <2>5, SweepStep
        <3> QED BY <2>1, <3>2, <3>3 DEF Flags!Old
    <2>6. CASE u = t /\ ~Flags!WriteLast(t) /\ ~Flags!Sweep(t)
        <3>1. CASE Flags!Prompt(t) \/ Flags!Swept(t) \/ Flags!Killed(t)
            BY <1>0, <3>1 DEF Flags!Prompt, Flags!Swept, Flags!Killed, Flags!Quiet, Flags!At
        <3>2. CASE Flags!Startup(t) \/ Flags!StartupBlock(t) \/ Flags!Pin(t) \/ Flags!Submit(t)
            BY <1>0, <3>2 DEF Flags!Startup, Flags!StartupBlock, Flags!Pin, Flags!Submit, Flags!Goto,
                ChainType, Flags!At
        <3>3. CASE Flags!EndTurn(t) \/ Flags!AppendToHistory(t)
            BY <1>0, <3>3 DEF Flags!EndTurn, Flags!AppendToHistory, Flags!Goto, ChainType, Flags!At
        <3> QED BY <1>2, <2>6, <3>1, <3>2, <3>3 DEF FlagMoves
    <2> QED BY <2>3, <2>4, <2>5, <2>6
<1> QED BY <1>1, <1>2 DEF Flags!Next, FlagMoves

(* A step keeps the rules in reach of every session. *)
LEMMA ReachNext ==
    ASSUME Flags!SessionFilesAssumption, FlagTypes, \A u \in FileSessions : Passed(u), Flags!Next,
        fMishaps' = fMishaps,
           NEW s \in FileSessions, InReach(s), OlderFlag(s)
    PROVE  InReach(s)' /\ OlderFlag(s)'
<1>0. /\ Nothing \notin Nat /\ Nothing \notin [count : Nat, day : Nat] /\ PinEvery \in Nat \ {0} /\ FlagDays \in Nat
      /\ today \in Nat /\ chain \in [FileSessions -> ChainType] /\ since \in [FileSessions -> Nat]
      /\ startup \in [FileSessions -> Nat \cup {Nothing}] /\ (startup[s] # Nothing => startup[s] <= today)
      /\ counter \in [FileSessions -> [count : Nat, day : Nat] \cup {Nothing}]
    BY DEF FlagTypes, Flags!SessionFilesAssumption
<1>1. since[s] \in Nat /\ Count(s) \in Nat /\ chain[s] \in ChainType
    BY <1>0 DEF Count
<1>2. /\ Count(s) % PinEvery \in 0..PinEvery - 1 /\ 0 % PinEvery = 0
      /\ (Count(s) + 1) % PinEvery = 0 \/ (Count(s) + 1) % PinEvery = (Count(s) % PinEvery) + 1
    BY <1>0, <1>1, NextRemainder
<1>3. ASSUME UNCHANGED <<startup[s], counter[s], since[s], chain[s].at, chain[s].rules>>,
    ~(Flags!Startup(s) /\ startup[s] = Nothing)
      PROVE  InReach(s)' /\ OlderFlag(s)'
    <2>1. Doomed(s) => Doomed(s)'
        BY <1>3, DoomedStays
    <2>2. (Due(s) => Due(s)') /\ (Bringing(s) => Bringing(s)') /\ (Flags!At(s, "submit")' <=> Flags!At(s, "submit"))
        BY <1>3 DEF Due, Count, Bringing, Flags!At
    <2> QED BY <1>3, <2>1, <2>2 DEF InReach, OlderFlag
<1>4. CASE Flags!NextDay
    BY <1>3, <1>4 DEF Flags!NextDay, Flags!flagFiles, Flags!Startup, Flags!At
<1>5. ASSUME NEW t \in FileSessions, Flags!Sweep(t) PROVE InReach(s)' /\ OlderFlag(s)'
    <2>1. /\ Flags!At(t, "sweep") /\ UNCHANGED <<today, since>>
          /\ chain'[s].at = chain[s].at /\ chain'[s].rules = chain[s].rules
          /\ startup'[s] \in {startup[s], Nothing} /\ counter'[s] \in {counter[s], Nothing}
          /\ counter'[s] # counter[s] => Flags!Old(counter[s].day, FlagDays)
          /\ <<"startup", s>> \in chain[t].todo =>
                 \/ <<"startup", s>> \in chain'[t].todo
                 \/ startup'[s] = (IF Flags!Old(startup[s], FlagDays) THEN Nothing ELSE startup[s])
        BY <1>5, SweepStep
    <2>2. chain'[t].at = "sweep"
        BY <1>5, <2>1, SweepStep DEF Flags!At
    <2>3. Bringing(s) <=> Bringing(s)'
        BY <2>1 DEF Bringing, Flags!At
    <2>4. OlderFlag(s)'
        BY <2>1, <2>3 DEF OlderFlag, Flags!At
    <2>5. CASE Bringing(s)
        BY <2>3, <2>4, <2>5 DEF InReach
    <2>6. CASE startup'[s] = Nothing
        BY <2>4, <2>6 DEF InReach, Doomed
    <2>7. CASE ~Bringing(s) /\ startup'[s] # Nothing /\ counter'[s] # counter[s]
        <3>1. startup[s] # Nothing /\ counter[s] # Nothing /\ startup'[s] = startup[s]
            BY <2>1, <2>7
        <3>2. startup[s] \in Nat /\ counter[s].day \in Nat /\ startup[s] <= counter[s].day
            BY <1>0, <2>7, <3>1 DEF OlderFlag
        <3>3. Flags!Old(startup[s], FlagDays) /\ Flags!Old(startup[s], FlagDays)'
            BY <1>0, <2>1, <2>7, <3>1, <3>2 DEF Flags!Old
        <3>4. <<"startup", s>> \in chain[t].todo
            BY <2>1, <3>1, <3>3 DEF Passed
        <3>5. <<"startup", s>> \in chain'[t].todo
            BY <2>1, <2>7, <3>3, <3>4
        <3> QED BY <2>2, <2>4, <3>3, <3>5 DEF InReach, Doomed, Flags!At
    <2>8. CASE startup'[s] # Nothing /\ counter'[s] = counter[s]
        <3>1. startup'[s] = startup[s] /\ startup[s] # Nothing
            BY <2>1, <2>8
        <3> QED BY <1>3, <2>1, <2>8, <3>1
    <2> QED BY <2>5, <2>6, <2>7, <2>8
<1>6. ASSUME NEW t \in FileSessions, FlagMoves(t), t # s, ~Flags!Sweep(t) PROVE InReach(s)' /\ OlderFlag(s)'
    <2>1. UNCHANGED <<startup[s], counter[s], since[s], chain[s].at, chain[s].rules>>
        BY <1>6, OthersStay
    <2>2. ~Flags!Startup(s)
        <3>1. chain'[s] = chain[s]
            BY <1>6, OthersStay
        <3> QED BY <1>0, <3>1 DEF Flags!Startup, Flags!Goto, Flags!At, ChainType
    <2> QED BY <1>3, <2>1, <2>2
<1>7. CASE Flags!Startup(s)
    <2>1. CASE startup[s] # Nothing
        <3>1. /\ chain[s].at = "startup" /\ chain'[s].at = "pin" /\ chain'[s].rules = chain[s].rules
              /\ UNCHANGED <<startup, counter, since>>
            BY <1>0, <1>7, <2>1 DEF Flags!Startup, Flags!Goto, Flags!At, ChainType
        <3>2. Doomed(s) => Doomed(s)'
            BY <2>1, DoomedStays
        <3>3. Due(s) => Due(s)'
            BY <3>1 DEF Due, Count, Flags!At
        <3>4. ~Bringing(s) /\ OlderFlag(s)'
            BY <3>1 DEF Bringing, OlderFlag, Flags!At
        <3> QED BY <3>2, <3>3, <3>4 DEF InReach
    <2>2. CASE startup[s] = Nothing
        <3>1. chain'[s].at = "init"
            BY <1>0, <1>7, <2>2 DEF Flags!Startup, Flags!Goto, ChainType
        <3> QED BY <3>1 DEF InReach, OlderFlag, Bringing, Flags!At
    <2> QED BY <2>1, <2>2
<1>8. CASE Flags!StartupBlock(s)
    <2>1. chain'[s].at = "pin" /\ chain'[s].rules = TRUE
        BY <1>0, <1>8 DEF Flags!StartupBlock, ChainType
    <2> QED BY <2>1 DEF InReach, OlderFlag, Bringing, Flags!At
<1>9. CASE Flags!Pin(s)
    <2>1. /\ chain[s].at = "pin" /\ chain'[s].at = "submit" /\ UNCHANGED <<startup, since, today>>
          /\ chain'[s].rules = (chain[s].rules \/ Flags!Bumped(s) % PinEvery = 0)
        BY <1>0, <1>9 DEF Flags!Pin, Flags!At, ChainType
    <2>2. counter'[s] = [count |-> Flags!Bumped(s), day |-> today]
        <3>1. fMishaps \in Nat
            BY DEF FlagTypes
        <3> QED BY <1>0, <1>9, <3>1 DEF Flags!Pin
    <2>3. Flags!Bumped(s) = Count(s) + 1
        BY <1>1 DEF Flags!Bumped, Count
    <2>4. counter'[s] # Nothing /\ Count(s)' = Count(s) + 1 /\ counter'[s].day = today
        BY <1>0, <1>1, <2>2, <2>3 DEF Count
    <2>5. OlderFlag(s)'
        BY <1>0, <2>1, <2>4 DEF OlderFlag
    <2>6. CASE Bringing(s)
        BY <2>1, <2>5, <2>6 DEF InReach, Bringing, Flags!At
    <2>7. CASE Doomed(s)
        <3>1. Doomed(s)'
            BY <2>1, <2>7, DoomedStays DEF Flags!Startup, Flags!At
        <3> QED BY <2>5, <3>1 DEF InReach
    <2>8. CASE Due(s)
        <3>1. since[s] <= Count(s) % PinEvery
            BY <1>1, <2>1, <2>8 DEF Due, Flags!At
        <3>2. CASE Flags!Bumped(s) % PinEvery = 0
            BY <2>1, <2>5, <3>2 DEF InReach, Bringing, Flags!At
        <3>3. CASE Flags!Bumped(s) % PinEvery # 0
            <4>1. Flags!Bumped(s) % PinEvery = (Count(s) % PinEvery) + 1
                BY <1>2, <2>3, <3>3
            <4>2. since'[s] + 1 <= Count(s)' % PinEvery
                BY <1>1, <1>2, <2>1, <2>3, <2>4, <3>1, <4>1
            <4> QED BY <2>1, <2>5, <4>2 DEF InReach, Due, Flags!At
        <3> QED BY <3>2, <3>3
    <2> QED BY <2>6, <2>7, <2>8 DEF InReach
<1>10. CASE Flags!Submit(s)
    <2>1. /\ chain[s].at = "submit" /\ chain'[s].at = "answer" /\ UNCHANGED <<startup, counter, today>>
          /\ chain'[s].rules = chain[s].rules
          /\ since'[s] = IF chain[s].rules THEN 0 ELSE since[s] + 1
        BY <1>0, <1>10 DEF Flags!Submit, Flags!Goto, Flags!At, ChainType, Flags!flagFiles
    <2>2. OlderFlag(s)'
        BY <2>1 DEF OlderFlag, Flags!At
    <2>3. Count(s)' = Count(s) /\ ~Flags!At(s, "submit")'
        BY <2>1 DEF Count, Flags!At
    <2>4. CASE Doomed(s)
        <3>1. Doomed(s)'
            BY <2>1, <2>4, DoomedStays DEF Flags!Startup, Flags!At
        <3> QED BY <2>2, <3>1 DEF InReach
    <2>5. CASE chain[s].rules
        <3>1. since'[s] <= Count(s)' % PinEvery
            BY <1>2, <2>1, <2>3, <2>5
        <3>2. since'[s] \in Nat
            BY <2>1, <2>5
        <3> QED BY <2>2, <2>3, <3>1, <3>2 DEF InReach, Due
    <2>6. CASE Due(s) /\ ~chain[s].rules
        <3>1. since'[s] <= Count(s)' % PinEvery /\ since'[s] \in Nat
            BY <1>1, <2>1, <2>3, <2>6 DEF Due, Flags!At
        <3> QED BY <2>2, <2>3, <3>1 DEF InReach, Due
    <2> QED BY <2>1, <2>4, <2>5, <2>6 DEF InReach, Bringing, Flags!At
<1>11. CASE Flags!Prompt(s) \/ Flags!EndTurn(s) \/ Flags!AppendToHistory(s) \/ Flags!WriteLast(s) \/ Flags!Swept(s)
    <2>1. /\ UNCHANGED <<startup, counter, since, today>>
          /\ chain[s].at \notin {"startup", "init", "pin", "submit"}
          /\ chain'[s].at \notin {"init", "pin", "submit"}
        <3>1. CASE Flags!Prompt(s) \/ Flags!Swept(s)
            BY <1>0, <3>1 DEF Flags!Prompt, Flags!Swept, Flags!At, Flags!Quiet, Flags!flagFiles
        <3>2. CASE Flags!EndTurn(s) \/ Flags!AppendToHistory(s)
            BY ZenonT(60), <1>0, <3>2 DEF Flags!EndTurn, Flags!AppendToHistory, Flags!Goto, Flags!At, ChainType, Flags!flagFiles
        <3>3. CASE Flags!WriteLast(s)
            <4>1. chain'[s] = Flags!Quiet \/ chain'[s] = [chain[s] EXCEPT !.at = "sweep", !.todo = Flags!Flags]
                BY <1>0, <3>3 DEF Flags!WriteLast
            <4>2. [chain[s] EXCEPT !.at = "sweep", !.todo = Flags!Flags].at = "sweep" /\ Flags!Quiet.at = "idle"
                BY <1>1 DEF Flags!Quiet, ChainType
            <4>3. chain'[s].at \in {"idle", "sweep"}
                BY <4>1, <4>2
            <4> QED BY <3>3, <4>3 DEF Flags!WriteLast, Flags!At, Flags!flagFiles
        <3> QED BY <1>11, <3>1, <3>2, <3>3
    <2>2. ~Bringing(s) /\ (Due(s) => Due(s)')
        BY <2>1 DEF Bringing, Due, Count, Flags!At
    <2>3. Doomed(s) => Doomed(s)'
        BY <2>1, DoomedStays DEF Flags!Startup, Flags!At
    <2> QED BY <2>1, <2>2, <2>3 DEF InReach, OlderFlag
<1>12. ~Flags!Killed(s)
    BY DEF Flags!Killed, FlagTypes
<1>13. ASSUME FlagMoves(s), ~Flags!Sweep(s) PROVE InReach(s)' /\ OlderFlag(s)'
    BY <1>7, <1>8, <1>9, <1>10, <1>11, <1>12, <1>13 DEF FlagMoves
<1>14. ASSUME NEW t \in FileSessions, FlagMoves(t) PROVE InReach(s)' /\ OlderFlag(s)'
    BY <1>5, <1>6, <1>13, <1>14
<1> QED BY <1>4, <1>14 DEF Flags!Next, FlagMoves

(* What sessions start with. *)
LEMMA ReachInit ==
    ASSUME Flags!SessionFilesAssumption, Flags!Init
    PROVE  ReachInv
<1>1. Flags!Quiet \in ChainType /\ Flags!Quiet.at = "idle"
    BY DEF Flags!Quiet, ChainType, Stages
<1>2. FlagTypes
    BY <1>1 DEF Flags!Init, FlagTypes
<1>3. \A s \in FileSessions : Passed(s) /\ InReach(s) /\ OlderFlag(s)
    BY <1>1 DEF Flags!Init, Passed, InReach, Doomed, OlderFlag, Flags!At
<1> QED BY <1>2, <1>3 DEF ReachInv

(* Every step keeps the invariant. *)
LEMMA ReachInvNext ==
    ASSUME Flags!SessionFilesAssumption, ReachInv, [Flags!Next]_(Flags!vars)
    PROVE  ReachInv'
<1>1. FlagTypes /\ (\A s \in FileSessions : Passed(s)) /\ fMishaps \in Nat
      /\ (fMishaps = 0 => \A s \in FileSessions : InReach(s) /\ OlderFlag(s))
    BY DEF ReachInv, FlagTypes
<1>2. CASE Flags!Next
    <2>1. FlagTypes' /\ \A s \in FileSessions : Passed(s)'
        BY <1>1, <1>2, FlagTypesNext, PassedNext
    <2>2. fMishaps' \in {fMishaps, fMishaps + 1}
        BY <1>2 DEF Flags!Next, Flags!NextDay, Flags!Prompt, Flags!Startup, Flags!StartupBlock, Flags!Pin,
            Flags!Submit, Flags!EndTurn, Flags!AppendToHistory, Flags!WriteLast,
                    Flags!Sweep, Flags!Swept, Flags!Killed
    <2>3. fMishaps' = 0 => fMishaps' = fMishaps /\ fMishaps = 0
        BY <1>1, <2>2
    <2>4. fMishaps' = 0 => \A s \in FileSessions : InReach(s)' /\ OlderFlag(s)'
        BY <1>1, <1>2, <2>3, ReachNext
    <2> QED BY <2>1, <2>4 DEF ReachInv
<1>3. CASE UNCHANGED Flags!vars
    BY <1>3 DEF Flags!vars, Flags!flagFiles, ReachInv, FlagTypes, Passed, InReach, Due, Count, Bringing,
        Doomed, OlderFlag, Flags!At, Flags!Old
<1> QED BY <1>2, <1>3

(* RulesWithinReach: without killed hooks and failed writes, never more    *)
(* than PinEvery - 1 prompts pass without the rules reaching the model,    *)
(* but for a session whose startup flag a sweep has taken or is about to   *)
(* (compass_rules._pin, session.py sweep_stale_session_files).             *)
THEOREM RulesReach == Flags!Spec => []RulesWithinReach
<1>1. ReachInv => RulesWithinReach
    <2> SUFFICES ASSUME ReachInv, fMishaps = 0, NEW s \in FileSessions, Flags!At(s, "answer")
                 PROVE  since[s] < PinEvery \/ startup[s] = Nothing \/ Flags!Sweeping
        BY DEF RulesWithinReach, Flags!RulesWithinReach
    <2>1. InReach(s) /\ ~Bringing(s)
        BY DEF ReachInv, Bringing, Flags!At
    <2>2. Doomed(s) => startup[s] = Nothing \/ Flags!Sweeping
        BY DEF Doomed, Flags!Sweeping
    <2>3. Due(s) => since[s] < PinEvery
        <3>1. since[s] \in Nat /\ Count(s) \in Nat /\ PinEvery \in Nat \ {0}
            BY SessionsAssumption DEF ReachInv, FlagTypes, Count, Flags!SessionFilesAssumption
        <3>2. Count(s) % PinEvery \in 0..PinEvery - 1
            BY <3>1, NextRemainder
        <3> QED BY <3>1, <3>2 DEF Due, Flags!At
    <2> QED BY <2>1, <2>2, <2>3 DEF InReach
<1>2. Flags!Init => ReachInv
    BY ReachInit, SessionsAssumption
<1>3. ReachInv /\ [Flags!Next]_(Flags!vars) => ReachInv'
    BY ReachInvNext, SessionsAssumption
<1> QED BY <1>1, <1>2, <1>3, PTL DEF Flags!Spec
=============================================================================
