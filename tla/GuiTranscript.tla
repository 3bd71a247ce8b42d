---------------------------- MODULE GuiTranscript ----------------------------
(***************************************************************************)
(* One tab of the GUI and the transcript it shows: the discovery thread    *)
(* that finds the JSONL file of the tab's claude, the tail thread that     *)
(* polls it, the thread that a /clear starts (gui/session.py,              *)
(* gui/transcript.py), the watcher of AskUserQuestion records              *)
(* (gui/ask_prompt.py) and the replay of a reloaded page (gui/app.py).     *)
(*                                                                         *)
(* A file is the records written to it, numbered in the order in which     *)
(* claude writes them; the last one may be half written, and the front may *)
(* be gone after a rewrite.  A byte offset is a number of half records.    *)
(* Files are numbered in the order of their creation.                      *)
(***************************************************************************)
EXTENDS Integers, Sequences, FiniteSets, SequencesExt

CONSTANTS
    MaxRecords, MaxFiles,
    MaxRewrites, MaxReloads, MaxSides,
    None

VARIABLES
    files,   \* each file: what it is, its records, how many are gone, a torn end
    kinds,   \* each record: a text, a question, the answer to one
    recent,  \* the files by modification, the last one last
    live,    \* the file claude writes to; 0 before the first, or after /clear
    asked,   \* the question claude waits with, or None
    disc,    \* SessionDiscovery and its thread
    path,    \* Session.current_path
    tail,    \* TranscriptTail
    clear,   \* the thread of on_clear_requested
    pending, \* AskPromptWatcher._pending
    screen,  \* the messages of the page
    banner,  \* askPromptId of the page
    replay,  \* App._replay_active
    spoiled, \* races this behaviour has had                        (history)
    used     \* rewrites, reloads and sidechains so far

claude == <<files, kinds, recent, live, asked>>
page == <<screen, banner>>
vars == <<claude, disc, path, tail, clear, pending, page, replay, spoiled, used>>

NoTail == [up |-> FALSE, file |-> 0, from |-> 0, pos |-> 0, gone |-> 0]
NoRead == [cut |-> 0, texts |-> <<>>, asks |-> {}]
NewDiscovery == [at |-> "poll", current |-> 0, min |-> 1, found |-> 0, read |-> NoRead]

Whole(f) == Len(files[f].log) - files[f].gone - (IF files[f].torn THEN 1 ELSE 0)
Size(f) == 2 * (Len(files[f].log) - files[f].gone) - (IF files[f].torn THEN 1 ELSE 0)

(* The whole records of a file, and those the chat renders.                *)
Records(f) == SubSeq(files[f].log, files[f].gone + 1, files[f].gone + Whole(f))
Text(r) == kinds[r].is = "text"
Asks(r) == kinds[r].is = "ask"
Rendered(rs) == SelectSeq(rs, Text)

(* appendMessage: a message the page has seen is not appended again.       *)
Appended(scr, ms) == scr \o SelectSeq(ms, LAMBDA m : m \notin Range(scr))

(* note_record over records: the questions still open after them.          *)
Watched(open, rs) ==
    FoldLeft(LAMBDA o, r : IF Asks(r) THEN o \cup {r} ELSE o \ {kinds[r].to},
             open, rs)

(* The banner after the questions that appeared and those that went.       *)
BannerAfter(before, open, after) ==
    IF after \ open # {} THEN CHOOSE q \in after \ open : TRUE
    ELSE IF before \in open \ after THEN None ELSE before

Race(kind, raced) == spoiled' = IF raced THEN spoiled \cup {kind} ELSE spoiled

Replaying == replay.at # "idle"

Init ==
    /\ files = <<>> /\ kinds = <<>> /\ recent = <<>> /\ live = 0 /\ asked = None
    /\ disc = NewDiscovery
    /\ path = 0 /\ tail = NoTail
    /\ clear = [at |-> "idle", min |-> 0, polled |-> FALSE]
    /\ pending = {} /\ screen = <<>> /\ banner = None
    /\ replay = [at |-> "idle", texts |-> <<>>]
    /\ spoiled = {} /\ used = [rewrites |-> 0, reloads |-> 0, sides |-> 0]

-----------------------------------------------------------------------------
(* claude.                                                                 *)

Touched(f) == Append(SelectSeq(recent, LAMBDA g : g # f), f)

(* A rewritten file reaches the tail's offset before the tail has looked.  *)
GrowsPast ==
    Race("misread", tail.up /\ tail.file = live /\ tail.gone # files[live].gone
                    /\ Size(live) + 1 >= tail.pos)

(* The first half of a record; the first of all, or after /clear, makes a  *)
(* new file.  While a question is open nothing but its answer is written.  *)
BeginRecord ==
    /\ Len(kinds) < MaxRecords
    /\ \E k \in IF asked = None THEN {"text", "ask"} ELSE {"answer"} :
         /\ kinds' = Append(kinds, [is |-> k, to |-> asked])
         /\ asked' = IF k = "ask" THEN Len(kinds) + 1 ELSE None
    /\ IF live = 0
       THEN /\ Len(files) < MaxFiles
            /\ files' = Append(files, [kind |-> "main", log |-> <<Len(kinds) + 1>>,
                                       gone |-> 0, torn |-> TRUE])
            /\ live' = Len(files) + 1
       ELSE /\ ~files[live].torn
            /\ files' = [files EXCEPT ![live].log = Append(@, Len(kinds) + 1),
                                      ![live].torn = TRUE]
            /\ UNCHANGED live
    /\ recent' = Touched(live') /\ GrowsPast
    /\ UNCHANGED <<disc, path, tail, clear, pending, page, replay, used>>

EndRecord ==
    /\ live # 0 /\ files[live].torn
    /\ files' = [files EXCEPT ![live].torn = FALSE]
    /\ recent' = Touched(live) /\ GrowsPast
    /\ UNCHANGED <<kinds, live, asked, disc, path, tail, clear, pending, page, replay,
                   used>>

(* A compaction rewrites the file, here to its last record; a tail that    *)
(* has read no further does not notice, one that is behind misses some.    *)
Rewrite ==
    /\ used.rewrites < MaxRewrites /\ used' = [used EXCEPT !.rewrites = @ + 1]
    /\ live # 0 /\ ~files[live].torn /\ Whole(live) > 1
    /\ files' = [files EXCEPT ![live].gone = Len(files[live].log) - 1]
    /\ Race("misread", tail.up /\ (tail.pos <= 2 \/ tail.pos # Size(live)))
    /\ UNCHANGED <<kinds, recent, live, asked, disc, path, tail, clear, pending, page,
                   replay>>

(* A subagent's transcript, in a directory below the session's.            *)
Sidechain ==
    /\ used.sides < MaxSides /\ used' = [used EXCEPT !.sides = @ + 1]
    /\ live # 0 /\ Len(files) < MaxFiles /\ Len(kinds) < MaxRecords
    /\ kinds' = Append(kinds, [is |-> "text", to |-> None])
    /\ files' = Append(files, [kind |-> "side", log |-> <<Len(kinds) + 1>>,
                               gone |-> 0, torn |-> FALSE])
    /\ recent' = Touched(Len(files) + 1)
    /\ Race("sidechain", disc.current # live)
    /\ UNCHANGED <<live, asked, disc, path, tail, clear, pending, page, replay>>

-----------------------------------------------------------------------------
(* The discovery thread.                                                   *)

Fits(f) == f >= disc.min

(* Locked onto a file it looks for no other.                               *)
Find ==
    /\ disc.at = "poll" /\ disc.current = 0
    /\ \E f \in Range(recent) :
         /\ Fits(f) /\ f = Last(SelectSeq(recent, Fits))
         /\ disc' = [disc EXCEPT !.at = "found", !.found = f]
    /\ Race("found too early", clear.at \in {"stop", "reset"})
    /\ UNCHANGED <<claude, path, tail, clear, pending, page, replay, used>>

(* _on_session_switch.                                                     *)
Switch ==
    /\ disc.at = "found"
    /\ disc' = [disc EXCEPT !.current = disc.found,
                            !.at = IF path = disc.found THEN "poll" ELSE "clear"]
    /\ path' = disc.found
    /\ tail' = IF path = disc.found THEN tail ELSE NoTail
    /\ UNCHANGED <<claude, clear, pending, page, replay, spoiled, used>>

ClearPage ==
    /\ disc.at = "clear"
    /\ screen' = <<>> /\ disc' = [disc EXCEPT !.at = "read"]
    /\ Race("overtaken", Replaying)
    /\ UNCHANGED <<claude, path, tail, clear, pending, banner, replay, used>>

(* _start_tail reads the bytes once; the tail will start after the last    *)
(* whole line.                                                             *)
(* Mutant: after the last byte read.                                       *)
ReadHistoryToTheEnd ==
    /\ disc.at = "read"
    /\ disc' = [disc EXCEPT !.at = "push",
                            !.read = [cut |-> Size(disc.found),
                                      texts |-> Rendered(Records(disc.found)),
                                      asks |-> Watched({}, Records(disc.found))]]
    /\ UNCHANGED <<claude, path, tail, clear, pending, page, replay, spoiled, used>>

ReadHistory ==
    /\ disc.at = "read"
    /\ disc' = [disc EXCEPT !.at = "push",
                            !.read = [cut |-> 2 * Whole(disc.found),
                                      texts |-> Rendered(Records(disc.found)),
                                      asks |-> Watched({}, Records(disc.found))]]
    /\ UNCHANGED <<claude, path, tail, clear, pending, page, replay, spoiled, used>>

(* The messages of the history, then a banner for a question still open.   *)
(* Mutant: the history is replayed in silence.                             *)
PushHistorySilently ==
    /\ disc.at = "push"
    /\ screen' = Appended(screen, disc.read.texts)
    /\ pending' = disc.read.asks
    /\ disc' = [disc EXCEPT !.at = "tail"]
    /\ Race("overtaken", Replaying)
    /\ UNCHANGED <<claude, path, tail, clear, banner, replay, used>>

PushHistory ==
    /\ disc.at = "push"
    /\ screen' = Appended(screen, disc.read.texts)
    /\ pending' = disc.read.asks
    /\ banner' = BannerAfter(banner, {}, disc.read.asks)
    /\ disc' = [disc EXCEPT !.at = "tail"]
    /\ Race("overtaken", Replaying)
    /\ UNCHANGED <<claude, path, tail, clear, replay, used>>

StartTail ==
    /\ disc.at = "tail"
    /\ tail' = [up |-> TRUE, file |-> disc.found, from |-> disc.read.cut,
                pos |-> disc.read.cut, gone |-> files[disc.found].gone]
    /\ disc' = [disc EXCEPT !.at = "poll", !.found = 0, !.read = NoRead]
    /\ Race("rewritten while attaching", files[disc.found].gone # 0)
    /\ UNCHANGED <<claude, path, clear, pending, page, replay, used>>

-----------------------------------------------------------------------------
(* The tail thread: one poll.  A file shorter than its offset is read from *)
(* the top.                                                                *)
Poll ==
    /\ tail.up
    /\ Size(tail.file) # tail.pos
    /\ LET f == tail.file
           over == Size(f) < tail.pos
           from == IF over THEN 0 ELSE tail.from
           pos == IF over THEN 0 ELSE tail.pos
           new == SelectSeq(Records(f), LAMBDA r :
                    LET at == 2 * (CHOOSE i \in 1..Whole(f) : Records(f)[i] = r)
                    IN  at > pos /\ at - 2 >= from)
           open == Watched(pending, new)
       IN  /\ tail' = [tail EXCEPT !.from = from, !.pos = Size(f), !.gone = files[f].gone]
           /\ screen' = Appended(screen, Rendered(new))
           /\ pending' = open
           /\ banner' = BannerAfter(banner, pending, open)
    /\ Race("overtaken", Replaying)
    /\ clear' = [clear EXCEPT !.polled = TRUE]
    /\ UNCHANGED <<claude, disc, path, replay, used>>

-----------------------------------------------------------------------------
(* /clear.                                                                 *)

(* The next record will be in a new file.  The user sends it while no      *)
(* question is open and the tab shows its session.                         *)
TypeClear ==
    /\ clear.at = "idle" /\ live # 0 /\ asked = None /\ ~files[live].torn /\ tail.up
    /\ live' = 0
    /\ clear' = [at |-> "sleep", min |-> Len(files) + 1, polled |-> Size(tail.file) = tail.pos]
    /\ UNCHANGED <<files, kinds, recent, asked, disc, path, tail, pending, page, replay,
                   spoiled, used>>

(* It sleeps for half a second; the tail polls every tenth of one.         *)
(* Mutant: discovery is re-pinned and keeps its pick.                      *)
ClearPinsOnly ==
    /\ clear.at = "sleep" /\ clear.polled
    /\ disc' = [disc EXCEPT !.min = clear.min]
    /\ clear' = [clear EXCEPT !.at = "stop"]
    /\ Race("pinned while switching", disc.at # "poll")
    /\ UNCHANGED <<claude, path, tail, pending, page, replay, used>>

ClearPins ==
    /\ clear.at = "sleep" /\ clear.polled
    /\ disc' = [disc EXCEPT !.min = clear.min,
                            !.current = IF @ < clear.min THEN 0 ELSE @]
    /\ clear' = [clear EXCEPT !.at = "stop"]
    /\ Race("pinned while switching", disc.at # "poll")
    /\ UNCHANGED <<claude, path, tail, pending, page, replay, used>>

ClearStopsTail ==
    /\ clear.at = "stop"
    /\ tail' = NoTail /\ clear' = [clear EXCEPT !.at = "reset"]
    /\ UNCHANGED <<claude, disc, path, pending, page, replay, spoiled, used>>

ClearResets ==
    /\ clear.at = "reset"
    /\ path' = 0 /\ screen' = <<>> /\ clear' = [at |-> "idle", min |-> 0, polled |-> FALSE]
    /\ Race("overtaken", Replaying)
    /\ UNCHANGED <<claude, disc, tail, pending, banner, replay, used>>

-----------------------------------------------------------------------------
(* The page is reloaded, or the tab switched to: everything is pushed      *)
(* again, but for a question that is open.                                 *)
Reload ==
    /\ used.reloads < MaxReloads /\ used' = [used EXCEPT !.reloads = @ + 1]
    /\ replay.at = "idle" /\ replay' = [replay EXCEPT !.at = "read"]
    /\ screen' = <<>> /\ banner' = None
    /\ spoiled' = spoiled \cup (IF banner # None THEN {"banner dropped"} ELSE {})
                          \cup (IF disc.at # "poll" THEN {"overtaken"} ELSE {})
    /\ UNCHANGED <<claude, disc, path, tail, clear, pending>>

ReplayReads ==
    /\ replay.at = "read"
    /\ replay' = [at |-> "push", texts |-> IF path = 0 THEN <<>> ELSE Rendered(Records(path))]
    /\ UNCHANGED <<claude, disc, path, tail, clear, pending, page, spoiled, used>>

ReplayPushes ==
    /\ replay.at = "push"
    /\ screen' = Appended(screen, replay.texts)
    /\ replay' = [at |-> "idle", texts |-> <<>>]
    /\ UNCHANGED <<claude, disc, path, tail, clear, pending, banner, spoiled, used>>

-----------------------------------------------------------------------------
Discover == Find \/ Switch \/ ClearPage \/ ReadHistory \/ PushHistory \/ StartTail
ClearThread == ClearPins \/ ClearStopsTail \/ ClearResets
Replay == ReplayReads \/ ReplayPushes

Next ==
    \/ BeginRecord \/ EndRecord \/ Rewrite \/ Sidechain \/ TypeClear \/ Reload
    \/ Discover \/ Poll \/ ClearThread \/ Replay

(* The threads keep running; claude finishes the record it is writing, the *)
(* user and claude need do nothing else.                                   *)
Fairness ==
    WF_vars(Discover) /\ WF_vars(Poll) /\ WF_vars(ClearThread) /\ WF_vars(Replay)

Spec == Init /\ [][Next]_vars /\ Fairness

-----------------------------------------------------------------------------
(* Properties.                                                             *)

Attached == tail.up /\ disc.at = "poll" /\ clear.at = "idle" /\ replay.at = "idle"

(* The page shows one conversation, in its order, without a hole up to     *)
(* where the tail has read: no record is lost or rendered twice between    *)
(* the history and the tail, also when the read tears one, the file is     *)
(* rewritten or the page reloaded; a subagent's file never takes over.     *)
(* Excepted are the races named in spoiled.                                *)
ShownInOrder ==
    spoiled = {} =>
        /\ \A i, j \in DOMAIN screen : i < j => screen[i] < screen[j]
        /\ Attached => LET f == tail.file IN
             /\ files[f].kind = "main"
             /\ Range(screen) \subseteq Range(files[f].log)
             /\ tail.gone = files[f].gone => \A i \in 1..Whole(f) :
                  Text(Records(f)[i]) /\ 2 * i <= tail.pos => Records(f)[i] \in Range(screen)

(* The banner is the question that is open as far as the tab has read: an  *)
(* answered one never stays, also over /clear, an open one is there when   *)
(* the tab attaches late.                                                  *)
BannerIsTheOpenQuestion ==
    spoiled = {} => /\ banner # None => banner \in pending
                    /\ Attached /\ pending # {} => banner \in pending

(* What claude has written ends up on the page, unless /clear comes first. *)
EveryTextShown ==
    \A r \in 1..MaxRecords :
        (live # 0 /\ r \in DOMAIN kinds /\ r \in Range(Rendered(Records(live))))
            ~> (spoiled # {} \/ r \in Range(screen) \/ live = 0 \/ r \notin Range(Records(live)))

TypeOK ==
    /\ Len(files) <= MaxFiles /\ Len(kinds) <= MaxRecords
    /\ live \in 0..Len(files) /\ path \in 0..Len(files)
    /\ Range(screen) \subseteq DOMAIN kinds /\ pending \subseteq DOMAIN kinds
=============================================================================
