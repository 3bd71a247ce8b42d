------------------------------ MODULE GuiAgents ------------------------------
(***************************************************************************)
(* The subagents of one tab as its strip shows them                        *)
(* (gui/subagent_tracker.py): the scan thread follows the files of the     *)
(* subagents, the tail of the session's transcript reports the Agent calls *)
(* and their results, and a result is matched to a subagent by its         *)
(* description.  An Agent call and the subagent it starts have the same    *)
(* number.  What claude does is external; a subagent's last record and the *)
(* time since it stand for its file.                                       *)
(***************************************************************************)
EXTENDS Integers, Sequences, FiniteSets, SequencesExt, FiniteSetsExt, Functions

CONSTANTS
    MaxCalls, MaxSessions,   \* bounds
    None

(* None is no call. *)
GuiAgentsAssumption ==
    /\ MaxCalls \in Nat /\ MaxSessions \in Nat
    /\ None \notin [description : Nat, session : Nat]

AgentCalls == 1..MaxCalls

VARIABLES
    session, \* the transcript claude writes
    call,    \* each call: its description and its session, or None
    sub,     \* each subagent: "none", "working" or "stopped"
    last,    \* the last record of its file
    quiet,   \* time since: 0 short, 1 over 10 s, 2 over 120 s
    log,     \* that transcript: the calls and results in it
    path,    \* Session.current_path
    heard,   \* records of it that reached the tracker
    parent,  \* _last_parent
    known,   \* _agents
    table,   \* _parent_agent_calls: "open" or "resolved"
    pending, \* _pending_resolutions
    shown,   \* the strip
    lulls    \* subagents that were quiet for long enough to pass as done (history)

claude == <<session, call, sub, last, quiet, log, lulls>>
tracker == <<parent, known, table, pending>>
vars == <<claude, path, heard, tracker, shown>>

Empty == [c \in {} |-> None]

Init ==
    /\ session = 1 /\ call = [c \in AgentCalls |-> None]
    /\ sub = [c \in AgentCalls |-> "none"] /\ last = [c \in AgentCalls |-> "tool"]
    /\ quiet = [c \in AgentCalls |-> 0]
    /\ log = <<>>
    /\ path = 0 /\ heard = 0
    /\ parent = 0 /\ known = Empty /\ table = Empty /\ pending = {}
    /\ shown = Empty
    /\ lulls = {}

-----------------------------------------------------------------------------
(* claude.                                                                 *)

Called == {c \in AgentCalls : call[c] # None}
Results == {log[i].call : i \in {j \in DOMAIN log : log[j].is = "result"}}
Here == {c \in Called : call[c].session = session}

(* An Agent call; calls of one turn run side by side.  A description is    *)
(* named by the first call that has it.                                    *)
Spawn ==
    /\ \E c \in AgentCalls, d \in AgentCalls :
         /\ c = Cardinality(Called) + 1
         /\ d = c \/ (d \in Called /\ call[d].description = d)
         /\ call' = [call EXCEPT ![c] = [description |-> d, session |-> session]]
         /\ log' = Append(log, [is |-> "spawn", call |-> c])
    /\ UNCHANGED <<session, sub, last, quiet, lulls, path, heard, tracker, shown>>

(* Its subagent's file appears, the description beside it.                 *)
Born ==
    /\ \E c \in Here : /\ sub[c] = "none" /\ c \notin Results
                       /\ sub' = [sub EXCEPT ![c] = "working"]
    /\ UNCHANGED <<session, call, last, quiet, log, lulls, path, heard, tracker,
                   shown>>

(* It writes: a tool call, a text, or a text with a terminal stop_reason.  *)
Write ==
    /\ \E c \in Here, k \in {"tool", "text", "end"} :
         /\ sub[c] = "working"
         /\ last' = [last EXCEPT ![c] = k]
         /\ quiet' = [quiet EXCEPT ![c] = 0]
         /\ sub' = IF k = "end" THEN [sub EXCEPT ![c] = "stopped"] ELSE sub
    /\ UNCHANGED <<session, call, log, lulls, path, heard, tracker, shown>>

(* The result of a call: its subagent came to an end, was cancelled, or    *)
(* was refused before it started.                                          *)
Result ==
    /\ \E c \in Here :
         /\ c \notin Results
         /\ log' = Append(log, [is |-> "result", call |-> c])
         /\ sub' = IF sub[c] = "working" THEN [sub EXCEPT ![c] = "stopped"] ELSE sub
    /\ UNCHANGED <<session, call, last, quiet, lulls, path, heard, tracker, shown>>

(* It dies, and no result is ever written.                                 *)
Dies ==
    /\ \E c \in Here : sub[c] = "working" /\ sub' = [sub EXCEPT ![c] = "stopped"]
    /\ UNCHANGED <<session, call, last, quiet, log, lulls, path, heard, tracker,
                   shown>>

QuietFor(c) ==
    /\ sub[c] # "none" /\ quiet[c] < 2
    /\ quiet' = [quiet EXCEPT ![c] = @ + 1]
    /\ lulls' = IF quiet[c] = 1 \/ last[c] = "text" THEN lulls \cup {c} ELSE lulls
    /\ UNCHANGED <<session, call, sub, last, log, path, heard, tracker, shown>>

Quiet == \E c \in AgentCalls : QuietFor(c)

-----------------------------------------------------------------------------
(* note_parent_record, on the tail thread, or on the discovery thread that *)
(* replays the history of a transcript.                                    *)

Running(k) == {a \in DOMAIN k : k[a].status = "running" /\ ~k[a].resolved_by_parent}
Done(k, as) == [a \in DOMAIN k |-> IF a \in as THEN [k[a] EXCEPT !.status = "done"] ELSE k[a]]
Resolved(k, as) ==
    [a \in DOMAIN k |-> IF a \in as THEN [k[a] EXCEPT !.status = "done",
                                                     !.resolved_by_parent = TRUE]
                        ELSE k[a]]

(* _apply_resolution_locked: the subagents a result may be for; the one    *)
(* that started closest to the call is taken, here any.                    *)
Candidates(k, c) == {a \in Running(k) : k[a].description = call[c].description}

(* Mutant: a result whose subagent has not been scanned yet is forgotten.  *)
DeliverToTheKnown ==
    /\ path # 0 /\ heard < Len(log) /\ heard' = heard + 1
    /\ LET rec == log[heard + 1]
           c == rec.call
           for == Candidates(known, c)
       IN  \/ /\ rec.is = "spawn"
              /\ table' = IF c \in DOMAIN table THEN table
                          ELSE [x \in DOMAIN table \cup {c} |->
                                  IF x = c THEN "open" ELSE table[x]]
              /\ UNCHANGED <<known, pending>>
           \/ /\ rec.is = "result" /\ ~(c \in DOMAIN table /\ table[c] = "open")
              /\ UNCHANGED <<known, pending, table>>
           \/ /\ rec.is = "result" /\ c \in DOMAIN table /\ table[c] = "open"
              /\ table' = [table EXCEPT ![c] = "resolved"]
              /\ IF for = {} THEN UNCHANGED <<known, pending>>
                 ELSE (\E a \in for : known' = Resolved(known, {a})) /\ UNCHANGED pending
    /\ UNCHANGED <<claude, path, parent, shown>>

Deliver ==
    /\ path # 0 /\ heard < Len(log) /\ heard' = heard + 1
    /\ LET rec == log[heard + 1]
           c == rec.call
           for == Candidates(known, c)
       IN  \/ /\ rec.is = "spawn"
              /\ table' = IF c \in DOMAIN table THEN table
                          ELSE [x \in DOMAIN table \cup {c} |->
                                  IF x = c THEN "open" ELSE table[x]]
              /\ UNCHANGED <<known, pending>>
           \/ /\ rec.is = "result" /\ ~(c \in DOMAIN table /\ table[c] = "open")
              /\ UNCHANGED <<known, pending, table>>
           \/ /\ rec.is = "result" /\ c \in DOMAIN table /\ table[c] = "open"
              /\ table' = [table EXCEPT ![c] = "resolved"]
              /\ IF for = {} THEN pending' = pending \cup {c} /\ UNCHANGED known
                 ELSE (\E a \in for : known' = Resolved(known, {a})) /\ UNCHANGED pending
    /\ UNCHANGED <<claude, path, parent, shown>>

-----------------------------------------------------------------------------
(* _scan_once, under the lock but for its reading of current_path.         *)

(* What _apply_record takes from the last record of a subagent's file: a   *)
(* terminal stop_reason, or text without a tool call.                      *)
Terminal(a) == last[a] = "end"
EndsInText(a) == last[a] = "text"

NewAgent(a) == [description |-> call[a].description, status |-> "running",
                resolved_by_parent |-> FALSE]

(* The files of the transcript: new ones are taken up, all are tailed.     *)
Scanned(k) ==
    [a \in DOMAIN k \cup {c \in Here : sub[c] # "none"} |->
       LET was == IF a \in DOMAIN k THEN k[a] ELSE NewAgent(a)
       IN  IF Terminal(a) THEN [was EXCEPT !.status = "done"] ELSE was]

(* Each resolution that waits takes a subagent of its own, if there is one.*)
Drains(k, ps) ==
    {m \in [ps -> DOMAIN k \cup {0}] :
       /\ \A p \in ps : m[p] # 0 => m[p] \in Candidates(k, p)
       /\ \A p, q \in ps : p # q /\ m[p] # 0 => m[p] # m[q]
       /\ \A p \in ps : m[p] = 0 => Candidates(k, p) \subseteq {m[q] : q \in ps}}

(* The fallbacks: a text and 10 s of silence, or 120 s of it.              *)
Idle(k) == {a \in DOMAIN k : k[a].status = "running"
                               /\ ((EndsInText(a) /\ quiet[a] >= 1) \/ quiet[a] = 2)}

Statuses(k) == [a \in DOMAIN k |-> k[a].status]

(* A resolution that waits for over 60 s is dropped.                       *)
Scan ==
    LET switched == path # parent
        k0 == IF switched THEN Empty ELSE known
        k1 == Scanned(k0)
        ps == IF switched THEN {} ELSE pending
    IN  /\ parent' = path
        /\ table' = IF switched THEN Empty ELSE table
        /\ IF path = 0
           THEN known' = Empty /\ pending' = ps
                  /\ shown' = IF k0 = Empty THEN shown ELSE Empty
           ELSE \E m \in Drains(k1, ps) :
                  LET k2 == Resolved(k1, {m[p] : p \in ps} \ {0})
                      k3 == Done(k2, Idle(k2))
                  IN  /\ known' = k3
                      /\ \E dropped \in SUBSET {p \in ps : m[p] = 0} :
                           pending' = {p \in ps : m[p] = 0} \ dropped
                      /\ shown' = IF k3 = Empty /\ k0 = Empty THEN shown ELSE Statuses(k3)
        /\ UNCHANGED <<claude, path, heard>>

(* A reload, or a switch of tabs, pushes the snapshot.                     *)
Snapshot ==
    /\ shown' = Statuses(known)
    /\ UNCHANGED <<claude, path, heard, tracker>>

-----------------------------------------------------------------------------
(* gui/session.py: /clear, and the discovery of a transcript.              *)

Clear ==
    /\ session < MaxSessions /\ session' = session + 1
    /\ path' = 0 /\ heard' = 0 /\ log' = <<>>
    /\ sub' = [c \in AgentCalls |-> "none"] /\ last' = [c \in AgentCalls |-> "tool"]
    /\ quiet' = [c \in AgentCalls |-> 0] /\ lulls' = {}
    /\ UNCHANGED <<call, tracker, shown>>

Attach ==
    /\ path = 0 /\ log # <<>>
    /\ path' = session /\ heard' = 0
    /\ UNCHANGED <<claude, tracker, shown>>

Claude == Spawn \/ Born \/ Write \/ Result \/ Dies \/ Quiet
Next == Claude \/ Clear \/ Attach \/ Deliver \/ Scan \/ Snapshot

Spec == Init /\ [][Next]_vars

-----------------------------------------------------------------------------
(* Properties.                                                             *)

Over == Results \cup {c \in AgentCalls : last[c] = "end"}
Alone(c) == \A d \in Called \ {c} : call[d].description # call[c].description

(* A subagent the strip shows as done is done: a result is never booked on *)
(* another's behalf, whichever of the spawn, the file, the scan and the    *)
(* result comes first and over /clear.  Excepted are calls that share a    *)
(* description, and subagents that were silent long enough to pass as done.*)
DoneMeansOver ==
    \A a \in DOMAIN shown \cap Here : shown[a] = "done" /\ Alone(a) => a \in Over \cup lulls

(* A result the tracker has booked is not lost: the subagent of that call  *)
(* is done once it is known, also when the tail hears the result before    *)
(* the scan has seen the file, or waits behind other results.              *)
ResultMarksDone ==
    \A c \in DOMAIN table \cap DOMAIN known :
        table[c] = "resolved" /\ Alone(c) /\ c \notin pending => known[c].status = "done"

TypeOK ==
    /\ DOMAIN known \subseteq AgentCalls /\ DOMAIN shown \subseteq AgentCalls
    /\ pending \subseteq DOMAIN table \cup AgentCalls
    /\ path \in 0..session /\ heard <= IF path = 0 THEN 0 ELSE Len(log)
=============================================================================
