---------------------------- MODULE CompassRules ----------------------------
(***************************************************************************)
(* The compass pipeline: the Stop hook pairs each prompt with the text it  *)
(* answers (compass/turns.py), a model call judges a session's pairs       *)
(* (compass/classify.py), and rules.md is rebuilt from all judged events   *)
(* and heuristics rows (compass/rules.py).                                 *)
(*                                                                         *)
(* A transcript is a sequence of numbers: n > 0 the n-th prompt, in any    *)
(* session, and -n the text of its answer; an interrupted turn may have    *)
(* none.  Claude Code may drop the front of a transcript.  The table has   *)
(* one specific rule; an event is a prompt and whether it contradicts it.  *)
(***************************************************************************)
EXTENDS Integers, Sequences, FiniteSets, SequencesExt, FiniteSetsExt

CONSTANTS
    Sessions,      \* 1..n, as the n-th prompt is the first of session n
    Jobs,
    MinPairs,      \* --min-pairs
    MaxCall,       \* MAX_PAIRS_PER_CALL
    MaxPrompts, MaxDays, MaxMishaps,
    None

VARIABLES
    today,
    said,     \* everything each session's transcript ever held    (history)
    cut,      \* how many of its first records are gone
    turning,  \* the sessions in the middle of a turn
    stop,     \* the Stop hook of each session
    cursor,   \* turns/<sid>.cursor.json
    pairs,    \* turns/<sid>.jsonl
    written,  \* the day that file was last written to
    heur,     \* events/<sid>.heuristics.jsonl: its number of rows
    events,   \* events/<sid>.json, or None
    rules,    \* rules.md: what it was built from
    job,      \* runs of classify.py
    spoiled,  \* what went wrong so far                            (history)
    mishaps

session == <<said, cut, turning>>
logs == <<cursor, pairs, written, heur>>
table == <<events, rules>>
vars == <<today, session, stop, logs, table, job, spoiled, mishaps>>

Mishap(kind) ==
    /\ mishaps < MaxMishaps /\ mishaps' = mishaps + 1
    /\ spoiled' = spoiled \cup {kind}

Transcript(s) == SubSeq(said[s], cut[s] + 1, Len(said[s]))

NoHook == [at |-> "idle", new |-> <<>>, carry |-> {}, offset |-> 0,
           reset |-> FALSE, reply |-> FALSE]
NoJob == [at |-> "idle", todo |-> <<>>, n |-> 0, by |-> None, built |-> None]

-----------------------------------------------------------------------------
(* Pairs.                                                                  *)

(* extract_pairs: a walk over the records with the text since the last     *)
(* prompt as carry; a prompt already seen, or with nothing before it,      *)
(* yields no pair.                                                         *)
Step(walk, r) ==
    IF r < 0 THEN [walk EXCEPT !.carry = @ \cup {r}, !.reply = TRUE]
    ELSE [walk EXCEPT
            !.carry = {}, !.seen = @ \cup {r},
            !.new = IF walk.carry = {} \/ r \in walk.seen THEN @
                    ELSE Append(@, [prompt |-> r, text |-> walk.carry])]

Extract(rs, carry, seen) ==
    FoldLeft(Step, [new |-> <<>>, carry |-> carry, seen |-> seen, reply |-> FALSE], rs)

Seen(s) == {pairs[s][i].prompt : i \in DOMAIN pairs[s]}

(* What the code makes of the transcript at a Stop: from the cursor on, or *)
(* from zero when the file is shorter than the offset.                     *)
(* Mutant: a walk from zero does not look for what is logged already.      *)
WalkForgetsSeen(s, reset) ==
    LET from == IF reset THEN 0 ELSE cursor[s].offset
    IN  Extract(SubSeq(Transcript(s), from + 1, Len(Transcript(s))),
                IF reset THEN {} ELSE cursor[s].carry, {})

Walk(s, reset) ==
    LET from == IF reset THEN 0 ELSE cursor[s].offset
    IN  Extract(SubSeq(Transcript(s), from + 1, Len(Transcript(s))),
                IF reset THEN {} ELSE cursor[s].carry,
                IF reset THEN Seen(s) ELSE {})

-----------------------------------------------------------------------------
(* The table.                                                              *)

(* The events of one rule in the order of their times, whatever the order  *)
(* of the sessions' files.                                                 *)
Judged(evs) == UNION {evs[s].judged : s \in {t \in Sessions : evs[t] # None}}

History(evs) == SetToSortSeq(Judged(evs), LAMBDA a, b : a.prompt < b.prompt)

(* A specific rule is flagged when its last two events contradict it.      *)
Flagged(h) ==
    Len(h) >= 2 /\ h[Len(h)].contradicts /\ h[Len(h) - 1].contradicts

Scored(evs) == MapThenSumSet(LAMBDA s : heur[s], {s \in Sessions : evs[s] # None})

(* What rules.md says: the evidence, the flag and the summary of the       *)
(* heuristics rows of the sessions that have an events file.               *)
Built ==
    LET h == History(events)
    IN  [evidence |-> Range(h), flagged |-> Flagged(h),
         heuristics |-> Scored(events)]

UpToDate(s) == events[s] # None /\ events[s].pairs = Len(pairs[s])

(* Finished long enough, and with pairs no events file accounts for.       *)
Pending == {s \in Sessions : pairs[s] # <<>> /\ written[s] < today /\ ~UpToDate(s)}

-----------------------------------------------------------------------------
(* Each session has had its first turn, and the Stop hook has logged it.   *)
Init ==
    /\ today = 1
    /\ said = [s \in Sessions |-> <<s, -s>>] /\ cut = [s \in Sessions |-> 0]
    /\ turning = {}
    /\ stop = [s \in Sessions |-> NoHook]
    /\ cursor = [s \in Sessions |-> [offset |-> 2, carry |-> {-s}, base |-> 0]]
    /\ pairs = [s \in Sessions |-> <<>>] /\ written = [s \in Sessions |-> 0]
    /\ heur = [s \in Sessions |-> 1]
    /\ events = [s \in Sessions |-> None]
    /\ rules = [evidence |-> {}, flagged |-> FALSE, heuristics |-> 0]
    /\ job = [j \in Jobs |-> NoJob]
    /\ spoiled = {} /\ mishaps = 0

(* The session.                                                            *)
Prompts == {r \in UNION {Range(said[s]) : s \in Sessions} : r > 0}

Prompt(s) ==
    /\ s \notin turning /\ stop[s].at = "idle" /\ Cardinality(Prompts) < MaxPrompts
    /\ said' = [said EXCEPT ![s] = Append(@, Cardinality(Prompts) + 1)]
    /\ turning' = turning \cup {s}
    /\ UNCHANGED <<today, cut, stop, logs, table, job, spoiled, mishaps>>

WrappingUp(s) == \E j \in Jobs : job[j].by = s

(* The turn ends with its text and a Stop event.                           *)
EndTurn(s) ==
    /\ s \in turning /\ ~WrappingUp(s) /\ turning' = turning \ {s}
    /\ said' = [said EXCEPT ![s] = Append(@, -Last(@))]
    /\ stop' = [stop EXCEPT ![s].at = "read"]
    /\ UNCHANGED <<today, cut, logs, table, job, spoiled, mishaps>>

(* Interrupted: with text or without, and no Stop event.                   *)
Interrupt(s) ==
    /\ s \in turning /\ ~WrappingUp(s) /\ turning' = turning \ {s}
    /\ Mishap("interrupted")
    /\ said' \in {said, [said EXCEPT ![s] = Append(@, -Last(@))]}
    /\ UNCHANGED <<today, cut, stop, logs, table, job>>

Rewrite(s) ==
    /\ stop[s].at = "idle" /\ Mishap("rewritten")
    /\ \E k \in (cut[s] + 1)..(Len(said[s]) - 1) : cut' = [cut EXCEPT ![s] = k]
    /\ UNCHANGED <<today, said, turning, stop, logs, table, job>>

NextDay ==
    /\ today < MaxDays /\ \A s \in Sessions : stop[s].at = "idle"
    /\ today' = today + 1
    /\ UNCHANGED <<session, stop, logs, table, job, spoiled, mishaps>>

-----------------------------------------------------------------------------
(* The Stop hook, under the cursor's lock.                                 *)

(* A rewritten file that has grown past the offset again is not noticed.   *)
StopReads(s) ==
    /\ stop[s].at = "read"
    /\ LET reset == cursor[s].offset > Len(Transcript(s))
           walk == Walk(s, reset)
       IN  /\ stop' = [stop EXCEPT ![s] =
                [at |-> "append", new |-> walk.new, carry |-> walk.carry,
                 offset |-> Len(Transcript(s)), reset |-> reset, reply |-> walk.reply]]
           /\ spoiled' = IF cursor[s].base # cut[s] /\ ~reset
                         THEN spoiled \cup {"misread"} ELSE spoiled
    /\ UNCHANGED <<today, session, logs, table, job, mishaps>>

StopAppends(s) ==
    /\ stop[s].at = "append"
    /\ pairs' = [pairs EXCEPT ![s] = @ \o stop[s].new]
    /\ written' = IF stop[s].new = <<>> THEN written ELSE [written EXCEPT ![s] = today]
    /\ stop' = [stop EXCEPT ![s].at = "score"]
    /\ UNCHANGED <<today, session, cursor, heur, table, job, spoiled, mishaps>>

(* One heuristics row for the last text, unless the walk started over.     *)
StopScores(s) ==
    /\ stop[s].at = "score"
    /\ heur' = IF stop[s].reply /\ ~stop[s].reset THEN [heur EXCEPT ![s] = @ + 1] ELSE heur
    /\ stop' = [stop EXCEPT ![s].at = "save"]
    /\ UNCHANGED <<today, session, cursor, pairs, written, table, job, spoiled, mishaps>>

StopSaves(s) ==
    /\ stop[s].at = "save"
    /\ cursor' = [cursor EXCEPT ![s] =
                    [offset |-> stop[s].offset, carry |-> stop[s].carry, base |-> cut[s]]]
    /\ stop' = [stop EXCEPT ![s] = NoHook]
    /\ UNCHANGED <<today, session, pairs, written, heur, table, job, spoiled, mishaps>>

StopKilled(s) ==
    /\ stop[s].at # "idle" /\ Mishap("hook killed")
    /\ stop' = [stop EXCEPT ![s] = NoHook]
    /\ UNCHANGED <<today, session, logs, table, job>>

-----------------------------------------------------------------------------
(* classify.py.                                                            *)

Launch(j, todo, by) ==
    /\ job[j].at = "idle" /\ todo # <<>>
    /\ job' = [job EXCEPT ![j] = [NoJob EXCEPT !.at = "load", !.todo = todo, !.by = by]]
    /\ spoiled' = IF \E k \in Jobs : job[k].at # "idle" THEN spoiled \cup {"overlap"} ELSE spoiled
    /\ UNCHANGED <<today, session, stop, logs, table, mishaps>>

(* The nightly catch-up takes the pending sessions, the oldest first.      *)
CatchUp(j) ==
    \E todo \in SetToSeqs(Pending) :
        /\ \A a, b \in DOMAIN todo : a < b => written[todo[a]] <= written[todo[b]]
        /\ Launch(j, todo, None)

(* /wrapup classifies its own session, in a turn of that session.          *)
WrapUp(j) == \E s \in turning : pairs[s] # <<>> /\ ~WrappingUp(s) /\ Launch(j, <<s>>, s)

Current(j) == Head(job[j].todo)

(* Mutant: a catch-up leaves the table to the next one.                    *)
NextSessionNoBuild(j, wrote) ==
    IF Len(job[j].todo) = 2 THEN [job[j] EXCEPT !.at = "load", !.todo = Tail(@)]
    ELSE NoJob

(* The table is rebuilt after the last session, if that one was judged.    *)
NextSession(j, wrote) ==
    IF Tail(job[j].todo) # <<>> THEN [job[j] EXCEPT !.at = "load", !.todo = Tail(@), !.n = 0]
    ELSE IF wrote THEN [job[j] EXCEPT !.at = "build", !.todo = <<>>, !.n = 0]
    ELSE NoJob

(* Up to date already: nothing to do, but the catch-up forces its sessions. *)
Load(j) ==
    /\ job[j].at = "load"
    /\ job' = [job EXCEPT ![j] =
                 IF UpToDate(Current(j)) /\ job[j].by # None THEN NextSession(j, FALSE)
                 ELSE [@ EXCEPT !.at = "model", !.n = Len(pairs[Current(j)])]]
    /\ spoiled' = IF stop[Current(j)].at = "score" THEN spoiled \cup {"half logged"} ELSE spoiled
    /\ UNCHANGED <<today, session, stop, logs, table, mishaps>>

(* Too few pairs are recorded as skipped, with no model call.  The model   *)
(* sees the last MaxCall pairs, judges all of them or none, and the file   *)
(* keeps no earlier event.                                                 *)
Classify(j) ==
    /\ job[j].at = "model"
    /\ LET s == Current(j)
           considered == {pairs[s][i].prompt : i \in {i \in 1..job[j].n : i > job[j].n - MaxCall}}
       IN  \E judged \in IF job[j].n < MinPairs THEN {{}} ELSE {{}, considered} :
           \E against \in SUBSET judged :
             events' = [events EXCEPT ![s] =
               [pairs |-> job[j].n,
                judged |-> {[prompt |-> p, contradicts |-> p \in against] : p \in judged}]]
    /\ job' = [job EXCEPT ![j] = NextSession(j, TRUE)]
    /\ UNCHANGED <<today, session, stop, logs, rules, spoiled, mishaps>>

(* The model call fails, or returns no object: nothing is written.         *)
ClassifyFails(j) ==
    /\ job[j].at = "model" /\ job[j].n >= MinPairs /\ Mishap("model failed")
    /\ job' = [job EXCEPT ![j] = NextSession(j, FALSE)]
    /\ UNCHANGED <<today, session, stop, logs, table>>

Build(j) ==
    /\ job[j].at = "build"
    /\ job' = [job EXCEPT ![j] = [@ EXCEPT !.at = "write", !.built = Built]]
    /\ UNCHANGED <<today, session, stop, logs, table, spoiled, mishaps>>

WriteRules(j) ==
    /\ job[j].at = "write"
    /\ rules' = job[j].built
    /\ job' = [job EXCEPT ![j] = NoJob]
    /\ UNCHANGED <<today, session, stop, logs, events, spoiled, mishaps>>

JobKilled(j) ==
    /\ job[j].at # "idle" /\ Mishap("job killed")
    /\ job' = [job EXCEPT ![j] = NoJob]
    /\ UNCHANGED <<today, session, stop, logs, table>>

Next ==
    \/ NextDay
    \/ \E s \in Sessions :
         \/ Prompt(s) \/ EndTurn(s) \/ Interrupt(s) \/ Rewrite(s)
         \/ StopReads(s) \/ StopAppends(s) \/ StopScores(s) \/ StopSaves(s) \/ StopKilled(s)
    \/ \E j \in Jobs :
         \/ CatchUp(j) \/ WrapUp(j) \/ Load(j) \/ Classify(j) \/ ClassifyFails(j)
         \/ Build(j) \/ WriteRules(j) \/ JobKilled(j)

Spec == Init /\ [][Next]_vars

-----------------------------------------------------------------------------
(* Properties.                                                             *)

(* Every prompt is logged at most once and with the text it answers, the   *)
(* turn before it - or nothing, when that text is gone with the front of   *)
(* the transcript.  Excepted are a Stop hook killed between the log and    *)
(* its cursor, and a rewritten transcript that has outgrown the cursor.    *)
Answered(s, n) ==
    LET at == CHOOSE i \in DOMAIN said[s] : said[s][i] = n
        before == {i \in 1..(at - 1) : said[s][i] > 0}
    IN  IF before = {} THEN {} ELSE {-said[s][Max(before)]} \cap Range(said[s])

PairsFaithful ==
    spoiled \cap {"hook killed", "misread"} = {} => \A s \in Sessions :
        /\ \A i, j \in DOMAIN pairs[s] : pairs[s][i].prompt = pairs[s][j].prompt => i = j
        /\ \A i \in DOMAIN pairs[s] : pairs[s][i].text = Answered(s, pairs[s][i].prompt)

(* When no session has unjudged pairs and nothing is at work, rules.md     *)
(* says what the events files say: its flag is set exactly when the two    *)
(* latest judged prompts, of any session, contradict the rule.  A model    *)
(* call that fails leaves its session to the next catch-up, and the table  *)
(* with it.  Excepted are two runs of classify.py at once, one killed      *)
(* before it wrote the table, one that loads a session whose Stop hook is  *)
(* between its two logs, and a killed Stop hook.                           *)
LatestTwo(js) == {a \in js : Cardinality({b \in js : b.prompt > a.prompt}) < 2}

RulesCurrent ==
    /\ spoiled \cap {"overlap", "half logged", "job killed", "hook killed", "misread"} = {}
    /\ \A j \in Jobs : job[j].at = "idle"
    /\ \A s \in Sessions : stop[s].at = "idle" /\ (pairs[s] # <<>> => UpToDate(s))
    => /\ rules.evidence = Judged(events)
       /\ rules.flagged <=> /\ Cardinality(Judged(events)) >= 2
                            /\ \A a \in LatestTwo(Judged(events)) : a.contradicts
       /\ rules.heuristics = Scored(events)

TypeOK ==
    /\ today \in 1..MaxDays /\ mishaps \in 0..MaxMishaps /\ turning \subseteq Sessions
    /\ \A s \in Sessions :
         /\ cut[s] \in 0..Len(said[s]) /\ cursor[s].offset \in 0..Len(said[s])
         /\ heur[s] \in 0..MaxPrompts /\ written[s] \in 0..today
=============================================================================
