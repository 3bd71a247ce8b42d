----------------------------- MODULE GuiTabsProofs -----------------------------
(***************************************************************************)
(* The tabs of the window, for any saved and new tabs, any number of calls *)
(* from the page and of permission requests: a call runs only if the user  *)
(* allowed that very call; as soon as the threads are through, a claude    *)
(* that runs has a tab, and a call that waits for the tab on screen is     *)
(* shown there.  A thread is known by the next of its steps, so the        *)
(* invariants say what each thread holds there, which claudes the threads  *)
(* still account for, and which of them still show a prompt.  Then the     *)
(* subagents of a tab: a result marks its subagent, whatever the tail and  *)
(* the scan meet first.                                                    *)
(***************************************************************************)
EXTENDS Gui, FiniteSetTheorems, SequenceTheorems, TLAPS

-----------------------------------------------------------------------------
(* What a thread can still have to do, and what it then holds.             *)

CallPrograms ==
    {<<>>, <<"append">>, <<"select">>, <<"remove">>,
     <<"release", "stop", "active", "strip", "replay">>, <<"stop", "active", "strip", "replay">>,
     <<"active", "strip", "replay">>, <<"strip", "replay">>, <<"replay">>, <<"prompt">>, <<"show">>,
     <<"active", "strip">>, <<"strip">>,
     <<"allow", "unbadge">>, <<"deny", "unbadge">>, <<"unbadge">>}

BootPrograms ==
    {<<>>, <<"restore">>, <<"extend", "active", "strip">>, <<"active", "strip">>, <<"strip">>}

CloserPrograms ==
    {<<>>, <<"clear", "stop_all", "silence">>, <<"stop_all", "silence">>, <<"silence">>}

HandlerPrograms ==
    {<<>>, <<"register", "store", "strip", "show", "wait">>, <<"store", "strip", "show", "wait">>,
     <<"strip", "show", "wait">>, <<"show", "wait">>, <<"wait">>}

Programs(th) ==
    IF th = Boot THEN BootPrograms
    ELSE IF th = Closer THEN CloserPrograms
    ELSE IF th \in Requests THEN HandlerPrograms
    ELSE CallPrograms

\* What thread th holds and is for when the next of its steps is s.
Fits(th, s, holds, subject) ==
    /\ s = "active" => holds = None \/ \E x \in Tabs \cup {None} : holds = [tab |-> x]
    /\ s = "prompt" => \E x \in Tabs : holds = [tab |-> x]
    /\ s = "show" => th \in Requests \/ \E r \in Requests : holds = [request |-> r]
    /\ s = "release" => \E r \in Requests \cup {None} : holds = [request |-> r]
    /\ s = "extend" => \E q \in Seq(ToSet(Saved)) : IsInjective(q) /\ holds = [tabs |-> q]
    /\ s = "stop_all" => \E q \in Seq(Tabs) : holds = [tabs |-> q]
    /\ s = "append" => subject \in New
    /\ s \in {"select", "remove", "release", "stop"} => subject \in Tabs
    /\ s \in Behavior \cup {"unbadge"} => subject \in Requests

ThreadsFit ==
    \A th \in Threads :
        /\ todo[th] \in Programs(th)
        /\ todo[th] # <<>> => Fits(th, Head(todo[th]), held[th], about[th])

\* The closed event fires once.
ClosedOnce == window => todo[Closer] = <<>>

-----------------------------------------------------------------------------
(* A call that runs, a decision to let it run and a page's answer that is  *)
(* on its way to the bridge all go back to a click on that call's prompt.  *)

AllowClicked ==
    /\ \A r \in Requests : client[r] = "allowed" => "allow" \in clicked[r]
    /\ \A r \in Requests : decision[r] = "allow" => "allow" \in clicked[r]
    /\ \A th \in Calls : At(th, "allow") => "allow" \in clicked[about[th]]

-----------------------------------------------------------------------------
(* A claude that runs has a tab, or a thread that will give it one, or a   *)
(* thread that will stop it; never two of these.                           *)

Open(t) == t \in ToSet(sessions)
Opened(t) == \E th \in Calls : At(th, "append") /\ about[th] = t
Restored(t) == At(Boot, "extend") /\ t \in ToSet(held[Boot].tabs)
Closed(t) == \E th \in Calls : (At(th, "release") \/ At(th, "stop")) /\ about[th] = t
Cleared(t) == At(Closer, "stop_all") /\ t \in ToSet(held[Closer].tabs)

Accounted(t) ==
    /\ life[t] = "running" => Open(t) \/ Opened(t) \/ Restored(t) \/ Closed(t) \/ Cleared(t)
    /\ Open(t) \/ Opened(t) \/ Restored(t) => life[t] = "running" /\ ~Closed(t) /\ ~Cleared(t)
    /\ Closed(t) \/ Cleared(t) => life[t] # "none"
    /\ Open(t) => ~Opened(t) /\ ~Restored(t)

\* No tab is opened by two calls at once.
OpenedOnce ==
    \A th, o \in Calls :
        At(th, "append") /\ At(o, "append") /\ about[th] = about[o] => th = o

NotRestoredYet == At(Boot, "restore") => \A t \in ToSet(Saved) : life[t] = "none"

AllAccounted ==
    /\ \A t \in Tabs : Accounted(t)
    /\ OpenedOnce
    /\ NotRestoredYet

-----------------------------------------------------------------------------
(* The programs.                                                           *)

\* Every step of a program is a step, and a program is a sequence of them.
LEMMA ProgramsAreSteps ==
    ASSUME NEW th
    PROVE  Programs(th) \subseteq Seq(Step)
<1>1. CallPrograms \subseteq Seq(Step)
  BY DEF CallPrograms, Step
<1>2. BootPrograms \subseteq Seq(Step) /\ CloserPrograms \subseteq Seq(Step) /\ HandlerPrograms \subseteq Seq(Step)
  BY DEF BootPrograms, CloserPrograms, HandlerPrograms, Step
<1> QED  BY <1>1, <1>2 DEF Programs

\* The head and the tail of a short program.
LEMMA TupleTails ==
    /\ \A a : Head(<<a>>) = a /\ Tail(<<a>>) = <<>> /\ <<a>> # <<>>
    /\ \A a, b : Head(<<a, b>>) = a /\ Tail(<<a, b>>) = <<b>> /\ <<a, b>> # <<>>
    /\ \A a, b, c : Head(<<a, b, c>>) = a /\ Tail(<<a, b, c>>) = <<b, c>> /\ <<a, b, c>> # <<>>
    /\ \A a, b, c, d :
        Head(<<a, b, c, d>>) = a /\ Tail(<<a, b, c, d>>) = <<b, c, d>> /\ <<a, b, c, d>> # <<>>
    /\ \A a, b, c, d, e :
        /\ Head(<<a, b, c, d, e>>) = a /\ Tail(<<a, b, c, d, e>>) = <<b, c, d, e>>
        /\ <<a, b, c, d, e>> # <<>>
OBVIOUS

\* Short programs joined: two steps and one.
LEMMA JoinTwoOne ==
    ASSUME NEW a, NEW b, NEW c
    PROVE  <<a, b>> \o <<c>> = <<a, b, c>>
<1> DEFINE S == {a, b, c}
<1>1. <<a, b>> \in Seq(S) /\ <<c>> \in Seq(S) /\ <<a, b, c>> \in Seq(S)
  OBVIOUS
<1>2. <<a, b>> \o <<c>> \in Seq(S) /\ Len(<<a, b>> \o <<c>>) = 3
  BY <1>1
<1>3. \A i \in 1..3 : (<<a, b>> \o <<c>>)[i] = <<a, b, c>>[i]
  <2> TAKE i \in 1..3
  <2>1. i = 1 \/ i = 2 \/ i = 3
    OBVIOUS
  <2> QED  BY <1>1, <2>1
<1> QED  BY <1>1, <1>2, <1>3, SeqEqual

\* Two steps and two.
LEMMA JoinTwoTwo ==
    ASSUME NEW a, NEW b, NEW c, NEW d
    PROVE  <<a, b>> \o <<c, d>> = <<a, b, c, d>>
<1> DEFINE S == {a, b, c, d}
<1>1. <<a, b>> \in Seq(S) /\ <<c, d>> \in Seq(S) /\ <<a, b, c, d>> \in Seq(S)
  OBVIOUS
<1>2. <<a, b>> \o <<c, d>> \in Seq(S) /\ Len(<<a, b>> \o <<c, d>>) = 4
  BY <1>1
<1>3. \A i \in 1..4 : (<<a, b>> \o <<c, d>>)[i] = <<a, b, c, d>>[i]
  <2> TAKE i \in 1..4
  <2>1. i = 1 \/ i = 2 \/ i = 3 \/ i = 4
    OBVIOUS
  <2> QED  BY <1>1, <2>1
<1> QED  BY <1>1, <1>2, <1>3, SeqEqual

\* Four steps and one.
LEMMA JoinFourOne ==
    ASSUME NEW a, NEW b, NEW c, NEW d, NEW e
    PROVE  <<a, b, c, d>> \o <<e>> = <<a, b, c, d, e>>
<1> DEFINE S == {a, b, c, d, e}
<1>1. <<a, b, c, d>> \in Seq(S) /\ <<e>> \in Seq(S) /\ <<a, b, c, d, e>> \in Seq(S)
  OBVIOUS
<1>2. <<a, b, c, d>> \o <<e>> \in Seq(S) /\ Len(<<a, b, c, d>> \o <<e>>) = 5
  BY <1>1
<1>3. \A i \in 1..5 : (<<a, b, c, d>> \o <<e>>)[i] = <<a, b, c, d, e>>[i]
  <2> TAKE i \in 1..5
  <2>1. i = 1 \/ i = 2 \/ i = 3 \/ i = 4 \/ i = 5
    OBVIOUS
  <2> QED  BY <1>1, <2>1
<1> QED  BY <1>1, <1>2, <1>3, SeqEqual

\* One step and two.
LEMMA JoinOneTwo ==
    ASSUME NEW a, NEW b, NEW c
    PROVE  <<a>> \o <<b, c>> = <<a, b, c>>
<1> DEFINE S == {a, b, c}
<1>1. <<a>> \in Seq(S) /\ <<b, c>> \in Seq(S) /\ <<a, b, c>> \in Seq(S)
  OBVIOUS
<1>2. <<a>> \o <<b, c>> \in Seq(S) /\ Len(<<a>> \o <<b, c>>) = 3
  BY <1>1
<1>3. \A i \in 1..3 : (<<a>> \o <<b, c>>)[i] = <<a, b, c>>[i]
  <2> TAKE i \in 1..3
  <2>1. i = 1 \/ i = 2 \/ i = 3
    OBVIOUS
  <2> QED  BY <1>1, <2>1
<1> QED  BY <1>1, <1>2, <1>3, SeqEqual

\* Where a thread of each kind goes on.
LEMMA CallTails ==
    ASSUME NEW p \in CallPrograms, p # <<>>
    PROVE  /\ Tail(p) \in CallPrograms
           /\ Tail(p) # <<>> => Head(Tail(p)) \in {"active", "strip", "replay", "stop", "unbadge"}
           /\ Tail(p) # <<>> /\ Head(Tail(p)) = "stop" => Head(p) = "release"
           /\ Tail(p) # <<>> /\ Head(Tail(p)) = "unbadge" => Head(p) \in Behavior
           /\ Head(p) = "release" => Tail(p) # <<>> /\ Head(Tail(p)) = "stop"
           /\ Head(p) \in {"prompt", "show", "replay"} => Tail(p) = <<>>
           /\ Head(p) \notin {"restore", "extend", "clear", "stop_all", "silence", "register", "store", "wait"}
<1>1. CASE p = <<"append">>
  BY <1>1, TupleTails DEF CallPrograms, Behavior
<1>2. CASE p = <<"select">>
  BY <1>2, TupleTails DEF CallPrograms, Behavior
<1>3. CASE p = <<"remove">>
  BY <1>3, TupleTails DEF CallPrograms, Behavior
<1>4. CASE p = <<"release", "stop", "active", "strip", "replay">>
  BY <1>4, TupleTails DEF CallPrograms, Behavior
<1>5. CASE p = <<"stop", "active", "strip", "replay">>
  BY <1>5, TupleTails DEF CallPrograms, Behavior
<1>6. CASE p = <<"active", "strip", "replay">>
  BY <1>6, TupleTails DEF CallPrograms, Behavior
<1>7. CASE p = <<"strip", "replay">>
  BY <1>7, TupleTails DEF CallPrograms, Behavior
<1>8. CASE p = <<"replay">>
  BY <1>8, TupleTails DEF CallPrograms, Behavior
<1>9. CASE p = <<"prompt">>
  BY <1>9, TupleTails DEF CallPrograms, Behavior
<1>10. CASE p = <<"show">>
  BY <1>10, TupleTails DEF CallPrograms, Behavior
<1>11. CASE p = <<"active", "strip">>
  BY <1>11, TupleTails DEF CallPrograms, Behavior
<1>12. CASE p = <<"strip">>
  BY <1>12, TupleTails DEF CallPrograms, Behavior
<1>13. CASE p = <<"allow", "unbadge">>
  BY <1>13, TupleTails DEF CallPrograms, Behavior
<1>14. CASE p = <<"deny", "unbadge">>
  BY <1>14, TupleTails DEF CallPrograms, Behavior
<1>15. CASE p = <<"unbadge">>
  BY <1>15, TupleTails DEF CallPrograms, Behavior
<1> QED  BY <1>1, <1>2, <1>3, <1>4, <1>5, <1>6, <1>7, <1>8, <1>9, <1>10, <1>11, <1>12, <1>13, <1>14, <1>15 DEF CallPrograms

\* The thread of start_services.
LEMMA BootTails ==
    ASSUME NEW p \in BootPrograms, p # <<>>
    PROVE  /\ Tail(p) \in BootPrograms
           /\ Tail(p) # <<>> => Head(Tail(p)) \in {"active", "strip"} \/ Head(p) = "restore"
           /\ Head(p) \in {"restore", "extend", "active", "strip"}
<1>1. CASE p = <<"restore">>
  BY <1>1, TupleTails DEF BootPrograms
<1>2. CASE p = <<"extend", "active", "strip">>
  BY <1>2, TupleTails DEF BootPrograms
<1>3. CASE p = <<"active", "strip">>
  BY <1>3, TupleTails DEF BootPrograms
<1>4. CASE p = <<"strip">>
  BY <1>4, TupleTails DEF BootPrograms
<1> QED  BY <1>1, <1>2, <1>3, <1>4 DEF BootPrograms

\* The thread of the closed event.
LEMMA CloserTails ==
    ASSUME NEW p \in CloserPrograms, p # <<>>
    PROVE  /\ Tail(p) \in CloserPrograms
           /\ Head(p) = "clear" => Tail(p) # <<>> /\ Head(Tail(p)) = "stop_all"
           /\ Tail(p) # <<>> => Head(p) = "clear" \/ Head(Tail(p)) = "silence"
           /\ Head(p) \in {"clear", "stop_all", "silence"}
<1>1. CASE p = <<"clear", "stop_all", "silence">>
  BY <1>1, TupleTails DEF CloserPrograms
<1>2. CASE p = <<"stop_all", "silence">>
  BY <1>2, TupleTails DEF CloserPrograms
<1>3. CASE p = <<"silence">>
  BY <1>3, TupleTails DEF CloserPrograms
<1> QED  BY <1>1, <1>2, <1>3 DEF CloserPrograms

\* The handler threads of the bridge.
LEMMA HandlerTails ==
    ASSUME NEW p \in HandlerPrograms, p # <<>>
    PROVE  /\ Tail(p) \in HandlerPrograms
           /\ Head(p) = "register" => Tail(p) # <<>> /\ Head(Tail(p)) = "store"
           /\ Head(p) = "store" => Tail(p) # <<>> /\ Head(Tail(p)) = "strip"
           /\ Head(p) = "strip" => Tail(p) # <<>> /\ Head(Tail(p)) = "show"
           /\ Head(p) = "show" => Tail(p) # <<>> /\ Head(Tail(p)) = "wait"
           /\ Tail(p) # <<>> => Head(Tail(p)) \in {"store", "strip", "show", "wait"}
           /\ Head(p) \in {"register", "store", "strip", "show", "wait"}
<1>1. CASE p = <<"register", "store", "strip", "show", "wait">>
  BY <1>1, TupleTails DEF HandlerPrograms
<1>2. CASE p = <<"store", "strip", "show", "wait">>
  BY <1>2, TupleTails DEF HandlerPrograms
<1>3. CASE p = <<"strip", "show", "wait">>
  BY <1>3, TupleTails DEF HandlerPrograms
<1>4. CASE p = <<"show", "wait">>
  BY <1>4, TupleTails DEF HandlerPrograms
<1>5. CASE p = <<"wait">>
  BY <1>5, TupleTails DEF HandlerPrograms
<1> QED  BY <1>1, <1>2, <1>3, <1>4, <1>5 DEF HandlerPrograms

-----------------------------------------------------------------------------
(* One thread goes on.                                                     *)

ThreadTypes ==
    /\ todo \in [Threads -> Seq(Step)]
    /\ about \in [Threads -> Tabs \cup Requests \cup {None}]
    /\ DOMAIN held = Threads

ThreadsInv == ThreadTypes /\ ThreadsFit /\ ClosedOnce

\* What thread th has to do becomes p, for that tab or request unless nothing
\* is left; the others are where they were.
Moved(th, p, holds, subject) ==
    /\ todo'[th] = p /\ held'[th] = holds
    /\ p # <<>> => about'[th] = subject
    /\ \A o \in Threads \ {th} : todo'[o] = todo[o] /\ held'[o] = held[o] /\ about'[o] = about[o]

\* A thread that moves to a program it can run, holding what that needs,
\* leaves every thread fit.
LEMMA OneMoves ==
    ASSUME ThreadsInv, NEW th \in Threads, NEW p \in Programs(th), NEW holds, NEW subject,
           Moved(th, p, holds, subject), p # <<>> => Fits(th, Head(p), holds, subject),
           ThreadTypes', window' => window /\ (todo[th] # <<>> \/ th # Closer)
    PROVE  ThreadsInv'
<1> USE DEF ThreadsInv
<1>1. ThreadsFit'
  <2> SUFFICES ASSUME NEW o \in Threads
               PROVE  /\ todo'[o] \in Programs(o)
                      /\ todo'[o] # <<>> => Fits(o, Head(todo'[o]), held'[o], about'[o])
    BY DEF ThreadsFit
  <2>1. CASE o = th
    BY <2>1 DEF Moved
  <2>2. CASE o # th
    BY <2>2 DEF Moved, ThreadsFit
  <2> QED  BY <2>1, <2>2
<1>2. ClosedOnce'
  BY DEF ClosedOnce, Moved, Threads
<1> QED  BY <1>1, <1>2

\* So does one that goes on with its own call.
LEMMA OneGoesOn ==
    ASSUME ThreadsInv, NEW th \in Threads, NEW p \in Programs(th), NEW holds, GoOn(th, p, holds),
           p # <<>> => Fits(th, Head(p), holds, about[th]),
           window' = window, todo[th] # <<>> \/ th # Closer
    PROVE  ThreadsInv' /\ Moved(th, p, holds, about[th])
<1> USE DEF ThreadsInv
<1>1. p \in Seq(Step)
  BY ProgramsAreSteps
<1>2. ThreadTypes'
  BY <1>1 DEF GoOn, ThreadTypes
<1>3. Moved(th, p, holds, about[th])
  BY DEF GoOn, ThreadTypes, Moved
<1> QED  BY <1>2, <1>3, OneMoves

\* The kind of a thread, by the programs it runs.
LEMMA Kinds ==
    ASSUME NEW th \in Threads
    PROVE  /\ th \in Calls => Programs(th) = CallPrograms /\ th # Boot /\ th # Closer /\ th \notin Requests
           /\ th \in Requests => Programs(th) = HandlerPrograms /\ th # Boot /\ th # Closer /\ th \notin Calls
           /\ th = Boot => Programs(th) = BootPrograms /\ th \notin Requests
           /\ th = Closer => Programs(th) = CloserPrograms /\ th \notin Requests
           /\ th \in Calls \/ th \in Requests \/ th = Boot \/ th = Closer
BY GuiTabsAssumption DEF Programs, Threads

\* What is left when the next step is done, if the thread needs nothing more.
LEMMA RestFits ==
    ASSUME ThreadsInv, NEW th \in Threads, todo[th] # <<>>,
           Head(todo[th]) \in {"active", "strip", "replay", "prompt", "show", "extend", "release", "stop",
                               "allow", "deny", "register", "store", "stop_all"}
    PROVE  /\ Rest(th) \in Programs(th)
           /\ Rest(th) # <<>> => Fits(th, Head(Rest(th)), None, about[th])
           /\ Rest(th) # <<>> => Head(Rest(th)) \in {"active", "strip", "replay", "show", "stop", "unbadge", "store", "wait", "silence"}
           /\ Rest(th) # <<>> /\ Head(Rest(th)) = "stop" => Head(todo[th]) = "release"
           /\ Head(todo[th]) = "release" => Rest(th) # <<>> /\ Head(Rest(th)) = "stop"
<1> DEFINE p == todo[th]
<1>1. p \in Programs(th) /\ Fits(th, Head(p), held[th], about[th])
  BY DEF ThreadsInv, ThreadsFit
<1>2. CASE th \in Calls
  <2>1. p \in CallPrograms /\ Tail(p) \in Programs(th)
    BY <1>1, <1>2, Kinds, CallTails
  <2> HIDE DEF p
  <2>2. ASSUME Tail(p) # <<>>
        PROVE  Fits(th, Head(Tail(p)), None, about[th])
    BY <1>1, <2>1, <2>2, CallTails DEF Fits, Behavior
  <2>3. /\ Tail(p) # <<>> => Head(Tail(p)) \in {"active", "strip", "replay", "show", "stop", "unbadge", "store", "wait", "silence"}
        /\ Tail(p) # <<>> /\ Head(Tail(p)) = "stop" => Head(p) = "release"
        /\ Head(p) = "release" => Tail(p) # <<>> /\ Head(Tail(p)) = "stop"
    BY <2>1, CallTails DEF p
  <2> QED  BY <2>1, <2>2, <2>3 DEF p, Rest
<1>3. CASE th \in Requests
  <2>1. p \in HandlerPrograms /\ Tail(p) \in Programs(th)
    BY <1>1, <1>3, Kinds, HandlerTails
  <2>2. Tail(p) # <<>> => Head(Tail(p)) \in {"store", "strip", "show", "wait"}
    BY <2>1, HandlerTails
  <2>3. Head(p) # "release"
    BY <2>1, HandlerTails
  <2> QED  BY <1>3, <2>1, <2>2, <2>3 DEF Fits, Behavior, Rest
<1>4. CASE th = Boot
  <2>1. p \in BootPrograms /\ Tail(p) \in Programs(th)
    BY <1>1, <1>4, Kinds, BootTails
  <2>2. Tail(p) # <<>> => Head(Tail(p)) \in {"active", "strip"}
    BY <2>1, BootTails
  <2>3. Head(p) # "release"
    BY <2>1, BootTails
  <2> QED  BY <2>1, <2>2, <2>3 DEF Fits, Behavior, Rest
<1>5. CASE th = Closer
  <2>1. p \in CloserPrograms /\ Tail(p) \in Programs(th)
    BY <1>1, <1>5, Kinds, CloserTails
  <2>2. Tail(p) # <<>> => Head(Tail(p)) = "silence"
    BY <2>1, CloserTails
  <2>3. Head(p) # "release"
    BY <2>1, CloserTails
  <2> QED  BY <2>1, <2>2, <2>3 DEF Fits, Behavior, Rest
<1> QED  BY <1>2, <1>3, <1>4, <1>5, Kinds

-----------------------------------------------------------------------------
(* Most steps move no thread to or from a step that tells of a claude or   *)
(* of an answer.                                                           *)

Telling == {"append", "restore", "extend", "release", "stop", "stop_all", "allow"}

Still ==
    \A o \in Threads, s \in Telling :
        /\ At(o, s)' <=> At(o, s)
        /\ At(o, s) => held'[o] = held[o] /\ about'[o] = about[o]

\* A move between steps that tell nothing.
LEMMA MovedStill ==
    ASSUME NEW th \in Threads, NEW p, NEW holds, NEW subject, Moved(th, p, holds, subject),
           todo[th] = <<>> \/ Head(todo[th]) \notin Telling,
           p = <<>> \/ Head(p) \notin Telling
    PROVE  Still
BY DEF Moved, Still, At

\* A step that only takes itself off the list.
LEMMA RestStill ==
    ASSUME ThreadsInv, NEW th \in Threads, todo[th] # <<>>,
           Head(todo[th]) \in {"active", "strip", "replay", "prompt", "show", "deny", "register", "store"},
           GoOn(th, Rest(th), None), window' = window
    PROVE  ThreadsInv' /\ Still /\ Moved(th, Rest(th), None, about[th])
<1>1. /\ Rest(th) \in Programs(th)
      /\ Rest(th) # <<>> => Fits(th, Head(Rest(th)), None, about[th])
      /\ Rest(th) = <<>> \/ Head(Rest(th)) \notin Telling
  BY RestFits DEF Telling
<1>2. ThreadsInv' /\ Moved(th, Rest(th), None, about[th])
  BY <1>1, OneGoesOn
<1>3. Still
  BY <1>1, <1>2, MovedStill DEF Telling
<1> QED  BY <1>2, <1>3

\* A thread that has nothing more to do.
LEMMA DoneStill ==
    ASSUME ThreadsInv, NEW th \in Threads, todo[th] # <<>>, Head(todo[th]) \notin Telling,
           NEW holds, GoOn(th, <<>>, holds), window' = window
    PROVE  ThreadsInv' /\ Still /\ Moved(th, <<>>, holds, about[th])
<1>1. <<>> \in Programs(th)
  BY DEF Programs, BootPrograms, CloserPrograms, HandlerPrograms, CallPrograms
<1>2. ThreadsInv' /\ Moved(th, <<>>, holds, about[th])
  BY <1>1, OneGoesOn
<1> QED  BY <1>2, MovedStill

\* The active tab is read, and shown by the same step of the program.
LEMMA ReadActiveMoves ==
    ASSUME ThreadsInv, active \in Tabs \cup {None}, NEW th \in Threads, ReadActive(th)
    PROVE  ThreadsInv' /\ Still /\ Moved(th, todo[th], [tab |-> active], about[th])
<1>0. PICK p \in Programs(th) : p = todo[th] /\ (p # <<>> => Fits(th, Head(p), held[th], about[th]))
  BY DEF ThreadsInv, ThreadsFit
<1>1. todo[th] # <<>> /\ Head(todo[th]) = "active" /\ GoOn(th, p, [tab |-> active]) /\ window' = window
  BY <1>0 DEF ReadActive, At
<1>2. Fits(th, Head(p), [tab |-> active], about[th])
  BY <1>0, <1>1 DEF Fits, Behavior
<1>3. ThreadsInv' /\ Moved(th, p, [tab |-> active], about[th])
  BY <1>1, <1>2, OneGoesOn
<1>4. Still
  BY <1>0, <1>1, <1>3, MovedStill DEF Telling
<1> QED  BY <1>0, <1>3, <1>4

\* A push that lands in the page is done.
LEMMA ShowMoves ==
    ASSUME ThreadsInv, NEW th \in Threads, ShowActive(th) \/ PushSessions(th) \/ ShowPrompt(th)
    PROVE  ThreadsInv' /\ Still /\ Moved(th, Rest(th), None, about[th])
BY RestStill DEF ShowActive, PushSessions, ShowPrompt, At

\* A replay ends where no tab is active, or asks for the active tab's prompt.
LEMMA ReadReplayMoves ==
    ASSUME ThreadsInv, active \in Tabs \cup {None}, NEW th \in Threads, ReadReplay(th)
    PROVE  /\ ThreadsInv' /\ Still /\ th \in Calls
           /\ \/ active = None /\ Moved(th, <<>>, None, about[th])
              \/ active # None /\ Moved(th, <<"prompt">>, [tab |-> active], about[th])
<1>0. PICK p \in Programs(th) : p = todo[th] /\ (p # <<>> => Fits(th, Head(p), held[th], about[th]))
  BY DEF ThreadsInv, ThreadsFit
<1>1. todo[th] # <<>> /\ Head(todo[th]) = "replay" /\ window' = window
  BY DEF ReadReplay, At
<1>2. th \in Calls
  BY <1>0, <1>1, Kinds, BootTails, CloserTails, HandlerTails
<1>3. Rest(th) = <<>>
  BY <1>0, <1>1, <1>2, Kinds, CallTails DEF Rest
<1>4. CASE active = None
  <2>1. ThreadsInv' /\ Still /\ Moved(th, Rest(th), None, about[th])
    BY <1>1, <1>4, RestStill DEF ReadReplay
  <2> QED  BY <1>2, <1>3, <1>4, <2>1
<1>5. CASE active # None
  <2>1. <<"prompt">> \o Rest(th) = <<"prompt">>
    BY <1>3
  <2>2. GoOn(th, <<"prompt">>, [tab |-> active])
    BY <1>5, <2>1 DEF ReadReplay
  <2>3. <<"prompt">> \in Programs(th) /\ Head(<<"prompt">>) = "prompt"
    BY <1>2, Kinds DEF CallPrograms
  <2>4. Fits(th, "prompt", [tab |-> active], about[th])
    BY <1>5 DEF Fits, Behavior
  <2>5. ThreadsInv' /\ Moved(th, <<"prompt">>, [tab |-> active], about[th])
    BY <1>1, <2>2, <2>3, <2>4, OneGoesOn
  <2>6. Still
    BY <1>1, <2>3, <2>5, MovedStill DEF Telling
  <2> QED  BY <1>2, <1>5, <2>5, <2>6
<1> QED  BY <1>4, <1>5

\* It shows the prompt that is stored for that tab, if one is.
LEMMA ReadPromptMoves ==
    ASSUME ThreadsInv, pending \in [Tabs -> Requests \cup {None}], NEW th \in Threads, ReadPrompt(th)
    PROVE  /\ ThreadsInv' /\ Still /\ th \in Calls
           /\ \E t \in Tabs :
                /\ held[th] = [tab |-> t]
                /\ \/ pending[t] = None /\ Moved(th, <<>>, None, about[th])
                   \/ pending[t] # None /\ Moved(th, <<"show">>, [request |-> pending[t]], about[th])
<1>0. PICK p \in Programs(th) : p = todo[th] /\ (p # <<>> => Fits(th, Head(p), held[th], about[th]))
  BY DEF ThreadsInv, ThreadsFit
<1>1. todo[th] # <<>> /\ Head(todo[th]) = "prompt" /\ window' = window
  BY DEF ReadPrompt, At
<1>2. PICK t \in Tabs : held[th] = [tab |-> t]
  BY <1>0, <1>1 DEF Fits
<1>3. PICK r \in Requests \cup {None} : r = pending[t]
  BY <1>2
<1>4. pending[held[th].tab] = r
  BY <1>2, <1>3
<1>5. th \in Calls
  BY <1>0, <1>1, Kinds, BootTails, CloserTails, HandlerTails
<1>6. Rest(th) = <<>>
  BY <1>0, <1>1, <1>5, Kinds, CallTails DEF Rest
<1>7. CASE r = None
  <2>1. GoOn(th, Rest(th), None)
    BY <1>4, <1>7 DEF ReadPrompt
  <2>2. ThreadsInv' /\ Still /\ Moved(th, Rest(th), None, about[th])
    BY <1>1, <2>1, RestStill
  <2> QED  BY <1>2, <1>3, <1>5, <1>6, <1>7, <2>2
<1>8. CASE r # None
  <2>1. <<"show">> \o Rest(th) = <<"show">>
    BY <1>6
  <2>2. GoOn(th, <<"show">>, [request |-> r])
    BY <1>4, <1>8, <2>1 DEF ReadPrompt
  <2>3. <<"show">> \in Programs(th) /\ Head(<<"show">>) = "show"
    BY <1>5, Kinds DEF CallPrograms
  <2>4. Fits(th, "show", [request |-> r], about[th])
    BY <1>8 DEF Fits, Behavior
  <2>5. ThreadsInv' /\ Moved(th, <<"show">>, [request |-> r], about[th])
    BY <1>1, <2>2, <2>3, <2>4, OneGoesOn
  <2>6. Still
    BY <1>1, <2>3, <2>5, MovedStill DEF Telling
  <2> QED  BY <1>2, <1>3, <1>5, <1>8, <2>5, <2>6
<1> QED  BY <1>7, <1>8

\* A push reads and shows, and tells of nothing.
LEMMA PushesStill ==
    ASSUME ThreadsInv, active \in Tabs \cup {None}, pending \in [Tabs -> Requests \cup {None}],
           NEW th \in Threads, Pushes(th)
    PROVE  ThreadsInv' /\ Still
BY ReadActiveMoves, ShowMoves, ReadReplayMoves, ReadPromptMoves DEF Pushes

-----------------------------------------------------------------------------
(* The calls from the page.                                                *)

\* A click gives an idle thread a call.
LEMMA CalledMoves ==
    ASSUME ThreadsInv, NEW th \in Calls, NEW steps \in CallPrograms, steps # <<>>,
           NEW subject \in Tabs \cup Requests, Called(th, steps, subject),
           Fits(th, Head(steps), held[th], subject)
    PROVE  ThreadsInv' /\ Moved(th, steps, held[th], subject) /\ todo[th] = <<>>
<1>1. th \in Threads /\ Programs(th) = CallPrograms /\ th # Closer
  BY Kinds DEF Threads
<1>2. steps \in Seq(Step)
  BY <1>1, ProgramsAreSteps
<1>3. ThreadTypes'
  BY <1>1, <1>2 DEF Called, ThreadTypes, ThreadsInv
<1>4. Moved(th, steps, held[th], subject) /\ todo[th] = <<>> /\ window' = window
  BY <1>1 DEF Called, ThreadTypes, ThreadsInv, Moved
<1> QED  BY <1>1, <1>3, <1>4, OneMoves

\* Clicks on a tab and on its cross start nothing yet.
LEMMA UserSwitchesStill ==
    ASSUME ThreadsInv, NEW th \in Calls, NEW t \in Tabs, UserSwitches(th, t) \/ UserCloses(th, t)
    PROVE  /\ ThreadsInv' /\ Still /\ todo[th] = <<>>
           /\ \E steps \in {<<"select">>, <<"remove">>} : Moved(th, steps, held[th], t)
<1>1. PICK steps \in {<<"select">>, <<"remove">>} : Called(th, steps, t)
  BY DEF UserSwitches, UserCloses
<1>2. steps \in CallPrograms /\ steps # <<>> /\ Head(steps) \in {"select", "remove"}
  BY DEF CallPrograms
<1>3. Fits(th, Head(steps), held[th], t)
  BY <1>2 DEF Fits, Behavior
<1>4. ThreadsInv' /\ Moved(th, steps, held[th], t) /\ todo[th] = <<>>
  BY <1>1, <1>2, <1>3, CalledMoves
<1>5. Still
  BY <1>2, <1>4, MovedStill DEF Telling, Threads
<1> QED  BY <1>4, <1>5

\* The call that opens a tab has its claude to append.
LEMMA UserOpensMoves ==
    ASSUME ThreadsInv, NEW th \in Calls, NEW t \in Tabs, UserOpens(th, t)
    PROVE  /\ ThreadsInv' /\ Moved(th, <<"append">>, held[th], t) /\ todo[th] = <<>>
           /\ t \in New
<1>1. t \in New /\ Called(th, <<"append">>, t)
  BY DEF UserOpens
<1>2. <<"append">> \in CallPrograms /\ <<"append">> # <<>> /\ Head(<<"append">>) = "append"
  BY DEF CallPrograms
<1>3. Fits(th, "append", held[th], t)
  BY <1>1 DEF Fits, Behavior
<1> QED  BY <1>1, <1>2, <1>3, CalledMoves

\* The call that answers a prompt is about the request on screen.
LEMMA UserAnswersMoves ==
    ASSUME ThreadsInv, NEW th \in Calls, NEW choice \in Behavior, UserAnswers(th, choice),
           screen.banner \in Requests \cup {None}
    PROVE  /\ ThreadsInv' /\ Moved(th, <<choice, "unbadge">>, held[th], screen.banner) /\ todo[th] = <<>>
           /\ screen.banner \in Requests
           /\ choice = "deny" => Still
<1>1. screen.banner \in Requests /\ Called(th, <<choice, "unbadge">>, screen.banner)
  BY DEF UserAnswers
<1>2. <<choice, "unbadge">> \in CallPrograms
  BY DEF CallPrograms, Behavior
<1>3. <<choice, "unbadge">> # <<>> /\ Head(<<choice, "unbadge">>) = choice
  OBVIOUS
<1>4. Fits(th, choice, held[th], screen.banner)
  BY <1>1 DEF Fits, Behavior
<1>5. ThreadsInv' /\ Moved(th, <<choice, "unbadge">>, held[th], screen.banner) /\ todo[th] = <<>>
  BY <1>1, <1>2, <1>3, <1>4, CalledMoves
<1>6. choice = "deny" => Still
  BY <1>3, <1>5, MovedStill DEF Telling, Threads
<1> QED  BY <1>1, <1>5, <1>6

\* switch_to goes on with the pushes, or is through.
LEMMA SwitchToStill ==
    ASSUME ThreadsInv, NEW th \in Calls, SwitchTo(th)
    PROVE  /\ ThreadsInv' /\ Still
           /\ \/ active' = active /\ Moved(th, <<>>, None, about[th])
              \/ /\ active' = about[th] /\ about[th] \in ToSet(sessions)
                 /\ Moved(th, <<"active", "strip", "replay">>, None, about[th])
<1>1. th \in Threads /\ Programs(th) = CallPrograms /\ th # Closer
  BY Kinds DEF Threads
<1>2. todo[th] # <<>> /\ Head(todo[th]) = "select" /\ window' = window
  BY DEF SwitchTo, At
<1>3. CASE active' = active /\ GoOn(th, <<>>, None)
  BY <1>1, <1>2, <1>3, DoneStill DEF Telling
<1>4. CASE active' = about[th] /\ about[th] \in ToSet(sessions) /\ GoOn(th, PushTabs \o <<"replay">>, None)
  <2>1. PushTabs \o <<"replay">> = <<"active", "strip", "replay">>
    BY JoinTwoOne DEF PushTabs
  <2>2. <<"active", "strip", "replay">> \in CallPrograms /\ Head(<<"active", "strip", "replay">>) = "active"
    BY TupleTails DEF CallPrograms
  <2>3. Fits(th, "active", None, about[th])
    BY DEF Fits, Behavior
  <2>4. ThreadsInv' /\ Moved(th, <<"active", "strip", "replay">>, None, about[th])
    BY <1>1, <1>2, <1>4, <2>1, <2>2, <2>3, OneGoesOn
  <2>5. Still
    BY <1>1, <1>2, <2>2, <2>4, MovedStill DEF Telling
  <2> QED  BY <1>4, <2>4, <2>5
<1> QED  BY <1>3, <1>4 DEF SwitchTo

\* The badge is cleared and pushed, or left.
LEMMA UnbadgeStill ==
    ASSUME ThreadsInv, NEW th \in Calls, Unbadge(th)
    PROVE  /\ ThreadsInv' /\ Still
           /\ Moved(th, <<>>, None, about[th]) \/ Moved(th, <<"strip">>, None, about[th])
<1>1. th \in Threads /\ Programs(th) = CallPrograms /\ th # Closer
  BY Kinds DEF Threads
<1>2. todo[th] # <<>> /\ Head(todo[th]) = "unbadge" /\ window' = window
  BY DEF Unbadge, At
<1>3. CASE GoOn(th, <<>>, None)
  BY <1>1, <1>2, <1>3, DoneStill DEF Telling
<1>4. CASE GoOn(th, <<"strip">>, None)
  <2>1. <<"strip">> \in CallPrograms /\ Head(<<"strip">>) = "strip"
    BY DEF CallPrograms
  <2>2. Fits(th, "strip", None, about[th])
    BY DEF Fits, Behavior
  <2>3. ThreadsInv' /\ Moved(th, <<"strip">>, None, about[th])
    BY <1>1, <1>2, <1>4, <2>1, <2>2, OneGoesOn
  <2> QED  BY <1>1, <1>2, <2>1, <2>3, MovedStill DEF Telling
<1> QED  BY <1>3, <1>4 DEF Unbadge

\* A step that takes itself off the list, and tells of something.
LEMMA RestMoves ==
    ASSUME ThreadsInv, NEW th \in Threads, todo[th] # <<>>,
           Head(todo[th]) \in {"extend", "release", "stop", "allow", "stop_all"},
           GoOn(th, Rest(th), None), window' = window
    PROVE  /\ ThreadsInv' /\ Moved(th, Rest(th), None, about[th])
           /\ Head(todo[th]) = "release" => Rest(th) # <<>> /\ Head(Rest(th)) = "stop"
           /\ Head(todo[th]) # "release" => Rest(th) = <<>> \/ Head(Rest(th)) \notin Telling
<1>1. /\ Rest(th) \in Programs(th)
      /\ Rest(th) # <<>> => Fits(th, Head(Rest(th)), None, about[th])
  BY RestFits
<1>2. /\ Head(todo[th]) = "release" => Rest(th) # <<>> /\ Head(Rest(th)) = "stop"
      /\ Head(todo[th]) # "release" => Rest(th) = <<>> \/ Head(Rest(th)) \notin Telling
  BY RestFits DEF Telling
<1> QED  BY <1>1, <1>2, OneGoesOn

\* open_session goes on with the pushes.
LEMMA OpenSessionMoves ==
    ASSUME ThreadsInv, NEW th \in Calls, OpenSession(th)
    PROVE  /\ ThreadsInv' /\ Moved(th, PushTabs, None, about[th]) /\ Head(PushTabs) = "active"
           /\ about[th] \in New
<1>1. th \in Threads /\ Programs(th) = CallPrograms /\ th # Closer
  BY Kinds DEF Threads
<1>2. todo[th] # <<>> /\ Head(todo[th]) = "append" /\ window' = window /\ GoOn(th, PushTabs, None)
  BY DEF OpenSession, At
<1>3. PushTabs \in CallPrograms /\ Head(PushTabs) = "active"
  BY DEF CallPrograms, PushTabs
<1>4. Fits(th, "active", None, about[th])
  BY DEF Fits, Behavior
<1>5. about[th] \in New
  BY <1>1, <1>2 DEF ThreadsInv, ThreadsFit, Fits
<1> QED  BY <1>1, <1>2, <1>3, <1>4, <1>5, OneGoesOn

Closing == <<"release", "stop", "active", "strip", "replay">>

\* close_session, when it has found the tab, has to release and to stop.
LEMMA CloseSessionMoves ==
    ASSUME ThreadsInv, NEW th \in Calls, At(th, "remove"), window' = window,
           pending \in [Tabs -> Requests \cup {None}],
           GoOn(th, <<"release", "stop">> \o PushTabs \o <<"replay">>, [request |-> pending[about[th]]])
    PROVE  /\ ThreadsInv' /\ Head(Closing) = "release" /\ Closing # <<>>
           /\ Moved(th, Closing, [request |-> pending[about[th]]], about[th])
           /\ about[th] \in Tabs
<1>1. th \in Threads /\ Programs(th) = CallPrograms /\ th # Closer
  BY Kinds DEF Threads
<1>2. todo[th] # <<>> /\ Head(todo[th]) = "remove"
  BY DEF At
<1>3. about[th] \in Tabs
  BY <1>1, <1>2 DEF ThreadsInv, ThreadsFit, Fits
<1>4. <<"release", "stop">> \o PushTabs \o <<"replay">> = Closing
  <2>1. <<"release", "stop">> \o PushTabs = <<"release", "stop", "active", "strip">>
    BY JoinTwoTwo DEF PushTabs
  <2>2. <<"release", "stop", "active", "strip">> \o <<"replay">> = Closing
    BY JoinFourOne DEF Closing
  <2> QED  BY <2>1, <2>2
<1>5. Closing \in CallPrograms /\ Head(Closing) = "release" /\ Closing # <<>>
  BY TupleTails DEF CallPrograms, Closing
<1>6. PICK r \in Requests \cup {None} : r = pending[about[th]]
  BY <1>3
<1>7. Fits(th, "release", [request |-> r], about[th])
  BY <1>3 DEF Fits, Behavior
<1>8. GoOn(th, Closing, [request |-> r])
  BY <1>4, <1>6
<1>9. ThreadsInv' /\ Moved(th, Closing, [request |-> r], about[th])
  BY <1>1, <1>2, <1>5, <1>7, <1>8, OneGoesOn
<1> QED  BY <1>3, <1>5, <1>6, <1>9

\* After the release comes the stop.
LEMMA ReleaseMoves ==
    ASSUME ThreadsInv, NEW th \in Calls, Release(th)
    PROVE  /\ ThreadsInv' /\ Moved(th, Rest(th), None, about[th]) /\ At(th, "release")
           /\ Rest(th) # <<>> /\ Head(Rest(th)) = "stop"
BY RestMoves DEF Release, At, Threads

\* After the stop come the pushes.
LEMMA StopMoves ==
    ASSUME ThreadsInv, NEW th \in Calls, Stop(th)
    PROVE  /\ ThreadsInv' /\ Moved(th, Rest(th), None, about[th]) /\ At(th, "stop")
           /\ Rest(th) = <<>> \/ Head(Rest(th)) \notin Telling
           /\ about[th] \in Tabs
<1>1. th \in Threads /\ todo[th] # <<>> /\ Head(todo[th]) = "stop" /\ GoOn(th, Rest(th), None) /\ window' = window
  BY DEF Stop, At, Threads
<1>2. about[th] \in Tabs
  BY <1>1 DEF ThreadsInv, ThreadsFit, Fits
<1> QED  BY <1>1, <1>2, RestMoves DEF At

\* After the answer comes the badge.
LEMMA ResolvePermissionMoves ==
    ASSUME ThreadsInv, NEW th \in Calls, NEW choice \in Behavior, ResolvePermission(th, choice)
    PROVE  /\ ThreadsInv' /\ At(th, choice) /\ about[th] \in Requests
           /\ Moved(th, Rest(th), None, about[th])
           /\ Rest(th) = <<>> \/ Head(Rest(th)) \notin Telling
           /\ choice = "deny" => Still
<1>1. th \in Threads /\ todo[th] # <<>> /\ Head(todo[th]) = choice /\ GoOn(th, Rest(th), None) /\ window' = window
  BY DEF ResolvePermission, At, Threads
<1>2. about[th] \in Requests
  BY <1>1 DEF ThreadsInv, ThreadsFit, Fits
<1>3. /\ Rest(th) \in Programs(th)
      /\ Rest(th) # <<>> => Fits(th, Head(Rest(th)), None, about[th])
      /\ Rest(th) = <<>> \/ Head(Rest(th)) \notin Telling
  BY <1>1, RestFits DEF Telling, Behavior
<1>4. ThreadsInv' /\ Moved(th, Rest(th), None, about[th])
  BY <1>1, <1>3, OneGoesOn
<1>5. choice = "deny" => Still
  BY <1>1, <1>3, <1>4, MovedStill DEF Telling
<1> QED  BY <1>1, <1>2, <1>3, <1>4, <1>5 DEF At

-----------------------------------------------------------------------------
(* The requests.                                                           *)

\* A request gets a handler thread.
LEMMA AskStill ==
    ASSUME ThreadsInv, NEW r \in Requests, NEW t \in Tabs, Ask(r, t)
    PROVE  /\ ThreadsInv' /\ Still
           /\ \E p : p # <<>> /\ Head(p) = "register" /\ Moved(r, p, None, about[r])
<1> DEFINE p == <<"register", "store", "strip", "show", "wait">>
<1>1. r \in Threads /\ Programs(r) = HandlerPrograms /\ r # Closer
  BY Kinds DEF Threads
<1>2. todo[r] = <<>> /\ GoOn(r, p, None) /\ window' = window
  BY DEF Ask
<1>3. p \in HandlerPrograms /\ Head(p) = "register" /\ p # <<>>
  BY TupleTails DEF HandlerPrograms
<1> HIDE DEF p
<1>4. Fits(r, "register", None, about[r])
  BY DEF Fits, Behavior
<1>5. ThreadsInv' /\ Moved(r, p, None, about[r])
  BY <1>1, <1>2, <1>3, <1>4, OneGoesOn
<1>6. Still
  BY <1>1, <1>2, <1>3, <1>5, MovedStill DEF Telling
<1> QED  BY <1>3, <1>5, <1>6

\* A handler registers, stores, waits and replies, and tells of nothing.
LEMMA HandlerStill ==
    ASSUME ThreadsInv, NEW r \in Requests, Handler(r)
    PROVE  /\ ThreadsInv' /\ Still
           /\ Moved(r, IF Reply(r) THEN <<>> ELSE Rest(r), None, about[r])
<1>1. r \in Threads
  BY DEF Threads
<1>2. CASE Register(r) \/ PushPrompt(r)
  <2>1. ~Reply(r)
    BY <1>2 DEF Register, PushPrompt, Reply, At
  <2> QED  BY <1>1, <1>2, <2>1, RestStill DEF Register, PushPrompt, At
<1>3. CASE Reply(r)
  BY <1>1, <1>3, DoneStill DEF Reply, At, Telling
<1> QED  BY <1>2, <1>3 DEF Handler

\* Steps of the client side alone.
LEMMA NobodyMoves ==
    ASSUME ThreadsInv, UNCHANGED threadVars, window' = window
    PROVE  ThreadsInv' /\ Still
<1>1. ThreadsInv'
  BY DEF threadVars, ThreadsInv, ThreadTypes, ThreadsFit, ClosedOnce
<1>2. Still
  BY DEF threadVars, Still, At
<1> QED  BY <1>1, <1>2

-----------------------------------------------------------------------------
(* The start and the end.                                                  *)

\* What a start restores are saved tabs, each at most once.
LEMMA StartsAreSaved ==
    ASSUME NEW n \in 0..Len(Saved), NEW q \in Starts(n)
    PROVE  q \in Seq(ToSet(Saved)) /\ IsInjective(q)
<1>1. PICK k \in [1..n -> DOMAIN Saved] :
        /\ \A i, j \in 1..n : i < j => k[i] < k[j]
        /\ q = [i \in 1..n |-> Saved[k[i]]]
  BY DEF Starts
<1>2. Saved \in Seq(ToSet(Saved)) /\ DOMAIN Saved = 1..Len(Saved) /\ n \in Nat
  BY GuiTabsAssumption
<1>3. \A i \in 1..n : k[i] \in 1..Len(Saved) /\ Saved[k[i]] \in ToSet(Saved)
  BY <1>2
<1>4. q \in [1..n -> ToSet(Saved)]
  BY <1>1, <1>3
<1>5. q \in Seq(ToSet(Saved))
  BY <1>2, <1>4
<1>6. ASSUME NEW i \in 1..n, NEW j \in 1..n, q[i] = q[j]
      PROVE  i = j
  <2>1. Saved[k[i]] = Saved[k[j]]
    BY <1>1, <1>6
  <2>2. k[i] = k[j]
    BY <1>2, <1>3, <2>1, GuiTabsAssumption DEF IsInjective
  <2>3. k[i] \in Int /\ k[j] \in Int
    BY <1>3
  <2> QED  BY <1>1, <1>2, <2>2, <2>3
<1>7. IsInjective(q)
  BY <1>1, <1>6 DEF IsInjective
<1> QED  BY <1>5, <1>7

Restoring == <<"extend", "active", "strip">>

\* The start holds saved tabs, in order, to add to the strip.
LEMMA RestoreMoves ==
    ASSUME ThreadsInv, Restore
    PROVE  /\ ThreadsInv' /\ Head(Restoring) = "extend" /\ Restoring # <<>> /\ At(Boot, "restore")
           /\ \E q \in Seq(ToSet(Saved)) :
                /\ IsInjective(q)
                /\ Moved(Boot, Restoring, [tabs |-> q], about[Boot])
                /\ life' = [t \in Tabs |-> IF t \in ToSet(q) THEN "running" ELSE life[t]]
<1>1. Boot \in Threads /\ Programs(Boot) = BootPrograms
  BY Kinds DEF Threads
<1>a. PICK n \in 0..Len(Saved) : \E q \in Starts(n) :
        /\ life' = [t \in Tabs |-> IF t \in ToSet(q) THEN "running" ELSE life[t]]
        /\ GoOn(Boot, <<"extend">> \o PushTabs, [tabs |-> q])
  BY DEF Restore
<1>2. PICK q \in Starts(n) :
        /\ life' = [t \in Tabs |-> IF t \in ToSet(q) THEN "running" ELSE life[t]]
        /\ GoOn(Boot, <<"extend">> \o PushTabs, [tabs |-> q])
  BY <1>a
<1>3. todo[Boot] # <<>> /\ At(Boot, "restore") /\ window' = window
  BY DEF Restore, At
<1>4. <<"extend">> \o PushTabs = Restoring
  BY JoinOneTwo DEF PushTabs, Restoring
<1>5. Restoring \in BootPrograms /\ Head(Restoring) = "extend" /\ Restoring # <<>>
  BY TupleTails DEF BootPrograms, Restoring
<1>6. q \in Seq(ToSet(Saved)) /\ IsInjective(q)
  BY StartsAreSaved
<1>7. Fits(Boot, "extend", [tabs |-> q], about[Boot])
  BY <1>6 DEF Fits, Behavior
<1>8. ThreadsInv' /\ Moved(Boot, Restoring, [tabs |-> q], about[Boot])
  BY <1>1, <1>2, <1>3, <1>4, <1>5, <1>7, OneGoesOn
<1> QED  BY <1>2, <1>3, <1>5, <1>6, <1>8

\* When they are in the strip, only the pushes are left.
LEMMA ExtendMoves ==
    ASSUME ThreadsInv, Extend
    PROVE  /\ ThreadsInv' /\ At(Boot, "extend")
           /\ Moved(Boot, Rest(Boot), None, about[Boot])
           /\ Rest(Boot) = <<>> \/ Head(Rest(Boot)) \notin Telling
           /\ \E q \in Seq(ToSet(Saved)) : IsInjective(q) /\ held[Boot] = [tabs |-> q]
<1>1. Boot \in Threads /\ At(Boot, "extend") /\ todo[Boot] # <<>> /\ Head(todo[Boot]) = "extend"
      /\ GoOn(Boot, Rest(Boot), None) /\ window' = window
  BY DEF Extend, At, Threads
<1>2. \E q \in Seq(ToSet(Saved)) : IsInjective(q) /\ held[Boot] = [tabs |-> q]
  BY <1>1 DEF ThreadsInv, ThreadsFit, Fits
<1> QED  BY <1>1, <1>2, RestMoves

\* The closed event starts the shutdown.
LEMMA CloseWindowStill ==
    ASSUME ThreadsInv, CloseWindow
    PROVE  ThreadsInv' /\ Still /\ \E p : Moved(Closer, p, held[Closer], about[Closer])
<1> DEFINE p == <<"clear", "stop_all", "silence">>
<1>1. Closer \in Threads /\ Programs(Closer) = CloserPrograms
  BY Kinds DEF Threads
<1>2. p \in CloserPrograms /\ Head(p) = "clear"
  BY TupleTails DEF CloserPrograms
<1>3. window /\ ~window' /\ todo' = [todo EXCEPT ![Closer] = p] /\ UNCHANGED <<about, held>>
  BY DEF CloseWindow
<1> HIDE DEF p
<1>4. p \in Seq(Step)
  BY <1>1, <1>2, ProgramsAreSteps
<1>5. ThreadTypes' /\ Moved(Closer, p, held[Closer], about[Closer]) /\ todo[Closer] = <<>>
  BY <1>1, <1>3, <1>4 DEF ThreadTypes, Moved, ThreadsInv, ClosedOnce
<1>6. Fits(Closer, "clear", held[Closer], about[Closer])
  BY DEF Fits, Behavior
<1>7. ThreadsInv'
  BY <1>1, <1>2, <1>3, <1>5, <1>6, OneMoves
<1>8. Still
  BY <1>1, <1>2, <1>5, MovedStill DEF Telling
<1> QED  BY <1>5, <1>7, <1>8

\* The shutdown holds the tabs it took out of the strip.
LEMMA ClearMoves ==
    ASSUME ThreadsInv, sessions \in Seq(Tabs), Clear
    PROVE  /\ ThreadsInv' /\ Moved(Closer, Rest(Closer), [tabs |-> sessions], about[Closer])
           /\ Rest(Closer) # <<>> /\ Head(Rest(Closer)) = "stop_all" /\ At(Closer, "clear")
<1>1. Closer \in Threads /\ Programs(Closer) = CloserPrograms
  BY Kinds DEF Threads
<1>2. /\ todo[Closer] # <<>> /\ Head(todo[Closer]) = "clear" /\ At(Closer, "clear") /\ window' = window
      /\ GoOn(Closer, Rest(Closer), [tabs |-> sessions])
  BY DEF Clear, At
<1>3. todo[Closer] \in CloserPrograms
  BY <1>1 DEF ThreadsInv, ThreadsFit
<1>4. Rest(Closer) \in CloserPrograms /\ Rest(Closer) # <<>> /\ Head(Rest(Closer)) = "stop_all"
  BY <1>2, <1>3, CloserTails DEF Rest
<1>5. Fits(Closer, "stop_all", [tabs |-> sessions], about[Closer])
  BY DEF Fits, Behavior
<1> QED  BY <1>1, <1>2, <1>4, <1>5, OneGoesOn

\* When they are stopped, only the bridge is left.
LEMMA StopAllMoves ==
    ASSUME ThreadsInv, StopAll
    PROVE  /\ ThreadsInv' /\ Moved(Closer, Rest(Closer), None, about[Closer]) /\ At(Closer, "stop_all")
           /\ Rest(Closer) = <<>> \/ Head(Rest(Closer)) \notin Telling
           /\ \E q \in Seq(Tabs) : held[Closer] = [tabs |-> q]
<1>1. Closer \in Threads /\ At(Closer, "stop_all") /\ todo[Closer] # <<>> /\ Head(todo[Closer]) = "stop_all"
      /\ GoOn(Closer, Rest(Closer), None) /\ window' = window
  BY DEF StopAll, At, Threads
<1>2. \E q \in Seq(Tabs) : held[Closer] = [tabs |-> q]
  BY <1>1 DEF ThreadsInv, ThreadsFit, Fits
<1> QED  BY <1>1, <1>2, RestMoves

\* The bridge's end ends the shutdown.
LEMMA SilenceStill ==
    ASSUME ThreadsInv, Silence
    PROVE  ThreadsInv' /\ Still /\ Moved(Closer, <<>>, None, about[Closer])
BY DoneStill DEF Silence, At, Telling, Threads

-----------------------------------------------------------------------------
(* What is not about threads keeps its type.                               *)

DataTypes ==
    /\ active \in Tabs \cup {None}
    /\ pending \in [Tabs -> Requests \cup {None}]
    /\ window \in BOOLEAN
    /\ life \in [Tabs -> {"none", "running", "stopped"}]
    /\ waiting \in SUBSET Requests
    /\ decision \in [Requests -> Behavior \cup {"none"}]
    /\ \A r \in Requests : decision[r] # "none" => r \in waiting
    /\ owner \in [Requests -> Tabs \cup {None}]
    /\ client \in [Requests -> {"none", "asking", "allowed", "denied", "gone"}]
    /\ screen \in [active : Tabs \cup {None}, banner : Requests \cup {None}, passed : SUBSET Requests]
    /\ clicked \in [Requests -> SUBSET Behavior]
    /\ clicks \in 0..MaxClicks

StateInv == DataTypes /\ ThreadsInv /\ sessions \in Seq(Tabs)

-----------------------------------------------------------------------------
(* Who allowed what.                                                       *)

\* No thread comes to an allowing step.
NoneAllows == \A th \in Calls : At(th, "allow")' => At(th, "allow") /\ about'[th] = about[th]

\* Where no step tells, none allows.
LEMMA StillNoneAllows ==
    ASSUME Still
    PROVE  NoneAllows
BY DEF Still, NoneAllows, Telling, Threads

\* Nor does a move to a step that does not allow.
LEMMA MovedNoneAllows ==
    ASSUME NEW th \in Threads, NEW p, NEW holds, NEW subject, Moved(th, p, holds, subject),
           p = <<>> \/ Head(p) # "allow"
    PROVE  NoneAllows
BY DEF Moved, NoneAllows, At, Threads

\* A decision to allow comes from a thread that brings one, a call that runs
\* from a decision, and no click is taken back.
LEMMA AllowKept ==
    ASSUME StateInv, AllowClicked, NoneAllows,
           \A r \in Requests : client'[r] = "allowed" => client[r] = "allowed" \/ decision[r] = "allow",
           \A r \in Requests : decision'[r] = "allow" =>
                decision[r] = "allow" \/ \E th \in Calls : At(th, "allow") /\ about[th] = r,
           clicked' = clicked
    PROVE  AllowClicked'
<1>1. \A r \in Requests : client'[r] = "allowed" => "allow" \in clicked'[r]
  BY DEF AllowClicked
<1>2. \A r \in Requests : decision'[r] = "allow" => "allow" \in clicked'[r]
  BY DEF AllowClicked
<1>3. \A th \in Calls : At(th, "allow")' => "allow" \in clicked'[about'[th]]
  BY DEF AllowClicked, NoneAllows
<1> QED  BY <1>1, <1>2, <1>3 DEF AllowClicked

\* An answer is a click on the prompt it is about.
LEMMA AnswersAreClicked ==
    ASSUME StateInv, AllowClicked, NEW th \in Calls, NEW choice \in Behavior, UserAnswers(th, choice)
    PROVE  AllowClicked'
<1>1. screen.banner \in Requests \cup {None}
  BY DEF StateInv, DataTypes
<1>2. PICK r \in Requests : r = screen.banner
  BY <1>1, UserAnswersMoves DEF StateInv
<1>3. Moved(th, <<choice, "unbadge">>, held[th], r)
  BY <1>1, <1>2, UserAnswersMoves DEF StateInv
<1>4. clicked' = [clicked EXCEPT ![r] = clicked[r] \cup {choice}] /\ client' = client /\ decision' = decision
  BY <1>2 DEF UserAnswers, Called, bridgeVars
<1>5. \A q \in Requests : clicked[q] \subseteq clicked'[q]
  BY <1>4 DEF StateInv, DataTypes
<1>6. choice \in clicked'[r]
  BY <1>4 DEF StateInv, DataTypes
<1>7. ASSUME NEW o \in Calls, At(o, "allow")'
      PROVE  "allow" \in clicked'[about'[o]]
  <2>1. CASE o = th
    <3>1. todo'[th] = <<choice, "unbadge">> /\ about'[th] = r
      BY <1>3 DEF Moved
    <3>2. choice = "allow"
      BY <1>7, <2>1, <3>1 DEF At
    <3> QED  BY <1>6, <2>1, <3>1, <3>2
  <2>2. CASE o # th
    <3>1. At(o, "allow") /\ about'[o] = about[o]
      BY <1>3, <1>7, <2>2 DEF Moved, At, Threads
    <3>2. about[o] \in Requests
      BY <3>1 DEF At, StateInv, ThreadsInv, ThreadsFit, Fits, Behavior, Threads
    <3> QED  BY <1>5, <3>1, <3>2 DEF AllowClicked
  <2> QED  BY <2>1, <2>2
<1> QED  BY <1>4, <1>5, <1>7 DEF AllowClicked

\* The steps of the calls from the page bring only answers that were clicked.
LEMMA CallAllow ==
    ASSUME StateInv, AllowClicked, NEW th \in Calls, Call(th)
    PROVE  AllowClicked'
<1> USE DEF StateInv
<1>0. th \in Threads
  BY DEF Threads
<1>1. CASE OpenSession(th)
  <2>1. NoneAllows
    BY <1>0, <1>1, OpenSessionMoves, MovedNoneAllows
  <2> QED  BY <1>1, <2>1, AllowKept DEF OpenSession, clientVars, bridgeVars, userVars
<1>2. CASE SwitchTo(th)
  BY <1>2, SwitchToStill, StillNoneAllows, AllowKept DEF SwitchTo, clientVars, bridgeVars, userVars
<1>3. CASE CloseSession(th)
  <2>1. NoneAllows
    <3>1. CASE GoOn(th, <<>>, None)
      BY <1>0, <1>3, <3>1, DoneStill, StillNoneAllows DEF CloseSession, At, Telling
    <3>2. CASE GoOn(th, <<"release", "stop">> \o PushTabs \o <<"replay">>, [request |-> pending[about[th]]])
      BY <1>0, <1>3, <3>2, CloseSessionMoves, MovedNoneAllows DEF CloseSession, DataTypes
    <3> QED  BY <1>3, <3>1, <3>2 DEF CloseSession
  <2> QED  BY <1>3, <2>1, AllowKept DEF CloseSession, clientVars, bridgeVars, userVars
<1>4. CASE Release(th)
  <2>1. NoneAllows
    BY <1>0, <1>4, ReleaseMoves, MovedNoneAllows
  <2>2. decision' = Resolved(held[th].request, "deny") /\ client' = client /\ clicked' = clicked
    BY <1>4 DEF Release, clientVars, userVars
  <2>3. \A r \in Requests : decision'[r] = "allow" => decision[r] = "allow"
    BY <2>2 DEF Resolved, DataTypes
  <2> QED  BY <2>1, <2>2, <2>3, AllowKept
<1>5. CASE Stop(th)
  <2>1. NoneAllows
    BY <1>0, <1>5, StopMoves, MovedNoneAllows DEF Telling
  <2> QED  BY <1>5, <2>1, AllowKept DEF Stop, Stopped, bridgeVars, userVars
<1>6. ASSUME NEW choice \in Behavior, ResolvePermission(th, choice)
      PROVE  AllowClicked'
  <2>1. NoneAllows
    BY <1>0, <1>6, ResolvePermissionMoves, MovedNoneAllows DEF Telling
  <2>2. decision' = Resolved(about[th], choice) /\ client' = client /\ clicked' = clicked /\ At(th, choice)
    BY <1>6 DEF ResolvePermission, clientVars, userVars
  <2>3. \A r \in Requests : decision'[r] = "allow" =>
            decision[r] = "allow" \/ (r = about[th] /\ choice = "allow")
    BY <2>2 DEF Resolved, DataTypes
  <2> QED  BY <2>1, <2>2, <2>3, AllowKept
<1>7. CASE Unbadge(th)
  BY <1>7, UnbadgeStill, StillNoneAllows, AllowKept DEF Unbadge, clientVars, bridgeVars, userVars
<1> QED  BY <1>1, <1>2, <1>3, <1>4, <1>5, <1>6, <1>7 DEF Call

\* Every step keeps what was allowed tied to a click.
LEMMA StepAllow ==
    ASSUME StateInv, AllowClicked, [Next]_vars
    PROVE  AllowClicked'
<1> USE DEF StateInv
<1>1. ASSUME NEW th \in Threads, Pushes(th)
      PROVE  AllowClicked'
  <2>1. UNCHANGED <<client, decision, clicked>>
    BY <1>1 DEF Pushes, ReadActive, ShowActive, PushSessions, ReadReplay, ReadPrompt, ShowPrompt,
               clientVars, bridgeVars, userVars
  <2>2. NoneAllows
    BY <1>1, PushesStill, StillNoneAllows DEF DataTypes
  <2> QED  BY <2>1, <2>2, AllowKept
<1>2. ASSUME NEW th \in Calls, NEW t \in Tabs, UserOpens(th, t) \/ UserSwitches(th, t) \/ UserCloses(th, t)
      PROVE  AllowClicked'
  <2>1. UNCHANGED <<client, decision, clicked>>
    BY <1>2 DEF UserOpens, UserSwitches, UserCloses, Called, bridgeVars
  <2>2. NoneAllows
    <3>1. CASE UserOpens(th, t)
      <4>1. <<"append">> = <<>> \/ Head(<<"append">>) # "allow"
        OBVIOUS
      <4> QED  BY <3>1, <4>1, UserOpensMoves, MovedNoneAllows DEF Threads
    <3>2. CASE UserSwitches(th, t) \/ UserCloses(th, t)
      BY <3>2, UserSwitchesStill, StillNoneAllows
    <3> QED  BY <1>2, <3>1, <3>2
  <2> QED  BY <2>1, <2>2, AllowKept
<1>3. ASSUME NEW th \in Calls, User(th) \/ Call(th)
      PROVE  AllowClicked'
  BY <1>2, <1>3, AnswersAreClicked, CallAllow DEF User
<1>4. ASSUME NEW r \in Requests, Handler(r) \/ GiveUp(r) \/ \E t \in Tabs : Ask(r, t)
      PROVE  AllowClicked'
  <2>1. CASE Handler(r)
    <3>1. NoneAllows
      BY <2>1, HandlerStill, StillNoneAllows
    <3>2. clicked' = clicked
      BY <2>1 DEF Handler, Register, PushPrompt, Reply, clientVars, userVars
    <3>3. /\ \A q \in Requests : client'[q] = "allowed" => client[q] = "allowed" \/ decision[q] = "allow"
          /\ \A q \in Requests : decision'[q] = "allow" => decision[q] = "allow"
      <4>1. CASE Register(r) \/ PushPrompt(r)
        BY <4>1 DEF Register, PushPrompt, clientVars, bridgeVars
      <4>2. CASE Reply(r)
        BY <4>2 DEF Reply, DataTypes
      <4> QED  BY <2>1, <4>1, <4>2 DEF Handler
    <3> QED  BY <3>1, <3>2, <3>3, AllowKept
  <2>2. CASE GiveUp(r)
    <3>1. NoneAllows
      BY <2>2, NobodyMoves, StillNoneAllows DEF GiveUp
    <3>2. /\ \A q \in Requests : client'[q] = "allowed" => client[q] = "allowed"
          /\ decision' = decision /\ clicked' = clicked
      BY <2>2 DEF GiveUp, DataTypes, bridgeVars, userVars
    <3> QED  BY <3>1, <3>2, AllowKept
  <2>3. ASSUME NEW t \in Tabs, Ask(r, t)
        PROVE  AllowClicked'
    <3>1. NoneAllows
      BY <2>3, AskStill, StillNoneAllows
    <3>2. /\ \A q \in Requests : client'[q] = "allowed" => client[q] = "allowed"
          /\ decision' = decision /\ clicked' = clicked
      BY <2>3 DEF Ask, DataTypes, bridgeVars, userVars
    <3> QED  BY <3>1, <3>2, AllowKept
  <2> QED  BY <1>4, <2>1, <2>2, <2>3
<1>5. CASE Restore
  <2>1. NoneAllows
    BY <1>5, RestoreMoves, MovedNoneAllows DEF Threads
  <2> QED  BY <1>5, <2>1, AllowKept DEF Restore, bridgeVars, userVars
<1>6. CASE Extend
  <2>1. NoneAllows
    BY <1>6, ExtendMoves, MovedNoneAllows DEF Threads, Telling
  <2> QED  BY <1>6, <2>1, AllowKept DEF Extend, bridgeVars, clientVars, userVars
<1>7. CASE CloseWindow
  BY <1>7, CloseWindowStill, StillNoneAllows, AllowKept DEF CloseWindow, bridgeVars, clientVars, userVars
<1>8. CASE Clear
  <2>1. NoneAllows
    BY <1>8, ClearMoves, MovedNoneAllows DEF Threads
  <2> QED  BY <1>8, <2>1, AllowKept DEF Clear, bridgeVars, clientVars, userVars
<1>9. CASE StopAll
  <2>1. NoneAllows
    BY <1>9, StopAllMoves, MovedNoneAllows DEF Threads, Telling
  <2> QED  BY <1>9, <2>1, AllowKept DEF StopAll, Stopped, bridgeVars, userVars
<1>10. CASE Silence
  <2>1. NoneAllows
    BY <1>10, SilenceStill, StillNoneAllows
  <2>2. \A r \in Requests : decision'[r] = "allow" => decision[r] = "allow"
    BY <1>10 DEF Silence
  <2> QED  BY <1>10, <2>1, <2>2, AllowKept DEF Silence, clientVars, userVars
<1>11. CASE UNCHANGED vars
  <2>1. NoneAllows
    BY <1>11, NobodyMoves, StillNoneAllows DEF vars
  <2> QED  BY <1>11, <2>1, AllowKept DEF vars, bridgeVars, clientVars, userVars
<1> QED  BY <1>1, <1>3, <1>4, <1>5, <1>6, <1>7, <1>8, <1>9, <1>10, <1>11 DEF Next

-----------------------------------------------------------------------------
(* The tabs as a sequence.                                                 *)

\* Taking one tab out leaves the others, each as often as before.
LEMMA RemoveAtIs ==
    ASSUME NEW s \in Seq(Tabs), NEW place \in DOMAIN s
    PROVE  LET left == RemoveAt(s, place)
           IN  /\ left \in Seq(Tabs)
               /\ IsInjective(s) => IsInjective(left) /\ ToSet(left) = ToSet(s) \ {s[place]}
<1> DEFINE n == Len(s)
           a == SubSeq(s, 1, place - 1)
           b == SubSeq(s, place + 1, n)
           left == RemoveAt(s, place)
<1>1. n \in Nat /\ place \in 1..n /\ DOMAIN s = 1..n
  OBVIOUS
<1>2. a \in Seq(Tabs) /\ Len(a) = place - 1 /\ \A i \in 1..(place - 1) : a[i] = s[i]
  BY <1>1
<1>3. b \in Seq(Tabs) /\ Len(b) = n - place /\ \A i \in 1..(n - place) : b[i] = s[place + i]
  BY <1>1
<1>4. left = a \o b
  BY DEF RemoveAt
<1> HIDE DEF a, b, left
<1>5. left \in Seq(Tabs) /\ Len(left) = n - 1 /\ DOMAIN left = 1..(n - 1)
  <2>0. a \in Seq(Tabs) /\ b \in Seq(Tabs)
    BY <1>2, <1>3
  <2>1. a \o b \in Seq(Tabs) /\ Len(a \o b) = Len(a) + Len(b)
    BY <2>0
  <2>2. Len(a) + Len(b) = n - 1
    BY <1>1, <1>2, <1>3
  <2>3. a \o b \in Seq(Tabs) /\ Len(a \o b) = n - 1 /\ DOMAIN (a \o b) = 1..(n - 1)
    BY <2>1, <2>2
  <2> QED  BY <1>4, <2>3
<1>6. \A i \in 1..(n - 1) : left[i] = IF i < place THEN s[i] ELSE s[i + 1]
  <2> TAKE i \in 1..(n - 1)
  <2>1. CASE i < place
    BY <1>1, <1>2, <1>3, <1>4, <2>1
  <2>2. CASE ~(i < place)
    <3>1. left[i] = b[i - Len(a)] /\ i - Len(a) \in 1..(n - place)
      BY SMTT(40), <1>1, <1>2, <1>3, <1>4, <2>2
    <3>2. place + (i - Len(a)) = i + 1
      BY <1>1, <1>2
    <3> QED  BY <1>3, <2>2, <3>1, <3>2
  <2> QED  BY <2>1, <2>2
<1>7. ASSUME IsInjective(s)
      PROVE  IsInjective(left) /\ ToSet(left) = ToSet(s) \ {s[place]}
  <2>1. \A i, j \in 1..n : s[i] = s[j] => i = j
    BY <1>1, <1>7 DEF IsInjective
  <2>2. ASSUME NEW i \in 1..(n - 1), NEW j \in 1..(n - 1), left[i] = left[j]
        PROVE  i = j
    <3> DEFINE k == IF i < place THEN i ELSE i + 1
               l == IF j < place THEN j ELSE j + 1
    <3>1. k \in 1..n /\ l \in 1..n /\ s[k] = s[l]
      BY <1>1, <1>6, <2>2
    <3>2. k = l
      BY <2>1, <3>1
    <3> QED  BY <1>1, <3>2
  <2>3. IsInjective(left)
    BY <1>5, <2>2 DEF IsInjective
  <2>4. ASSUME NEW t \in ToSet(left)
        PROVE  t \in ToSet(s) \ {s[place]}
    <3>1. PICK i \in 1..(n - 1) : t = left[i]
      BY <1>5, <2>4 DEF ToSet
    <3> DEFINE k == IF i < place THEN i ELSE i + 1
    <3>2. k \in 1..n /\ k # place /\ t = s[k]
      BY <1>1, <1>6, <3>1
    <3> QED  BY <1>1, <2>1, <3>2 DEF ToSet
  <2>5. ASSUME NEW t \in ToSet(s), t # s[place]
        PROVE  t \in ToSet(left)
    <3>1. PICK k \in 1..n : t = s[k] /\ k # place
      BY <1>1, <2>5 DEF ToSet
    <3> DEFINE i == IF k < place THEN k ELSE k - 1
    <3>2. i \in 1..(n - 1) /\ left[i] = t
      BY <1>1, <1>6, <3>1
    <3> QED  BY <1>5, <3>2 DEF ToSet
  <2> QED  BY <2>3, <2>4, <2>5
<1> QED  BY <1>5, <1>7 DEF left

\* Joining tabs that are not there yet to those that are.
LEMMA JoinedIs ==
    ASSUME NEW s \in Seq(Tabs), NEW q \in Seq(Tabs)
    PROVE  /\ s \o q \in Seq(Tabs)
           /\ ToSet(s \o q) = ToSet(s) \cup ToSet(q)
           /\ IsInjective(s) /\ IsInjective(q) /\ ToSet(s) \cap ToSet(q) = {} => IsInjective(s \o q)
<1> DEFINE m == Len(s)
           n == Len(q)
           all == s \o q
<1>1. m \in Nat /\ n \in Nat /\ DOMAIN s = 1..m /\ DOMAIN q = 1..n
  OBVIOUS
<1>2. all \in Seq(Tabs) /\ Len(all) = m + n /\ DOMAIN all = 1..(m + n)
  OBVIOUS
<1>3. /\ \A i \in 1..m : all[i] = s[i]
      /\ \A i \in 1..(m + n) : i \notin 1..m => i - m \in 1..n /\ all[i] = q[i - m]
      /\ \A i \in 1..n : m + i \in 1..(m + n) /\ all[m + i] = q[i]
  OBVIOUS
<1> HIDE DEF all
<1>4. ToSet(all) = ToSet(s) \cup ToSet(q)
  <2>1. ASSUME NEW t \in ToSet(all)
        PROVE  t \in ToSet(s) \cup ToSet(q)
    <3>1. PICK i \in 1..(m + n) : t = all[i]
      BY <1>2, <2>1 DEF ToSet
    <3> QED  BY <1>1, <1>3, <3>1 DEF ToSet
  <2>2. ASSUME NEW t \in ToSet(s)
        PROVE  t \in ToSet(all)
    <3>1. PICK i \in 1..m : t = s[i]
      BY <1>1, <2>2 DEF ToSet
    <3>2. i \in 1..(m + n) /\ t = all[i]
      BY <1>1, <1>3, <3>1
    <3> QED  BY <1>2, <3>2 DEF ToSet
  <2>3. ASSUME NEW t \in ToSet(q)
        PROVE  t \in ToSet(all)
    <3>1. PICK i \in 1..n : t = q[i]
      BY <1>1, <2>3 DEF ToSet
    <3>2. m + i \in 1..(m + n) /\ t = all[m + i]
      BY <1>1, <1>3, <3>1
    <3> QED  BY <1>2, <3>2 DEF ToSet
  <2> QED  BY <2>1, <2>2, <2>3
<1>5. ASSUME IsInjective(s), IsInjective(q), ToSet(s) \cap ToSet(q) = {}
      PROVE  IsInjective(all)
  <2>1. /\ \A i, j \in 1..m : s[i] = s[j] => i = j
        /\ \A i, j \in 1..n : q[i] = q[j] => i = j
    BY <1>1, <1>5 DEF IsInjective
  <2>2. \A i \in 1..m, j \in 1..n : s[i] # q[j]
    BY <1>1, <1>5 DEF ToSet
  <2>3. ASSUME NEW i \in 1..(m + n), NEW j \in 1..(m + n), all[i] = all[j]
        PROVE  i = j
    <3>1. CASE i \in 1..m /\ j \in 1..m
      BY <1>3, <2>1, <2>3, <3>1
    <3>2. CASE i \in 1..m /\ j \notin 1..m
      BY <1>3, <2>2, <2>3, <3>2
    <3>3. CASE i \notin 1..m /\ j \in 1..m
      BY <1>3, <2>2, <2>3, <3>3
    <3>4. CASE i \notin 1..m /\ j \notin 1..m
      <4>1. i - m = j - m
        BY <1>3, <2>1, <2>3, <3>4
      <4> QED  BY <1>1, <4>1
    <3> QED  BY <3>1, <3>2, <3>3, <3>4
  <2> QED  BY <1>2, <2>3 DEF IsInjective
<1> QED  BY <1>2, <1>4, <1>5 DEF all

-----------------------------------------------------------------------------
(* Where every claude is accounted for.                                    *)

TabSteps == {"append", "restore", "extend", "release", "stop", "stop_all"}

TabsStill ==
    \A o \in Threads, s \in TabSteps :
        /\ At(o, s)' <=> At(o, s)
        /\ At(o, s) => held'[o] = held[o] /\ about'[o] = about[o]

\* Where no step tells, none tells of a claude.
LEMMA StillTabsStill ==
    ASSUME Still
    PROVE  TabsStill
BY DEF Still, TabsStill, Telling, TabSteps

\* Nor does a move between steps that do not.
LEMMA MovedTabsStill ==
    ASSUME NEW th \in Threads, NEW p, NEW holds, NEW subject, Moved(th, p, holds, subject),
           todo[th] = <<>> \/ Head(todo[th]) \notin TabSteps,
           p = <<>> \/ Head(p) \notin TabSteps
    PROVE  TabsStill
BY DEF Moved, TabsStill, At

\* Nothing that tells of a claude has changed.
LEMMA AccountedStill ==
    ASSUME AllAccounted, TabsStill, sessions' = sessions, life' = life
    PROVE  AllAccounted'
<1>1. \A o \in Threads, s \in TabSteps : At(o, s)' <=> At(o, s)
  BY DEF TabsStill
<1>2. \A o \in Threads, s \in TabSteps : At(o, s) => held'[o] = held[o] /\ about'[o] = about[o]
  BY DEF TabsStill
<1>3. Calls \subseteq Threads /\ Boot \in Threads /\ Closer \in Threads
  BY DEF Threads
<1>4. {"append", "restore", "extend", "release", "stop", "stop_all"} \subseteq TabSteps
  BY DEF TabSteps
<1>5. ASSUME NEW t \in Tabs
      PROVE  Accounted(t)'
  <2>1. Open(t)' <=> Open(t)
    BY DEF Open
  <2>2. Opened(t)' <=> Opened(t)
    BY <1>1, <1>2, <1>3, <1>4 DEF Opened
  <2>3. Restored(t)' <=> Restored(t)
    BY <1>1, <1>2, <1>3, <1>4 DEF Restored
  <2>4. Closed(t)' <=> Closed(t)
    BY <1>1, <1>2, <1>3, <1>4 DEF Closed
  <2>5. Cleared(t)' <=> Cleared(t)
    BY <1>1, <1>2, <1>3, <1>4 DEF Cleared
  <2>6. Accounted(t)
    BY DEF AllAccounted
  <2> QED  BY <2>1, <2>2, <2>3, <2>4, <2>5, <2>6 DEF Accounted
<1>6. OpenedOnce'
  BY <1>1, <1>2, <1>3, <1>4 DEF AllAccounted, OpenedOnce
<1>7. NotRestoredYet'
  BY <1>1, <1>3, <1>4 DEF AllAccounted, NotRestoredYet
<1> QED  BY <1>5, <1>6, <1>7 DEF AllAccounted

\* What the steps of the others tell is what they told.
LEMMA OthersTell ==
    ASSUME NEW th \in Threads, NEW p, NEW holds, NEW subject, Moved(th, p, holds, subject)
    PROVE  /\ \A o \in Threads \ {th}, s \in Telling :
                (At(o, s)' <=> At(o, s)) /\ about'[o] = about[o] /\ held'[o] = held[o]
           /\ \A s \in Telling : At(th, s)' <=> p # <<>> /\ Head(p) = s
           /\ p # <<>> => about'[th] = subject
           /\ held'[th] = holds
BY DEF Moved, At

\* A new tab's claude is accounted for by the call that started it.
LEMMA UserOpensAccounted ==
    ASSUME StateInv, AllAccounted, NEW th \in Calls, NEW n \in Tabs, UserOpens(th, n)
    PROVE  AllAccounted'
<1> DEFINE p == <<"append">>
<1>1. th \in Threads /\ Calls \subseteq Threads /\ Boot \in Threads /\ Closer \in Threads /\ th # Boot /\ th # Closer
  BY GuiTabsAssumption DEF Threads
<1>2. Moved(th, p, held[th], n) /\ todo[th] = <<>> /\ n \in New
  BY UserOpensMoves DEF StateInv
<1>3. p # <<>> /\ Head(p) = "append"
  OBVIOUS
<1> HIDE DEF p
<1>4. life[n] = "none" /\ life' = [life EXCEPT ![n] = "running"] /\ sessions' = sessions
  BY DEF UserOpens, Called, appVars
<1>5. /\ \A o \in Threads \ {th}, s \in Telling :
           (At(o, s)' <=> At(o, s)) /\ about'[o] = about[o] /\ held'[o] = held[o]
      /\ \A s \in Telling : ~At(th, s) /\ (At(th, s)' <=> s = "append")
      /\ about'[th] = n
  BY <1>1, <1>2, <1>3, OthersTell DEF At
<1>6. {"append", "restore", "extend", "release", "stop", "stop_all"} \subseteq Telling
  BY DEF Telling
<1>7. ~Open(n) /\ ~Opened(n) /\ ~Restored(n) /\ ~Closed(n) /\ ~Cleared(n)
  BY <1>4 DEF AllAccounted, Accounted
<1>8. ASSUME NEW t \in Tabs
      PROVE  Accounted(t)'
  <2>1. Open(t)' <=> Open(t)
    BY <1>4 DEF Open
  <2>2. Opened(t)' <=> Opened(t) \/ t = n
    BY <1>1, <1>5, <1>6 DEF Opened
  <2>3. Restored(t)' <=> Restored(t)
    BY <1>1, <1>5, <1>6 DEF Restored
  <2>4. Closed(t)' <=> Closed(t)
    BY <1>1, <1>5, <1>6 DEF Closed
  <2>5. Cleared(t)' <=> Cleared(t)
    BY <1>1, <1>5, <1>6 DEF Cleared
  <2>6. life'[t] = IF t = n THEN "running" ELSE life[t]
    BY <1>4 DEF StateInv, DataTypes
  <2>7. Accounted(t)
    BY DEF AllAccounted
  <2> QED  BY <1>7, <2>1, <2>2, <2>3, <2>4, <2>5, <2>6, <2>7 DEF Accounted
<1>9. OpenedOnce'
  <2>1. \A o \in Calls \ {th} : At(o, "append")' => At(o, "append") /\ about'[o] = about[o] /\ about[o] # n
    BY <1>1, <1>5, <1>6, <1>7 DEF Opened
  <2> QED  BY <1>5, <2>1 DEF AllAccounted, OpenedOnce
<1>10. NotRestoredYet'
  <2>1. At(Boot, "restore")' => At(Boot, "restore")
    BY <1>1, <1>5, <1>6
  <2>2. \A t \in ToSet(Saved) : life'[t] = life[t]
    BY <1>2, <1>4, GuiTabsAssumption DEF StateInv, DataTypes, Tabs
  <2> QED  BY <2>1, <2>2 DEF AllAccounted, NotRestoredYet
<1> QED  BY <1>8, <1>9, <1>10 DEF AllAccounted

\* Then by its tab.
LEMMA OpenSessionAccounted ==
    ASSUME StateInv, AllAccounted, NEW th \in Calls, OpenSession(th)
    PROVE  /\ AllAccounted' /\ (IsInjective(sessions) => IsInjective(sessions')) /\ sessions' \in Seq(Tabs)
           /\ ToSet(sessions') = ToSet(sessions) \cup {about[th]}
<1>1. th \in Threads /\ Calls \subseteq Threads /\ Boot \in Threads /\ Closer \in Threads /\ th # Boot /\ th # Closer
  BY GuiTabsAssumption DEF Threads
<1>2. Moved(th, PushTabs, None, about[th]) /\ Head(PushTabs) = "active" /\ about[th] \in New
  BY OpenSessionMoves DEF StateInv
<1>3. PICK n \in New : n = about[th]
  BY <1>2
<1>4. At(th, "append") /\ life' = life /\ sessions' = sessions \o <<n>>
  BY <1>3 DEF OpenSession, clientVars, StateInv
<1>5. /\ \A o \in Threads \ {th}, s \in Telling :
           (At(o, s)' <=> At(o, s)) /\ about'[o] = about[o] /\ held'[o] = held[o]
      /\ \A s \in Telling : ~At(th, s)' /\ (At(th, s) <=> s = "append")
  <2>1. "active" \notin Telling
    BY DEF Telling
  <2> QED  BY <1>1, <1>2, <1>4, <2>1, OthersTell DEF At
<1>6. {"append", "restore", "extend", "release", "stop", "stop_all"} \subseteq Telling
  BY DEF Telling
<1>7. n \in Tabs /\ Opened(n) /\ ~Open(n) /\ <<n>> \in Seq(Tabs) /\ ToSet(<<n>>) = {n} /\ IsInjective(<<n>>)
  <2>1. n \in Tabs /\ Opened(n)
    BY <1>3, <1>4 DEF Opened, Tabs
  <2>2. ~Open(n)
    BY <2>1 DEF AllAccounted, Accounted
  <2> QED  BY <2>1, <2>2 DEF ToSet, IsInjective
<1>8. sessions' \in Seq(Tabs) /\ ToSet(sessions') = ToSet(sessions) \cup {n}
      /\ (IsInjective(sessions) => IsInjective(sessions'))
  <2>1. ToSet(sessions) \cap ToSet(<<n>>) = {}
    BY <1>7 DEF Open
  <2>2. PICK q \in Seq(Tabs) : q = <<n>>
    BY <1>7
  <2>3. ToSet(q) = {n} /\ IsInjective(q) /\ ToSet(sessions) \cap ToSet(q) = {} /\ sessions' = sessions \o q
    BY <1>4, <1>7, <2>1, <2>2
  <2> HIDE <2>2
  <2>4. sessions \in Seq(Tabs)
    BY DEF StateInv
  <2>5. /\ sessions \o q \in Seq(Tabs)
        /\ ToSet(sessions \o q) = ToSet(sessions) \cup ToSet(q)
        /\ IsInjective(sessions) /\ IsInjective(q) /\ ToSet(sessions) \cap ToSet(q) = {}
             => IsInjective(sessions \o q)
    BY <2>4, JoinedIs
  <2> QED  BY <2>3, <2>5
<1>9. ASSUME NEW t \in Tabs
      PROVE  Accounted(t)'
  <2>1. Open(t)' <=> Open(t) \/ t = n
    BY <1>8 DEF Open
  <2>2. Opened(t)' <=> Opened(t) /\ t # n
    <3>1. \A o \in Calls : At(o, "append") /\ about[o] = n => o = th
      BY <1>3, <1>4 DEF AllAccounted, OpenedOnce
    <3> QED  BY <1>1, <1>3, <1>5, <1>6, <3>1 DEF Opened
  <2>3. Restored(t)' <=> Restored(t)
    BY <1>1, <1>5, <1>6 DEF Restored
  <2>4. Closed(t)' <=> Closed(t)
    BY <1>1, <1>5, <1>6 DEF Closed
  <2>5. Cleared(t)' <=> Cleared(t)
    BY <1>1, <1>5, <1>6 DEF Cleared
  <2>6. Restored(n) => FALSE
    <3>1. ASSUME At(Boot, "extend"), NEW q \in Seq(ToSet(Saved)), held[Boot] = [tabs |-> q]
          PROVE  n \notin ToSet(held[Boot].tabs)
      BY <1>3, <3>1, GuiTabsAssumption DEF ToSet
    <3>2. At(Boot, "extend") => \E q \in Seq(ToSet(Saved)) : held[Boot] = [tabs |-> q]
      BY <1>1 DEF StateInv, ThreadsInv, ThreadsFit, Fits, At
    <3> QED  BY <3>1, <3>2 DEF Restored
  <2>7. Accounted(t) /\ Accounted(n)
    BY <1>7 DEF AllAccounted
  <2> QED  BY <1>4, <1>7, <2>1, <2>2, <2>3, <2>4, <2>5, <2>6, <2>7 DEF Accounted
<1>10. OpenedOnce'
  BY <1>1, <1>5, <1>6 DEF AllAccounted, OpenedOnce
<1>11. NotRestoredYet'
  BY <1>1, <1>4, <1>5, <1>6 DEF AllAccounted, NotRestoredYet
<1> QED  BY <1>3, <1>8, <1>9, <1>10, <1>11 DEF AllAccounted

\* A saved tab's claude is accounted for by the thread of the start.
LEMMA RestoreAccounted ==
    ASSUME StateInv, AllAccounted, Restore
    PROVE  AllAccounted'
<1>1. /\ Calls \subseteq Threads /\ Boot \in Threads /\ Closer \in Threads /\ Boot # Closer
      /\ \A o \in Calls : o # Boot
  BY GuiTabsAssumption DEF Threads
<1>2. PICK q \in Seq(ToSet(Saved)) :
        /\ Moved(Boot, Restoring, [tabs |-> q], about[Boot])
        /\ life' = [t \in Tabs |-> IF t \in ToSet(q) THEN "running" ELSE life[t]]
  BY RestoreMoves DEF StateInv
<1>3. Restoring # <<>> /\ Head(Restoring) = "extend" /\ At(Boot, "restore") /\ sessions' = sessions
  BY RestoreMoves DEF StateInv, Restore, appVars
<1>4. {"append", "restore", "extend", "release", "stop", "stop_all"} \subseteq Telling
  BY DEF Telling
<1>5. /\ \A o \in Threads \ {Boot}, s \in Telling :
           (At(o, s)' <=> At(o, s)) /\ about'[o] = about[o] /\ held'[o] = held[o]
      /\ At(Boot, "extend")' /\ ~At(Boot, "restore")' /\ held'[Boot] = [tabs |-> q]
      /\ ~At(Boot, "extend")
  BY <1>1, <1>2, <1>3, <1>4, OthersTell DEF At
<1>6. ToSet(q) \subseteq ToSet(Saved)
  BY DEF ToSet
<1>7. \A t \in ToSet(q) :
        t \in Tabs /\ ~Open(t) /\ ~Opened(t) /\ ~Restored(t) /\ ~Closed(t) /\ ~Cleared(t)
  <2> TAKE t \in ToSet(q)
  <2>1. t \in Tabs /\ life[t] = "none"
    BY <1>3, <1>6 DEF AllAccounted, NotRestoredYet, Tabs
  <2> QED  BY <2>1 DEF AllAccounted, Accounted
<1>8. ASSUME NEW t \in Tabs
      PROVE  Accounted(t)'
  <2>1. Open(t)' <=> Open(t)
    BY <1>3 DEF Open
  <2>2. Opened(t)' <=> Opened(t)
    BY <1>1, <1>4, <1>5 DEF Opened
  <2>3. Restored(t)' <=> t \in ToSet(q)
    BY <1>5 DEF Restored
  <2>4. Closed(t)' <=> Closed(t)
    BY <1>1, <1>4, <1>5 DEF Closed
  <2>5. Cleared(t)' <=> Cleared(t)
    BY <1>1, <1>4, <1>5 DEF Cleared
  <2>6. ~Restored(t)
    BY <1>5 DEF Restored
  <2>7. Accounted(t) /\ life'[t] = IF t \in ToSet(q) THEN "running" ELSE life[t]
    BY <1>2 DEF AllAccounted
  <2> QED  BY <1>7, <2>1, <2>2, <2>3, <2>4, <2>5, <2>6, <2>7 DEF Accounted
<1>9. OpenedOnce'
  BY <1>1, <1>4, <1>5 DEF AllAccounted, OpenedOnce
<1>10. NotRestoredYet'
  BY <1>5 DEF NotRestoredYet
<1> QED  BY <1>8, <1>9, <1>10 DEF AllAccounted

\* Then by its tab, whatever was opened meanwhile.
LEMMA ExtendAccounted ==
    ASSUME StateInv, AllAccounted, IsInjective(sessions), Extend
    PROVE  /\ AllAccounted' /\ IsInjective(sessions') /\ sessions' \in Seq(Tabs) /\ active' \in Tabs \cup {None}
           /\ ToSet(sessions) \subseteq ToSet(sessions') /\ active' \in {active} \cup ToSet(sessions')
<1>1. /\ Calls \subseteq Threads /\ Boot \in Threads /\ Closer \in Threads /\ Boot # Closer
      /\ \A o \in Calls : o # Boot
  BY GuiTabsAssumption DEF Threads
<1>2. PICK q \in Seq(ToSet(Saved)) : IsInjective(q) /\ held[Boot] = [tabs |-> q]
  BY ExtendMoves DEF StateInv
<1>3. /\ Moved(Boot, Rest(Boot), None, about[Boot])
      /\ Rest(Boot) = <<>> \/ Head(Rest(Boot)) \notin Telling
      /\ At(Boot, "extend") /\ life' = life
  BY ExtendMoves DEF StateInv, Extend, clientVars
<1>4. {"append", "restore", "extend", "release", "stop", "stop_all"} \subseteq Telling
  BY DEF Telling
<1>5. /\ \A o \in Threads \ {Boot}, s \in Telling :
           (At(o, s)' <=> At(o, s)) /\ about'[o] = about[o] /\ held'[o] = held[o]
      /\ ~At(Boot, "extend")' /\ ~At(Boot, "restore")'
  BY <1>1, <1>3, <1>4, OthersTell
<1>6. q \in Seq(Tabs) /\ held[Boot].tabs = q
  BY <1>2 DEF Tabs
<1>7. \A t \in Tabs : Restored(t) <=> t \in ToSet(q)
  BY <1>3, <1>6 DEF Restored
<1>8. ToSet(q) \subseteq Tabs /\ ToSet(sessions) \cap ToSet(q) = {}
  <2>1. ToSet(q) \subseteq Tabs
    BY <1>6 DEF ToSet
  <2> QED  BY <1>7, <2>1 DEF AllAccounted, Accounted, Open
<1>9. /\ sessions' \in Seq(Tabs) /\ IsInjective(sessions') /\ active' \in Tabs \cup {None}
      /\ ToSet(sessions') = ToSet(sessions) \cup ToSet(q) /\ active' \in {active} \cup ToSet(sessions')
  <2>1. CASE q = <<>>
    <3>1. sessions' = sessions /\ active' = active
      BY <1>6, <2>1 DEF Extend
    <3>2. ToSet(q) = {}
      BY <2>1 DEF ToSet
    <3> QED  BY <3>1, <3>2 DEF StateInv, DataTypes
  <2>2. CASE q # <<>>
    <3> DEFINE all == sessions \o q
               place == IF SavedActive <= Len(all) THEN SavedActive ELSE Len(all)
    <3>1. sessions' = all /\ active' = all[place]
      BY <1>6, <2>2 DEF Extend
    <3>2. /\ all \in Seq(Tabs) /\ IsInjective(all)
          /\ ToSet(all) = ToSet(sessions) \cup ToSet(q)
      <4>1. sessions \in Seq(Tabs)
        BY DEF StateInv
      <4> QED  BY <1>2, <1>6, <1>8, <4>1, JoinedIs
    <3>3. Len(all) \in Nat \ {0}
      BY <1>6, <2>2 DEF StateInv
    <3>4. place \in 1..Len(all)
      BY <3>3, GuiTabsAssumption
    <3> HIDE DEF all, place
    <3>5. all[place] \in Tabs /\ all[place] \in ToSet(all)
      BY <3>2, <3>4 DEF ToSet
    <3> QED  BY <3>1, <3>2, <3>5
  <2> QED  BY <2>1, <2>2
<1>10. ASSUME NEW t \in Tabs
       PROVE  Accounted(t)'
  <2>1. Open(t)' <=> Open(t) \/ Restored(t)
    BY <1>7, <1>9 DEF Open
  <2>2. Opened(t)' <=> Opened(t)
    BY <1>1, <1>4, <1>5 DEF Opened
  <2>3. ~Restored(t)'
    BY <1>5 DEF Restored
  <2>4. Closed(t)' <=> Closed(t)
    BY <1>1, <1>4, <1>5 DEF Closed
  <2>5. Cleared(t)' <=> Cleared(t)
    BY <1>1, <1>4, <1>5 DEF Cleared
  <2>6. ~(Restored(t) /\ Opened(t))
    <3>1. Restored(t) => t \in ToSet(Saved)
      BY <1>7 DEF ToSet
    <3>2. Opened(t) => t \in New
      BY <1>1 DEF Opened, StateInv, ThreadsInv, ThreadsFit, Fits, At
    <3> QED  BY <3>1, <3>2, GuiTabsAssumption
  <2>7. Accounted(t)
    BY DEF AllAccounted
  <2> QED  BY <1>3, <2>1, <2>2, <2>3, <2>4, <2>5, <2>6, <2>7 DEF Accounted
<1>11. OpenedOnce'
  BY <1>1, <1>4, <1>5 DEF AllAccounted, OpenedOnce
<1>12. NotRestoredYet'
  BY <1>5 DEF NotRestoredYet
<1> QED  BY <1>9, <1>10, <1>11, <1>12 DEF AllAccounted

\* The tab c is out of the strip, and an open one is active in its place, or none.
ClosedOne(c) ==
    /\ ToSet(sessions') = ToSet(sessions) \ {c}
    /\ pending' = [pending EXCEPT ![c] = None]
    /\ active' = None \/ active' \in ToSet(sessions') \/ (active' = active /\ active # c)

\* A closed tab's claude is accounted for by the call that closed it.
LEMMA CloseSessionAccounted ==
    ASSUME StateInv, AllAccounted, IsInjective(sessions), NEW th \in Calls, CloseSession(th)
    PROVE  /\ AllAccounted' /\ IsInjective(sessions') /\ sessions' \in Seq(Tabs) /\ active' \in Tabs \cup {None}
           /\ UNCHANGED appVars \/ ClosedOne(about[th])
<1>1. th \in Threads /\ Calls \subseteq Threads /\ Boot \in Threads /\ Closer \in Threads /\ th # Boot /\ th # Closer
  BY GuiTabsAssumption DEF Threads
<1>2. At(th, "remove") /\ window' = window /\ life' = life
  BY DEF CloseSession, clientVars
<1>3. CASE GoOn(th, <<>>, None) /\ UNCHANGED appVars
  <2>1. Still /\ sessions' = sessions /\ active' = active
    BY <1>1, <1>2, <1>3, DoneStill DEF At, Telling, StateInv, appVars
  <2> QED  BY <1>2, <1>3, <2>1, StillTabsStill, AccountedStill DEF StateInv, DataTypes
<1>4. ASSUME NEW place \in DOMAIN sessions, sessions[place] = about[th],
             sessions' = RemoveAt(sessions, place), active' = Promoted(place, RemoveAt(sessions, place)),
             pending' = [pending EXCEPT ![about[th]] = None],
             GoOn(th, <<"release", "stop">> \o PushTabs \o <<"replay">>, [request |-> pending[about[th]]])
      PROVE  /\ AllAccounted' /\ IsInjective(sessions') /\ sessions' \in Seq(Tabs) /\ active' \in Tabs \cup {None}
             /\ ClosedOne(about[th])
  <2>1. /\ Moved(th, Closing, [request |-> pending[about[th]]], about[th])
        /\ Head(Closing) = "release" /\ Closing # <<>> /\ about[th] \in Tabs
    BY <1>2, <1>4, CloseSessionMoves DEF StateInv, DataTypes
  <2>2. PICK c \in Tabs : c = about[th]
    BY <2>1
  <2>3. {"append", "restore", "extend", "release", "stop", "stop_all"} \subseteq Telling
    BY DEF Telling
  <2>4. /\ \A o \in Threads \ {th}, s \in Telling :
             (At(o, s)' <=> At(o, s)) /\ about'[o] = about[o] /\ held'[o] = held[o]
        /\ \A s \in Telling : ~At(th, s) /\ (At(th, s)' <=> s = "release")
        /\ about'[th] = c
    <3>1. "remove" \notin Telling
      BY DEF Telling
    <3> QED  BY <1>1, <1>2, <2>1, <2>2, <3>1, OthersTell DEF At
  <2>5. PICK left \in Seq(Tabs) :
          /\ left = RemoveAt(sessions, place)
          /\ IsInjective(left) /\ ToSet(left) = ToSet(sessions) \ {c}
    <3>1. sessions \in Seq(Tabs)
      BY DEF StateInv
    <3> QED  BY <1>4, <2>2, <3>1, RemoveAtIs
  <2>6. sessions' = left
    BY <1>4, <2>5
  <2>7. /\ active' \in Tabs \cup {None}
        /\ active' = None \/ active' \in ToSet(left) \/ (active' = active /\ active # c)
    <3>1. active' = Promoted(place, left)
      BY <1>4, <2>5
    <3>2. CASE sessions[place] # active
      BY <1>4, <2>2, <3>1, <3>2 DEF Promoted, StateInv, DataTypes
    <3>3. CASE sessions[place] = active /\ left = <<>>
      BY <3>1, <3>3 DEF Promoted
    <3>4. CASE sessions[place] = active /\ left # <<>>
      <4> DEFINE there == IF place <= Len(left) THEN place ELSE Len(left)
      <4>1. active' = left[there]
        BY <3>1, <3>4 DEF Promoted
      <4>2. place \in Nat \ {0}
        BY <1>4 DEF StateInv
      <4>3. there \in 1..Len(left)
        BY <3>4, <4>2
      <4> HIDE DEF there
      <4> QED  BY <4>1, <4>3 DEF ToSet
    <3> QED  BY <3>2, <3>3, <3>4
  <2>8. Open(c)
    BY <1>4, <2>2 DEF Open, ToSet
  <2>9. ASSUME NEW t \in Tabs
        PROVE  Accounted(t)'
    <3>1. Open(t)' <=> Open(t) /\ t # c
      BY <2>5, <2>6 DEF Open
    <3>2. Opened(t)' <=> Opened(t)
      BY <1>1, <2>3, <2>4 DEF Opened
    <3>3. Restored(t)' <=> Restored(t)
      BY <1>1, <2>3, <2>4 DEF Restored
    <3>4. Closed(t)' <=> Closed(t) \/ t = c
      BY <1>1, <2>3, <2>4 DEF Closed
    <3>5. Cleared(t)' <=> Cleared(t)
      BY <1>1, <2>3, <2>4 DEF Cleared
    <3>6. Accounted(t)
      BY DEF AllAccounted
    <3> QED  BY <1>2, <2>8, <3>1, <3>2, <3>3, <3>4, <3>5, <3>6 DEF Accounted
  <2>10. OpenedOnce'
    BY <1>1, <2>3, <2>4 DEF AllAccounted, OpenedOnce
  <2>11. NotRestoredYet'
    BY <1>1, <1>2, <2>3, <2>4 DEF AllAccounted, NotRestoredYet
  <2>12. ClosedOne(about[th])
    BY <1>4, <2>2, <2>5, <2>6, <2>7 DEF ClosedOne
  <2> QED  BY <2>5, <2>6, <2>7, <2>9, <2>10, <2>11, <2>12 DEF AllAccounted
<1> QED  BY <1>3, <1>4 DEF CloseSession

\* And still is when its prompt has been denied.
LEMMA ReleaseAccounted ==
    ASSUME StateInv, AllAccounted, NEW th \in Calls, Release(th)
    PROVE  AllAccounted'
<1>1. th \in Threads /\ Calls \subseteq Threads /\ Boot \in Threads /\ Closer \in Threads /\ th # Boot /\ th # Closer
  BY GuiTabsAssumption DEF Threads
<1>2. /\ Moved(th, Rest(th), None, about[th]) /\ At(th, "release")
      /\ Rest(th) # <<>> /\ Head(Rest(th)) = "stop"
      /\ life' = life /\ sessions' = sessions
  BY ReleaseMoves DEF StateInv, Release, appVars, clientVars
<1>3. {"append", "restore", "extend", "release", "stop", "stop_all"} \subseteq Telling
  BY DEF Telling
<1>4. /\ \A o \in Threads \ {th}, s \in Telling :
           (At(o, s)' <=> At(o, s)) /\ about'[o] = about[o] /\ held'[o] = held[o]
      /\ \A s \in Telling : (At(th, s) <=> s = "release") /\ (At(th, s)' <=> s = "stop")
      /\ about'[th] = about[th]
  BY <1>1, <1>2, OthersTell DEF At
<1>5. ASSUME NEW t \in Tabs
      PROVE  Accounted(t)'
  <2>1. Open(t)' <=> Open(t)
    BY <1>2 DEF Open
  <2>2. Opened(t)' <=> Opened(t)
    BY <1>1, <1>3, <1>4 DEF Opened
  <2>3. Restored(t)' <=> Restored(t)
    BY <1>1, <1>3, <1>4 DEF Restored
  <2>4. Closed(t)' <=> Closed(t)
    BY <1>1, <1>3, <1>4 DEF Closed
  <2>5. Cleared(t)' <=> Cleared(t)
    BY <1>1, <1>3, <1>4 DEF Cleared
  <2>6. Accounted(t)
    BY DEF AllAccounted
  <2> QED  BY <1>2, <2>1, <2>2, <2>3, <2>4, <2>5, <2>6 DEF Accounted
<1>6. OpenedOnce'
  BY <1>1, <1>3, <1>4 DEF AllAccounted, OpenedOnce
<1>7. NotRestoredYet'
  BY <1>1, <1>2, <1>3, <1>4 DEF AllAccounted, NotRestoredYet
<1> QED  BY <1>5, <1>6, <1>7 DEF AllAccounted

\* Until it is stopped.
LEMMA StopAccounted ==
    ASSUME StateInv, AllAccounted, NEW th \in Calls, Stop(th)
    PROVE  AllAccounted'
<1>1. th \in Threads /\ Calls \subseteq Threads /\ Boot \in Threads /\ Closer \in Threads /\ th # Boot /\ th # Closer
  BY GuiTabsAssumption DEF Threads
<1>2. /\ Moved(th, Rest(th), None, about[th]) /\ At(th, "stop")
      /\ Rest(th) = <<>> \/ Head(Rest(th)) \notin Telling
      /\ about[th] \in Tabs
  BY StopMoves DEF StateInv
<1>3. {"append", "restore", "extend", "release", "stop", "stop_all"} \subseteq Telling
  BY DEF Telling
<1>4. PICK c \in Tabs : c = about[th]
  BY <1>2
<1>5. sessions' = sessions /\ life' = [t \in Tabs |-> IF t = c THEN "stopped" ELSE life[t]]
  BY <1>4 DEF Stop, Stopped, appVars
<1>6. /\ \A o \in Threads \ {th}, s \in Telling :
           (At(o, s)' <=> At(o, s)) /\ about'[o] = about[o] /\ held'[o] = held[o]
      /\ \A s \in Telling : (At(th, s) <=> s = "stop") /\ ~At(th, s)'
  BY <1>1, <1>2, OthersTell DEF At
<1>7. Closed(c)
  BY <1>2, <1>4 DEF Closed
<1>8. ASSUME NEW t \in Tabs
      PROVE  Accounted(t)'
  <2>1. Open(t)' <=> Open(t)
    BY <1>5 DEF Open
  <2>2. Opened(t)' <=> Opened(t)
    BY <1>1, <1>3, <1>6 DEF Opened
  <2>3. Restored(t)' <=> Restored(t)
    BY <1>1, <1>3, <1>6 DEF Restored
  <2>4. /\ Closed(t)' => Closed(t)
        /\ t # c => (Closed(t)' <=> Closed(t))
    BY <1>1, <1>3, <1>4, <1>6 DEF Closed
  <2>5. Cleared(t)' <=> Cleared(t)
    BY <1>1, <1>3, <1>6 DEF Cleared
  <2>6. Accounted(t) /\ life'[t] = IF t = c THEN "stopped" ELSE life[t]
    BY <1>5 DEF AllAccounted
  <2> QED  BY <1>7, <2>1, <2>2, <2>3, <2>4, <2>5, <2>6 DEF Accounted
<1>9. OpenedOnce'
  BY <1>1, <1>3, <1>6 DEF AllAccounted, OpenedOnce
<1>10. NotRestoredYet'
  <2>1. At(Boot, "restore")' => At(Boot, "restore")
    BY <1>1, <1>3, <1>6
  <2>2. At(Boot, "restore") => \A t \in ToSet(Saved) : life[t] = "none" /\ t \in Tabs
    BY DEF AllAccounted, NotRestoredYet, Tabs
  <2>3. life[c] # "none"
    BY <1>7 DEF AllAccounted, Accounted
  <2> QED  BY <1>5, <2>1, <2>2, <2>3 DEF NotRestoredYet
<1> QED  BY <1>8, <1>9, <1>10 DEF AllAccounted

\* The shutdown accounts for every claude whose tab it took.
LEMMA ClearAccounted ==
    ASSUME StateInv, AllAccounted, Clear
    PROVE  AllAccounted' /\ IsInjective(sessions') /\ sessions' \in Seq(Tabs)
<1>1. /\ Calls \subseteq Threads /\ Boot \in Threads /\ Closer \in Threads /\ Boot # Closer
      /\ \A o \in Calls : o # Closer
  BY GuiTabsAssumption DEF Threads
<1>2. /\ Moved(Closer, Rest(Closer), [tabs |-> sessions], about[Closer])
      /\ Rest(Closer) # <<>> /\ Head(Rest(Closer)) = "stop_all" /\ At(Closer, "clear")
      /\ sessions' = <<>> /\ life' = life
  BY ClearMoves DEF StateInv, Clear, clientVars
<1>3. {"append", "restore", "extend", "release", "stop", "stop_all"} \subseteq Telling
  BY DEF Telling
<1>4. /\ \A o \in Threads \ {Closer}, s \in Telling :
           (At(o, s)' <=> At(o, s)) /\ about'[o] = about[o] /\ held'[o] = held[o]
      /\ At(Closer, "stop_all")' /\ ~At(Closer, "stop_all") /\ held'[Closer] = [tabs |-> sessions]
  BY <1>1, <1>2, <1>3, OthersTell DEF At
<1>5. ASSUME NEW t \in Tabs
      PROVE  Accounted(t)'
  <2>1. ~Open(t)'
    BY <1>2 DEF Open, ToSet
  <2>2. Opened(t)' <=> Opened(t)
    BY <1>1, <1>3, <1>4 DEF Opened
  <2>3. Restored(t)' <=> Restored(t)
    BY <1>1, <1>3, <1>4 DEF Restored
  <2>4. Closed(t)' <=> Closed(t)
    BY <1>1, <1>3, <1>4 DEF Closed
  <2>5. (Cleared(t)' <=> Open(t)) /\ ~Cleared(t)
    BY <1>4 DEF Cleared, Open
  <2>6. Accounted(t)
    BY DEF AllAccounted
  <2> QED  BY <1>2, <2>1, <2>2, <2>3, <2>4, <2>5, <2>6 DEF Accounted
<1>6. OpenedOnce'
  BY <1>1, <1>3, <1>4 DEF AllAccounted, OpenedOnce
<1>7. NotRestoredYet'
  BY <1>1, <1>2, <1>3, <1>4 DEF AllAccounted, NotRestoredYet
<1>8. IsInjective(sessions') /\ sessions' \in Seq(Tabs)
  BY <1>2 DEF IsInjective
<1> QED  BY <1>5, <1>6, <1>7, <1>8 DEF AllAccounted

\* Until it has stopped them.
LEMMA StopAllAccounted ==
    ASSUME StateInv, AllAccounted, StopAll
    PROVE  AllAccounted'
<1>1. /\ Calls \subseteq Threads /\ Boot \in Threads /\ Closer \in Threads /\ Boot # Closer
      /\ \A o \in Calls : o # Closer
  BY GuiTabsAssumption DEF Threads
<1>2. /\ Moved(Closer, Rest(Closer), None, about[Closer]) /\ At(Closer, "stop_all")
      /\ Rest(Closer) = <<>> \/ Head(Rest(Closer)) \notin Telling
  BY StopAllMoves DEF StateInv
<1>3. {"append", "restore", "extend", "release", "stop", "stop_all"} \subseteq Telling
  BY DEF Telling
<1>4. /\ sessions' = sessions
      /\ life' = [t \in Tabs |-> IF t \in ToSet(held[Closer].tabs) THEN "stopped" ELSE life[t]]
  BY DEF StopAll, Stopped, appVars
<1>5. /\ \A o \in Threads \ {Closer}, s \in Telling :
           (At(o, s)' <=> At(o, s)) /\ about'[o] = about[o] /\ held'[o] = held[o]
      /\ ~At(Closer, "stop_all")'
  BY <1>1, <1>2, <1>3, OthersTell
<1>6. ASSUME NEW t \in Tabs
      PROVE  Accounted(t)' /\ (life[t] = "none" => life'[t] = "none")
  <2>1. Open(t)' <=> Open(t)
    BY <1>4 DEF Open
  <2>2. Opened(t)' <=> Opened(t)
    BY <1>1, <1>3, <1>5 DEF Opened
  <2>3. Restored(t)' <=> Restored(t)
    BY <1>1, <1>3, <1>5 DEF Restored
  <2>4. Closed(t)' <=> Closed(t)
    BY <1>1, <1>3, <1>5 DEF Closed
  <2>5. ~Cleared(t)'
    BY <1>5 DEF Cleared
  <2>6. Accounted(t) /\ life'[t] = IF Cleared(t) THEN "stopped" ELSE life[t]
    BY <1>2, <1>4 DEF AllAccounted, Cleared
  <2> QED  BY <2>1, <2>2, <2>3, <2>4, <2>5, <2>6 DEF Accounted
<1>7. OpenedOnce'
  BY <1>1, <1>3, <1>5 DEF AllAccounted, OpenedOnce
<1>8. NotRestoredYet'
  BY <1>1, <1>3, <1>5, <1>6 DEF AllAccounted, NotRestoredYet, Tabs
<1> QED  BY <1>6, <1>7, <1>8 DEF AllAccounted

\* Every step keeps every claude accounted for, and no tab gets into the strip twice.
LEMMA StepAccounted ==
    ASSUME StateInv, AllAccounted, IsInjective(sessions), [Next]_vars
    PROVE  AllAccounted' /\ IsInjective(sessions') /\ sessions' \in Seq(Tabs)
<1> USE DEF StateInv
<1>1. ASSUME TabsStill, UNCHANGED <<sessions, life>>
      PROVE  AllAccounted' /\ IsInjective(sessions') /\ sessions' \in Seq(Tabs)
  BY <1>1, AccountedStill
<1>2. ASSUME NEW th \in Threads, Pushes(th)
      PROVE  TabsStill /\ UNCHANGED <<sessions, life>>
  <2>1. UNCHANGED <<sessions, life>>
    BY <1>2 DEF Pushes, ReadActive, ShowActive, PushSessions, ReadReplay, ReadPrompt, ShowPrompt,
               clientVars, appVars
  <2> QED  BY <1>2, <2>1, PushesStill, StillTabsStill DEF DataTypes
<1>3. ASSUME NEW th \in Calls, NEW t \in Tabs, UserSwitches(th, t) \/ UserCloses(th, t)
      PROVE  TabsStill /\ UNCHANGED <<sessions, life>>
  <2>1. UNCHANGED <<sessions, life>>
    BY <1>3 DEF UserSwitches, UserCloses, Called, appVars
  <2> QED  BY <1>3, <2>1, UserSwitchesStill, StillTabsStill
<1>4. ASSUME NEW th \in Calls, NEW choice \in Behavior, UserAnswers(th, choice)
      PROVE  TabsStill /\ UNCHANGED <<sessions, life>>
  <2>1. UNCHANGED <<sessions, life>>
    BY <1>4 DEF UserAnswers, Called, appVars
  <2>2. screen.banner \in Requests \cup {None} /\ th \in Threads
    BY DEF DataTypes, Threads
  <2>3. Moved(th, <<choice, "unbadge">>, held[th], screen.banner) /\ todo[th] = <<>>
    BY <1>4, <2>2, UserAnswersMoves
  <2>4. Head(<<choice, "unbadge">>) = choice /\ choice \notin TabSteps
    BY DEF Behavior, TabSteps
  <2>5. TabsStill
    BY <2>2, <2>3, <2>4, MovedTabsStill
  <2> QED  BY <2>1, <2>5
<1>5. ASSUME NEW th \in Calls, NEW choice \in Behavior, ResolvePermission(th, choice)
      PROVE  TabsStill /\ UNCHANGED <<sessions, life>>
  <2>1. UNCHANGED <<sessions, life>>
    BY <1>5 DEF ResolvePermission, clientVars, appVars
  <2>2. /\ Moved(th, Rest(th), None, about[th])
        /\ Rest(th) = <<>> \/ Head(Rest(th)) \notin Telling
        /\ At(th, choice)
    BY <1>5, ResolvePermissionMoves
  <2>3. choice \notin TabSteps /\ TabSteps \subseteq Telling /\ th \in Threads
    BY DEF Behavior, TabSteps, Telling, Threads
  <2>4. TabsStill
    BY <2>2, <2>3, MovedTabsStill DEF At
  <2> QED  BY <2>1, <2>4
<1>6. ASSUME NEW th \in Calls, SwitchTo(th) \/ Unbadge(th)
      PROVE  TabsStill /\ UNCHANGED <<sessions, life>>
  <2>1. UNCHANGED <<sessions, life>>
    BY <1>6 DEF SwitchTo, Unbadge, clientVars
  <2> QED  BY <1>6, <2>1, SwitchToStill, UnbadgeStill, StillTabsStill
<1>7. ASSUME NEW r \in Requests, Handler(r) \/ GiveUp(r) \/ \E t \in Tabs : Ask(r, t)
      PROVE  TabsStill /\ UNCHANGED <<sessions, life>>
  <2>1. UNCHANGED <<sessions, life>>
    BY <1>7 DEF Handler, Register, PushPrompt, Reply, GiveUp, Ask, clientVars, appVars
  <2>2. Still
    BY <1>7, HandlerStill, NobodyMoves, AskStill DEF GiveUp
  <2> QED  BY <2>1, <2>2, StillTabsStill
<1>8. ASSUME CloseWindow \/ Silence \/ UNCHANGED vars
      PROVE  TabsStill /\ UNCHANGED <<sessions, life>>
  <2>1. UNCHANGED <<sessions, life>>
    BY <1>8 DEF CloseWindow, Silence, vars, clientVars, appVars
  <2>2. Still
    BY <1>8, CloseWindowStill, SilenceStill, NobodyMoves DEF vars
  <2> QED  BY <2>1, <2>2, StillTabsStill
<1>9. ASSUME NEW th \in Calls, NEW t \in Tabs, UserOpens(th, t)
      PROVE  AllAccounted' /\ sessions' = sessions
  BY <1>9, UserOpensAccounted DEF UserOpens, Called, appVars
<1>10. ASSUME NEW th \in Calls, Release(th) \/ Stop(th)
       PROVE  AllAccounted' /\ sessions' = sessions
  BY <1>10, ReleaseAccounted, StopAccounted DEF Release, Stop, appVars
<1>11. ASSUME Restore \/ StopAll
       PROVE  AllAccounted' /\ sessions' = sessions
  BY <1>11, RestoreAccounted, StopAllAccounted DEF Restore, StopAll, appVars
<1>12. ASSUME NEW th \in Calls, User(th)
       PROVE  AllAccounted' /\ IsInjective(sessions') /\ sessions' \in Seq(Tabs)
  BY <1>1, <1>3, <1>4, <1>9, <1>12 DEF User
<1>13. ASSUME NEW th \in Calls, Call(th)
       PROVE  AllAccounted' /\ IsInjective(sessions') /\ sessions' \in Seq(Tabs)
  BY <1>1, <1>5, <1>6, <1>10, <1>13, OpenSessionAccounted, CloseSessionAccounted DEF Call
<1>14. CASE Extend \/ Clear
  BY <1>14, ExtendAccounted, ClearAccounted
<1> QED  BY <1>1, <1>2, <1>7, <1>8, <1>11, <1>12, <1>13, <1>14 DEF Next

-----------------------------------------------------------------------------
(* The types.                                                              *)

\* The pushes keep the types: what they show, they held.
LEMMA PushesTypes ==
    ASSUME StateInv, NEW th \in Threads, Pushes(th)
    PROVE  DataTypes'
<1> USE DEF StateInv, DataTypes
<1>0. todo[th] # <<>> => Fits(th, Head(todo[th]), held[th], about[th])
  BY DEF ThreadsInv, ThreadsFit
<1>1. CASE ReadActive(th) \/ ReadReplay(th) \/ ReadPrompt(th)
  BY <1>1 DEF ReadActive, ReadReplay, ReadPrompt, appVars, bridgeVars, clientVars, userVars
<1>2. CASE PushSessions(th)
  <2>1. pending' \in [Tabs -> Requests \cup {None}]
    BY <1>2 DEF PushSessions
  <2> QED  BY <1>2, <2>1 DEF PushSessions, bridgeVars, clientVars, userVars
<1>3. CASE ShowPrompt(th)
  <2>1. At(th, "show") /\ UNCHANGED <<appVars, bridgeVars, clientVars, userVars, window>>
        /\ screen' \in {screen, [screen EXCEPT !.banner = Shown(th)]}
    BY <1>3 DEF ShowPrompt
  <2>2. Shown(th) \in Requests
    <3>1. CASE th \in Requests
      BY <3>1 DEF Shown
    <3>2. CASE th \notin Requests
      <4>1. PICK r \in Requests : held[th] = [request |-> r]
        BY <1>0, <2>1, <3>2 DEF Fits, At
      <4>2. held[th].request = r
        BY <4>1
      <4> QED  BY <3>2, <4>2 DEF Shown
    <3> QED  BY <3>1, <3>2
  <2>3. PICK r \in Requests : r = Shown(th)
    BY <2>2
  <2>4. screen' \in [active : Tabs \cup {None}, banner : Requests \cup {None}, passed : SUBSET Requests]
    BY <2>1, <2>3
  <2> QED  BY <2>1, <2>4 DEF appVars, bridgeVars, clientVars, userVars
<1>4. CASE ShowActive(th)
  <2>1. At(th, "active") /\ held[th] # None /\ UNCHANGED <<appVars, bridgeVars, clientVars, userVars, window>>
    BY <1>4 DEF ShowActive
  <2>2. PICK x \in Tabs \cup {None} : held[th] = [tab |-> x]
    BY <1>0, <2>1 DEF Fits, At
  <2>3. held[th].tab = x
    BY <2>2
  <2>4. screen.passed \cup PassedOver(th) \in SUBSET Requests
    BY DEF PassedOver
  <2>5. screen' \in [active : Tabs \cup {None}, banner : Requests \cup {None}, passed : SUBSET Requests]
    BY <1>4, <2>3, <2>4 DEF ShowActive
  <2> QED  BY <2>1, <2>5 DEF appVars, bridgeVars, clientVars, userVars
<1> QED  BY <1>1, <1>2, <1>3, <1>4 DEF Pushes

\* The clicks keep the types.
LEMMA UserTypes ==
    ASSUME StateInv, NEW th \in Calls, User(th)
    PROVE  DataTypes'
<1> USE DEF StateInv, DataTypes
<1>0. ASSUME clicks < MaxClicks, clicks' = clicks + 1
      PROVE  clicks' \in 0..MaxClicks
  BY <1>0, GuiTabsAssumption
<1>1. ASSUME NEW t \in Tabs, UserOpens(th, t) \/ UserSwitches(th, t) \/ UserCloses(th, t)
      PROVE  DataTypes'
  <2>1. UNCHANGED <<active, pending, bridgeVars, window, owner, client, screen, clicked>>
    BY <1>1 DEF UserOpens, UserSwitches, UserCloses, Called, appVars
  <2>2. clicks' \in 0..MaxClicks
    BY <1>0, <1>1 DEF UserOpens, UserSwitches, UserCloses, Called
  <2>3. life' \in [Tabs -> {"none", "running", "stopped"}]
    BY <1>1 DEF UserOpens, UserSwitches, UserCloses
  <2> QED  BY <2>1, <2>2, <2>3 DEF bridgeVars
<1>2. ASSUME NEW choice \in Behavior, UserAnswers(th, choice)
      PROVE  DataTypes'
  <2>1. UNCHANGED <<active, pending, bridgeVars, window, owner, client, life>>
    BY <1>2 DEF UserAnswers, Called, appVars
  <2>2. clicks' \in 0..MaxClicks
    BY <1>0, <1>2 DEF UserAnswers, Called
  <2>3. PICK r \in Requests : r = screen.banner
    BY <1>2 DEF UserAnswers
  <2>4. screen' \in [active : Tabs \cup {None}, banner : Requests \cup {None}, passed : SUBSET Requests]
    BY <1>2 DEF UserAnswers
  <2>5. clicked' \in [Requests -> SUBSET Behavior]
    BY <1>2, <2>3 DEF UserAnswers
  <2> QED  BY <2>1, <2>2, <2>4, <2>5 DEF bridgeVars
<1> QED  BY <1>1, <1>2 DEF User

\* Stopping a claude takes its requests with it.
LEMMA StoppedTypes ==
    ASSUME StateInv, NEW gone, Stopped(gone)
    PROVE  /\ life' \in [Tabs -> {"none", "running", "stopped"}]
           /\ client' \in [Requests -> {"none", "asking", "allowed", "denied", "gone"}]
           /\ owner' = owner
<1>1. /\ life \in [Tabs -> {"none", "running", "stopped"}]
      /\ client \in [Requests -> {"none", "asking", "allowed", "denied", "gone"}]
  BY DEF StateInv, DataTypes
<1>2. life' \in [Tabs -> {"none", "running", "stopped"}]
  BY <1>1 DEF Stopped
<1>3. client' \in [Requests -> {"none", "asking", "allowed", "denied", "gone"}]
  BY <1>1 DEF Stopped
<1> QED  BY <1>2, <1>3 DEF Stopped

\* A decision is only taken for a request the bridge still tracks.
LEMMA ResolvedTypes ==
    ASSUME StateInv, NEW r, NEW choice \in Behavior
    PROVE  /\ Resolved(r, choice) \in [Requests -> Behavior \cup {"none"}]
           /\ \A q \in Requests : Resolved(r, choice)[q] # "none" => q \in waiting
BY DEF Resolved, StateInv, DataTypes

\* The calls keep the types.
LEMMA CallTypes ==
    ASSUME StateInv, NEW th \in Calls, Call(th), active' \in Tabs \cup {None}
    PROVE  DataTypes'
<1> USE DEF StateInv, DataTypes
<1>1. CASE OpenSession(th) \/ SwitchTo(th)
  BY <1>1 DEF OpenSession, SwitchTo, bridgeVars, clientVars, userVars
<1>2. CASE CloseSession(th) \/ Unbadge(th)
  <2>1. UNCHANGED <<bridgeVars, clientVars, userVars, screen, window>>
    BY <1>2 DEF CloseSession, Unbadge
  <2>2. pending' \in [Tabs -> Requests \cup {None}]
    BY <1>2 DEF CloseSession, Unbadge, appVars
  <2> QED  BY <2>1, <2>2 DEF bridgeVars, clientVars, userVars
<1>3. CASE Release(th)
  <2>1. decision' = Resolved(held[th].request, "deny") /\ UNCHANGED <<appVars, waiting, clientVars, userVars, screen, window>>
    BY <1>3 DEF Release
  <2>2. /\ decision' \in [Requests -> Behavior \cup {"none"}]
        /\ \A q \in Requests : decision'[q] # "none" => q \in waiting
    BY <2>1, ResolvedTypes DEF Behavior
  <2> QED  BY <2>1, <2>2 DEF appVars, clientVars, userVars
<1>4. CASE Stop(th)
  BY <1>4, StoppedTypes DEF Stop, appVars, bridgeVars, userVars
<1>5. ASSUME NEW choice \in Behavior, ResolvePermission(th, choice)
      PROVE  DataTypes'
  <2>1. decision' = Resolved(about[th], choice) /\ UNCHANGED <<appVars, waiting, clientVars, userVars, screen, window>>
    BY <1>5 DEF ResolvePermission
  <2>2. /\ decision' \in [Requests -> Behavior \cup {"none"}]
        /\ \A q \in Requests : decision'[q] # "none" => q \in waiting
    BY <2>1, ResolvedTypes
  <2> QED  BY <2>1, <2>2 DEF appVars, clientVars, userVars
<1> QED  BY <1>1, <1>2, <1>3, <1>4, <1>5 DEF Call

\* The calls make a tab active, or none.
LEMMA CallActive ==
    ASSUME StateInv, AllAccounted, IsInjective(sessions), NEW th \in Calls, Call(th)
    PROVE  active' \in Tabs \cup {None}
<1>1. th \in Threads /\ active \in Tabs \cup {None}
  BY DEF Threads, StateInv, DataTypes
<1>2. CASE OpenSession(th)
  BY <1>2, OpenSessionMoves DEF OpenSession, StateInv, Tabs
<1>3. CASE SwitchTo(th)
  <2>1. about[th] \in Tabs
    BY <1>1, <1>3 DEF SwitchTo, At, StateInv, ThreadsInv, ThreadsFit, Fits
  <2> QED  BY <1>1, <1>3, <2>1 DEF SwitchTo
<1>4. CASE CloseSession(th)
  BY <1>4, CloseSessionAccounted
<1>5. CASE Release(th) \/ Stop(th) \/ Unbadge(th) \/ \E choice \in Behavior : ResolvePermission(th, choice)
  BY <1>1, <1>5 DEF Release, Stop, Unbadge, ResolvePermission, appVars
<1> QED  BY <1>2, <1>3, <1>4, <1>5 DEF Call

\* The requests keep the types.
LEMMA RequestTypes ==
    ASSUME StateInv, NEW r \in Requests, Handler(r) \/ GiveUp(r) \/ \E t \in Tabs : Ask(r, t)
    PROVE  DataTypes'
<1> USE DEF StateInv, DataTypes
<1>1. CASE Register(r)
  BY <1>1 DEF Register, appVars, clientVars, userVars
<1>2. CASE PushPrompt(r)
  BY <1>2 DEF PushPrompt, bridgeVars, clientVars, userVars
<1>3. CASE Reply(r)
  <2>1. UNCHANGED <<appVars, owner, life, userVars, screen, window>>
    BY <1>3 DEF Reply
  <2>2. waiting' = waiting \ {r} /\ decision' = [decision EXCEPT ![r] = "none"]
    BY <1>3 DEF Reply
  <2>3. client' \in [Requests -> {"none", "asking", "allowed", "denied", "gone"}]
    BY <1>3 DEF Reply
  <2> QED  BY <2>1, <2>2, <2>3 DEF appVars, userVars
<1>4. CASE GiveUp(r)
  BY <1>4 DEF GiveUp, appVars, bridgeVars, userVars
<1>5. ASSUME NEW t \in Tabs, Ask(r, t)
      PROVE  DataTypes'
  BY <1>5 DEF Ask, appVars, bridgeVars, userVars
<1> QED  BY <1>1, <1>2, <1>3, <1>4, <1>5 DEF Handler

\* Every step keeps the types.
LEMMA StepTypes ==
    ASSUME StateInv, AllAccounted, IsInjective(sessions), [Next]_vars
    PROVE  DataTypes'
<1>1. CASE Restore
  <2>1. life' \in [Tabs -> {"none", "running", "stopped"}]
    BY <1>1, RestoreMoves DEF StateInv, DataTypes
  <2> QED  BY <1>1, <2>1 DEF Restore, StateInv, DataTypes, appVars, bridgeVars, userVars
<1>2. CASE Extend
  <2>1. active' \in Tabs \cup {None}
    BY <1>2, ExtendAccounted
  <2> QED  BY <1>2, <2>1 DEF Extend, StateInv, DataTypes, bridgeVars, clientVars, userVars
<1>3. CASE CloseWindow
  BY <1>3 DEF CloseWindow, StateInv, DataTypes, appVars, bridgeVars, clientVars, userVars
<1>4. CASE Clear
  BY <1>4 DEF Clear, StateInv, DataTypes, bridgeVars, clientVars, userVars
<1>5. CASE StopAll
  BY <1>5, StoppedTypes DEF StopAll, StateInv, DataTypes, appVars, bridgeVars, userVars
<1>6. CASE Silence
  <2>1. UNCHANGED <<appVars, waiting, clientVars, userVars, screen, window>>
    BY <1>6 DEF Silence
  <2>2. /\ decision' \in [Requests -> Behavior \cup {"none"}]
        /\ \A q \in Requests : decision'[q] # "none" => q \in waiting
    BY <1>6 DEF Silence, StateInv, DataTypes, Behavior
  <2> QED  BY <2>1, <2>2 DEF StateInv, DataTypes, appVars, clientVars, userVars
<1>7. CASE UNCHANGED vars
  BY <1>7 DEF vars, StateInv, DataTypes, appVars, bridgeVars, clientVars, userVars
<1> QED  BY <1>1, <1>2, <1>3, <1>4, <1>5, <1>6, <1>7, PushesTypes, UserTypes, CallTypes, CallActive, RequestTypes DEF Next

-----------------------------------------------------------------------------
(* The invariant, and what follows from it.                                *)

GuiTabsInv ==
    /\ DataTypes /\ ThreadsInv
    /\ sessions \in Seq(Tabs) /\ IsInjective(sessions)
    /\ AllowClicked
    /\ AllAccounted

\* At the start the strip is empty, and only the thread of the start is at work.
LEMMA InitInv ==
    ASSUME Init
    PROVE  GuiTabsInv
<1>1. DataTypes
  BY GuiTabsAssumption DEF Init, DataTypes
<1>2. sessions \in Seq(Tabs) /\ IsInjective(sessions) /\ ToSet(sessions) = {}
  BY DEF Init, IsInjective, ToSet
<1>3. \A th \in Threads : todo[th] = IF th = Boot THEN <<"restore">> ELSE <<>>
  BY DEF Init
<1>4. \A th \in Threads : todo[th] \in Programs(th)
  BY <1>3 DEF Programs, BootPrograms, CloserPrograms, HandlerPrograms, CallPrograms
<1>5. ThreadTypes
  <2>1. \A th \in Threads : todo[th] \in Seq(Step)
    BY <1>4, ProgramsAreSteps
  <2>2. todo = [th \in Threads |-> todo[th]]
    BY DEF Init
  <2> QED  BY <2>1, <2>2 DEF Init, ThreadTypes
<1>6. \A th \in Threads, s \in Telling \cup Step : At(th, s) => th = Boot /\ s = "restore"
  BY <1>3 DEF At
<1>7. ThreadsFit
  <2>1. \A th \in Threads : todo[th] # <<>> => Head(todo[th]) = "restore"
    BY <1>3
  <2>2. \A th \in Threads : Fits(th, "restore", held[th], about[th])
    BY DEF Fits, Behavior
  <2> QED  BY <1>4, <2>1, <2>2 DEF ThreadsFit
<1>8. ClosedOnce
  BY <1>3, GuiTabsAssumption DEF ClosedOnce, Threads
<1>9. /\ Calls \subseteq Threads /\ Boot \in Threads /\ Closer \in Threads /\ Boot # Closer
      /\ \A o \in Calls : o # Boot
  BY GuiTabsAssumption DEF Threads
<1>10. \A th \in Calls : ~At(th, "append") /\ ~At(th, "release") /\ ~At(th, "stop") /\ ~At(th, "allow")
  BY <1>6, <1>9 DEF Telling
<1>11. ~At(Boot, "extend") /\ ~At(Closer, "stop_all")
  BY <1>6, <1>9 DEF Telling
<1>12. AllowClicked
  BY <1>10 DEF Init, AllowClicked
<1>13. \A t \in Tabs : life[t] = "none"
  BY DEF Init
<1>14. AllAccounted
  <2>1. \A t \in Tabs : Accounted(t)
    BY <1>2, <1>10, <1>11, <1>13 DEF Accounted, Open, Opened, Restored, Closed, Cleared
  <2>2. OpenedOnce /\ NotRestoredYet
    BY <1>10, <1>13 DEF OpenedOnce, NotRestoredYet, Tabs
  <2> QED  BY <2>1, <2>2 DEF AllAccounted
<1> QED  BY <1>1, <1>2, <1>5, <1>7, <1>8, <1>12, <1>14 DEF GuiTabsInv, ThreadsInv

\* Every step of Next, or a step of something else, keeps the invariant.
LEMMA StepInv ==
    ASSUME GuiTabsInv, [Next]_vars
    PROVE  GuiTabsInv'
<1>1. StateInv /\ AllowClicked /\ AllAccounted /\ IsInjective(sessions)
  BY DEF GuiTabsInv, StateInv
<1>2. AllAccounted' /\ IsInjective(sessions') /\ sessions' \in Seq(Tabs)
  BY <1>1, StepAccounted
<1>3. AllowClicked'
  BY <1>1, StepAllow
<1>4. DataTypes'
  BY <1>1, StepTypes
<1>5. ThreadsInv'
  <2>1. CASE UNCHANGED vars
    BY <1>1, <2>1, NobodyMoves DEF vars, StateInv
  <2>2. ASSUME NEW th \in Calls, User(th)
        PROVE  ThreadsInv'
    <3>1. screen.banner \in Requests \cup {None}
      BY <1>1 DEF StateInv, DataTypes
    <3> QED  BY <1>1, <2>2, <3>1, UserOpensMoves, UserSwitchesStill, UserAnswersMoves DEF User, StateInv
  <2>3. ASSUME NEW th \in Calls, Call(th)
        PROVE  ThreadsInv'
    <3>1. CASE CloseSession(th)
      <4>1. th \in Threads /\ At(th, "remove") /\ window' = window
        BY <3>1 DEF CloseSession, Threads
      <4>2. CASE GoOn(th, <<>>, None)
        BY <1>1, <4>1, <4>2, DoneStill DEF At, Telling, StateInv
      <4>3. CASE GoOn(th, <<"release", "stop">> \o PushTabs \o <<"replay">>, [request |-> pending[about[th]]])
        BY <1>1, <4>1, <4>3, CloseSessionMoves DEF StateInv, DataTypes
      <4> QED  BY <3>1, <4>2, <4>3 DEF CloseSession
    <3>2. CASE OpenSession(th) \/ SwitchTo(th) \/ Unbadge(th)
      BY <1>1, <3>2, OpenSessionMoves, SwitchToStill, UnbadgeStill DEF StateInv
    <3>3. CASE Release(th) \/ Stop(th) \/ \E choice \in Behavior : ResolvePermission(th, choice)
      BY <1>1, <3>3, ReleaseMoves, StopMoves, ResolvePermissionMoves DEF StateInv
    <3> QED  BY <2>3, <3>1, <3>2, <3>3 DEF Call
  <2>4. ASSUME NEW r \in Requests, Handler(r) \/ GiveUp(r) \/ \E t \in Tabs : Ask(r, t)
        PROVE  ThreadsInv'
    BY <1>1, <2>4, HandlerStill, NobodyMoves, AskStill DEF GiveUp, StateInv
  <2>5. ASSUME NEW th \in Threads, Pushes(th)
        PROVE  ThreadsInv'
    BY <1>1, <2>5, PushesStill DEF StateInv, DataTypes
  <2>6. CASE Restore \/ Extend \/ CloseWindow \/ Clear \/ StopAll \/ Silence
    BY <1>1, <2>6, RestoreMoves, ExtendMoves, CloseWindowStill, ClearMoves, StopAllMoves, SilenceStill DEF StateInv
  <2> QED  BY <2>1, <2>2, <2>3, <2>4, <2>5, <2>6 DEF Next
<1> QED  BY <1>2, <1>3, <1>4, <1>5 DEF GuiTabsInv

\* Whatever the user, the requests and the threads do, the invariant holds.
THEOREM GuiTabsInvariant == Spec => []GuiTabsInv
BY InitInv, StepInv, PTL DEF Spec

\* Every variable of App, of the bridge, of the page and of the threads keeps
\* its type; no tab is in the strip twice, no decision is kept for a request
\* that the bridge has let go.
THEOREM GuiTabsTypes == Spec => []TypeOK
<1>1. GuiTabsInv => TypeOK
  BY DEF GuiTabsInv, DataTypes, ThreadsInv, ThreadTypes, TypeOK
<1> QED  BY <1>1, GuiTabsInvariant, PTL

\* A call runs only if the user allowed that very call, however many prompts
\* are open, replayed, replaced or stale, and whichever thread comes first.
THEOREM RunsOnlyIfAllowed == Spec => []AllowedByTheUser
<1>1. GuiTabsInv => AllowedByTheUser
  BY DEF GuiTabsInv, AllowClicked, AllowedByTheUser
<1> QED  BY <1>1, GuiTabsInvariant, PTL

\* No claude outlives its tab, and no tab is left without its claude, once the
\* calls, the start and the end are through.
THEOREM NoClaudeWithoutTab == Spec => []NoOrphans
<1>1. GuiTabsInv => NoOrphans
  <2> SUFFICES ASSUME GuiTabsInv, Settled
               PROVE  {t \in Tabs : life[t] = "running"} = ToSet(sessions)
    BY DEF NoOrphans
  <2>1. \A th \in Calls \cup {Boot, Closer} : todo[th] = <<>>
    BY GuiTabsAssumption DEF Settled, Threads
  <2>2. \A t \in Tabs : ~Opened(t) /\ ~Restored(t) /\ ~Closed(t) /\ ~Cleared(t)
    BY <2>1 DEF Opened, Restored, Closed, Cleared, At
  <2>3. \A t \in Tabs : life[t] = "running" <=> t \in ToSet(sessions)
    BY <2>2 DEF GuiTabsInv, AllAccounted, Accounted, Open
  <2>4. ToSet(sessions) \subseteq Tabs
    BY DEF GuiTabsInv, ToSet
  <2> QED  BY <2>3, <2>4
<1> QED  BY <1>1, GuiTabsInvariant, PTL

-----------------------------------------------------------------------------
(* A call that waits for the tab on screen is on screen, or a thread that  *)
(* is still at work will show it.  Every thread that can take its banner   *)
(* away, or make its tab the one on screen, replays the prompt later; the  *)
(* pushes of an open do not, and what they passed over is excepted.        *)

\* The prompt has been stored: page and calls can know of the request.
Known(r) == client[r] # "none" /\ ~At(r, "register")
Stored(r) == At(r, "strip") \/ At(r, "show") \/ At(r, "wait")
Blocked(r) == client[r] = "asking" /\ decision[r] = "none"
Answering(th) == At(th, "allow") \/ At(th, "deny")

ReplayPrograms ==
    {Closing, <<"stop", "active", "strip", "replay">>,
     <<"active", "strip", "replay">>, <<"strip", "replay">>, <<"replay">>}

\* A claude asks when the start is through and its tab is there; the bridge
\* tracks a request from its registration to its reply.
RequestsFit ==
    \A r \in Requests :
        /\ client[r] = "none" => owner[r] = None /\ todo[r] = <<>>
        /\ client[r] = "asking" =>
            /\ owner[r] \in Tabs /\ life[owner[r]] # "none" /\ ~Opened(owner[r])
            /\ todo[r] # <<>> /\ todo[Boot] = <<>>
        /\ r \in waiting <=> At(r, "store") \/ Stored(r)

\* Nobody shows or answers a request before its handler has stored it.
PendingKnown == \A t \in Tabs : pending[t] # None => Known(pending[t]) /\ owner[pending[t]] = t
BannerKnown == screen.banner # None => Known(screen.banner)
CallsKnow ==
    \A th \in Calls :
        /\ At(th, "show") => Known(held[th].request)
        /\ Answering(th) \/ At(th, "unbadge") => Known(about[th])

\* Once the badge is cleared the answer is with the bridge.
AnswersCount == \A th \in Calls : At(th, "unbadge") => ~Blocked(about[th])

\* One call of a claude is asked at a time, and no thread shows an older one.
OneAsks ==
    \A r, q \in Requests : client[r] = "asking" /\ q # r /\ owner[q] = owner[r] =>
        /\ client[q] # "asking" /\ todo[q] = <<>>
        /\ \A th \in Calls :
            /\ At(th, "show") => held[th].request # q
            /\ At(th, "replay") \/ At(th, "prompt") => pending[owner[r]] # q

ActiveOpen == active # None => Open(active)

\* The prompt of a blocked call stays stored for its tab.
PendingKept ==
    window => \A r \in Requests : Blocked(r) /\ Stored(r) /\ Open(owner[r]) => pending[owner[r]] = r

\* A thread will show the prompt, or is taking the answer to the bridge.
Coming(r) ==
    \E th \in Calls :
        \/ todo[th] \in ReplayPrograms
        \/ At(th, "prompt") /\ held[th] = [tab |-> owner[r]]
        \/ At(th, "show") /\ held[th] = [request |-> r]
        \/ Answering(th) /\ about[th] = r

OnScreen(r) == screen.banner = r \/ screen.active # owner[r] \/ active # owner[r] \/ Coming(r)

BlockedOnScreen ==
    window => \A r \in Requests \ screen.passed : Blocked(r) /\ At(r, "wait") => OnScreen(r)

ShownInv ==
    /\ RequestsFit /\ PendingKnown /\ BannerKnown /\ CallsKnow /\ AnswersCount
    /\ OneAsks /\ ActiveOpen /\ PendingKept /\ BlockedOnScreen

-----------------------------------------------------------------------------

(* The threads of the page, one step on.                                   *)

\* Which programs end in a replay.
LEMMA ReplayTails ==
    ASSUME NEW p \in CallPrograms, p # <<>>
    PROVE  /\ p \in ReplayPrograms => p = <<"replay">> \/ Tail(p) \in ReplayPrograms
           /\ Head(p) \in {"release", "stop", "replay"} => p \in ReplayPrograms
           /\ p \in ReplayPrograms => Head(p) \in {"release", "stop", "active", "strip", "replay"}
           /\ Tail(p) # <<>> /\ Head(Tail(p)) = "replay" => Head(p) = "strip"
           /\ Head(p) = "active" /\ p \notin ReplayPrograms => p = <<"active", "strip">>
           /\ Tail(p) = <<>> \/ Head(Tail(p)) \notin {"append", "allow", "deny", "show", "prompt"}
<1>1. CASE p = <<"append">>
  BY <1>1, TupleTails DEF ReplayPrograms, Closing
<1>2. CASE p = <<"select">>
  BY <1>2, TupleTails DEF ReplayPrograms, Closing
<1>3. CASE p = <<"remove">>
  BY <1>3, TupleTails DEF ReplayPrograms, Closing
<1>4. CASE p = <<"release", "stop", "active", "strip", "replay">>
  BY <1>4, TupleTails DEF ReplayPrograms, Closing
<1>5. CASE p = <<"stop", "active", "strip", "replay">>
  BY <1>5, TupleTails DEF ReplayPrograms, Closing
<1>6. CASE p = <<"active", "strip", "replay">>
  BY <1>6, TupleTails DEF ReplayPrograms, Closing
<1>7. CASE p = <<"strip", "replay">>
  BY <1>7, TupleTails DEF ReplayPrograms, Closing
<1>8. CASE p = <<"replay">>
  BY <1>8, TupleTails DEF ReplayPrograms, Closing
<1>9. CASE p = <<"prompt">>
  BY <1>9, TupleTails DEF ReplayPrograms, Closing
<1>10. CASE p = <<"show">>
  BY <1>10, TupleTails DEF ReplayPrograms, Closing
<1>11. CASE p = <<"active", "strip">>
  BY <1>11, TupleTails DEF ReplayPrograms, Closing
<1>12. CASE p = <<"strip">>
  BY <1>12, TupleTails DEF ReplayPrograms, Closing
<1>13. CASE p = <<"allow", "unbadge">>
  BY <1>13, TupleTails DEF ReplayPrograms, Closing
<1>14. CASE p = <<"deny", "unbadge">>
  BY <1>14, TupleTails DEF ReplayPrograms, Closing
<1>15. CASE p = <<"unbadge">>
  BY <1>15, TupleTails DEF ReplayPrograms, Closing
<1> QED  BY <1>1, <1>2, <1>3, <1>4, <1>5, <1>6, <1>7, <1>8, <1>9, <1>10, <1>11, <1>12, <1>13, <1>14, <1>15 DEF CallPrograms

\* How a call goes on: with p, holding holds.
CallTurn(th, p, holds) ==
    /\ Moved(th, p, holds, about[th]) /\ todo[th] # <<>>
    /\ p # <<>> =>
        /\ Head(p) \notin {"append", "allow", "deny"}
        /\ Head(p) = "unbadge" => Answering(th)
        /\ Head(p) = "replay" => At(th, "strip")
        /\ Head(p) = "prompt" => At(th, "replay") /\ active # None /\ holds = [tab |-> active]
        /\ Head(p) = "show" => \E t \in Tabs :
            /\ At(th, "prompt") /\ held[th] = [tab |-> t]
            /\ pending[t] # None /\ holds = [request |-> pending[t]]
    /\ todo[th] \in ReplayPrograms => p \in ReplayPrograms \/ At(th, "replay")
    /\ At(th, "replay") => active = None \/ (p = <<"prompt">> /\ holds = [tab |-> active])
    /\ \A t \in Tabs : At(th, "prompt") /\ held[th] = [tab |-> t] =>
        pending[t] = None \/ (p = <<"show">> /\ holds = [request |-> pending[t]])

\* A call that takes its step off the list goes on with the rest.
LEMMA RestTurns ==
    ASSUME ThreadsInv, NEW th \in Calls, todo[th] # <<>>, Moved(th, Rest(th), None, about[th]),
           ~At(th, "replay"), ~At(th, "prompt")
    PROVE  CallTurn(th, Rest(th), None)
<1>1. PICK q \in CallPrograms : q = todo[th] /\ q # <<>> /\ Tail(q) = Rest(th)
  BY Kinds DEF ThreadsInv, ThreadsFit, Threads, Rest
<1>2. /\ Tail(q) = <<>> \/ Head(Tail(q)) \notin {"append", "allow", "deny", "show", "prompt"}
      /\ Tail(q) # <<>> /\ Head(Tail(q)) = "replay" => Head(q) = "strip"
      /\ q \in ReplayPrograms => q = <<"replay">> \/ Tail(q) \in ReplayPrograms
  BY <1>1, ReplayTails
<1>3. Tail(q) # <<>> /\ Head(Tail(q)) = "unbadge" => Head(q) \in Behavior
  BY <1>1, CallTails
<1>4. Head(<<"replay">>) = "replay"
  OBVIOUS
<1> QED  BY <1>1, <1>2, <1>3, <1>4 DEF CallTurn, At, Answering, Behavior

\* Every step of a call.
LEMMA CallTurns ==
    ASSUME StateInv, NEW th \in Calls, Pushes(th) \/ Call(th)
    PROVE  \E p, holds :
            /\ CallTurn(th, p, holds)
            /\ active' # active => p \in ReplayPrograms \/ At(th, "append")
<1>1. th \in Threads /\ active \in Tabs \cup {None} /\ pending \in [Tabs -> Requests \cup {None}] /\ ThreadsInv
  BY DEF Threads, StateInv, DataTypes
<1>2. todo[th] \in CallPrograms
  BY <1>1, Kinds DEF ThreadsInv, ThreadsFit
<1>3. \A s \in {"append", "select", "remove", "unbadge", "prompt"} : At(th, s) => todo[th] \notin ReplayPrograms
  BY <1>2, ReplayTails DEF At
<1>4. CASE ReadActive(th)
  <2>1. Moved(th, todo[th], [tab |-> active], about[th]) /\ At(th, "active") /\ active' = active
    BY <1>1, <1>4, ReadActiveMoves DEF ReadActive, appVars
  <2>2. CallTurn(th, todo[th], [tab |-> active])
    BY <2>1 DEF CallTurn, At
  <2> QED  BY <2>1, <2>2
<1>5. CASE ShowActive(th) \/ PushSessions(th) \/ ShowPrompt(th)
  <2>1. Moved(th, Rest(th), None, about[th]) /\ active' = active
    BY <1>1, <1>5, ShowMoves DEF ShowActive, PushSessions, ShowPrompt, appVars
  <2>2. todo[th] # <<>> /\ Head(todo[th]) \in {"active", "strip", "show"}
    BY <1>5 DEF ShowActive, PushSessions, ShowPrompt, At
  <2> QED  BY <1>1, <2>1, <2>2, RestTurns DEF At
<1>6. CASE ReadReplay(th)
  <2>1. At(th, "replay") /\ active' = active
    BY <1>6 DEF ReadReplay, appVars
  <2>2. CASE active = None /\ Moved(th, <<>>, None, about[th])
    <3>1. CallTurn(th, <<>>, None)
      BY <2>1, <2>2 DEF CallTurn, At
    <3> QED  BY <2>1, <3>1
  <2>3. CASE active # None /\ Moved(th, <<"prompt">>, [tab |-> active], about[th])
    <3>1. Head(<<"prompt">>) = "prompt"
      OBVIOUS
    <3>2. CallTurn(th, <<"prompt">>, [tab |-> active])
      BY <2>1, <2>3, <3>1 DEF CallTurn, At
    <3> QED  BY <2>1, <3>2
  <2> QED  BY <1>1, <1>6, <2>2, <2>3, ReadReplayMoves
<1>7. CASE ReadPrompt(th)
  <2>1. At(th, "prompt") /\ active' = active
    BY <1>7 DEF ReadPrompt, appVars
  <2>2. PICK t \in Tabs :
          /\ held[th] = [tab |-> t]
          /\ \/ pending[t] = None /\ Moved(th, <<>>, None, about[th])
             \/ pending[t] # None /\ Moved(th, <<"show">>, [request |-> pending[t]], about[th])
    BY <1>1, <1>7, ReadPromptMoves
  <2>3. \A x : held[th] = [tab |-> x] => x = t
    <3>1. held[th].tab = t
      BY <2>2
    <3> QED  BY <2>2, <3>1
  <2>4. CASE pending[t] = None /\ Moved(th, <<>>, None, about[th])
    <3>1. CallTurn(th, <<>>, None)
      BY <1>3, <2>1, <2>3, <2>4 DEF CallTurn, At
    <3> QED  BY <2>1, <3>1
  <2>5. CASE pending[t] # None /\ Moved(th, <<"show">>, [request |-> pending[t]], about[th])
    <3>1. Head(<<"show">>) = "show"
      OBVIOUS
    <3>2. CallTurn(th, <<"show">>, [request |-> pending[t]])
      BY <1>3, <2>1, <2>2, <2>3, <2>5, <3>1 DEF CallTurn, At
    <3> QED  BY <2>1, <3>2
  <2> QED  BY <2>2, <2>4, <2>5
<1>8. CASE OpenSession(th)
  <2>1. Moved(th, PushTabs, None, about[th]) /\ Head(PushTabs) = "active" /\ At(th, "append")
    BY <1>1, <1>8, OpenSessionMoves DEF OpenSession
  <2>2. CallTurn(th, PushTabs, None)
    BY <1>3, <2>1 DEF CallTurn, At
  <2> QED  BY <2>1, <2>2
<1>9. ASSUME NEW p \in ReplayPrograms, NEW holds, Moved(th, p, holds, about[th]),
             Head(p) \in {"active", "release"}, At(th, "select") \/ At(th, "remove")
      PROVE  CallTurn(th, p, holds) /\ p \in ReplayPrograms
  BY <1>9 DEF CallTurn, At
<1>10. ASSUME NEW holds, Moved(th, <<>>, holds, about[th]), NEW s \in {"select", "remove", "unbadge"}, At(th, s)
       PROVE  CallTurn(th, <<>>, holds)
  BY <1>3, <1>10 DEF CallTurn, At
<1>11. CASE SwitchTo(th)
  <2>1. At(th, "select")
    BY <1>11 DEF SwitchTo
  <2>2. <<"active", "strip", "replay">> \in ReplayPrograms /\ Head(<<"active", "strip", "replay">>) = "active"
    BY TupleTails DEF ReplayPrograms
  <2> QED  BY <1>1, <1>9, <1>10, <1>11, <2>1, <2>2, SwitchToStill
<1>12. CASE CloseSession(th)
  <2>1. At(th, "remove") /\ window' = window
    BY <1>12 DEF CloseSession
  <2>2. CASE UNCHANGED appVars /\ GoOn(th, <<>>, None)
    <3>1. Moved(th, <<>>, None, about[th]) /\ active' = active
      BY <1>1, <2>1, <2>2, DoneStill DEF At, Telling, appVars
    <3> QED  BY <1>10, <2>1, <3>1
  <2>3. CASE GoOn(th, <<"release", "stop">> \o PushTabs \o <<"replay">>, [request |-> pending[about[th]]])
    <3>1. Moved(th, Closing, [request |-> pending[about[th]]], about[th]) /\ Head(Closing) = "release"
      BY <1>1, <2>1, <2>3, CloseSessionMoves
    <3>2. Closing \in ReplayPrograms
      BY DEF ReplayPrograms
    <3> QED  BY <1>9, <2>1, <3>1, <3>2
  <2> QED  BY <1>12, <2>2, <2>3 DEF CloseSession
<1>13. CASE Release(th) \/ Stop(th) \/ \E choice \in Behavior : ResolvePermission(th, choice)
  <2>1. Moved(th, Rest(th), None, about[th])
    BY <1>1, <1>13, ReleaseMoves, StopMoves, ResolvePermissionMoves
  <2>2. todo[th] # <<>> /\ Head(todo[th]) \in {"release", "stop", "allow", "deny"} /\ active' = active
    BY <1>13 DEF Release, Stop, ResolvePermission, At, Behavior, appVars
  <2> QED  BY <1>1, <2>1, <2>2, RestTurns DEF At
<1>14. CASE Unbadge(th)
  <2>1. At(th, "unbadge") /\ active' = active
    BY <1>14 DEF Unbadge
  <2>2. CASE Moved(th, <<"strip">>, None, about[th])
    <3>1. Head(<<"strip">>) = "strip"
      OBVIOUS
    <3>2. CallTurn(th, <<"strip">>, None)
      BY <1>3, <2>1, <2>2, <3>1 DEF CallTurn, At
    <3> QED  BY <2>1, <3>2
  <2> QED  BY <1>1, <1>10, <1>14, <2>1, <2>2, UnbadgeStill
<1> QED  BY <1>4, <1>5, <1>6, <1>7, <1>8, <1>11, <1>12, <1>13, <1>14 DEF Pushes, Call

\* What the calls, the clicks and the end leave as it is, or only take away.
CallData ==
    /\ UNCHANGED <<owner, waiting>> /\ (window' => window)
    /\ \A r \in Requests : client'[r] = client[r] \/ (client[r] = "asking" /\ client'[r] = "gone")
    /\ \A r \in Requests : decision'[r] = decision[r] \/ decision'[r] # "none"
    /\ \A t \in Tabs : life[t] # "none" => life'[t] # "none"
    /\ \A t \in Tabs : pending'[t] = pending[t] \/ pending'[t] = None

\* No call and no click answers a request but by a decision of the bridge.
LEMMA CallDataKept ==
    ASSUME StateInv, NEW th \in Calls, Pushes(th) \/ Call(th) \/ User(th)
    PROVE  CallData
<1>1. /\ pending \in [Tabs -> Requests \cup {None}]
      /\ decision \in [Requests -> Behavior \cup {"none"}]
      /\ client \in [Requests -> {"none", "asking", "allowed", "denied", "gone"}]
      /\ life \in [Tabs -> {"none", "running", "stopped"}]
  BY DEF StateInv, DataTypes
<1>2. CASE Pushes(th)
  <2>1. UNCHANGED <<bridgeVars, clientVars, window>>
    BY <1>2 DEF Pushes, ReadActive, ShowActive, PushSessions, ReadReplay, ReadPrompt, ShowPrompt
  <2>2. \A t \in Tabs : pending'[t] = pending[t] \/ pending'[t] = None
    BY <1>2 DEF Pushes, ReadActive, ShowActive, PushSessions, ReadReplay, ReadPrompt, ShowPrompt, appVars
  <2> QED  BY <2>1, <2>2 DEF CallData, bridgeVars, clientVars
<1>3. CASE User(th)
  <2>1. UNCHANGED <<pending, bridgeVars, owner, client, window>>
    BY <1>3 DEF User, UserOpens, UserSwitches, UserCloses, UserAnswers, Called, appVars
  <2>2. \A t \in Tabs : life[t] # "none" => life'[t] # "none"
    BY <1>1, <1>3 DEF User, UserOpens, UserSwitches, UserCloses, UserAnswers
  <2> QED  BY <2>1, <2>2 DEF CallData, bridgeVars
<1>4. CASE OpenSession(th) \/ SwitchTo(th) \/ CloseSession(th) \/ Unbadge(th)
  <2>1. UNCHANGED <<bridgeVars, clientVars, window>>
    BY <1>4 DEF OpenSession, SwitchTo, CloseSession, Unbadge
  <2>2. \A t \in Tabs : pending'[t] = pending[t] \/ pending'[t] = None
    BY <1>1, <1>4 DEF OpenSession, SwitchTo, CloseSession, Unbadge, appVars
  <2> QED  BY <2>1, <2>2 DEF CallData, bridgeVars, clientVars
<1>5. ASSUME NEW r, NEW choice \in Behavior, decision' = Resolved(r, choice),
             UNCHANGED <<appVars, waiting, clientVars, window>>
      PROVE  CallData
  <2>1. choice # "none"
    BY DEF Behavior
  <2>2. \A q \in Requests : decision'[q] = decision[q] \/ decision'[q] # "none"
    BY <1>1, <1>5, <2>1 DEF Resolved
  <2> QED  BY <1>5, <2>2 DEF CallData, appVars, clientVars
<1>6. CASE Release(th)
  BY <1>5, <1>6 DEF Release, Behavior
<1>7. CASE \E choice \in Behavior : ResolvePermission(th, choice)
  BY <1>5, <1>7 DEF ResolvePermission
<1>8. CASE Stop(th)
  <2>1. UNCHANGED <<appVars, bridgeVars, window>> /\ Stopped({about[th]})
    BY <1>8 DEF Stop
  <2> QED  BY <1>1, <2>1 DEF CallData, Stopped, appVars, bridgeVars
<1> QED  BY <1>2, <1>3, <1>4, <1>6, <1>7, <1>8 DEF Call

\* What a move of one call, or of the end, leaves of the others.
LEMMA OthersAre ==
    ASSUME NEW th \in Calls \cup {Closer}, NEW p, NEW holds, NEW subject, Moved(th, p, holds, subject)
    PROVE  /\ \A o \in Threads \ {th} :
                /\ todo'[o] = todo[o] /\ about'[o] = about[o] /\ held'[o] = held[o]
                /\ \A s : At(o, s)' <=> At(o, s)
           /\ \A s : At(th, s)' <=> p # <<>> /\ Head(p) = s
           /\ p # <<>> => about'[th] = subject
           /\ held'[th] = holds /\ todo'[th] = p
           /\ \A r \in Requests : r \in Threads \ {th}
           /\ Boot \in Threads \ {th} /\ th \in Threads /\ Calls \subseteq Threads
BY GuiTabsAssumption DEF Moved, At, Threads

\* The requests fit as before.
LEMMA RequestsFitKept ==
    ASSUME StateInv, RequestsFit, NEW th \in Calls \cup {Closer}, NEW p, NEW holds, NEW subject,
           Moved(th, p, holds, subject), CallData,
           th = Closer \/ p = <<>> \/ Head(p) # "append" \/ (subject \in Tabs /\ life[subject] = "none")
    PROVE  RequestsFit'
<1>1. /\ \A r \in Requests : todo'[r] = todo[r] /\ \A s : At(r, s)' <=> At(r, s)
      /\ todo'[Boot] = todo[Boot]
  BY OthersAre
<1>2. \A t \in Tabs : Opened(t)' => Opened(t) \/ life[t] = "none"
  <2>1. \A o \in Calls \ {th}, s \in {"append"} : (At(o, s)' <=> At(o, s)) /\ about'[o] = about[o]
    BY OthersAre
  <2>2. th \in Calls => th # Closer
    BY Kinds DEF Threads
  <2>3. th \in Calls /\ At(th, "append")' => about'[th] \in Tabs /\ life[about'[th]] = "none"
    BY <2>2, OthersAre
  <2> QED  BY <2>1, <2>3 DEF Opened
<1> SUFFICES ASSUME NEW r \in Requests
             PROVE  /\ client'[r] = "none" => owner'[r] = None /\ todo'[r] = <<>>
                    /\ client'[r] = "asking" =>
                        /\ owner'[r] \in Tabs /\ life'[owner'[r]] # "none" /\ ~Opened(owner[r])'
                        /\ todo'[r] # <<>> /\ todo'[Boot] = <<>>
                    /\ r \in waiting' <=> At(r, "store")' \/ Stored(r)'
  BY DEF RequestsFit
<1>3. client'[r] = client[r] \/ (client[r] = "asking" /\ client'[r] = "gone")
  BY DEF CallData
<1>4. owner' = owner /\ waiting' = waiting
  BY DEF CallData
<1>5. Stored(r)' <=> Stored(r)
  BY <1>1 DEF Stored
<1>6. ASSUME client'[r] = "asking"
      PROVE  /\ owner'[r] \in Tabs /\ life'[owner'[r]] # "none" /\ ~Opened(owner[r])'
             /\ todo'[r] # <<>> /\ todo'[Boot] = <<>>
  <2>1. /\ owner[r] \in Tabs /\ life[owner[r]] # "none" /\ ~Opened(owner[r])
        /\ todo[r] # <<>> /\ todo[Boot] = <<>>
    BY <1>3, <1>6 DEF RequestsFit
  <2>2. PICK t \in Tabs : t = owner[r]
    BY <2>1
  <2>3. ~Opened(t)'
    BY <1>2, <2>1, <2>2
  <2>4. ~Opened(owner[r])'
    BY <1>4, <2>2, <2>3 DEF Opened
  <2> QED  BY <1>1, <1>4, <2>1, <2>2, <2>4 DEF CallData
<1> QED  BY <1>1, <1>3, <1>4, <1>5, <1>6 DEF RequestsFit

\* A call that rests knows what it knew.
LEMMA OneKnows ==
    ASSUME StateInv, CallsKnow, \A r \in Requests : Known(r) => Known(r)',
           NEW o \in Calls, todo'[o] = todo[o], about'[o] = about[o], held'[o] = held[o]
    PROVE  /\ At(o, "show")' => Known(held[o].request)'
           /\ Answering(o)' \/ At(o, "unbadge")' => Known(about[o])'
<1>1. \A s : At(o, s)' <=> At(o, s)
  BY DEF At
<1>2. ASSUME At(o, "show")
      PROVE  Known(held[o].request)'
  <2>1. PICK r \in Requests : held[o] = [request |-> r]
    BY <1>2, Kinds DEF StateInv, ThreadsInv, ThreadsFit, Fits, At, Threads
  <2>2. held[o].request = r /\ held'[o].request = r
    BY <2>1
  <2>3. Known(r)'
    BY <1>2, <2>2 DEF CallsKnow
  <2> QED  BY <2>2, <2>3 DEF Known, At
<1>3. ASSUME Answering(o) \/ At(o, "unbadge")
      PROVE  Known(about[o])'
  <2>1. PICK r \in Requests : about[o] = r
    BY <1>3, Kinds DEF StateInv, ThreadsInv, ThreadsFit, Fits, At, Threads, Answering, Behavior
  <2>2. Known(r)'
    BY <1>3, <2>1 DEF CallsKnow
  <2> QED  BY <2>1, <2>2 DEF Known, At
<1> QED  BY <1>1, <1>2, <1>3 DEF Answering

\* A call comes to know of a request by reading its prompt.
LEMMA CallsKnowKept ==
    ASSUME StateInv, RequestsFit, PendingKnown, CallsKnow,
           NEW th \in Calls, NEW p, NEW holds, CallTurn(th, p, holds), CallData
    PROVE  PendingKnown' /\ CallsKnow' /\ \A r \in Requests : Known(r) => Known(r)'
<1>1. Moved(th, p, holds, about[th])
  BY DEF CallTurn
<1>2. \A r \in Requests : Known(r) => Known(r)'
  BY <1>1, OthersAre DEF Known, CallData
<1>3. pending \in [Tabs -> Requests \cup {None}] /\ None \notin Requests
  BY GuiTabsAssumption DEF StateInv, DataTypes, Threads
<1>4. PendingKnown'
  BY <1>2, <1>3 DEF PendingKnown, CallData
<1>5. ASSUME NEW o \in Calls
      PROVE  /\ At(o, "show")' => Known(held[o].request)'
             /\ Answering(o)' \/ At(o, "unbadge")' => Known(about[o])'
  <2>1. CASE o # th
    <3>1. todo'[o] = todo[o] /\ about'[o] = about[o] /\ held'[o] = held[o]
      BY <1>1, <2>1, OthersAre
    <3> QED  BY <1>2, <3>1, OneKnows
  <2>2. CASE o = th
    <3>1. ASSUME At(o, "show")'
          PROVE  Known(held[o].request)'
      <4>1. PICK t \in Tabs : pending[t] # None /\ holds = [request |-> pending[t]]
        BY ZenonT(60), <1>1, <2>2, <3>1, OthersAre DEF CallTurn
      <4>2. PICK r \in Requests : r = pending[t]
        BY <1>3, <4>1
      <4>3. Known(r)'
        BY <1>2, <4>1, <4>2 DEF PendingKnown
      <4>4. held'[o].request = r
        BY <1>1, <2>2, <4>1, <4>2, OthersAre
      <4> QED  BY <4>3, <4>4 DEF Known, At
    <3>2. ASSUME Answering(o)' \/ At(o, "unbadge")'
          PROVE  Known(about[o])'
      <4>1. Answering(o) /\ about'[o] = about[o]
        BY <1>1, <2>2, <3>2, OthersAre DEF CallTurn, Answering
      <4>2. PICK r \in Requests : about[o] = r
        BY <4>1, Kinds DEF StateInv, ThreadsInv, ThreadsFit, Fits, At, Threads, Answering, Behavior
      <4>3. Known(r)'
        BY <1>2, <4>1, <4>2 DEF CallsKnow
      <4> QED  BY <4>1, <4>2, <4>3 DEF Known, At
    <3> QED  BY <3>1, <3>2
  <2> QED  BY <2>1, <2>2
<1>6. CallsKnow'
  BY <1>5 DEF CallsKnow
<1> QED  BY <1>2, <1>4, <1>6

\* A thread comes to the badge when its answer is with the bridge.
LEMMA AnswersCountKept ==
    ASSUME StateInv, AnswersCount, NEW th \in Calls \cup {Closer}, NEW p, NEW holds, NEW subject,
           Moved(th, p, holds, subject), CallData, th \in Calls /\ At(th, "unbadge")' => ~Blocked(about[th])'
    PROVE  AnswersCount'
<1> SUFFICES ASSUME NEW o \in Calls, At(o, "unbadge")'
             PROVE  ~Blocked(about[o])'
  BY DEF AnswersCount
<1>1. CASE o = th
  BY <1>1
<1>2. CASE o # th
  <2>1. At(o, "unbadge") /\ about'[o] = about[o]
    BY <1>2, OthersAre
  <2>2. PICK r \in Requests : r = about[o]
    BY <2>1, Kinds DEF StateInv, ThreadsInv, ThreadsFit, Fits, At, Threads
  <2>3. ~Blocked(r)
    BY <2>1, <2>2 DEF AnswersCount
  <2>4. ~Blocked(r)'
    BY <2>3 DEF Blocked, CallData
  <2> QED  BY <2>1, <2>2, <2>4 DEF Blocked
<1> QED  BY <1>1, <1>2

\* A request that is through is not among those the bridge tracks.
LEMMA DoneNotWaiting ==
    ASSUME RequestsFit, NEW q \in Requests, todo[q] = <<>>
    PROVE  q \notin waiting
BY DEF RequestsFit, Stored, At

\* No thread comes to show an older call of the same claude: what it could
\* still read has been dropped by the push of the strip before.
LEMMA OneAsksKept ==
    ASSUME StateInv, RequestsFit, PendingKnown, OneAsks,
           NEW th \in Calls, NEW p, NEW holds, CallTurn(th, p, holds), CallData,
           At(th, "strip") => \A t \in Tabs : pending'[t] = None \/ pending'[t] \in waiting
    PROVE  OneAsks'
<1>1. Moved(th, p, holds, about[th]) /\ owner' = owner
  BY DEF CallTurn, CallData
<1>2. pending \in [Tabs -> Requests \cup {None}] /\ None \notin Requests
  BY GuiTabsAssumption DEF StateInv, DataTypes, Threads
<1> SUFFICES ASSUME NEW r \in Requests, NEW q \in Requests,
                    client'[r] = "asking", q # r, owner'[q] = owner'[r]
             PROVE  /\ client'[q] # "asking" /\ todo'[q] = <<>>
                    /\ \A o \in Calls :
                        /\ At(o, "show")' => held'[o].request # q
                        /\ At(o, "replay")' \/ At(o, "prompt")' => pending'[owner'[r]] # q
  BY DEF OneAsks
<1>3. client[r] = "asking" /\ owner[q] = owner[r] /\ (client'[q] = client[q] \/ client'[q] = "gone")
  BY <1>1 DEF CallData
<1>4. /\ client[q] # "asking" /\ todo[q] = <<>>
      /\ \A o \in Calls :
          /\ At(o, "show") => held[o].request # q
          /\ At(o, "replay") \/ At(o, "prompt") => pending[owner[r]] # q
  BY <1>3 DEF OneAsks
<1>5. client'[q] # "asking" /\ todo'[q] = <<>> /\ q \notin waiting
  BY <1>1, <1>3, <1>4, OthersAre, DoneNotWaiting
<1>6. PICK t \in Tabs : t = owner[r]
  BY <1>3 DEF RequestsFit
<1>7. pending'[t] = pending[t] \/ pending'[t] = None
  BY DEF CallData
<1>8. ASSUME NEW o \in Calls, o # th
      PROVE  /\ At(o, "show")' => held'[o].request # q
             /\ At(o, "replay")' \/ At(o, "prompt")' => pending'[t] # q
  <2>1. /\ \A s : At(o, s)' <=> At(o, s)
        /\ held'[o] = held[o]
    BY <1>1, <1>8, OthersAre
  <2> QED  BY <1>2, <1>4, <1>6, <1>7, <2>1
<1>9. At(th, "show")' => held'[th].request # q
  <2> SUFFICES ASSUME At(th, "show")'
               PROVE  held'[th].request # q
    OBVIOUS
  <2>1. PICK x \in Tabs :
          At(th, "prompt") /\ held[th] = [tab |-> x] /\ pending[x] # None /\ holds = [request |-> pending[x]]
    BY ZenonT(60), <1>1, OthersAre DEF CallTurn
  <2>2. held'[th].request = pending[x]
    BY <1>1, <2>1, OthersAre
  <2>3. CASE x = t
    BY <1>4, <1>6, <2>1, <2>2, <2>3
  <2>4. CASE x # t
    BY <1>3, <1>6, <2>1, <2>2, <2>4 DEF PendingKnown
  <2> QED  BY <2>3, <2>4
<1>10. At(th, "replay")' \/ At(th, "prompt")' => pending'[t] # q
  <2>1. CASE At(th, "replay")'
    <3>1. At(th, "strip")
      BY <1>1, <2>1, OthersAre DEF CallTurn
    <3> QED  BY <1>2, <1>5, <3>1
  <2>2. CASE At(th, "prompt")'
    <3>1. At(th, "replay")
      BY <1>1, <2>2, OthersAre DEF CallTurn
    <3> QED  BY <1>2, <1>4, <1>6, <1>7, <3>1
  <2> QED  BY <2>1, <2>2
<1> QED  BY <1>1, <1>5, <1>6, <1>8, <1>9, <1>10

\* The prompt of a blocked call is dropped only with its tab.
LEMMA PendingKeptKept ==
    ASSUME StateInv, RequestsFit, AnswersCount, PendingKept,
           NEW th \in Calls, NEW p, NEW holds, NEW subject, Moved(th, p, holds, subject), CallData,
           \A t \in Tabs :
            /\ \/ pending'[t] = pending[t] \/ t \notin ToSet(sessions') \/ pending[t] \notin waiting
               \/ At(th, "unbadge") /\ pending[t] = about[th]
            /\ Open(t)' => Open(t) \/ Opened(t)
    PROVE  PendingKept'
<1> SUFFICES ASSUME window', NEW r \in Requests, Blocked(r)', Stored(r)', Open(owner[r])'
             PROVE  pending'[owner'[r]] = r
  BY DEF PendingKept
<1>1. window /\ Blocked(r) /\ owner' = owner
  BY DEF CallData, Blocked
<1>2. Stored(r)
  BY OthersAre DEF Stored
<1>3. PICK t \in Tabs : t = owner[r] /\ ~Opened(t)
  BY <1>1 DEF RequestsFit, Blocked
<1>4. Open(t)'
  BY <1>1, <1>3 DEF Open
<1>5. pending[t] = r /\ r \in waiting
  BY <1>1, <1>2, <1>3, <1>4 DEF PendingKept, RequestsFit
<1>6. ~(At(th, "unbadge") /\ r = about[th])
  BY <1>1 DEF AnswersCount
<1> QED  BY <1>1, <1>3, <1>4, <1>5, <1>6 DEF Open

\* A thread that will show the prompt still will, or has shown it, or the tab
\* is not the active one.
LEMMA ComingKept ==
    ASSUME StateInv, RequestsFit, ActiveOpen, PendingKept, window,
           NEW th \in Calls, NEW p, NEW holds, CallTurn(th, p, holds),
           active' # active => p \in ReplayPrograms \/ At(th, "append"),
           NEW r \in Requests, Blocked(r), At(r, "wait"), Coming(r), owner' = owner,
           Answering(th) => about[th] # r
    PROVE  \/ Coming(r)'
           \/ active # owner[r]
           \/ At(th, "show") /\ held[th] = [request |-> r]
<1>1. /\ Moved(th, p, holds, about[th]) /\ todo[th] # <<>>
      /\ todo[th] \in ReplayPrograms => p \in ReplayPrograms \/ At(th, "replay")
  BY DEF CallTurn
<1>2. PICK t \in Tabs : t = owner[r]
  BY DEF RequestsFit, Blocked
<1>3. p \in ReplayPrograms => Coming(r)'
  BY <1>1, OthersAre DEF Coming
<1>4. PICK o \in Calls :
        \/ todo[o] \in ReplayPrograms
        \/ At(o, "prompt") /\ held[o] = [tab |-> t]
        \/ At(o, "show") /\ held[o] = [request |-> r]
        \/ Answering(o) /\ about[o] = r
  BY <1>2 DEF Coming
<1>5. CASE o # th
  <2>1. /\ todo'[o] = todo[o] /\ about'[o] = about[o] /\ held'[o] = held[o]
        /\ \A s : At(o, s)' <=> At(o, s)
    BY <1>1, <1>5, OthersAre
  <2>2. Answering(o)' <=> Answering(o)
    BY <2>1 DEF Answering
  <2> QED  BY <1>2, <1>4, <2>1, <2>2 DEF Coming
<1>6. CASE o = th /\ todo[th] \in ReplayPrograms
  <2>1. CASE At(th, "replay") /\ active = t
    <3>1. active # None
      BY <2>1, GuiTabsAssumption
    <3>2. p = <<"prompt">> /\ holds = [tab |-> t]
      BY <2>1, <3>1 DEF CallTurn
    <3>3. p # <<>> /\ Head(p) = "prompt"
      BY <3>2
    <3>4. At(th, "prompt")' /\ held'[th] = [tab |-> t]
      BY <1>1, <3>2, <3>3, OthersAre
    <3> QED  BY <1>2, <3>4 DEF Coming
  <2> QED  BY <1>1, <1>2, <1>3, <1>6, <2>1
<1>7. CASE o = th /\ At(th, "prompt") /\ held[th] = [tab |-> t] /\ active = t
  <2>1. pending[t] = r
    <3>1. Open(t)
      BY <1>7, GuiTabsAssumption DEF ActiveOpen
    <3> QED  BY <1>2, <3>1 DEF PendingKept, Stored
  <2>2. r # None
    BY GuiTabsAssumption DEF Threads
  <2>3. p = <<"show">> /\ holds = [request |-> r]
    BY <1>7, <2>1, <2>2 DEF CallTurn
  <2>4. p # <<>> /\ Head(p) = "show"
    BY <2>3
  <2>5. At(th, "show")' /\ held'[th] = [request |-> r]
    BY <1>1, <2>3, <2>4, OthersAre
  <2> QED  BY <2>5 DEF Coming
<1> QED  BY <1>2, <1>4, <1>5, <1>6, <1>7

\* What a step of a call shows, hides or makes active leaves every blocked
\* call of the tab on screen on screen, or coming.
LEMMA BlockedOnScreenKept ==
    ASSUME StateInv, ShownInv, NEW th \in Calls, NEW p, NEW holds, CallTurn(th, p, holds), CallData,
           active' # active => p \in ReplayPrograms \/ At(th, "append"),
           \A r \in Requests : active' # active /\ At(th, "append") /\ client[r] = "asking" => active' # owner[r],
           \A r \in Requests : Answering(th) /\ about[th] = r => ~Blocked(r)',
           (screen' = screen /\ ~At(th, "show")) \/ ShowActive(th) \/ ShowPrompt(th)
    PROVE  BlockedOnScreen'
<1> USE DEF ShownInv
<1> SUFFICES ASSUME window', NEW r \in Requests \ screen'.passed, Blocked(r)', At(r, "wait")'
             PROVE  OnScreen(r)'
  BY DEF BlockedOnScreen
<1>1. /\ Moved(th, p, holds, about[th]) /\ window /\ owner' = owner
      /\ Blocked(r)
  BY DEF CallTurn, CallData, Blocked
<1>2. At(r, "wait")
  BY <1>1, OthersAre
<1>3. PICK t \in Tabs : t = owner[r]
  BY <1>1 DEF RequestsFit, Blocked
<1>4. screen \in [active : Tabs \cup {None}, banner : Requests \cup {None}, passed : SUBSET Requests]
      /\ None \notin Tabs \cup Requests
  BY GuiTabsAssumption DEF StateInv, DataTypes, Threads
<1>5. p \in ReplayPrograms => Coming(r)'
  BY <1>1, OthersAre DEF Coming
<1>6. active # t => active' # t \/ Coming(r)'
  <2>1. client[r] = "asking"
    BY <1>1 DEF Blocked
  <2> QED  BY <1>3, <1>5, <2>1
<1>7. Answering(th) => about[th] # r
  OBVIOUS
<1>8. CASE screen' = screen /\ ~At(th, "show")
  <2>1. OnScreen(r)
    BY <1>1, <1>2, <1>8 DEF BlockedOnScreen
  <2>2. Coming(r) => Coming(r)' \/ active # t
    BY <1>1, <1>2, <1>3, <1>7, <1>8, ComingKept
  <2> QED  BY <1>1, <1>3, <1>6, <1>8, <2>1, <2>2 DEF OnScreen
<1>9. CASE ShowActive(th)
  <2>1. At(th, "active") /\ held[th] # None /\ active' = active
        /\ screen' = [active |-> held[th].tab,
                      banner |-> IF screen.active \in {None, held[th].tab} THEN screen.banner ELSE None,
                      passed |-> screen.passed \cup PassedOver(th)]
    BY <1>1, <1>9 DEF ShowActive, appVars
  <2>2. screen'.active = held[th].tab /\ screen'.passed = screen.passed \cup PassedOver(th)
        /\ screen'.banner = IF screen.active \in {None, held[th].tab} THEN screen.banner ELSE None
    BY <2>1
  <2>3. r \notin screen.passed /\ r \notin PassedOver(th)
    BY <2>2
  <2>4. CASE held[th].tab # t
    BY <1>1, <1>3, <2>2, <2>4 DEF OnScreen
  <2>5. CASE held[th].tab = t /\ screen.active = t
    <3>1. screen'.active = screen.active /\ screen'.banner = screen.banner
      BY <2>2, <2>5
    <3>2. OnScreen(r)
      BY <1>1, <1>2, <2>3 DEF BlockedOnScreen
    <3>3. ~At(th, "show")
      BY <2>1 DEF At
    <3>4. Coming(r) => Coming(r)' \/ active # t
      BY <1>1, <1>2, <1>3, <1>7, <3>3, ComingKept
    <3> QED  BY <1>1, <1>3, <2>1, <3>1, <3>2, <3>4 DEF OnScreen
  <2>6. CASE held[th].tab = t /\ screen.active # t
    <3>1. "replay" \in ToSet(todo[th])
      BY <1>1, <1>3, <2>3, <2>6 DEF PassedOver, Blocked
    <3>2. PICK q \in CallPrograms : q = todo[th] /\ q # <<>> /\ Head(q) = "active"
      BY <2>1, Kinds DEF StateInv, ThreadsInv, ThreadsFit, Threads, At
    <3>3. q # <<"active", "strip">>
      <4>1. "replay" \notin ToSet(<<"active", "strip">>)
        BY DEF ToSet
      <4> QED  BY <3>1, <3>2, <4>1
    <3>4. q \in ReplayPrograms
      BY <3>2, <3>3, ReplayTails
    <3>5. p \in ReplayPrograms
      BY <2>1, <3>2, <3>4 DEF CallTurn, At
    <3> QED  BY <1>5, <3>5 DEF OnScreen
  <2> QED  BY <2>4, <2>5, <2>6
<1>10. CASE ShowPrompt(th)
  <2>1. At(th, "show") /\ active' = active
        /\ screen' = IF screen.active \in {None, owner[Shown(th)]}
                     THEN [screen EXCEPT !.banner = Shown(th)] ELSE screen
    BY <1>1, <1>10 DEF ShowPrompt, appVars
  <2>2. PICK q \in Requests : held[th] = [request |-> q]
    BY <2>1, Kinds DEF StateInv, ThreadsInv, ThreadsFit, Fits, At, Threads
  <2>3. Shown(th) = q /\ held[th].request = q
    BY <2>2, Kinds DEF Shown, Threads
  <2>4. screen'.passed = screen.passed /\ screen'.active = screen.active
        /\ screen'.banner = IF screen.active \in {None, owner[q]} THEN q ELSE screen.banner
    BY <1>4, <2>1, <2>3
  <2>5. owner[q] = t => q = r
    BY <1>1, <1>3, <2>1, <2>3 DEF OneAsks, Blocked
  <2>6. OnScreen(r)
    BY <1>1, <1>2, <2>4 DEF BlockedOnScreen
  <2>7. Coming(r) => Coming(r)' \/ active # t \/ q = r
    <3>1. [request |-> q] = [request |-> r] => q = r
      <4>1. [request |-> q].request = q /\ [request |-> r].request = r
        OBVIOUS
      <4> QED  BY <4>1
    <3>2. Coming(r) => Coming(r)' \/ active # t \/ (At(th, "show") /\ held[th] = [request |-> r])
      BY <1>1, <1>2, <1>3, <1>7, <2>1, ComingKept
    <3> QED  BY <2>2, <3>1, <3>2
  <2>8. screen.active = t => screen'.banner = IF owner[q] = t THEN q ELSE screen.banner
    BY <1>4, <2>4
  <2> QED  BY <1>1, <1>3, <1>4, <2>1, <2>4, <2>5, <2>6, <2>7, <2>8 DEF OnScreen
<1> QED  BY <1>8, <1>9, <1>10

\* A known request that still asks is tracked by the bridge.
LEMMA KnownWaits ==
    ASSUME StateInv, RequestsFit, NEW r \in Requests, client[r] = "asking", Known(r)
    PROVE  r \in waiting
<1>1. PICK q \in HandlerPrograms : q = todo[r] /\ q # <<>>
  BY Kinds DEF RequestsFit, StateInv, ThreadsInv, ThreadsFit, Threads
<1>2. Head(q) \in {"register", "store", "strip", "show", "wait"}
  BY <1>1, HandlerTails
<1> QED  BY <1>1, <1>2 DEF Known, RequestsFit, Stored, At

\* An answer is a decision by the time it is through.
LEMMA AnswerDecides ==
    ASSUME StateInv, RequestsFit, CallsKnow, NEW th \in Calls, Pushes(th) \/ Call(th), Answering(th)
    PROVE  ~Blocked(about[th]) \/ decision'[about[th]] # "none"
<1>1. PICK choice \in Behavior : ResolvePermission(th, choice)
  BY DEF Pushes, Call, ReadActive, ShowActive, PushSessions, ReadReplay, ReadPrompt, ShowPrompt,
         OpenSession, SwitchTo, CloseSession, Release, Stop, Unbadge, Answering, At
<1>2. PICK r \in Requests : r = about[th] /\ Known(r)
  BY Kinds DEF StateInv, ThreadsInv, ThreadsFit, Fits, At, Threads, Answering, Behavior, CallsKnow
<1>3. client[r] = "asking" => r \in waiting
  BY <1>2, KnownWaits
<1>4. client[r] = "asking" => decision'[r] = choice
  BY <1>1, <1>2, <1>3 DEF ResolvePermission, Resolved, StateInv, DataTypes
<1>5. choice # "none"
  BY DEF Behavior
<1> QED  BY <1>2, <1>4, <1>5 DEF Blocked

\* What the calls do to the strip and to the prompts stored for its tabs.
LEMMA CallTabs ==
    ASSUME GuiTabsInv, ShownInv, NEW th \in Calls, Pushes(th) \/ Call(th)
    PROVE  /\ ActiveOpen'
           /\ \A r \in Requests : active' # active /\ At(th, "append") /\ client[r] = "asking" => active' # owner[r]
           /\ At(th, "strip") => \A t \in Tabs : pending'[t] = None \/ pending'[t] \in waiting
           /\ \A t \in Tabs :
                /\ \/ pending'[t] = pending[t] \/ t \notin ToSet(sessions') \/ pending[t] \notin waiting
                   \/ At(th, "unbadge") /\ pending[t] = about[th]
                /\ Open(t)' => Open(t) \/ Opened(t)
<1> USE DEF ShownInv, GuiTabsInv
<1>0. StateInv /\ pending \in [Tabs -> Requests \cup {None}] /\ active \in Tabs \cup {None}
  BY DEF StateInv, DataTypes
<1>1. CASE UNCHANGED appVars /\ ~At(th, "append") /\ ~At(th, "strip")
  BY <1>1 DEF appVars, ActiveOpen, Open
<1>2. CASE ReadActive(th) \/ ShowActive(th) \/ ReadReplay(th) \/ ReadPrompt(th) \/ ShowPrompt(th)
  BY <1>1, <1>2 DEF ReadActive, ShowActive, ReadReplay, ReadPrompt, ShowPrompt, At
<1>3. CASE Release(th) \/ Stop(th) \/ \E choice \in Behavior : ResolvePermission(th, choice)
  BY <1>1, <1>3 DEF Release, Stop, ResolvePermission, At, Behavior
<1>4. CASE PushSessions(th)
  <2>1. UNCHANGED <<sessions, active>> /\ At(th, "strip")
        /\ pending' = [t \in Tabs |-> IF pending[t] \in waiting THEN pending[t] ELSE None]
    BY <1>4 DEF PushSessions
  <2> QED  BY <1>0, <2>1 DEF ActiveOpen, Open, At
<1>5. CASE OpenSession(th)
  <2>1. At(th, "append") /\ active' = about[th] /\ pending' = pending
    BY <1>5 DEF OpenSession
  <2>2. about[th] \in Tabs /\ ToSet(sessions') = ToSet(sessions) \cup {about[th]}
    BY <1>0, <1>5, OpenSessionMoves, OpenSessionAccounted DEF Tabs, StateInv
  <2>3. Opened(about[th])
    BY <2>1 DEF Opened
  <2>4. \A r \in Requests : client[r] = "asking" => active' # owner[r]
    BY <2>1, <2>3 DEF RequestsFit
  <2> QED  BY <2>1, <2>2, <2>3, <2>4 DEF ActiveOpen, Open, At
<1>6. CASE SwitchTo(th)
  <2>1. At(th, "select") /\ sessions' = sessions /\ pending' = pending
    BY <1>6 DEF SwitchTo
  <2>2. active' = active \/ active' \in ToSet(sessions)
    BY <1>6 DEF SwitchTo
  <2> QED  BY <2>1, <2>2 DEF ActiveOpen, Open, At
<1>7. CASE CloseSession(th)
  <2>1. At(th, "remove")
    BY <1>7 DEF CloseSession
  <2>2. ~At(th, "append") /\ ~At(th, "strip")
    BY <2>1 DEF At
  <2>3. CASE ClosedOne(about[th])
    <3>1. ActiveOpen'
      BY <2>3 DEF ClosedOne, ActiveOpen, Open
    <3>2. \A t \in Tabs : pending'[t] = pending[t] \/ t \notin ToSet(sessions')
      BY <1>0, <2>3 DEF ClosedOne
    <3>3. \A t \in Tabs : Open(t)' => Open(t)
      BY <2>3 DEF ClosedOne, Open
    <3> QED  BY <2>2, <3>1, <3>2, <3>3
  <2> QED  BY <1>0, <1>1, <1>7, <2>2, <2>3, CloseSessionAccounted
<1>8. CASE Unbadge(th)
  <2>1. At(th, "unbadge") /\ UNCHANGED <<sessions, active>>
    BY <1>8 DEF Unbadge
  <2>2. \A t \in Tabs : pending'[t] = pending[t] \/ pending[t] = about[th]
    BY <1>0, <1>8 DEF Unbadge
  <2> QED  BY <2>1, <2>2 DEF ActiveOpen, Open, At
<1> QED  BY <1>2, <1>3, <1>4, <1>5, <1>6, <1>7, <1>8 DEF Pushes, Call

\* The banner shows what a thread holds, or what it showed.
LEMMA BannerKnownKept ==
    ASSUME StateInv, RequestsFit, BannerKnown, CallsKnow, NEW th \in Threads, Pushes(th),
           \A r \in Requests : Known(r) => Known(r)',
           th \in Calls \/ (th \in Requests /\ Known(th))
    PROVE  BannerKnown'
<1>1. screen \in [active : Tabs \cup {None}, banner : Requests \cup {None}, passed : SUBSET Requests]
  BY DEF StateInv, DataTypes
<1>2. ASSUME screen'.banner = screen.banner \/ screen'.banner = None
      PROVE  BannerKnown'
  <2> SUFFICES ASSUME screen'.banner # None
               PROVE  Known(screen.banner)'
    BY DEF BannerKnown
  <2>1. PICK r \in Requests : r = screen.banner /\ screen'.banner = r
    BY <1>1, <1>2
  <2>2. Known(r)'
    BY <2>1, GuiTabsAssumption DEF BannerKnown, Threads
  <2> QED  BY <2>1, <2>2 DEF Known, At
<1>3. CASE ReadActive(th) \/ PushSessions(th) \/ ReadReplay(th) \/ ReadPrompt(th)
  BY <1>2, <1>3 DEF ReadActive, PushSessions, ReadReplay, ReadPrompt
<1>4. CASE ShowActive(th)
  BY <1>2, <1>4 DEF ShowActive
<1>5. CASE ShowPrompt(th)
  <2>1. At(th, "show") /\ screen' \in {screen, [screen EXCEPT !.banner = Shown(th)]}
    BY <1>5 DEF ShowPrompt
  <2>2. PICK r \in Requests : r = Shown(th) /\ Known(r)
    <3>1. CASE th \in Requests
      BY <3>1, Kinds DEF Shown
    <3>2. CASE th \in Calls
      <4>1. PICK r \in Requests : held[th] = [request |-> r]
        BY <2>1, <3>2, Kinds DEF StateInv, ThreadsInv, ThreadsFit, Fits, At
      <4>2. held[th].request = r /\ Shown(th) = r
        BY <3>2, <4>1, Kinds DEF Shown
      <4> QED  BY <2>1, <3>2, <4>2 DEF CallsKnow
    <3> QED  BY <3>1, <3>2
  <2>3. screen'.banner = screen.banner \/ screen'.banner = r
    BY <1>1, <2>1, <2>2
  <2>4. CASE screen'.banner = r
    BY <2>2, <2>4 DEF BannerKnown, Known, At
  <2> QED  BY <1>2, <2>3, <2>4
<1> QED  BY <1>3, <1>4, <1>5 DEF Pushes

\* Every step of a call keeps what waits on screen, or coming.
LEMMA CallShown ==
    ASSUME GuiTabsInv, ShownInv, NEW th \in Calls, Pushes(th) \/ Call(th)
    PROVE  ShownInv'
<1>1. StateInv /\ th \in Threads
  BY DEF GuiTabsInv, StateInv, Threads
<1>2. CallData
  BY <1>1, CallDataKept
<1>3. PICK p, holds :
        /\ CallTurn(th, p, holds)
        /\ active' # active => p \in ReplayPrograms \/ At(th, "append")
  BY <1>1, CallTurns
<1>4. Moved(th, p, holds, about[th]) /\ (p = <<>> \/ Head(p) # "append")
  BY <1>3 DEF CallTurn
<1>5. RequestsFit'
  BY <1>1, <1>2, <1>4, RequestsFitKept DEF ShownInv
<1>6. PendingKnown' /\ CallsKnow' /\ \A r \in Requests : Known(r) => Known(r)'
  BY <1>1, <1>2, <1>3, CallsKnowKept DEF ShownInv
<1>7. BannerKnown'
  <2>1. CASE Pushes(th)
    BY <1>1, <1>6, <2>1, BannerKnownKept DEF ShownInv
  <2>2. CASE Call(th)
    <3>1. screen' = screen
      BY <2>2 DEF Call, OpenSession, SwitchTo, CloseSession, Release, Stop, ResolvePermission, Unbadge
    <3>2. screen.banner \in Requests \cup {None}
      BY <1>1 DEF StateInv, DataTypes
    <3> QED  BY <1>6, <3>1, <3>2 DEF ShownInv, BannerKnown, Known, At
  <2> QED  BY <2>1, <2>2
<1>8. \A r \in Requests : Answering(th) /\ about[th] = r => ~Blocked(r)'
  <2>1. Answering(th) => ~Blocked(about[th]) \/ decision'[about[th]] # "none"
    BY <1>1, AnswerDecides DEF ShownInv
  <2> QED  BY <1>2, <2>1 DEF Blocked, CallData
<1>9. AnswersCount'
  <2>1. At(th, "unbadge")' => ~Blocked(about[th])'
    <3> SUFFICES ASSUME At(th, "unbadge")'
                 PROVE  ~Blocked(about[th])'
      OBVIOUS
    <3>1. Answering(th) /\ about'[th] = about[th]
      BY <1>3, <1>4, OthersAre DEF CallTurn
    <3>2. PICK r \in Requests : r = about[th]
      BY <1>1, <3>1 DEF StateInv, ThreadsInv, ThreadsFit, Fits, At, Answering, Behavior
    <3> QED  BY <1>8, <3>1, <3>2 DEF Blocked
  <2> QED  BY <1>1, <1>2, <1>4, <2>1, AnswersCountKept DEF ShownInv
<1>10. OneAsks'
  BY <1>1, <1>2, <1>3, CallTabs, OneAsksKept DEF ShownInv
<1>11. ActiveOpen'
  BY CallTabs
<1>12. PendingKept'
  BY <1>1, <1>2, <1>4, CallTabs, PendingKeptKept DEF ShownInv
<1>13. BlockedOnScreen'
  <2>1. (screen' = screen /\ ~At(th, "show")) \/ ShowActive(th) \/ ShowPrompt(th)
    BY DEF Pushes, Call, ReadActive, PushSessions, ReadReplay, ReadPrompt,
           OpenSession, SwitchTo, CloseSession, Release, Stop, ResolvePermission, Unbadge, At, Behavior
  <2> QED  BY <1>1, <1>2, <1>3, <1>8, <2>1, CallTabs, BlockedOnScreenKept
<1> QED  BY <1>5, <1>6, <1>7, <1>9, <1>10, <1>11, <1>12, <1>13 DEF ShownInv

-----------------------------------------------------------------------------
(* The clicks, the start and the end.                                      *)

\* How a click starts a call; an answer takes its banner away.
ClickTurn(th, p, subject) ==
    /\ Moved(th, p, held[th], subject) /\ p # <<>>
    /\ Head(p) \in {"append", "select", "remove"} \cup Behavior
    /\ Head(p) = "append" => subject \in Tabs /\ life[subject] = "none"
    /\ \/ screen' = screen /\ Head(p) \notin Behavior
       \/ /\ screen' = [screen EXCEPT !.banner = None]
          /\ subject = screen.banner /\ subject \in Requests /\ Head(p) \in Behavior

\* Every click.
LEMMA ClickTurns ==
    ASSUME StateInv, NEW th \in Calls, User(th)
    PROVE  /\ todo[th] = <<>> /\ UNCHANGED <<appVars, bridgeVars, window, owner, client>>
           /\ \E p, subject : ClickTurn(th, p, subject)
<1>1. ThreadsInv /\ screen.banner \in Requests \cup {None}
  BY DEF StateInv, DataTypes
<1>2. todo[th] = <<>> /\ UNCHANGED <<appVars, bridgeVars, window, owner, client>>
  BY DEF User, UserOpens, UserSwitches, UserCloses, UserAnswers, Called
<1>3. ASSUME NEW t \in Tabs, UserOpens(th, t)
      PROVE  ClickTurn(th, <<"append">>, t)
  <2>1. Moved(th, <<"append">>, held[th], t) /\ life[t] = "none" /\ screen' = screen
    BY <1>1, <1>3, UserOpensMoves DEF UserOpens
  <2>2. <<"append">> # <<>> /\ Head(<<"append">>) = "append" /\ "append" \notin Behavior
    BY DEF Behavior
  <2> QED  BY <2>1, <2>2 DEF ClickTurn
<1>4. ASSUME NEW t \in Tabs, UserSwitches(th, t) \/ UserCloses(th, t)
      PROVE  \E p : ClickTurn(th, p, t)
  <2>1. PICK steps \in {<<"select">>, <<"remove">>} : Moved(th, steps, held[th], t)
    BY <1>1, <1>4, UserSwitchesStill
  <2>2. steps # <<>> /\ Head(steps) \in {"select", "remove"} /\ Head(steps) \notin Behavior
    BY DEF Behavior
  <2>3. screen' = screen
    BY <1>4 DEF UserSwitches, UserCloses
  <2>4. ClickTurn(th, steps, t)
    BY <2>1, <2>2, <2>3 DEF ClickTurn
  <2> QED  BY <2>4
<1>5. ASSUME NEW choice \in Behavior, UserAnswers(th, choice)
      PROVE  ClickTurn(th, <<choice, "unbadge">>, screen.banner)
  <2>1. Moved(th, <<choice, "unbadge">>, held[th], screen.banner) /\ screen.banner \in Requests
    BY <1>1, <1>5, UserAnswersMoves
  <2>2. <<choice, "unbadge">> # <<>> /\ Head(<<choice, "unbadge">>) = choice /\ choice # "append"
    BY TupleTails DEF Behavior
  <2>3. screen' = [screen EXCEPT !.banner = None]
    BY <1>5 DEF UserAnswers
  <2> QED  BY <2>1, <2>2, <2>3 DEF ClickTurn
<1> QED  BY <1>2, <1>3, <1>4, <1>5 DEF User

\* A click takes a banner away only to bring the answer to the bridge.
LEMMA UserShown ==
    ASSUME GuiTabsInv, ShownInv, NEW th \in Calls, User(th)
    PROVE  ShownInv'
<1> USE DEF ShownInv
<1>1. StateInv
  BY DEF GuiTabsInv, StateInv
<1>2. CallData /\ todo[th] = <<>> /\ UNCHANGED <<appVars, bridgeVars, window, owner, client>>
  BY <1>1, CallDataKept, ClickTurns
<1>3. PICK p, subject : ClickTurn(th, p, subject)
  BY <1>1, ClickTurns
<1>4. /\ screen \in [active : Tabs \cup {None}, banner : Requests \cup {None}, passed : SUBSET Requests]
      /\ None \notin Requests
  BY <1>1, GuiTabsAssumption DEF StateInv, DataTypes, Threads
<1>5. Moved(th, p, held[th], subject) /\ p # <<>>
  BY <1>3 DEF ClickTurn
<1>6. ~At(th, "unbadge")' /\ ~At(th, "show")' /\ ~At(th, "replay")' /\ ~At(th, "prompt")'
  BY <1>3, <1>5, OthersAre DEF ClickTurn, Behavior
<1>7. \A r \in Requests : Known(r) => Known(r)'
  BY <1>2, <1>5, OthersAre DEF Known
<1>8. UNCHANGED <<sessions, active, pending, decision>>
  BY <1>2 DEF appVars, bridgeVars
<1>9. RequestsFit'
  <2>1. th = Closer \/ p = <<>> \/ Head(p) # "append" \/ (subject \in Tabs /\ life[subject] = "none")
    BY <1>3 DEF ClickTurn
  <2> QED  BY <1>1, <1>2, <1>5, <2>1, RequestsFitKept
<1>10. PendingKnown'
  <2>1. pending \in [Tabs -> Requests \cup {None}]
    BY <1>1 DEF StateInv, DataTypes
  <2> QED  BY <1>2, <1>4, <1>7, <1>8, <2>1 DEF PendingKnown, Known, At
<1>11. screen'.banner \in {screen.banner, None} /\ screen'.active = screen.active /\ screen'.passed = screen.passed
  BY <1>3, <1>4 DEF ClickTurn
<1>12. BannerKnown'
  BY <1>4, <1>7, <1>11 DEF BannerKnown, Known, At
<1>13. CallsKnow'
  <2> SUFFICES ASSUME NEW o \in Calls
               PROVE  /\ At(o, "show")' => Known(held[o].request)'
                      /\ Answering(o)' \/ At(o, "unbadge")' => Known(about[o])'
    BY DEF CallsKnow
  <2>1. CASE o # th
    <3>1. todo'[o] = todo[o] /\ about'[o] = about[o] /\ held'[o] = held[o]
      BY <1>5, <2>1, OthersAre
    <3> QED  BY <1>1, <1>7, <3>1, OneKnows
  <2>2. CASE o = th
    <3> SUFFICES ASSUME Answering(th)'
                 PROVE  Known(about[th])'
      BY <1>6, <2>2
    <3>1. p # <<>> /\ Head(p) \in Behavior
      BY <1>5, OthersAre DEF Answering, Behavior
    <3>2. about'[th] = screen.banner /\ screen.banner \in Requests
      BY <1>3, <1>5, <3>1, OthersAre DEF ClickTurn
    <3>3. PICK r \in Requests : r = screen.banner /\ Known(r)
      BY <1>4, <3>2 DEF BannerKnown
    <3> QED  BY <1>7, <3>2, <3>3 DEF Known, At
  <2> QED  BY <2>1, <2>2
<1>14. AnswersCount'
  BY <1>1, <1>2, <1>5, <1>6, AnswersCountKept
<1>15. OneAsks'
  <2> SUFFICES ASSUME NEW r \in Requests, NEW q \in Requests,
                      client'[r] = "asking", q # r, owner'[q] = owner'[r], NEW o \in Calls
               PROVE  /\ client'[q] # "asking" /\ todo'[q] = <<>>
                      /\ At(o, "show")' => held'[o].request # q
                      /\ At(o, "replay")' \/ At(o, "prompt")' => pending'[owner'[r]] # q
    BY DEF OneAsks
  <2>1. /\ client[q] # "asking" /\ todo[q] = <<>>
        /\ At(o, "show") => held[o].request # q
        /\ At(o, "replay") \/ At(o, "prompt") => pending[owner[r]] # q
    BY <1>2 DEF OneAsks
  <2>2. todo'[q] = <<>>
    BY <1>5, <2>1, OthersAre
  <2>3. CASE o # th
    <3>1. held'[o] = held[o] /\ \A s : At(o, s)' <=> At(o, s)
      BY <1>5, <2>3, OthersAre
    <3> QED  BY <1>2, <1>8, <2>1, <2>2, <3>1
  <2> QED  BY <1>2, <1>6, <2>1, <2>2, <2>3
<1>16. ActiveOpen'
  BY <1>8 DEF ActiveOpen, Open
<1>17. PendingKept'
  BY <1>1, <1>2, <1>5, <1>8, PendingKeptKept DEF Open
<1>18. BlockedOnScreen'
  <2> SUFFICES ASSUME window', NEW r \in Requests \ screen'.passed, Blocked(r)', At(r, "wait")'
               PROVE  OnScreen(r)'
    BY DEF BlockedOnScreen
  <2>1. Blocked(r) /\ At(r, "wait")
    BY <1>2, <1>5, <1>8, OthersAre DEF Blocked
  <2>2. OnScreen(r)
    BY <1>2, <1>11, <2>1 DEF BlockedOnScreen
  <2>3. ASSUME Coming(r)
        PROVE  Coming(r)'
    <3>1. PICK o \in Calls :
            \/ todo[o] \in ReplayPrograms
            \/ At(o, "prompt") /\ held[o] = [tab |-> owner[r]]
            \/ At(o, "show") /\ held[o] = [request |-> r]
            \/ Answering(o) /\ about[o] = r
      BY <2>3 DEF Coming
    <3>2. o # th
      <4>1. <<>> \notin ReplayPrograms
        BY DEF ReplayPrograms, Closing
      <4> QED  BY <1>2, <3>1, <4>1 DEF At, Answering
    <3>3. /\ todo'[o] = todo[o] /\ about'[o] = about[o] /\ held'[o] = held[o]
          /\ \A s : At(o, s)' <=> At(o, s)
      BY <1>5, <3>2, OthersAre
    <3> QED  BY <1>2, <3>1, <3>3 DEF Coming, Answering
  <2>4. ASSUME screen.banner = r, screen'.banner # r
        PROVE  Coming(r)'
    <3>1. Head(p) \in Behavior /\ subject = r
      BY <1>3, <2>4 DEF ClickTurn
    <3>2. Answering(th)' /\ about'[th] = r
      BY <1>5, <3>1, OthersAre DEF Answering, Behavior
    <3> QED  BY <3>2 DEF Coming
  <2> QED  BY <1>2, <1>8, <1>11, <2>2, <2>3, <2>4 DEF OnScreen
<1> QED  BY <1>9, <1>10, <1>12, <1>13, <1>14, <1>15, <1>16, <1>17, <1>18

\* What the end leaves of the page's state, or only takes away.
LEMMA EndKept ==
    ASSUME StateInv, ShownInv, NEW p, NEW holds, NEW subject, Moved(Closer, p, holds, subject), CallData,
           screen' = screen, ~window', ActiveOpen'
    PROVE  ShownInv'
<1> USE DEF ShownInv
<1>1. \A o \in Calls \cup Requests \cup {Boot} : o \in Threads \ {Closer}
  BY GuiTabsAssumption DEF Threads
<1>2. /\ \A o \in Calls \cup Requests \cup {Boot} :
            todo'[o] = todo[o] /\ about'[o] = about[o] /\ held'[o] = held[o]
      /\ \A o \in Calls \cup Requests \cup {Boot} : \A s : At(o, s)' <=> At(o, s)
  BY <1>1, OthersAre
<1>3. \A r \in Requests : Known(r) => Known(r)'
  BY <1>2 DEF Known, CallData
<1>4. /\ pending \in [Tabs -> Requests \cup {None}] /\ None \notin Requests
      /\ screen.banner \in Requests \cup {None}
  BY GuiTabsAssumption DEF StateInv, DataTypes, Threads
<1>5. RequestsFit'
  BY RequestsFitKept
<1>6. PendingKnown' /\ BannerKnown'
  BY <1>3, <1>4 DEF PendingKnown, BannerKnown, Known, At, CallData
<1>7. CallsKnow'
  <2>1. ASSUME NEW o \in Calls
        PROVE  /\ At(o, "show")' => Known(held[o].request)'
               /\ Answering(o)' \/ At(o, "unbadge")' => Known(about[o])'
    BY <1>2, <1>3, OneKnows
  <2> QED  BY <2>1 DEF CallsKnow
<1>8. AnswersCount'
  <2>1. Closer \notin Calls
    BY GuiTabsAssumption
  <2> QED  BY <2>1, AnswersCountKept
<1>9. OneAsks'
  <2> SUFFICES ASSUME NEW r \in Requests, NEW q \in Requests,
                      client'[r] = "asking", q # r, owner'[q] = owner'[r]
               PROVE  /\ client'[q] # "asking" /\ todo'[q] = <<>>
                      /\ \A o \in Calls :
                          /\ At(o, "show")' => held'[o].request # q
                          /\ At(o, "replay")' \/ At(o, "prompt")' => pending'[owner'[r]] # q
    BY DEF OneAsks
  <2>1. client[r] = "asking" /\ owner' = owner
    BY DEF CallData
  <2>2. /\ client[q] # "asking" /\ todo[q] = <<>>
        /\ \A o \in Calls :
            /\ At(o, "show") => held[o].request # q
            /\ At(o, "replay") \/ At(o, "prompt") => pending[owner[r]] # q
    BY <2>1 DEF OneAsks
  <2>3. client'[q] # "asking"
    BY <2>2 DEF CallData
  <2>4. owner[r] \in Tabs
    BY <2>1 DEF RequestsFit
  <2>5. pending'[owner[r]] # pending[owner[r]] => pending'[owner[r]] = None
    BY <2>4 DEF CallData
  <2> QED  BY <1>2, <1>4, <2>1, <2>2, <2>3, <2>5
<1> QED  BY <1>5, <1>6, <1>7, <1>8, <1>9 DEF PendingKept, BlockedOnScreen

\* The window closes: nothing is shown any more.
LEMMA CloserShown ==
    ASSUME GuiTabsInv, ShownInv, CloseWindow \/ Clear \/ StopAll \/ Silence
    PROVE  ShownInv'
<1>1. StateInv /\ ThreadsInv /\ ClosedOnce /\ sessions \in Seq(Tabs) /\ ActiveOpen
  BY DEF GuiTabsInv, StateInv, ThreadsInv, ShownInv
<1>2. /\ decision \in [Requests -> Behavior \cup {"none"}]
      /\ client \in [Requests -> {"none", "asking", "allowed", "denied", "gone"}]
      /\ life \in [Tabs -> {"none", "running", "stopped"}]
  BY <1>1 DEF StateInv, DataTypes
<1>3. screen' = screen
  BY DEF CloseWindow, Clear, StopAll, Silence
<1>4. ~window'
  BY <1>1 DEF CloseWindow, Clear, StopAll, Silence, At, ClosedOnce
<1>5. \E p, holds, subject : Moved(Closer, p, holds, subject)
  BY <1>1, CloseWindowStill, ClearMoves, StopAllMoves, SilenceStill
<1>6. CASE CloseWindow
  <2>1. CallData
    BY <1>6 DEF CloseWindow, CallData, appVars, bridgeVars, clientVars
  <2>2. ActiveOpen'
    BY <1>1, <1>6 DEF CloseWindow, ActiveOpen, Open, appVars
  <2> QED  BY <1>1, <1>3, <1>4, <1>5, <2>1, <2>2, EndKept
<1>7. CASE Clear
  <2>1. CallData
    BY <1>7 DEF Clear, CallData, bridgeVars, clientVars
  <2>2. ActiveOpen'
    BY <1>7 DEF Clear, ActiveOpen
  <2> QED  BY <1>1, <1>3, <1>4, <1>5, <2>1, <2>2, EndKept
<1>8. CASE StopAll
  <2>1. UNCHANGED <<appVars, bridgeVars, window>> /\ Stopped(ToSet(held[Closer].tabs))
    BY <1>8 DEF StopAll
  <2>2. CallData
    BY <1>2, <2>1 DEF Stopped, CallData, appVars, bridgeVars
  <2>3. ActiveOpen'
    BY <1>1, <2>1 DEF ActiveOpen, Open, appVars
  <2> QED  BY <1>1, <1>3, <1>4, <1>5, <2>2, <2>3, EndKept
<1>9. CASE Silence
  <2>1. UNCHANGED <<appVars, waiting, clientVars, window>>
        /\ decision' = [r \in Requests |-> IF r \in waiting /\ decision[r] = "none" THEN "deny" ELSE decision[r]]
    BY <1>9 DEF Silence
  <2>2. CallData
    BY <1>2, <2>1 DEF CallData, appVars, clientVars
  <2>3. ActiveOpen'
    BY <1>1, <2>1 DEF ActiveOpen, Open, appVars
  <2> QED  BY <1>1, <1>3, <1>4, <1>5, <2>2, <2>3, EndKept
<1> QED  BY <1>6, <1>7, <1>8, <1>9

\* While the saved tabs are brought back no claude asks.
LEMMA StartKept ==
    ASSUME StateInv, ShownInv, todo[Boot] # <<>>, NEW p, NEW holds, NEW subject, Moved(Boot, p, holds, subject),
           UNCHANGED <<owner, client, waiting, decision>>,
           \A t \in Tabs : pending'[t] = pending[t] \/ pending'[t] = None,
           screen'.banner = screen.banner \/ screen'.banner = None, ActiveOpen'
    PROVE  ShownInv'
<1> USE DEF ShownInv
<1>1. \A o \in Calls \cup Requests : o \in Threads \ {Boot}
  BY GuiTabsAssumption DEF Threads
<1>2. /\ \A o \in Calls \cup Requests :
            todo'[o] = todo[o] /\ about'[o] = about[o] /\ held'[o] = held[o]
      /\ \A o \in Calls \cup Requests : \A s : At(o, s)' <=> At(o, s)
  BY <1>1 DEF Moved, At
<1>3. \A r \in Requests : client[r] # "asking" /\ client'[r] # "asking"
  BY DEF RequestsFit
<1>4. \A r \in Requests : Known(r) => Known(r)'
  BY <1>2 DEF Known
<1>5. /\ pending \in [Tabs -> Requests \cup {None}] /\ None \notin Requests
      /\ screen.banner \in Requests \cup {None}
  BY GuiTabsAssumption DEF StateInv, DataTypes, Threads
<1>6. RequestsFit'
  BY <1>2, <1>3 DEF RequestsFit, Stored
<1>7. PendingKnown' /\ BannerKnown'
  BY <1>4, <1>5 DEF PendingKnown, BannerKnown, Known, At
<1>8. CallsKnow'
  <2>1. ASSUME NEW o \in Calls
        PROVE  /\ At(o, "show")' => Known(held[o].request)'
               /\ Answering(o)' \/ At(o, "unbadge")' => Known(about[o])'
    BY <1>2, <1>4, OneKnows
  <2> QED  BY <2>1 DEF CallsKnow
<1>9. AnswersCount'
  <2> SUFFICES ASSUME NEW o \in Calls, At(o, "unbadge")'
               PROVE  ~Blocked(about[o])'
    BY DEF AnswersCount
  <2>1. about'[o] = about[o] /\ At(o, "unbadge")
    BY <1>2
  <2>2. about[o] \in Requests
    BY <1>1, <2>1, Kinds DEF StateInv, ThreadsInv, ThreadsFit, Fits, At
  <2> QED  BY <1>3, <2>1, <2>2 DEF Blocked
<1>10. OneAsks'
  BY <1>3 DEF OneAsks
<1>11. PendingKept' /\ BlockedOnScreen'
  BY <1>3 DEF PendingKept, BlockedOnScreen, Blocked
<1> QED  BY <1>6, <1>7, <1>8, <1>9, <1>10, <1>11

\* The start only adds tabs, and shows one of them.
LEMMA BootShown ==
    ASSUME GuiTabsInv, ShownInv, Restore \/ Extend \/ Pushes(Boot)
    PROVE  ShownInv'
<1>1. /\ StateInv /\ ThreadsInv /\ Boot \in Threads /\ ActiveOpen
      /\ active \in Tabs \cup {None} /\ pending \in [Tabs -> Requests \cup {None}]
      /\ AllAccounted /\ IsInjective(sessions)
  BY DEF GuiTabsInv, StateInv, DataTypes, ShownInv, Threads
<1>2. CASE Restore
  <2>1. todo[Boot] # <<>> /\ UNCHANGED <<appVars, bridgeVars, owner, client, screen>>
    BY <1>2 DEF Restore, At
  <2>2. \E p, holds, subject : Moved(Boot, p, holds, subject)
    BY <1>1, <1>2, RestoreMoves
  <2>3. ActiveOpen'
    BY <1>1, <2>1 DEF ActiveOpen, Open, appVars
  <2> QED  BY <1>1, <2>1, <2>2, <2>3, StartKept DEF appVars, bridgeVars
<1>3. CASE Extend
  <2>1. todo[Boot] # <<>> /\ UNCHANGED <<pending, bridgeVars, clientVars, screen>>
    BY <1>3 DEF Extend, At
  <2>2. Moved(Boot, Rest(Boot), None, about[Boot])
    BY <1>1, <1>3, ExtendMoves
  <2>3. ActiveOpen'
    BY <1>1, <1>3, ExtendAccounted DEF ActiveOpen, Open
  <2> QED  BY <1>1, <2>1, <2>2, <2>3, StartKept DEF bridgeVars, clientVars
<1>4. CASE Pushes(Boot)
  <2>1. todo[Boot] # <<>> /\ UNCHANGED <<sessions, active, bridgeVars, clientVars>>
    BY <1>4 DEF Pushes, ReadActive, ShowActive, PushSessions, ReadReplay, ReadPrompt, ShowPrompt, At, appVars
  <2>2. Boot \notin Calls
    BY GuiTabsAssumption
  <2>3. ~At(Boot, "show")
    <3>1. PICK q \in BootPrograms : q = todo[Boot] /\ q # <<>>
      BY <1>1, <2>1, Kinds DEF ThreadsInv, ThreadsFit
    <3>2. Head(q) # "show"
      BY <3>1, BootTails
    <3> QED  BY <3>1, <3>2 DEF At
  <2>4. ReadActive(Boot) \/ ShowActive(Boot) \/ PushSessions(Boot)
    BY <1>1, <1>4, <2>2, <2>3, ReadReplayMoves, ReadPromptMoves DEF Pushes, ShowPrompt
  <2>5. \E p, holds, subject : Moved(Boot, p, holds, subject)
    BY <1>1, <2>4, ReadActiveMoves, ShowMoves
  <2>6. \A t \in Tabs : pending'[t] = pending[t] \/ pending'[t] = None
    BY <2>4 DEF ReadActive, ShowActive, PushSessions, appVars
  <2>7. screen'.banner = screen.banner \/ screen'.banner = None
    BY <2>4 DEF ReadActive, ShowActive, PushSessions
  <2>8. ActiveOpen'
    BY <1>1, <2>1 DEF ActiveOpen, Open
  <2> QED  BY <1>1, <2>1, <2>5, <2>6, <2>7, <2>8, StartKept DEF bridgeVars, clientVars
<1> QED  BY <1>2, <1>3, <1>4

-----------------------------------------------------------------------------
(* The requests.                                                           *)

\* A step about request r alone.
OneRequest(r) ==
    /\ \A o \in (Calls \cup Requests \cup {Boot}) \ {r} :
        todo'[o] = todo[o] /\ about'[o] = about[o] /\ held'[o] = held[o]
    /\ UNCHANGED <<sessions, active, window, life>>
    /\ \A q \in Requests \ {r} :
        /\ owner'[q] = owner[q] /\ client'[q] = client[q] /\ decision'[q] = decision[q]
        /\ q \in waiting' <=> q \in waiting

\* The others are where they were.
LEMMA OthersRest ==
    ASSUME NEW r \in Requests, OneRequest(r)
    PROVE  /\ \A o \in Calls \cup (Requests \ {r}) :
                /\ todo'[o] = todo[o] /\ about'[o] = about[o] /\ held'[o] = held[o]
                /\ \A s : At(o, s)' <=> At(o, s)
           /\ todo'[Boot] = todo[Boot]
           /\ \A q \in Requests \ {r} :
                (Known(q)' <=> Known(q)) /\ (Blocked(q)' <=> Blocked(q)) /\ (Stored(q)' <=> Stored(q))
           /\ \A t : (Opened(t)' <=> Opened(t)) /\ (Open(t)' <=> Open(t))
<1>1. /\ \A o \in Calls \cup (Requests \ {r}) :
            /\ todo'[o] = todo[o] /\ about'[o] = about[o] /\ held'[o] = held[o]
            /\ \A s : At(o, s)' <=> At(o, s)
      /\ todo'[Boot] = todo[Boot]
  BY GuiTabsAssumption DEF OneRequest, At
<1>2. \A q \in Requests \ {r} :
        (Known(q)' <=> Known(q)) /\ (Blocked(q)' <=> Blocked(q)) /\ (Stored(q)' <=> Stored(q))
  BY <1>1 DEF Known, Blocked, Stored, OneRequest
<1>3. \A t : (Opened(t)' <=> Opened(t)) /\ (Open(t)' <=> Open(t))
  BY <1>1 DEF Opened, Open, OneRequest
<1> QED  BY <1>1, <1>2, <1>3

\* Every step about one request keeps what waits on screen, if that request
\* is as it should be, and is the only one its claude asks.
LEMMA RequestKept ==
    ASSUME StateInv, ShownInv, NEW r \in Requests, OneRequest(r), BannerKnown',
           /\ client'[r] = "none" => owner'[r] = None /\ todo'[r] = <<>>
           /\ client'[r] = "asking" =>
                /\ owner'[r] \in Tabs /\ life[owner'[r]] # "none" /\ ~Opened(owner'[r])
                /\ todo'[r] # <<>> /\ todo[Boot] = <<>>
           /\ r \in waiting' <=> At(r, "store")' \/ Stored(r)',
           Known(r) => Known(r)' /\ owner'[r] = owner[r] /\ (Blocked(r)' => Blocked(r)),
           \A t \in Tabs :
            \/ pending'[t] = pending[t]
            \/ pending'[t] = None /\ pending[t] \notin waiting
            \/ pending'[t] = r /\ t = owner'[r] /\ Known(r)',
           \A q \in Requests \ {r} :
            /\ client[q] = "asking" => owner'[r] # owner[q]
            /\ client'[r] = "asking" /\ owner[q] = owner'[r] =>
                /\ client[q] # "asking" /\ todo[q] = <<>>
                /\ \A th \in Calls :
                    /\ At(th, "show") => held[th].request # q
                    /\ At(th, "replay") \/ At(th, "prompt") => pending[owner'[r]] # q,
           window /\ Blocked(r)' /\ Stored(r)' /\ Open(owner'[r]) => pending'[owner'[r]] = r,
           screen'.active = screen.active /\ screen'.passed = screen.passed,
           screen'.banner = screen.banner \/ screen.active \in {None, owner'[r]},
           window /\ Blocked(r)' /\ At(r, "wait")' /\ screen.active = owner'[r] => screen'.banner = r
    PROVE  ShownInv'
<1> USE DEF ShownInv
<1>1. /\ pending \in [Tabs -> Requests \cup {None}] /\ None \notin Requests /\ None \notin Tabs
      /\ UNCHANGED <<sessions, active, window, life>>
  BY GuiTabsAssumption DEF StateInv, DataTypes, Threads, OneRequest
<1>2. \A q \in Requests \ {r} :
        /\ owner'[q] = owner[q] /\ client'[q] = client[q] /\ decision'[q] = decision[q]
        /\ q \in waiting' <=> q \in waiting
  BY DEF OneRequest
<1>3. \A q \in Requests : Known(q) => Known(q)'
  BY OthersRest
<1>4. RequestsFit'
  <2> SUFFICES ASSUME NEW q \in Requests
               PROVE  /\ client'[q] = "none" => owner'[q] = None /\ todo'[q] = <<>>
                      /\ client'[q] = "asking" =>
                        /\ owner'[q] \in Tabs /\ life'[owner'[q]] # "none" /\ ~Opened(owner[q])'
                        /\ todo'[q] # <<>> /\ todo'[Boot] = <<>>
                      /\ q \in waiting' <=> At(q, "store")' \/ Stored(q)'
    BY DEF RequestsFit
  <2>1. \A t \in Tabs : t = owner'[q] => (Opened(owner[q])' <=> Opened(t))
    <3>1. \A t \in Tabs : Opened(t)' <=> Opened(t)
      BY OthersRest
    <3> QED  BY <3>1 DEF Opened
  <2>2. CASE q = r
    BY <1>1, <2>1, <2>2, OthersRest
  <2>3. CASE q # r
    BY <1>1, <1>2, <2>1, <2>3, OthersRest DEF RequestsFit
  <2> QED  BY <2>2, <2>3
<1>5. PendingKnown'
  <2> SUFFICES ASSUME NEW t \in Tabs, pending'[t] # None
               PROVE  Known(pending[t])' /\ owner'[pending'[t]] = t
    BY DEF PendingKnown
  <2>1. CASE pending'[t] = pending[t]
    <3>1. PICK q \in Requests : q = pending[t] /\ Known(q) /\ owner[q] = t
      BY <1>1, <2>1 DEF PendingKnown
    <3>2. owner'[q] = t /\ Known(q)'
      BY <1>2, <1>3, <3>1
    <3> QED  BY <2>1, <3>1, <3>2 DEF Known, At
  <2>2. CASE pending'[t] = r /\ t = owner'[r] /\ Known(r)'
    BY <2>2 DEF Known, At
  <2> QED  BY <2>1, <2>2
<1>6. CallsKnow'
  <2>1. ASSUME NEW o \in Calls
        PROVE  /\ At(o, "show")' => Known(held[o].request)'
               /\ Answering(o)' \/ At(o, "unbadge")' => Known(about[o])'
    BY <1>3, OthersRest, OneKnows
  <2> QED  BY <2>1 DEF CallsKnow
<1>7. AnswersCount'
  <2> SUFFICES ASSUME NEW o \in Calls, At(o, "unbadge")'
               PROVE  ~Blocked(about[o])'
    BY DEF AnswersCount
  <2>1. about'[o] = about[o] /\ At(o, "unbadge")
    BY OthersRest
  <2>2. o \in Threads
    BY DEF Threads
  <2>3. PICK q \in Requests : q = about[o]
    BY <2>1, <2>2, Kinds DEF StateInv, ThreadsInv, ThreadsFit, Fits, At
  <2>4. Known(q) /\ ~Blocked(q)
    BY <2>1, <2>3 DEF CallsKnow, AnswersCount
  <2>5. ~Blocked(q)'
    BY <2>4, OthersRest
  <2> QED  BY <2>1, <2>3, <2>5 DEF Blocked
<1>8. OneAsks'
  <2> SUFFICES ASSUME NEW x \in Requests, NEW q \in Requests,
                      client'[x] = "asking", q # x, owner'[q] = owner'[x]
               PROVE  /\ client'[q] # "asking" /\ todo'[q] = <<>>
                      /\ \A o \in Calls :
                          /\ At(o, "show")' => held'[o].request # q
                          /\ At(o, "replay")' \/ At(o, "prompt")' => pending'[owner'[x]] # q
    BY DEF OneAsks
  <2>1. q # r
    BY <1>2
  <2>2. owner'[x] \in Tabs
    BY <1>4 DEF RequestsFit
  <2>3. pending'[owner'[x]] = q => pending[owner'[x]] = q
    BY <1>1, <2>1, <2>2
  <2>4. /\ client[q] # "asking" /\ todo[q] = <<>>
        /\ \A o \in Calls :
            /\ At(o, "show") => held[o].request # q
            /\ At(o, "replay") \/ At(o, "prompt") => pending[owner'[x]] # q
    <3>1. CASE x = r
      BY <1>2, <2>1, <3>1
    <3>2. CASE x # r
      BY <1>2, <2>1, <3>2 DEF OneAsks
    <3> QED  BY <3>1, <3>2
  <2> QED  BY <1>2, <2>1, <2>3, <2>4, OthersRest
<1>9. ActiveOpen'
  BY <1>1 DEF ActiveOpen, Open
<1>10. PendingKept'
  <2> SUFFICES ASSUME window', NEW q \in Requests, Blocked(q)', Stored(q)', Open(owner[q])'
               PROVE  pending'[owner'[q]] = q
    BY DEF PendingKept
  <2>1. Open(owner'[q]) /\ window
    BY <1>1 DEF Open
  <2>2. CASE q = r
    BY <2>1, <2>2
  <2>3. CASE q # r
    <3>1. Blocked(q) /\ Stored(q) /\ owner'[q] = owner[q] /\ client[q] = "asking"
      BY <1>2, <2>3, OthersRest DEF Blocked
    <3>2. pending[owner[q]] = q /\ q \in waiting /\ owner[q] \in Tabs
      BY <1>1, <2>1, <3>1 DEF PendingKept, RequestsFit
    <3>3. owner[q] # owner'[r]
      BY <2>3, <3>1
    <3> QED  BY <3>1, <3>2, <3>3
  <2> QED  BY <2>2, <2>3
<1>11. BlockedOnScreen'
  <2> SUFFICES ASSUME window', NEW q \in Requests \ screen'.passed, Blocked(q)', At(q, "wait")'
               PROVE  OnScreen(q)'
    BY DEF BlockedOnScreen
  <2>1. CASE q = r
    BY <1>1, <2>1 DEF OnScreen
  <2>2. CASE q # r
    <3>1. Blocked(q) /\ At(q, "wait") /\ owner'[q] = owner[q] /\ client[q] = "asking" /\ owner[q] \in Tabs
      BY <1>2, <2>2, OthersRest DEF Blocked, RequestsFit
    <3>2. OnScreen(q)
      BY <1>1, <3>1 DEF BlockedOnScreen
    <3>3. Coming(q) => Coming(q)'
      BY <3>1, OthersRest DEF Coming, Answering
    <3>4. owner[q] # owner'[r]
      BY <2>2, <3>1
    <3> QED  BY <1>1, <3>1, <3>2, <3>3, <3>4 DEF OnScreen
  <2> QED  BY <2>1, <2>2
<1> QED  BY <1>4, <1>5, <1>6, <1>7, <1>8, <1>9, <1>10, <1>11

\* A request at work: what the steps of its handler have in common.
LEMMA AtWork ==
    ASSUME StateInv, ShownInv, NEW r \in Requests, todo[r] # <<>>
    PROVE  /\ client[r] # "none" /\ r \in Threads
           /\ todo[r] \in HandlerPrograms /\ Head(todo[r]) \in {"register", "store", "strip", "show", "wait"}
           /\ client[r] = "asking" => owner[r] \in Tabs /\ life[owner[r]] # "none" /\ ~Opened(owner[r]) /\ todo[Boot] = <<>>
           /\ \A q \in Requests \ {r} :
                /\ client[q] = "asking" => owner[r] # owner[q]
                /\ client[r] = "asking" /\ owner[q] = owner[r] =>
                    /\ client[q] # "asking" /\ todo[q] = <<>>
                    /\ \A th \in Calls :
                        /\ At(th, "show") => held[th].request # q
                        /\ At(th, "replay") \/ At(th, "prompt") => pending[owner[r]] # q
<1>1. client[r] # "none" /\ r \in Threads
  BY DEF ShownInv, RequestsFit, Threads
<1>2. todo[r] \in HandlerPrograms
  BY <1>1, Kinds DEF StateInv, ThreadsInv, ThreadsFit
<1>3. Head(todo[r]) \in {"register", "store", "strip", "show", "wait"}
  BY <1>2, HandlerTails
<1>4. client[r] = "asking" => owner[r] \in Tabs /\ life[owner[r]] # "none" /\ ~Opened(owner[r]) /\ todo[Boot] = <<>>
  BY DEF ShownInv, RequestsFit
<1>5. ASSUME NEW q \in Requests \ {r}
      PROVE  /\ client[q] = "asking" => owner[r] # owner[q]
             /\ client[r] = "asking" /\ owner[q] = owner[r] =>
                 /\ client[q] # "asking" /\ todo[q] = <<>>
                 /\ \A th \in Calls :
                     /\ At(th, "show") => held[th].request # q
                     /\ At(th, "replay") \/ At(th, "prompt") => pending[owner[r]] # q
  BY DEF ShownInv, OneAsks
<1> QED  BY <1>1, <1>2, <1>3, <1>4, <1>5

\* A move of one handler is a step about its request.
LEMMA MovedOneRequest ==
    ASSUME NEW r \in Requests, NEW p, NEW holds, NEW subject, Moved(r, p, holds, subject),
           UNCHANGED <<sessions, active, window, life>>,
           \A q \in Requests \ {r} :
            /\ owner'[q] = owner[q] /\ client'[q] = client[q] /\ decision'[q] = decision[q]
            /\ q \in waiting' <=> q \in waiting
    PROVE  OneRequest(r) /\ todo'[r] = p /\ \A s : At(r, s)' <=> p # <<>> /\ Head(p) = s
<1>1. \A o \in (Calls \cup Requests \cup {Boot}) \ {r} : o \in Threads \ {r}
  BY DEF Threads
<1> QED  BY <1>1 DEF Moved, OneRequest, At

\* The handler registers, stores, pushes and shows.
LEMMA HandlerShown ==
    ASSUME GuiTabsInv, ShownInv, NEW r \in Requests,
           Register(r) \/ PushPrompt(r) \/ PushSessions(r) \/ ShowPrompt(r)
    PROVE  ShownInv'
<1> USE DEF ShownInv
<1>1. /\ StateInv /\ ThreadsInv /\ todo[r] # <<>> /\ None \notin Requests
      /\ pending \in [Tabs -> Requests \cup {None}]
      /\ screen \in [active : Tabs \cup {None}, banner : Requests \cup {None}, passed : SUBSET Requests]
      /\ waiting \in SUBSET Requests
  BY GuiTabsAssumption DEF GuiTabsInv, StateInv, DataTypes, Threads, Register, PushPrompt, PushSessions, ShowPrompt, At
<1>2. UNCHANGED <<sessions, active, window, life, owner, client, decision>>
  BY DEF Register, PushPrompt, PushSessions, ShowPrompt, appVars, bridgeVars, clientVars
<1>3. Moved(r, Rest(r), None, about[r])
  <2>1. CASE Register(r) \/ PushPrompt(r)
    BY <1>1, <2>1, HandlerStill DEF Handler, Register, PushPrompt, Reply, At
  <2>2. CASE PushSessions(r) \/ ShowPrompt(r)
    BY <1>1, <2>2, AtWork, ShowMoves
  <2> QED  BY <2>1, <2>2
<1>4. \A q \in Requests \ {r} : q \in waiting' <=> q \in waiting
  BY DEF Register, PushPrompt, PushSessions, ShowPrompt, bridgeVars
<1>5. OneRequest(r) /\ todo'[r] = Rest(r) /\ \A s : At(r, s)' <=> Rest(r) # <<>> /\ Head(Rest(r)) = s
  BY <1>2, <1>3, <1>4, MovedOneRequest
<1>6. /\ Rest(r) # <<>>
      /\ At(r, "register") => Head(Rest(r)) = "store"
      /\ At(r, "store") => Head(Rest(r)) = "strip"
      /\ At(r, "strip") => Head(Rest(r)) = "show"
      /\ At(r, "show") => Head(Rest(r)) = "wait"
  <2>1. At(r, "register") \/ At(r, "store") \/ At(r, "strip") \/ At(r, "show")
    BY DEF Register, PushPrompt, PushSessions, ShowPrompt
  <2> QED  BY <1>1, <2>1, AtWork, HandlerTails DEF At, Rest
<1>7. r \in waiting' <=> At(r, "store")' \/ Stored(r)'
  BY <1>5, <1>6 DEF RequestsFit, Stored, At, Register, PushPrompt, PushSessions, ShowPrompt, bridgeVars
<1>8. Known(r) => Known(r)'
  BY <1>2, <1>5, <1>6 DEF Known, At, Register, PushPrompt, PushSessions, ShowPrompt
<1>9. \A q \in Requests : Known(q) => Known(q)'
  BY <1>5, <1>8, OthersRest
<1>10. BannerKnown'
  <2>1. CASE Register(r) \/ PushPrompt(r)
    <3>1. screen' = screen
      BY <2>1 DEF Register, PushPrompt
    <3> QED  BY <1>1, <1>9, <3>1 DEF BannerKnown, Known, At
  <2>2. CASE PushSessions(r) \/ ShowPrompt(r)
    <3>1. Known(r) /\ r \in Threads
      BY <1>1, <2>2, AtWork DEF PushSessions, ShowPrompt, Known, At
    <3> QED  BY <1>1, <1>9, <2>2, <3>1, BannerKnownKept DEF Pushes
  <2> QED  BY <2>1, <2>2
<1>11. ASSUME PushPrompt(r)
       PROVE  Known(r)' /\ (owner[r] \in Tabs => pending'[owner[r]] = r)
              /\ \A t \in Tabs \ {owner[r]} : pending'[t] = pending[t]
  BY <1>1, <1>2, <1>5, <1>6, <1>11, AtWork DEF PushPrompt, Known
<1>12. \A t \in Tabs :
        \/ pending'[t] = pending[t]
        \/ pending'[t] = None /\ pending[t] \notin waiting
        \/ pending'[t] = r /\ t = owner'[r] /\ Known(r)'
  BY <1>1, <1>2, <1>11 DEF Register, PushPrompt, PushSessions, ShowPrompt, appVars
<1>13. window /\ Blocked(r)' /\ Stored(r)' /\ Open(owner'[r]) => pending'[owner'[r]] = r
  <2> SUFFICES ASSUME window, Blocked(r)', Stored(r)', Open(owner'[r])
               PROVE  pending'[owner'[r]] = r
    OBVIOUS
  <2>1. Blocked(r) /\ owner[r] \in Tabs /\ Open(owner[r])
    BY <1>2 DEF Blocked, RequestsFit
  <2>2. CASE PushPrompt(r)
    BY <1>2, <1>11, <2>1, <2>2
  <2>3. CASE Register(r)
    BY <1>5, <1>6, <2>3 DEF Register, Stored
  <2>4. CASE PushSessions(r) \/ ShowPrompt(r)
    <3>1. Stored(r)
      BY <2>4 DEF PushSessions, ShowPrompt, Stored
    <3>2. pending[owner[r]] = r /\ r \in waiting
      BY <2>1, <3>1 DEF PendingKept, RequestsFit
    <3> QED  BY <1>1, <1>2, <1>12, <2>1, <3>2
  <2> QED  BY <2>2, <2>3, <2>4
<1>14. /\ screen'.active = screen.active /\ screen'.passed = screen.passed
       /\ screen'.banner = screen.banner \/ screen.active \in {None, owner'[r]}
       /\ window /\ At(r, "wait")' /\ screen.active = owner'[r] => screen'.banner = r
  <2>1. CASE Register(r) \/ PushPrompt(r) \/ PushSessions(r)
    BY <1>5, <1>6, <2>1 DEF Register, PushPrompt, PushSessions
  <2>2. CASE ShowPrompt(r)
    <3>1. Shown(r) = r
      BY DEF Shown
    <3>2. screen' = IF window /\ screen.active \in {None, owner[r]} THEN [screen EXCEPT !.banner = r] ELSE screen
      BY <2>2, <3>1 DEF ShowPrompt
    <3>3. /\ screen'.active = screen.active /\ screen'.passed = screen.passed
          /\ screen'.banner = IF window /\ screen.active \in {None, owner[r]} THEN r ELSE screen.banner
      BY <1>1, <3>2
    <3> QED  BY <1>2, <3>3
  <2> QED  BY <2>1, <2>2
<1> QED  BY <1>1, <1>2, <1>5, <1>6, <1>7, <1>8, <1>10, <1>12, <1>13, <1>14, AtWork, RequestKept DEF Blocked

\* An answer, or the end of the wait, ends the call.
LEMMA AnsweredShown ==
    ASSUME GuiTabsInv, ShownInv, NEW r \in Requests, Reply(r) \/ GiveUp(r)
    PROVE  ShownInv'
<1> USE DEF ShownInv
<1>1. /\ StateInv /\ ThreadsInv /\ todo[r] # <<>> /\ At(r, "wait")
      /\ client \in [Requests -> {"none", "asking", "allowed", "denied", "gone"}]
      /\ decision \in [Requests -> Behavior \cup {"none"}]
      /\ screen.banner \in Requests \cup {None}
  BY DEF GuiTabsInv, StateInv, DataTypes, Reply, GiveUp, At
<1>2. UNCHANGED <<sessions, active, pending, window, life, owner, screen>>
  BY DEF Reply, GiveUp, appVars
<1>3. client'[r] \notin {"none", "asking"} /\ \A q \in Requests \ {r} : client'[q] = client[q]
  BY <1>1, AtWork DEF Reply, GiveUp
<1>4. \A q \in Requests \ {r} : decision'[q] = decision[q] /\ (q \in waiting' <=> q \in waiting)
  BY <1>1 DEF Reply, GiveUp, bridgeVars
<1>5. /\ OneRequest(r) /\ ~At(r, "register")'
      /\ r \in waiting' <=> At(r, "store")' \/ Stored(r)'
  <2>1. CASE Reply(r)
    <3>1. Moved(r, <<>>, None, about[r])
      BY <1>1, <2>1, HandlerStill DEF Handler
    <3>2. OneRequest(r) /\ \A s : ~At(r, s)'
      BY <1>2, <1>3, <1>4, <3>1, MovedOneRequest
    <3>3. r \notin waiting'
      BY <2>1 DEF Reply
    <3> QED  BY <3>2, <3>3 DEF Stored
  <2>2. CASE GiveUp(r)
    <3>1. UNCHANGED threadVars /\ waiting' = waiting
      BY <2>2 DEF GiveUp, bridgeVars
    <3>2. OneRequest(r)
      BY <1>2, <1>3, <1>4, <3>1 DEF OneRequest, threadVars
    <3>3. r \in waiting <=> At(r, "store") \/ Stored(r)
      BY DEF RequestsFit
    <3> QED  BY <1>1, <3>1, <3>2, <3>3 DEF threadVars, At, Stored
  <2> QED  BY <2>1, <2>2
<1>6. Known(r)' /\ ~Blocked(r)'
  BY <1>3, <1>5 DEF Known, Blocked
<1>7. \A q \in Requests : Known(q) => Known(q)'
  BY <1>5, <1>6, OthersRest
<1>8. BannerKnown'
  BY <1>1, <1>2, <1>7 DEF BannerKnown, Known, At
<1> QED  BY <1>1, <1>2, <1>3, <1>5, <1>6, <1>8, AtWork, RequestKept

\* A claude asks when its last call is answered and every thread is through.
LEMMA AskShown ==
    ASSUME GuiTabsInv, ShownInv, NEW r \in Requests, NEW t \in Tabs, Ask(r, t)
    PROVE  ShownInv'
<1> USE DEF ShownInv
<1>1. /\ StateInv /\ ThreadsInv /\ Accounted(t)
      /\ client \in [Requests -> {"none", "asking", "allowed", "denied", "gone"}]
      /\ owner \in [Requests -> Tabs \cup {None}]
      /\ screen.banner \in Requests \cup {None} /\ None \notin Tabs
  BY GuiTabsAssumption DEF GuiTabsInv, StateInv, DataTypes, AllAccounted
<1>2. UNCHANGED <<sessions, active, pending, window, life, waiting, decision, screen>>
  BY DEF Ask, appVars, bridgeVars
<1>3. /\ client[r] = "none" /\ todo[r] = <<>> /\ life[t] = "running" /\ Open(t) /\ todo[Boot] = <<>>
      /\ \A q \in Requests : owner[q] = t =>
            client[q] # "asking" /\ \A th \in Calls \cup {q} : todo[th] = <<>>
  BY DEF Ask, Opening, Open
<1>4. /\ client'[r] = "asking" /\ owner'[r] = t
      /\ \A q \in Requests \ {r} : client'[q] = client[q] /\ owner'[q] = owner[q]
  BY <1>1 DEF Ask
<1>5. PICK p : p # <<>> /\ Head(p) = "register" /\ Moved(r, p, None, about[r])
  BY <1>1, AskStill
<1>6. OneRequest(r) /\ todo'[r] = p /\ \A s : At(r, s)' <=> Head(p) = s
  BY <1>2, <1>4, <1>5, MovedOneRequest
<1>7. ~Opened(t)
  BY <1>1, <1>3 DEF Accounted
<1>8. ~At(r, "store")' /\ ~Stored(r)' /\ r \notin waiting' /\ ~At(r, "wait")'
  BY <1>2, <1>3, <1>5, <1>6 DEF Stored, RequestsFit, At
<1>9. ~Known(r)
  BY <1>3 DEF Known
<1>10. \A q \in Requests : Known(q) => Known(q)'
  BY <1>6, <1>9, OthersRest
<1>11. BannerKnown'
  BY <1>1, <1>2, <1>10 DEF BannerKnown, Known, At
<1>12. \A q \in Requests \ {r} :
        /\ client[q] = "asking" => owner'[r] # owner[q]
        /\ client'[r] = "asking" /\ owner[q] = owner'[r] =>
            /\ client[q] # "asking" /\ todo[q] = <<>>
            /\ \A th \in Calls :
                /\ At(th, "show") => held[th].request # q
                /\ At(th, "replay") \/ At(th, "prompt") => pending[owner'[r]] # q
  BY <1>3, <1>4 DEF At
<1> QED  BY <1>1, <1>2, <1>3, <1>4, <1>5, <1>6, <1>7, <1>8, <1>9, <1>11, <1>12, RequestKept

-----------------------------------------------------------------------------
(* The start, every step, and what follows.                                *)

\* Nothing is asked at the start.
LEMMA InitShown ==
    ASSUME Init
    PROVE  ShownInv
<1>1. /\ \A th \in Calls \cup Requests : todo[th] = <<>>
      /\ Calls \subseteq Threads /\ Requests \subseteq Threads
  BY GuiTabsAssumption DEF Init, Threads
<1>2. \A th \in Calls \cup Requests : \A s : ~At(th, s)
  BY <1>1 DEF At
<1>3. /\ \A r \in Requests : client[r] = "none" /\ owner[r] = None /\ r \notin waiting
      /\ \A t \in Tabs : pending[t] = None
      /\ active = None /\ screen.banner = None
  BY DEF Init
<1>4. RequestsFit
  BY <1>1, <1>2, <1>3 DEF RequestsFit, Stored
<1>5. PendingKnown /\ BannerKnown /\ CallsKnow /\ AnswersCount
  BY <1>2, <1>3 DEF PendingKnown, BannerKnown, CallsKnow, AnswersCount, Answering
<1>6. OneAsks /\ ActiveOpen /\ PendingKept /\ BlockedOnScreen
  BY <1>3 DEF OneAsks, ActiveOpen, PendingKept, BlockedOnScreen, Blocked
<1> QED  BY <1>4, <1>5, <1>6 DEF ShownInv

\* Every step keeps what waits on screen, or coming.
LEMMA StepShown ==
    ASSUME GuiTabsInv, ShownInv, [Next]_vars
    PROVE  ShownInv'
<1>1. CASE UNCHANGED vars
  <2>1. UNCHANGED <<sessions, active, pending, window, life, waiting, decision, todo, about, held,
                    owner, client, screen>>
    BY <1>1 DEF vars, appVars, bridgeVars, threadVars, clientVars
  <2> QED  BY <2>1 DEF ShownInv, RequestsFit, PendingKnown, BannerKnown, CallsKnow, AnswersCount, OneAsks,
                       ActiveOpen, PendingKept, BlockedOnScreen, Known, Stored, Blocked, Answering, At, Opened,
                       Open, OnScreen, Coming
<1>2. ASSUME NEW th \in Threads, Pushes(th)
      PROVE  ShownInv'
  <2>1. CASE th \in Calls
    BY <1>2, <2>1, CallShown
  <2>2. CASE th = Boot
    BY <1>2, <2>2, BootShown
  <2>3. CASE th \in Requests
    <3>1. /\ ThreadsInv /\ th \notin Calls /\ active \in Tabs \cup {None}
          /\ pending \in [Tabs -> Requests \cup {None}]
      BY <2>3, Kinds DEF GuiTabsInv, DataTypes
    <3>2. ~ReadReplay(th) /\ ~ReadPrompt(th)
      BY <3>1, ReadReplayMoves, ReadPromptMoves
    <3>3. ~At(th, "active")
      <4>1. todo[th] # <<>> => Head(todo[th]) # "active"
        BY <2>3, AtWork DEF GuiTabsInv, StateInv
      <4> QED  BY <4>1 DEF At
    <3> QED  BY <1>2, <2>3, <3>2, <3>3, HandlerShown DEF Pushes, ReadActive, ShowActive
  <2>4. CASE th = Closer
    <3>1. PICK q \in CloserPrograms : q = todo[th] /\ q # <<>>
      BY <1>2, <2>4, Kinds DEF GuiTabsInv, ThreadsInv, ThreadsFit, Pushes, ReadActive, ShowActive,
                               PushSessions, ReadReplay, ReadPrompt, ShowPrompt, At
    <3>2. Head(q) \in {"clear", "stop_all", "silence"}
      BY <3>1, CloserTails
    <3> QED  BY <1>2, <3>1, <3>2 DEF Pushes, ReadActive, ShowActive,
                                     PushSessions, ReadReplay, ReadPrompt, ShowPrompt, At
  <2> QED  BY <2>1, <2>2, <2>3, <2>4 DEF Threads
<1>3. ASSUME NEW th \in Calls, User(th) \/ Call(th)
      PROVE  ShownInv'
  BY <1>3, UserShown, CallShown
<1>4. ASSUME NEW r \in Requests, Handler(r) \/ GiveUp(r) \/ \E t \in Tabs : Ask(r, t)
      PROVE  ShownInv'
  BY <1>4, HandlerShown, AnsweredShown, AskShown DEF Handler
<1>5. CASE Restore \/ Extend
  BY <1>5, BootShown
<1>6. CASE CloseWindow \/ Clear \/ StopAll \/ Silence
  BY <1>6, CloserShown
<1> QED  BY <1>1, <1>2, <1>3, <1>4, <1>5, <1>6 DEF Next

\* A call that waits for the tab on screen is on screen once the threads are
\* through, whatever switches, closings, answers and pushes met on the way,
\* but for what the late pushes of an open passed over.
THEOREM BlockedCallIsShown == Spec => []BlockedCallShown
<1>1. GuiTabsInv /\ ShownInv => BlockedCallShown
  <2> SUFFICES ASSUME GuiTabsInv, ShownInv, window, Settled, screen.active = active,
                      NEW r \in Requests \ screen.passed,
                      owner[r] = active, client[r] = "asking", decision[r] = "none"
               PROVE  screen.banner = r
    BY DEF BlockedCallShown
  <2>1. todo[r] = <<"wait">>
    BY DEF Settled, ShownInv, RequestsFit
  <2>2. At(r, "wait") /\ Blocked(r)
    BY <2>1 DEF At, Blocked
  <2>3. OnScreen(r)
    BY <2>2 DEF ShownInv, BlockedOnScreen
  <2>4. \A th \in Calls : todo[th] = <<>>
    BY GuiTabsAssumption DEF Settled, Threads
  <2>5. <<>> \notin ReplayPrograms
    BY DEF ReplayPrograms, Closing
  <2>6. ~Coming(r)
    BY <2>4, <2>5 DEF Coming, At, Answering
  <2> QED  BY <2>3, <2>6 DEF OnScreen
<1>2. ShownInv /\ GuiTabsInv /\ [Next]_vars => ShownInv'
  BY StepShown
<1>3. Init => ShownInv
  BY InitShown
<1>4. Spec => []ShownInv
  <2>1. Spec => []GuiTabsInv
    BY GuiTabsInvariant
  <2> QED  BY <1>2, <1>3, <2>1, PTL DEF Spec
<1> QED  BY <1>1, <1>4, GuiTabsInvariant, PTL

-----------------------------------------------------------------------------
(* The subagents of a tab.                                                 *)

AgentType == [description : Agents!AgentCalls, status : {"running", "done"}, resolved_by_parent : BOOLEAN]
Mine(c) == aCall[c].session = aSession

AgentTypes ==
    /\ aSession \in Nat \ {0} /\ aPath \in {0, aSession} /\ aParent \in 0..aSession
    /\ aCall \in [Agents!AgentCalls -> [description : Agents!AgentCalls, session : 1..aSession] \cup {None}]
    /\ \E n \in 0..MaxAgentCalls : Agents!Called = 1..n
    /\ aSub \in [Agents!AgentCalls -> {"none", "working", "stopped"}]
    /\ aLast \in [Agents!AgentCalls -> {"tool", "text", "end"}] /\ aQuiet \in [Agents!AgentCalls -> 0..2]
    /\ aLog \in Seq([is : {"spawn", "result"}, call : Agents!AgentCalls]) /\ aHeard \in Nat
    /\ \A i \in DOMAIN aLog : aLog[i].call \in Agents!Here

(* What the tracker knows, waits for and has booked is of calls that were  *)
(* made, of this transcript if it has caught up with it.                   *)
Tracked ==
    /\ DOMAIN aKnown \subseteq Agents!Called /\ aKnown \in [DOMAIN aKnown -> AgentType]
    /\ \A a \in DOMAIN aKnown : /\ aKnown[a].description = aCall[a].description
                                /\ aKnown[a].resolved_by_parent => aKnown[a].status = "done"
    /\ DOMAIN aTable \subseteq Agents!Called /\ aPending \subseteq Agents!Called
    /\ \A c \in DOMAIN aTable : aTable[c] = "resolved" /\ Mine(c) => c \in Agents!Results
    /\ \A c \in aPending : Mine(c) => c \in Agents!Results
    /\ aParent = aSession => \A c \in DOMAIN aTable : Mine(c)

(* A booked result waits, or has marked its subagent, or that one has no   *)
(* file and will have none.                                                *)
Marked ==
    \A c \in DOMAIN aTable \ aPending : aTable[c] = "resolved" /\ Agents!Alone(c) =>
        IF c \in DOMAIN aKnown THEN aKnown[c].status = "done"
        ELSE aParent = aSession => aSub[c] = "none"

(* Why a subagent is taken for done.                                       *)
Finished(a) == a \in Agents!Results \/ aLast[a] = "end" \/ a \in aLulls
DoneIs(a, done) == done /\ Mine(a) /\ Agents!Alone(a) => Finished(a)
Reasons ==
    /\ \A c \in Agents!AgentCalls : /\ aLast[c] = "end" => aSub[c] = "stopped"
                                    /\ (aLast[c] = "text" /\ aQuiet[c] >= 1) \/ aQuiet[c] = 2 => c \in aLulls
    /\ \A a \in DOMAIN aKnown : DoneIs(a, aKnown[a].status = "done")
    /\ DOMAIN aShown \subseteq Agents!Called
    /\ \A a \in DOMAIN aShown : DoneIs(a, aShown[a] = "done")

AgentsInv == AgentTypes /\ Tracked /\ Marked /\ Reasons

(* The tracker counts as everyone does. *)
LEMMA SameCount == ASSUME NEW S PROVE Agents!Cardinality(S) = Cardinality(S)
BY Zenon DEF Cardinality, Agents!Cardinality

(* The next call is a new one. *)
LEMMA NewCall ==
    ASSUME Agents!GuiAgentsAssumption, AgentTypes
    PROVE  /\ Cardinality(Agents!Called) + 1 \notin Agents!Called
           /\ Agents!Called \cup {Cardinality(Agents!Called) + 1} = 1..Cardinality(Agents!Called) + 1
           /\ Cardinality(Agents!Called) \in Nat
<1>1. PICK n \in 0..MaxAgentCalls : Agents!Called = 1..n
    BY DEF AgentTypes
<1>2. n \in Nat
    BY <1>1 DEF Agents!GuiAgentsAssumption
<1>3. Cardinality(1..n) = n
    <2>1. Cardinality(1..n) = IF 1 > n THEN 0 ELSE n - 1 + 1
        BY <1>2, FS_Interval
    <2> QED BY <1>2, <2>1
<1> QED BY <1>1, <1>2, <1>3

(* Steps that leave the calls and their sessions. *)
LEMMA SameAgentCalls ==
    ASSUME UNCHANGED <<aCall, aSession, aLog>>
    PROVE  /\ Agents!Called' = Agents!Called /\ Agents!Here' = Agents!Here /\ Agents!Results' = Agents!Results
           /\ \A c : Mine(c)' = Mine(c) /\ Agents!Alone(c)' = Agents!Alone(c)
BY DEF Agents!Called, Agents!Here, Agents!Results, Mine, Agents!Alone

(* claude's steps leave the tracker alone. *)
LEMMA ClaudeKeeps ==
    ASSUME Agents!GuiAgentsAssumption, AgentsInv, Agents!Claude
    PROVE  AgentsInv'
<1> USE DEF AgentsInv
<1>1. CASE Agents!Spawn
    <2>1. PICK c \in Agents!AgentCalls, d \in Agents!AgentCalls :
            /\ c = Cardinality(Agents!Called) + 1
            /\ d = c \/ (d \in Agents!Called /\ aCall[d].description = d)
            /\ aCall' = [aCall EXCEPT ![c] = [description |-> d, session |-> aSession]]
            /\ aLog' = Append(aLog, [is |-> "spawn", call |-> c])
        BY <1>1, SameCount DEF Agents!Spawn
    <2>2. UNCHANGED <<aSession, aSub, aLast, aQuiet, aLulls, aPath, aHeard, Agents!tracker, aShown>>
        BY <1>1 DEF Agents!Spawn
    <2>3. c \notin Agents!Called /\ Agents!Called \cup {c} = 1..c /\ c \in 0..MaxAgentCalls
        BY <2>1, NewCall DEF Agents!GuiAgentsAssumption, Agents!AgentCalls
    <2>4. /\ aCall'[c] # None /\ aCall'[c].session = aSession
          /\ aCall'[c] \in [description : Agents!AgentCalls, session : 1..aSession]
        <3>1. aCall'[c] = [description |-> d, session |-> aSession]
            BY <2>1 DEF AgentTypes
        <3>2. aCall'[c] \in [description : Nat, session : Nat]
            BY <3>1, <2>1 DEF AgentTypes, Agents!AgentCalls
        <3> QED BY <3>1, <3>2 DEF Agents!GuiAgentsAssumption, AgentTypes
    <2>5. Agents!Called' = Agents!Called \cup {c} /\ \A x \in Agents!Called : aCall'[x] = aCall[x]
        <3>1. \A x \in Agents!AgentCalls : x # c => aCall'[x] = aCall[x]
            BY <2>1 DEF AgentTypes
        <3>2. c \notin Agents!Called /\ aCall'[c] # None
            BY <2>3, <2>4
        <3>3. \A x \in Agents!Called : x \in Agents!AgentCalls /\ x # c
            BY <3>2 DEF Agents!Called
        <3>4. \A x \in Agents!AgentCalls : aCall'[x] # None <=> x \in Agents!Called \cup {c}
            BY <3>1, <3>2 DEF Agents!Called
        <3>5. Agents!Called' = {x \in Agents!AgentCalls : aCall'[x] # None}
            BY DEF Agents!Called
        <3> QED BY <3>1, <3>3, <3>4, <3>5
    <2>6. Agents!Results' = Agents!Results
        <3>1. \A i \in DOMAIN aLog : aLog'[i] = aLog[i] /\ i \in DOMAIN aLog'
            BY <2>1 DEF AgentTypes
        <3>2. \A i \in DOMAIN aLog' : i \in DOMAIN aLog \/ aLog'[i].is = "spawn"
            BY <2>1 DEF AgentTypes
        <3> QED BY <3>1, <3>2 DEF Agents!Results
    <2>7. AgentTypes'
        <3>1. aLog' \in Seq([is : {"spawn", "result"}, call : Agents!AgentCalls])
            BY <2>1 DEF AgentTypes
        <3>2. Agents!Here' = Agents!Here \cup {c}
            BY <2>2, <2>3, <2>4, <2>5 DEF Agents!Here
        <3>3. \A i \in DOMAIN aLog' : aLog'[i].call \in Agents!Here'
            <4>1. \A i \in DOMAIN aLog' : (i \in DOMAIN aLog /\ aLog'[i] = aLog[i]) \/ aLog'[i].call = c
                BY <2>1 DEF AgentTypes
            <4> QED BY <3>2, <4>1 DEF AgentTypes
        <3>4. aCall' \in [Agents!AgentCalls -> [description : Agents!AgentCalls, session : 1..aSession] \cup {None}]
            BY <2>1, <2>4 DEF AgentTypes
        <3> QED BY <2>2, <2>3, <2>5, <3>1, <3>3, <3>4 DEF AgentTypes, Agents!tracker
    <2>8. \A x \in Agents!Called : Mine(x)' = Mine(x) /\ (Agents!Alone(x)' => Agents!Alone(x))
        BY <2>2, <2>5 DEF Mine, Agents!Alone
    <2>9. Tracked'
        BY <2>2, <2>5, <2>6, <2>8 DEF Tracked, Agents!tracker
    <2>10. Marked'
        BY <2>2, <2>5, <2>6, <2>8 DEF Marked, Tracked, Agents!tracker
    <2>11. Reasons'
        BY <2>2, <2>5, <2>6, <2>8 DEF Reasons, Tracked, Agents!tracker, DoneIs, Finished
    <2> QED BY <2>7, <2>9, <2>10, <2>11
<1>2. CASE Agents!Result
    <2>1. PICK c \in Agents!Here :
            /\ c \notin Agents!Results
            /\ aLog' = Append(aLog, [is |-> "result", call |-> c])
            /\ aSub' = IF aSub[c] = "working" THEN [aSub EXCEPT ![c] = "stopped"] ELSE aSub
        BY <1>2 DEF Agents!Result
    <2>2. UNCHANGED <<aSession, aCall, aLast, aQuiet, aLulls, aPath, aHeard, Agents!tracker, aShown>>
        BY <1>2 DEF Agents!Result
    <2>3. /\ Agents!Called' = Agents!Called /\ Agents!Here' = Agents!Here
          /\ \A x : Mine(x)' = Mine(x) /\ Agents!Alone(x)' = Agents!Alone(x)
        BY <2>2 DEF Agents!Called, Agents!Here, Mine, Agents!Alone
    <2>4. c \in Agents!AgentCalls
        BY <2>1 DEF Agents!Here, Agents!Called
    <2>5. Agents!Results \subseteq Agents!Results'
        <3>1. \A i \in DOMAIN aLog : aLog'[i] = aLog[i] /\ i \in DOMAIN aLog'
            BY <2>1, <2>4 DEF AgentTypes
        <3> QED BY <3>1 DEF Agents!Results
    <2>6. AgentTypes'
        <3>1. aLog' \in Seq([is : {"spawn", "result"}, call : Agents!AgentCalls])
            BY <2>1, <2>4 DEF AgentTypes
        <3>2. \A i \in DOMAIN aLog' : (i \in DOMAIN aLog /\ aLog'[i] = aLog[i]) \/ aLog'[i].call = c
            BY <2>1 DEF AgentTypes
        <3>3. aSub' \in [Agents!AgentCalls -> {"none", "working", "stopped"}]
            BY <2>1 DEF AgentTypes
        <3> QED BY <2>1, <2>2, <2>3, <3>1, <3>2, <3>3 DEF AgentTypes, Agents!tracker
    <2>7. Tracked'
        BY <2>2, <2>3, <2>5 DEF Tracked, Agents!tracker
    <2>8. \A x \in Agents!AgentCalls : aSub[x] = "none" => aSub'[x] = "none"
        BY <2>1, <2>4 DEF AgentTypes
    <2>9. Marked'
        BY <2>2, <2>3, <2>8 DEF Marked, Tracked, Agents!tracker, Agents!Called
    <2>10. \A x \in Agents!AgentCalls : aSub[x] = "stopped" => aSub'[x] = "stopped"
        BY <2>1, <2>4 DEF AgentTypes
    <2>11. Reasons'
        BY <2>2, <2>3, <2>5, <2>10 DEF Reasons, Tracked, Agents!tracker, DoneIs, Finished
    <2> QED BY <2>6, <2>7, <2>9, <2>11
<1>3. ASSUME UNCHANGED <<aSession, aCall, aLog, aPath, aHeard, Agents!tracker, aShown>>,
             aSub' \in [Agents!AgentCalls -> {"none", "working", "stopped"}],
             aLast' \in [Agents!AgentCalls -> {"tool", "text", "end"}], aQuiet' \in [Agents!AgentCalls -> 0..2],
             \A x \in Agents!Results : aSub[x] = "none" => aSub'[x] = "none",
             \A x \in Agents!AgentCalls : aLast[x] = "end" => aLast'[x] = "end",
             \A x \in Agents!AgentCalls : aLast'[x] = "end" => aSub'[x] = "stopped",
             \A x \in Agents!AgentCalls : (aLast'[x] = "text" /\ aQuiet'[x] >= 1) \/ aQuiet'[x] = 2 => x \in aLulls',
             aLulls \subseteq aLulls'
      PROVE  AgentsInv'
    <2>1. /\ Agents!Called' = Agents!Called /\ Agents!Here' = Agents!Here /\ Agents!Results' = Agents!Results
          /\ \A c : Mine(c)' = Mine(c) /\ Agents!Alone(c)' = Agents!Alone(c)
        BY <1>3, SameAgentCalls
    <2>2. AgentTypes'
        BY <1>3, <2>1 DEF AgentTypes, Agents!tracker
    <2>3. Tracked'
        BY <1>3, <2>1 DEF Tracked, Agents!tracker
    <2>4. Marked'
        <3> SUFFICES ASSUME NEW c \in DOMAIN aTable \ aPending, aTable[c] = "resolved", Agents!Alone(c)
                     PROVE  IF c \in DOMAIN aKnown THEN aKnown[c].status = "done"
                            ELSE aParent = aSession => aSub'[c] = "none"
            BY <1>3, <2>1 DEF Marked, Agents!tracker
        <3>1. aParent = aSession => c \in Agents!Results
            BY DEF Tracked
        <3> QED BY <1>3, <3>1 DEF Marked
    <2>5. \A x \in Agents!Called : Finished(x) => Finished(x)'
        BY <1>3, <2>1 DEF Finished, Agents!Called
    <2>6. Reasons'
        BY <1>3, <2>1, <2>5 DEF Reasons, Tracked, Agents!tracker, DoneIs
    <2> QED BY <2>2, <2>3, <2>4, <2>6
<1>4. CASE Agents!Born
    <2>1. PICK c \in Agents!Here : aSub[c] = "none" /\ c \notin Agents!Results /\ aSub' = [aSub EXCEPT ![c] = "working"]
        BY <1>4 DEF Agents!Born
    <2>2. UNCHANGED <<aSession, aCall, aLast, aQuiet, aLog, aLulls, aPath, aHeard, Agents!tracker, aShown>>
        BY <1>4 DEF Agents!Born
    <2>3. c \in Agents!AgentCalls
        BY <2>1 DEF Agents!Here, Agents!Called
    <2>4. \A x \in Agents!Results : aSub[x] = "none" => aSub'[x] = "none"
        BY <2>1 DEF AgentTypes, Agents!Results
    <2>5. \A x \in Agents!AgentCalls : aLast[x] = "end" => aSub'[x] = "stopped"
        BY <2>1 DEF Reasons, AgentTypes
    <2> QED BY <1>3, <2>1, <2>2, <2>3, <2>4, <2>5 DEF AgentTypes, Reasons
<1>5. CASE Agents!Write
    <2>1. PICK c \in Agents!Here, k \in {"tool", "text", "end"} :
            /\ aSub[c] = "working"
            /\ aLast' = [aLast EXCEPT ![c] = k]
            /\ aQuiet' = [aQuiet EXCEPT ![c] = 0]
            /\ aSub' = IF k = "end" THEN [aSub EXCEPT ![c] = "stopped"] ELSE aSub
        BY <1>5 DEF Agents!Write
    <2>2. UNCHANGED <<aSession, aCall, aLog, aLulls, aPath, aHeard, Agents!tracker, aShown>>
        BY <1>5 DEF Agents!Write
    <2>3. c \in Agents!AgentCalls
        BY <2>1 DEF Agents!Here, Agents!Called
    <2>4. aSub' \in [Agents!AgentCalls -> {"none", "working", "stopped"}]
          /\ aLast' \in [Agents!AgentCalls -> {"tool", "text", "end"}] /\ aQuiet' \in [Agents!AgentCalls -> 0..2]
        BY <2>1, <2>3 DEF AgentTypes
    <2>5. \A x \in Agents!AgentCalls : /\ aSub[x] = "none" => aSub'[x] = "none"
                                       /\ aLast[x] = "end" => aLast'[x] = "end"
                                       /\ aLast'[x] = "end" => aSub'[x] = "stopped"
        BY <2>1, <2>3 DEF AgentTypes, Reasons
    <2>6. \A x \in Agents!AgentCalls : (aLast'[x] = "text" /\ aQuiet'[x] >= 1) \/ aQuiet'[x] = 2 => x \in aLulls'
        BY <2>1, <2>2, <2>3 DEF AgentTypes, Reasons
    <2>7. Agents!Results \subseteq Agents!AgentCalls
        BY DEF Agents!Results, AgentTypes, Agents!Here, Agents!Called
    <2> QED BY <1>3, <2>2, <2>4, <2>5, <2>6, <2>7
<1>6. CASE Agents!Dies
    <2>1. PICK c \in Agents!Here : aSub[c] = "working" /\ aSub' = [aSub EXCEPT ![c] = "stopped"]
        BY <1>6 DEF Agents!Dies
    <2>2. UNCHANGED <<aSession, aCall, aLast, aQuiet, aLog, aLulls, aPath, aHeard, Agents!tracker, aShown>>
        BY <1>6 DEF Agents!Dies
    <2>3. c \in Agents!AgentCalls
        BY <2>1 DEF Agents!Here, Agents!Called
    <2>4. Agents!Results \subseteq Agents!AgentCalls
        BY DEF Agents!Results, AgentTypes, Agents!Here, Agents!Called
    <2>5. \A x \in Agents!AgentCalls : /\ aSub[x] = "none" => aSub'[x] = "none"
                                       /\ aLast[x] = "end" => aSub'[x] = "stopped"
        BY <2>1, <2>3 DEF AgentTypes, Reasons
    <2> QED BY <1>3, <2>1, <2>2, <2>3, <2>4, <2>5 DEF AgentTypes, Reasons
<1>7. CASE Agents!Quiet
    <2>1. PICK c \in Agents!AgentCalls : Agents!QuietFor(c)
        BY <1>7 DEF Agents!Quiet
    <2>2. /\ aQuiet[c] < 2 /\ aQuiet' = [aQuiet EXCEPT ![c] = @ + 1]
          /\ aLulls' = IF aQuiet[c] = 1 \/ aLast[c] = "text" THEN aLulls \cup {c} ELSE aLulls
          /\ UNCHANGED <<aSession, aCall, aSub, aLast, aLog, aPath, aHeard, Agents!tracker, aShown>>
        BY <2>1 DEF Agents!QuietFor
    <2>3. aQuiet' \in [Agents!AgentCalls -> 0..2]
        BY <2>2 DEF AgentTypes
    <2>4. \A x \in Agents!AgentCalls : (aLast'[x] = "text" /\ aQuiet'[x] >= 1) \/ aQuiet'[x] = 2 => x \in aLulls'
        BY <2>2 DEF AgentTypes, Reasons
    <2> QED BY <1>3, <2>2, <2>3, <2>4 DEF AgentTypes, Reasons
<1> QED BY <1>1, <1>2, <1>4, <1>5, <1>6, <1>7 DEF Agents!Claude

(* What a tracker may hold of its subagents. *)
Holds(k) ==
    /\ DOMAIN k \subseteq Agents!Called
    /\ \A a \in DOMAIN k : /\ k[a] \in AgentType /\ k[a].description = aCall[a].description
                           /\ k[a].resolved_by_parent => k[a].status = "done"

(* Marking subagents as done keeps that. *)
LEMMA MarkingHolds ==
    ASSUME NEW k, NEW as, Holds(k)
    PROVE  /\ Holds(Agents!Resolved(k, as)) /\ Holds(Agents!Done(k, as))
           /\ DOMAIN Agents!Resolved(k, as) = DOMAIN k /\ DOMAIN Agents!Done(k, as) = DOMAIN k
           /\ \A a \in DOMAIN k : /\ Agents!Resolved(k, as)[a].status = IF a \in as THEN "done" ELSE k[a].status
                                  /\ Agents!Done(k, as)[a].status = IF a \in as THEN "done" ELSE k[a].status
<1> DEFINE R == Agents!Resolved(k, as)
           D == Agents!Done(k, as)
<1>1. DOMAIN R = DOMAIN k /\ DOMAIN D = DOMAIN k
    BY DEF Agents!Resolved, Agents!Done
<1>2. ASSUME NEW a \in DOMAIN k
      PROVE  /\ R[a] \in AgentType /\ R[a].description = k[a].description
             /\ R[a].status = IF a \in as THEN "done" ELSE k[a].status
             /\ R[a].resolved_by_parent => R[a].status = "done"
             /\ D[a] \in AgentType /\ D[a].description = k[a].description
             /\ D[a].status = IF a \in as THEN "done" ELSE k[a].status
             /\ D[a].resolved_by_parent => D[a].status = "done"
    <2> DEFINE r == k[a]
    <2>1. r \in AgentType /\ (r.resolved_by_parent => r.status = "done")
        BY DEF Holds
    <2>2. /\ R[a] = IF a \in as THEN [r EXCEPT !.status = "done", !.resolved_by_parent = TRUE] ELSE r
          /\ D[a] = IF a \in as THEN [r EXCEPT !.status = "done"] ELSE r
        BY DEF Agents!Resolved, Agents!Done
    <2> HIDE DEF r, R, D
    <2>3. CASE a \in as
        BY <2>1, <2>2, <2>3 DEF AgentType, r
    <2>4. CASE a \notin as
        BY <2>1, <2>2, <2>4 DEF AgentType, r
    <2> QED BY <2>3, <2>4
<1> HIDE DEF R, D
<1>3. Holds(R) /\ Holds(D)
    BY <1>1, <1>2 DEF Holds
<1> QED BY <1>1, <1>2, <1>3 DEF R, D

(* A candidate of a call whose description is its own is its subagent. *)
LEMMA CandidateIsTheCall ==
    ASSUME NEW k, Holds(k), NEW c \in Agents!Called, NEW a \in Agents!Candidates(k, c), Agents!Alone(c) \/ Agents!Alone(a)
    PROVE  a = c
BY DEF Agents!Candidates, Agents!Running, Holds, Agents!Alone

(* A record reaches the tracker. *)
LEMMA DeliverKeeps ==
    ASSUME Agents!GuiAgentsAssumption, AgentsInv, Agents!Deliver
    PROVE  AgentsInv'
<1> USE DEF AgentsInv
<1> DEFINE rec == aLog[aHeard + 1]
           c == rec.call
           for == Agents!Candidates(aKnown, c)
<1>1. UNCHANGED <<aSession, aCall, aSub, aLast, aQuiet, aLog, aLulls, aPath, aParent, aShown>>
    BY DEF Agents!Deliver, Agents!claude
<1>2. aPath = aSession /\ aHeard \in Nat /\ aHeard + 1 \in DOMAIN aLog /\ aHeard' = aHeard + 1
    BY DEF Agents!Deliver, AgentTypes
<1>3. c \in Agents!Called /\ Mine(c) /\ c \in Agents!AgentCalls /\ (rec.is = "result" => c \in Agents!Results)
    BY <1>2 DEF AgentTypes, Agents!Here, Mine, Agents!Results, Agents!Called
<1>4. /\ Agents!Called' = Agents!Called /\ Agents!Here' = Agents!Here /\ Agents!Results' = Agents!Results
      /\ \A x : Mine(x)' = Mine(x) /\ Agents!Alone(x)' = Agents!Alone(x)
    BY <1>1, SameAgentCalls
<1>5. AgentTypes'
    BY <1>1, <1>2, <1>4 DEF AgentTypes
<1>6. Holds(aKnown)
    BY DEF Tracked, Holds
<1>7. CASE /\ rec.is = "spawn" /\ UNCHANGED <<aKnown, aPending>>
           /\ aTable' = IF c \in DOMAIN aTable THEN aTable
                       ELSE [x \in DOMAIN aTable \cup {c} |-> IF x = c THEN "open" ELSE aTable[x]]
    <2>1. /\ DOMAIN aTable' = DOMAIN aTable \cup {c}
          /\ \A x \in DOMAIN aTable' :
               aTable'[x] = "resolved" => x \in DOMAIN aTable /\ aTable[x] = "resolved"
        BY <1>7
    <2>2. Tracked'
        BY <1>1, <1>3, <1>4, <1>7, <2>1 DEF Tracked
    <2>3. Marked'
        BY <1>1, <1>3, <1>4, <1>7, <2>1 DEF Marked
    <2>4. Reasons'
        BY <1>1, <1>4, <1>7 DEF Reasons, DoneIs, Finished
    <2> QED BY <1>5, <2>2, <2>3, <2>4
<1>8. CASE UNCHANGED <<aKnown, aPending, aTable>>
    <2>2. Tracked'
        BY <1>1, <1>4, <1>8 DEF Tracked
    <2>3. Marked'
        BY <1>1, <1>4, <1>8 DEF Marked
    <2>4. Reasons'
        BY <1>1, <1>4, <1>8 DEF Reasons, DoneIs, Finished
    <2> QED BY <1>5, <2>2, <2>3, <2>4
<1>9. CASE /\ rec.is = "result" /\ c \in DOMAIN aTable /\ aTable' = [aTable EXCEPT ![c] = "resolved"]
           /\ aPending' = aPending \cup {c} /\ UNCHANGED aKnown
    <2>1. DOMAIN aTable' = DOMAIN aTable /\ \A x \in DOMAIN aTable : x # c => aTable'[x] = aTable[x]
        BY <1>9
    <2>2. Tracked'
        BY <1>1, <1>3, <1>4, <1>9, <2>1 DEF Tracked
    <2>3. Marked'
        BY <1>1, <1>4, <1>9, <2>1 DEF Marked
    <2>4. Reasons'
        BY <1>1, <1>4, <1>9 DEF Reasons, DoneIs, Finished
    <2> QED BY <1>5, <2>2, <2>3, <2>4
<1>10. CASE /\ rec.is = "result" /\ c \in DOMAIN aTable /\ aTable' = [aTable EXCEPT ![c] = "resolved"]
            /\ \E a \in for : aKnown' = Agents!Resolved(aKnown, {a})
            /\ UNCHANGED aPending
    <2>1. DOMAIN aTable' = DOMAIN aTable /\ \A x \in DOMAIN aTable : x # c => aTable'[x] = aTable[x]
        BY <1>10
    <2>2. PICK a \in for : aKnown' = Agents!Resolved(aKnown, {a})
        BY <1>10
    <2>3. a \in DOMAIN aKnown /\ (Agents!Alone(c) \/ Agents!Alone(a) => a = c)
        BY <1>3, <1>6, CandidateIsTheCall DEF Agents!Candidates, Agents!Running
    <2>4. /\ Holds(aKnown') /\ DOMAIN aKnown' = DOMAIN aKnown
          /\ \A x \in DOMAIN aKnown : aKnown'[x].status = IF x = a THEN "done" ELSE aKnown[x].status
        BY <1>6, <2>2, MarkingHolds
    <2>5. aKnown' \in [DOMAIN aKnown' -> AgentType]
        BY <2>2, <2>4 DEF Agents!Resolved, Holds
    <2>6. Tracked'
        BY <1>1, <1>3, <1>4, <1>10, <2>1, <2>4, <2>5 DEF Tracked, Holds
    <2>7. Marked'
        <3> SUFFICES ASSUME NEW x \in DOMAIN aTable \ aPending, aTable'[x] = "resolved", Agents!Alone(x)
                     PROVE  IF x \in DOMAIN aKnown THEN aKnown'[x].status = "done"
                            ELSE aParent = aSession => aSub[x] = "none"
            BY <1>1, <1>4, <1>10, <2>1, <2>4 DEF Marked
        <3>1. CASE x = c
            BY <2>3, <2>4, <3>1
        <3>2. CASE x # c
            BY <2>1, <2>4, <3>2 DEF Marked
        <3> QED BY <3>1, <3>2
    <2>8. Reasons'
        <3>1. \A x \in DOMAIN aKnown : DoneIs(x, aKnown[x].status = "done")
            BY DEF Reasons
        <3>2. \A x \in DOMAIN aKnown : DoneIs(x, aKnown'[x].status = "done")
            BY <1>3, <1>10, <2>3, <2>4, <3>1 DEF DoneIs, Finished
        <3> QED BY <1>1, <1>4, <2>4, <3>2 DEF Reasons, DoneIs, Finished
    <2> QED BY <1>5, <2>6, <2>7, <2>8
<1>11. \/ /\ rec.is = "spawn" /\ UNCHANGED <<aKnown, aPending>>
          /\ aTable' = IF c \in DOMAIN aTable THEN aTable
                      ELSE [x \in DOMAIN aTable \cup {c} |-> IF x = c THEN "open" ELSE aTable[x]]
       \/ UNCHANGED <<aKnown, aPending, aTable>>
       \/ /\ rec.is = "result" /\ c \in DOMAIN aTable /\ aTable' = [aTable EXCEPT ![c] = "resolved"]
          /\ aPending' = aPending \cup {c} /\ UNCHANGED aKnown
       \/ /\ rec.is = "result" /\ c \in DOMAIN aTable /\ aTable' = [aTable EXCEPT ![c] = "resolved"]
          /\ \E a \in for : aKnown' = Agents!Resolved(aKnown, {a})
          /\ UNCHANGED aPending
    BY DEF Agents!Deliver
<1> QED BY <1>7, <1>8, <1>9, <1>10, <1>11

(* The files of the transcript, scanned. *)
LEMMA ScanHolds ==
    ASSUME Agents!GuiAgentsAssumption, AgentsInv, NEW k, k \in {aKnown, Agents!Empty}
    PROVE  /\ Holds(k) /\ Holds(Agents!Scanned(k))
           /\ DOMAIN Agents!Scanned(k) = DOMAIN k \cup {c \in Agents!Here : aSub[c] # "none"}
           /\ \A a \in DOMAIN k : k[a].status = "done" => Agents!Scanned(k)[a].status = "done"
           /\ \A a \in DOMAIN Agents!Scanned(k) : DoneIs(a, Agents!Scanned(k)[a].status = "done")
<1> USE DEF AgentsInv
<1> DEFINE was(a) == IF a \in DOMAIN k THEN k[a] ELSE Agents!NewAgent(a)
<1>1. Holds(k) /\ \A a \in DOMAIN k : DoneIs(a, k[a].status = "done")
    BY DEF Tracked, Holds, Agents!Empty, Reasons
<1>2. DOMAIN Agents!Scanned(k) = DOMAIN k \cup {c \in Agents!Here : aSub[c] # "none"}
    BY DEF Agents!Scanned
<1>3. \A a \in Agents!Called : /\ Agents!NewAgent(a) \in AgentType /\ Agents!NewAgent(a).description = aCall[a].description
                               /\ Agents!NewAgent(a).status = "running" /\ Agents!NewAgent(a).resolved_by_parent = FALSE
    BY DEF Agents!NewAgent, AgentType, Agents!Called, AgentTypes
<1>4. DOMAIN Agents!Scanned(k) \subseteq Agents!Called
    BY <1>1, <1>2 DEF Holds, Agents!Here
<1>5. \A a \in DOMAIN Agents!Scanned(k) : /\ was(a) \in AgentType /\ was(a).description = aCall[a].description
                                          /\ was(a).resolved_by_parent => was(a).status = "done"
    BY <1>1, <1>3, <1>4 DEF Holds
<1>6. \A a \in DOMAIN Agents!Scanned(k) :
        Agents!Scanned(k)[a] = IF Agents!Terminal(a) THEN [was(a) EXCEPT !.status = "done"] ELSE was(a)
    BY DEF Agents!Scanned
<1> HIDE DEF was
<1>7. \A a \in DOMAIN Agents!Scanned(k) :
        /\ Agents!Scanned(k)[a] \in AgentType
        /\ Agents!Scanned(k)[a].description = aCall[a].description
        /\ Agents!Scanned(k)[a].resolved_by_parent => Agents!Scanned(k)[a].status = "done"
        /\ Agents!Scanned(k)[a].status = IF Agents!Terminal(a) THEN "done" ELSE was(a).status
    BY <1>5, <1>6 DEF AgentType
<1>8. \A a \in DOMAIN k : was(a) = k[a]
    BY DEF was
<1>9. \A a \in DOMAIN Agents!Scanned(k) : a \notin DOMAIN k => was(a).status = "running"
    BY <1>3, <1>4 DEF was
<1>10. \A a \in DOMAIN Agents!Scanned(k) : DoneIs(a, Agents!Scanned(k)[a].status = "done")
    BY <1>1, <1>7, <1>8, <1>9 DEF DoneIs, Finished, Agents!Terminal
<1> QED BY <1>1, <1>2, <1>4, <1>7, <1>8, <1>10 DEF Holds

(* Each resolution that waits takes its own subagent, if it can. *)
LEMMA DrainedIs ==
    ASSUME NEW k, Holds(k), NEW ps \in SUBSET Agents!Called, NEW m \in Agents!Drains(k, ps), NEW c \in ps, Agents!Alone(c),
           0 \notin Agents!Called
    PROVE  IF c \in DOMAIN k /\ k[c].status = "running" THEN m[c] = c ELSE m[c] = 0
<1>1. /\ m[c] # 0 => m[c] \in Agents!Candidates(k, c)
      /\ m[c] = 0 => Agents!Candidates(k, c) \subseteq {m[q] : q \in ps}
      /\ \A p \in ps : m[p] # 0 => m[p] \in Agents!Candidates(k, p)
    BY DEF Agents!Drains
<1>2. m[c] # 0 => m[c] = c
    BY <1>1, CandidateIsTheCall
<1>3. c # 0
    OBVIOUS
<1>4. CASE c \in DOMAIN k /\ k[c].status = "running"
    <2>1. c \in Agents!Candidates(k, c)
        BY <1>4 DEF Agents!Candidates, Agents!Running, Holds
    <2>2. ASSUME m[c] = 0 PROVE FALSE
        <3>1. PICK q \in ps : m[q] = c
            BY <1>1, <2>1, <2>2
        <3>2. c \in Agents!Candidates(k, q)
            BY <1>1, <1>3, <3>1
        <3>3. q = c
            BY <3>2, CandidateIsTheCall
        <3> QED BY <1>3, <2>2, <3>1, <3>3
    <2> QED BY <1>2, <1>4, <2>2
<1>5. CASE ~(c \in DOMAIN k /\ k[c].status = "running")
    BY <1>1, <1>2, <1>5 DEF Agents!Candidates, Agents!Running
<1> QED BY <1>4, <1>5

(* The scan thread. *)
LEMMA ScanKeeps ==
    ASSUME Agents!GuiAgentsAssumption, AgentsInv, Agents!Scan
    PROVE  AgentsInv'
<1> USE DEF AgentsInv
<1> DEFINE switched == aPath # aParent
           k0 == IF switched THEN Agents!Empty ELSE aKnown
           k1 == Agents!Scanned(k0)
           ps == IF switched THEN {} ELSE aPending
<1>1. UNCHANGED <<aSession, aCall, aSub, aLast, aQuiet, aLog, aLulls, aPath, aHeard>> /\ aParent' = aPath
      /\ aTable' = IF switched THEN Agents!Empty ELSE aTable
    BY DEF Agents!Scan, Agents!claude
<1>2. /\ Agents!Called' = Agents!Called /\ Agents!Here' = Agents!Here /\ Agents!Results' = Agents!Results
      /\ \A x : Mine(x)' = Mine(x) /\ Agents!Alone(x)' = Agents!Alone(x)
    BY <1>1, SameAgentCalls
<1>3. AgentTypes'
    BY <1>1, <1>2 DEF AgentTypes
<1>4. /\ DOMAIN Agents!Empty = {} /\ k0 \in {aKnown, Agents!Empty} /\ ps \subseteq aPending /\ ps \subseteq Agents!Called
      /\ DOMAIN aTable' \subseteq DOMAIN aTable
      /\ \A x \in DOMAIN aTable' : aTable'[x] = aTable[x] /\ ~switched
    BY <1>1 DEF Agents!Empty, Tracked
<1>5. /\ Holds(k0) /\ Holds(k1) /\ DOMAIN k1 = DOMAIN k0 \cup {c \in Agents!Here : aSub[c] # "none"}
      /\ \A a \in DOMAIN k0 : k0[a].status = "done" => k1[a].status = "done"
      /\ \A a \in DOMAIN k1 : DoneIs(a, k1[a].status = "done")
    BY <1>4, ScanHolds
<1> HIDE DEF k1
<1>6. ASSUME Holds(aKnown'), aPending' \subseteq ps,
             \A a \in DOMAIN aKnown' : DoneIs(a, aKnown'[a].status = "done"),
             aShown' = aShown \/ aShown' = Agents!Statuses(aKnown') \/ aShown' = Agents!Empty,
             \A c \in DOMAIN aTable \ aPending' :
                 ~switched /\ aTable[c] = "resolved" /\ Agents!Alone(c) =>
                     IF c \in DOMAIN aKnown' THEN aKnown'[c].status = "done" ELSE aPath = aSession => aSub[c] = "none",
             aKnown' = [a \in DOMAIN aKnown' |-> aKnown'[a]]
      PROVE  AgentsInv'
    <2>1. Tracked'
        BY <1>1, <1>2, <1>4, <1>6 DEF Tracked, Holds
    <2>2. Marked'
        BY <1>1, <1>2, <1>4, <1>6 DEF Marked
    <2>3. DOMAIN aShown' \subseteq Agents!Called /\ \A a \in DOMAIN aShown' : DoneIs(a, aShown'[a] = "done")
        BY <1>4, <1>6 DEF Reasons, Agents!Statuses, Holds
    <2>4. Reasons'
        BY <1>1, <1>2, <1>6, <2>3 DEF Reasons, DoneIs, Finished
    <2> QED BY <1>3, <2>1, <2>2, <2>4
<1>7. CASE aPath = 0
    <2>1. aKnown' = Agents!Empty /\ aPending' = ps /\ (aShown' = aShown \/ aShown' = Agents!Empty)
        BY <1>7 DEF Agents!Scan
    <2>2. aPath # aSession
        BY <1>7 DEF AgentTypes
    <2>3. Holds(aKnown') /\ aKnown' = [a \in DOMAIN aKnown' |-> aKnown'[a]]
        BY <2>1 DEF Holds, Agents!Empty
    <2>4. DOMAIN aKnown' = {}
        BY <1>4, <2>1
    <2> QED BY <1>6, <2>1, <2>2, <2>3, <2>4
<1>8. CASE aPath # 0
    <2>1. PICK m \in Agents!Drains(k1, ps), dropped \in SUBSET ps :
            LET k2 == Agents!Resolved(k1, {m[p] : p \in ps} \ {0})
                k3 == Agents!Done(k2, Agents!Idle(k2))
            IN  /\ aKnown' = k3
                /\ aPending' = {p \in ps : m[p] = 0} \ dropped
                /\ aShown' = IF k3 = Agents!Empty /\ k0 = Agents!Empty THEN aShown ELSE Agents!Statuses(k3)
        BY <1>8 DEF Agents!Scan, k1
    <2> DEFINE taken == {m[p] : p \in ps} \ {0}
               k2 == Agents!Resolved(k1, taken)
    <2>2. /\ Holds(k2) /\ DOMAIN k2 = DOMAIN k1
          /\ \A a \in DOMAIN k1 : k2[a].status = IF a \in taken THEN "done" ELSE k1[a].status
        BY <1>5, MarkingHolds
    <2>3. aKnown' = Agents!Done(k2, Agents!Idle(k2))
        BY <2>1
    <2> HIDE DEF k2
    <2>4. /\ Holds(aKnown') /\ DOMAIN aKnown' = DOMAIN k1
          /\ \A a \in DOMAIN k1 : aKnown'[a].status = IF a \in Agents!Idle(k2) THEN "done" ELSE k2[a].status
        BY <2>2, <2>3, MarkingHolds
    <2>5. aKnown' = [a \in DOMAIN aKnown' |-> aKnown'[a]]
        BY <2>3 DEF Agents!Done
    <2>6. 0 \notin Agents!Called /\ aPath = aSession
        BY <1>8 DEF AgentTypes, Agents!Called, Agents!AgentCalls
    <2>7. \A a \in DOMAIN aKnown' : DoneIs(a, aKnown'[a].status = "done")
        <3> SUFFICES ASSUME NEW a \in DOMAIN k1, aKnown'[a].status = "done", Mine(a), Agents!Alone(a)
                     PROVE  Finished(a)
            BY <2>4 DEF DoneIs
        <3>1. CASE a \in Agents!Idle(k2)
            BY <3>1, <1>5 DEF Agents!Idle, Agents!EndsInText, Reasons, Finished, Holds, Agents!Called
        <3>2. CASE k1[a].status = "done"
            BY <1>5, <3>2 DEF DoneIs
        <3>3. CASE a \in taken
            <4>1. PICK p \in ps : m[p] = a /\ a # 0
                BY <3>3
            <4>2. a \in Agents!Candidates(k1, p)
                BY <4>1 DEF Agents!Drains
            <4>3. p = a
                BY <1>4, <1>5, <4>2, CandidateIsTheCall
            <4> QED BY <1>4, <4>3 DEF Tracked, Finished
        <3> QED BY <2>2, <2>4, <3>1, <3>2, <3>3
    <2>8. aShown' = aShown \/ aShown' = Agents!Statuses(aKnown')
        BY <2>1
    <2>9. aPending' \subseteq ps
        BY <2>1
    <2>10. ASSUME NEW c \in DOMAIN aTable \ aPending', ~switched, aTable[c] = "resolved", Agents!Alone(c)
           PROVE  IF c \in DOMAIN aKnown' THEN aKnown'[c].status = "done" ELSE aSub[c] = "none"
        <3>1. c \in Agents!Called /\ Mine(c) /\ k0 = aKnown /\ ps = aPending
            BY <1>4, <2>6, <2>10 DEF Tracked
        <3>2. c \notin DOMAIN k1 => aSub[c] = "none"
            BY <1>5, <3>1 DEF Agents!Here, Mine
        <3>3. ASSUME c \in DOMAIN k1, k1[c].status # "done" PROVE k2[c].status = "done"
            <4>1. c \notin DOMAIN aKnown \/ aKnown[c].status # "done"
                BY <1>5, <3>1, <3>3
            <4>2. aSub[c] # "none" \/ c \in DOMAIN aKnown
                BY <1>5, <3>1, <3>3
            <4>3. c \in ps
                BY <2>6, <2>10, <3>1, <4>1, <4>2 DEF Marked
            <4>4. k1[c].status = "running"
                BY <1>5, <3>3 DEF Holds, AgentType
            <4>5. m[c] = c
                BY <1>4, <1>5, <2>6, <2>10, <3>3, <4>3, <4>4, DrainedIs
            <4>6. c \in taken
                BY <2>6, <3>1, <4>3, <4>5
            <4> QED BY <2>2, <3>3, <4>6
        <3>4. c \in DOMAIN k1 => k2[c].status = "done"
            BY <2>2, <3>3
        <3> QED BY <2>4, <3>2, <3>4
    <2> QED BY <1>6, <2>4, <2>5, <2>7, <2>8, <2>9, <2>10
<1> QED BY <1>7, <1>8

(* A new session, an attached transcript, a snapshot of the strip. *)
LEMMA OthersKeep ==
    ASSUME Agents!GuiAgentsAssumption, AgentsInv, Agents!Clear \/ Agents!Attach \/ Agents!Snapshot
    PROVE  AgentsInv'
<1> USE DEF AgentsInv
<1>1. CASE Agents!Clear
    <2>1. /\ aSession' = aSession + 1 /\ aPath' = 0 /\ aHeard' = 0 /\ aLog' = <<>>
          /\ aSub' = [c \in Agents!AgentCalls |-> "none"] /\ aLast' = [c \in Agents!AgentCalls |-> "tool"]
          /\ aQuiet' = [c \in Agents!AgentCalls |-> 0] /\ aLulls' = {}
          /\ UNCHANGED <<aCall, Agents!tracker, aShown>>
        BY <1>1 DEF Agents!Clear
    <2>2. Agents!Called' = Agents!Called /\ (\A x : Agents!Alone(x)' = Agents!Alone(x)) /\ aSession \in Nat
        BY <2>1 DEF Agents!Called, Agents!Alone, AgentTypes
    <2>3. \A x \in Agents!Called : aCall[x].session \in 1..aSession
        BY DEF Agents!Called, AgentTypes
    <2>4. \A x \in Agents!Called : ~Mine(x)'
        BY <2>1, <2>2, <2>3 DEF Mine
    <2>5. aParent' # aSession'
        BY <2>1, <2>2 DEF AgentTypes, Agents!tracker
    <2>6. AgentTypes'
        <3>1. aCall' \in [Agents!AgentCalls -> [description : Agents!AgentCalls, session : 1..aSession'] \cup {None}]
            BY <2>1, <2>2 DEF AgentTypes
        <3> QED BY <2>1, <2>2, <3>1 DEF AgentTypes, Agents!tracker
    <2>7. Tracked'
        BY <2>1, <2>2, <2>4, <2>5 DEF Tracked, Agents!tracker
    <2>8. Marked'
        BY <2>1, <2>2, <2>5 DEF Marked, Agents!tracker
    <2>9. Reasons'
        BY <2>1, <2>2, <2>4 DEF Reasons, DoneIs, Tracked, Agents!tracker
    <2> QED BY <2>6, <2>7, <2>8, <2>9
<1>2. CASE Agents!Attach
    <2>1. /\ aPath' = aSession /\ aHeard' = 0
          /\ UNCHANGED <<aSession, aCall, aSub, aLast, aQuiet, aLog, aLulls, Agents!tracker, aShown>>
        BY <1>2 DEF Agents!Attach, Agents!claude
    <2>2. /\ Agents!Called' = Agents!Called /\ Agents!Here' = Agents!Here /\ Agents!Results' = Agents!Results
          /\ \A x : Mine(x)' = Mine(x) /\ Agents!Alone(x)' = Agents!Alone(x)
        BY <2>1, SameAgentCalls
    <2> QED BY <2>1, <2>2 DEF AgentTypes, Tracked, Marked, Reasons, DoneIs, Finished, Agents!tracker
<1>3. CASE Agents!Snapshot
    <2>1. /\ aShown' = Agents!Statuses(aKnown)
          /\ UNCHANGED <<aSession, aCall, aSub, aLast, aQuiet, aLog, aLulls, aPath, aHeard, Agents!tracker>>
        BY <1>3 DEF Agents!Snapshot, Agents!claude
    <2>2. /\ Agents!Called' = Agents!Called /\ Agents!Here' = Agents!Here /\ Agents!Results' = Agents!Results
          /\ \A x : Mine(x)' = Mine(x) /\ Agents!Alone(x)' = Agents!Alone(x)
        BY <2>1, SameAgentCalls
    <2>3. AgentTypes' /\ Tracked' /\ Marked'
        BY <2>1, <2>2 DEF AgentTypes, Tracked, Marked, Agents!tracker
    <2>4. Reasons'
        BY <2>1, <2>2 DEF Reasons, Tracked, DoneIs, Finished, Agents!Statuses, Agents!tracker
    <2> QED BY <2>3, <2>4
<1> QED BY <1>1, <1>2, <1>3

(* At first nothing is known. *)
LEMMA AgentsInit == ASSUME Agents!GuiAgentsAssumption, Agents!Init PROVE AgentsInv
<1>1. DOMAIN Agents!Empty = {}
    BY DEF Agents!Empty
<1>2. Agents!Called = {} /\ 0 \in 0..MaxAgentCalls
    BY DEF Agents!Called, Agents!Init, Agents!GuiAgentsAssumption
<1>3. AgentTypes
    BY <1>2 DEF Agents!Init, AgentTypes
<1> QED BY <1>1, <1>2, <1>3 DEF Agents!Init, AgentsInv, Tracked, Marked, Reasons, AgentType

(* Every step keeps the invariant. *)
LEMMA AgentsNext ==
    ASSUME Agents!GuiAgentsAssumption, AgentsInv, [Agents!Next]_(Agents!vars)
    PROVE  AgentsInv'
<1>1. CASE UNCHANGED Agents!vars
    <2>1. /\ Agents!Called' = Agents!Called /\ Agents!Here' = Agents!Here /\ Agents!Results' = Agents!Results
          /\ \A x : Mine(x)' = Mine(x) /\ Agents!Alone(x)' = Agents!Alone(x)
        BY <1>1, SameAgentCalls DEF Agents!vars, Agents!claude
    <2> QED BY <1>1, <2>1
        DEF AgentsInv, AgentTypes, Tracked, Marked, Reasons, DoneIs, Finished, Agents!vars, Agents!claude, Agents!tracker
<1>2. CASE Agents!Next
    BY <1>2, ClaudeKeeps, DeliverKeeps, ScanKeeps, OthersKeep DEF Agents!Next
<1> QED BY <1>1, <1>2

(* ResultMarksDone: a result the tracker has booked is not lost, whether   *)
(* the tail hears it before or after the scan sees the subagent's file,    *)
(* however many results wait and whichever are dropped                     *)
(* (subagent_tracker.py _apply_resolution_locked, _scan_once).             *)
THEOREM ResultsMarkDone == Agents!Spec => []ResultMarksDone
<1>1. AgentsInv => ResultMarksDone
    BY DEF AgentsInv, Marked, ResultMarksDone, Agents!ResultMarksDone
<1>2. Agents!Init => AgentsInv
    BY AgentsInit, GuiAssumption
<1>3. AgentsInv /\ [Agents!Next]_(Agents!vars) => AgentsInv'
    BY AgentsNext, GuiAssumption
<1> QED BY <1>1, <1>2, <1>3, PTL DEF Agents!Spec

(* DoneMeansOver: a subagent is not shown as done unless it ended, its     *)
(* call has a result, it passed as done after a silence, or another call   *)
(* has its description (subagent_tracker.py _scan_once, _apply_record).    *)
THEOREM DoneAreOver == Agents!Spec => []Agents!DoneMeansOver
<1>1. AgentsInv => Agents!DoneMeansOver
    BY DEF AgentsInv, Reasons, DoneIs, Finished, Mine, Agents!DoneMeansOver, Agents!Over, Agents!Here, Agents!Called
<1>2. Agents!Init => AgentsInv
    BY AgentsInit, GuiAssumption
<1>3. AgentsInv /\ [Agents!Next]_(Agents!vars) => AgentsInv'
    BY AgentsNext, GuiAssumption
<1> QED BY <1>1, <1>2, <1>3, PTL DEF Agents!Spec
=============================================================================
