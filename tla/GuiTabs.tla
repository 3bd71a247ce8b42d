-------------------------------- MODULE GuiTabs --------------------------------
(***************************************************************************)
(* The tabs of the desktop GUI and the permission prompts that reach them: *)
(* gui/app.py (App), gui/permission_bridge.py and the client side in       *)
(* gui/permission_mcp.py, with what gui/web/app.js keeps of the pushes.    *)
(*                                                                         *)
(* Every call from the page runs on a thread of its own and every request  *)
(* on a handler thread of the bridge.  A thread holds _state_lock for one  *)
(* step at a time; what it pushes it reads under the lock and evaluates in *)
(* the page after releasing it, so a push may land after newer ones.       *)
(***************************************************************************)
EXTENDS Integers, Sequences, SequencesExt, FiniteSets

CONSTANTS
    Saved,       \* the tabs of tabs.json, restored by start_services
    SavedActive, \* its active_idx, from 1 and no less
    New,         \* tabs the user may open
    Calls,       \* threads that serve calls from the page
    Requests,    \* permission requests, each with its handler thread
    Boot,        \* the thread of start_services
    Closer,      \* the thread of the window's closed event
    MaxClicks,   \* calls from the page
    None

Tabs == ToSet(Saved) \cup New
Threads == Calls \cup Requests \cup {Boot, Closer}

ASSUME GuiTabsAssumption ==
    /\ Saved \in Seq(ToSet(Saved)) /\ IsInjective(Saved)
    /\ SavedActive \in Nat \ {0}
    /\ New \cap ToSet(Saved) = {}
    /\ Calls \cap Requests = {}
    /\ Boot \notin Calls \cup Requests
    /\ Closer \notin Calls \cup Requests \cup {Boot}
    /\ MaxClicks \in Nat
    /\ None \notin Tabs \cup Threads

VARIABLES
    sessions, \* App._sessions
    active,   \* App._active_id
    pending,  \* App._pending_permission_by_session
    window,   \* whether the page is still there
    life,     \* the claude of each tab
    waiting,  \* PermissionBridge._pending
    decision, \* PermissionBridge._decisions
    todo,     \* what is left of each thread's call
    about,    \* the tab or the request it is for
    held,     \* what it has read under the lock and not yet used
    owner,    \* tab whose claude made the request
    client,   \* the request as permission_mcp.py sees it
    screen,   \* app.js: activeSessionId and mcpPrompt; the requests passed over
    clicked,  \* answers the user gave to each prompt
    clicks    \* calls from the page so far

appVars == <<sessions, active, pending>>
bridgeVars == <<waiting, decision>>
threadVars == <<todo, about, held>>
clientVars == <<owner, client, life>>
userVars == <<clicked, clicks>>
vars == <<appVars, bridgeVars, threadVars, clientVars, userVars, screen, window>>

Behavior == {"allow", "deny"}
Step == {"active", "strip", "replay", "prompt", "show", "append", "restore", "extend", "select",
         "remove", "release", "stop", "allow", "deny", "unbadge", "register", "store", "wait",
         "clear", "stop_all", "silence"}
PushTabs == <<"active", "strip">>

TypeOK ==
    /\ sessions \in Seq(Tabs) /\ IsInjective(sessions)
    /\ active \in Tabs \cup {None}
    /\ pending \in [Tabs -> Requests \cup {None}]
    /\ window \in BOOLEAN
    /\ life \in [Tabs -> {"none", "running", "stopped"}]
    /\ waiting \in SUBSET Requests
    /\ decision \in [Requests -> Behavior \cup {"none"}]
    /\ \A r \in Requests : decision[r] # "none" => r \in waiting
    /\ todo \in [Threads -> Seq(Step)]
    /\ about \in [Threads -> Tabs \cup Requests \cup {None}]
    /\ DOMAIN held = Threads
    /\ owner \in [Requests -> Tabs \cup {None}]
    /\ client \in [Requests -> {"none", "asking", "allowed", "denied", "gone"}]
    /\ screen \in [active : Tabs \cup {None}, banner : Requests \cup {None}, passed : SUBSET Requests]
    /\ clicked \in [Requests -> SUBSET Behavior]
    /\ clicks \in 0..MaxClicks

Init ==
    /\ sessions = <<>>
    /\ active = None
    /\ pending = [t \in Tabs |-> None]
    /\ window = TRUE
    /\ life = [t \in Tabs |-> "none"]
    /\ waiting = {}
    /\ decision = [r \in Requests |-> "none"]
    /\ todo = [th \in Threads |-> IF th = Boot THEN <<"restore">> ELSE <<>>]
    /\ about = [th \in Threads |-> None]
    /\ held = [th \in Threads |-> None]
    /\ owner = [r \in Requests |-> None]
    /\ client = [r \in Requests |-> "none"]
    /\ screen = [active |-> None, banner |-> None, passed |-> {}]
    /\ clicked = [r \in Requests |-> {}]
    /\ clicks = 0

At(th, step) == todo[th] # <<>> /\ Head(todo[th]) = step
Rest(th) == Tail(todo[th])
GoOn(th, steps, value) ==
    /\ todo' = [todo EXCEPT ![th] = steps]
    /\ held' = [held EXCEPT ![th] = value]
    /\ about' = IF steps = <<>> THEN [about EXCEPT ![th] = None] ELSE about

-----------------------------------------------------------------------------
(* What the user does in the page: each click is one call.  The strip may  *)
(* be older than the tabs, so it may offer a tab that is closed by now.    *)

Called(th, steps, subject) ==
    /\ window
    /\ th \in Calls /\ todo[th] = <<>>
    /\ clicks < MaxClicks
    /\ clicks' = clicks + 1
    /\ todo' = [todo EXCEPT ![th] = steps]
    /\ about' = [about EXCEPT ![th] = subject]
    /\ UNCHANGED <<appVars, bridgeVars, window, held, owner, client>>

UserOpens(th, t) ==
    /\ t \in New /\ life[t] = "none"
    /\ life' = [life EXCEPT ![t] = "running"]
    /\ Called(th, <<"append">>, t)
    /\ UNCHANGED <<screen, clicked>>

UserSwitches(th, t) ==
    /\ life[t] # "none" /\ t # screen.active
    /\ Called(th, <<"select">>, t)
    /\ UNCHANGED <<life, screen, clicked>>

UserCloses(th, t) ==
    /\ life[t] # "none"
    /\ Called(th, <<"remove">>, t)
    /\ UNCHANGED <<life, screen, clicked>>

UserAnswers(th, choice) ==
    /\ screen.banner # None
    /\ Called(th, <<choice, "unbadge">>, screen.banner)
    /\ screen' = [screen EXCEPT !.banner = None]
    /\ clicked' = [clicked EXCEPT ![screen.banner] = @ \cup {choice}]
    /\ UNCHANGED life

CloseWindow ==
    /\ window
    /\ window' = FALSE
    /\ todo' = [todo EXCEPT ![Closer] = <<"clear", "stop_all", "silence">>]
    /\ UNCHANGED <<appVars, bridgeVars, about, held, clientVars, userVars, screen>>

-----------------------------------------------------------------------------
(* The pushes: one step reads, the next evaluates in the page.             *)

ReadActive(th) ==
    /\ At(th, "active") /\ held[th] = None
    /\ GoOn(th, todo[th], [tab |-> active])
    /\ UNCHANGED <<appVars, bridgeVars, clientVars, userVars, screen, window>>

\* _push_sessions drops the prompts the bridge no longer tracks first.
PushSessions(th) ==
    /\ At(th, "strip")
    /\ pending' = [t \in Tabs |-> IF pending[t] \in waiting THEN pending[t] ELSE None]
    /\ GoOn(th, Rest(th), None)
    /\ UNCHANGED <<sessions, active, bridgeVars, clientVars, userVars, screen, window>>

(* Mutant: a switch replays no prompt. *)
NoReplay(th) ==
    /\ At(th, "replay")
    /\ GoOn(th, Rest(th), None)
    /\ UNCHANGED <<appVars, bridgeVars, clientVars, userVars, screen, window>>

ReadReplay(th) ==
    /\ At(th, "replay")
    /\ IF active = None THEN GoOn(th, Rest(th), None)
       ELSE GoOn(th, <<"prompt">> \o Rest(th), [tab |-> active])
    /\ UNCHANGED <<appVars, bridgeVars, clientVars, userVars, screen, window>>

ReadPrompt(th) ==
    /\ At(th, "prompt")
    /\ LET r == pending[held[th].tab]
       IN IF r = None THEN GoOn(th, Rest(th), None)
          ELSE GoOn(th, <<"show">> \o Rest(th), [request |-> r])
    /\ UNCHANGED <<appVars, bridgeVars, clientVars, userVars, screen, window>>

Shown(th) == IF th \in Requests THEN th ELSE held[th].request

\* app.js: onPermissionPrompt.
ShowPrompt(th) ==
    /\ At(th, "show")
    /\ screen' = IF window /\ screen.active \in {None, owner[Shown(th)]}
                 THEN [screen EXCEPT !.banner = Shown(th)] ELSE screen
    /\ GoOn(th, Rest(th), None)
    /\ UNCHANGED <<appVars, bridgeVars, clientVars, userVars, window>>

\* What the page is shown without its prompt (history): the pushes of an open
\* do not replay, and show another tab if one was switched to meanwhile.
PassedOver(th) ==
    IF "replay" \in ToSet(todo[th]) \/ screen.active = held[th].tab THEN {}
    ELSE {r \in Requests : owner[r] = held[th].tab /\ client[r] = "asking"}

\* app.js: setActiveSession drops the banner of the tab it leaves.
ShowActive(th) ==
    /\ At(th, "active") /\ held[th] # None
    /\ screen' = IF window
                 THEN [active |-> held[th].tab,
                       banner |-> IF screen.active \in {None, held[th].tab} THEN screen.banner ELSE None,
                       passed |-> screen.passed \cup PassedOver(th)]
                 ELSE screen
    /\ GoOn(th, Rest(th), None)
    /\ UNCHANGED <<appVars, bridgeVars, clientVars, userVars, window>>

-----------------------------------------------------------------------------
(* The lifecycle of the tabs.                                              *)

\* n of the saved tabs, in their order: those whose claude could be started.
Starts(n) ==
    {[i \in 1..n |-> Saved[kept[i]]] : kept \in
        {k \in [1..n -> DOMAIN Saved] : \A i, j \in 1..n : i < j => k[i] < k[j]}}

Restore ==
    /\ At(Boot, "restore")
    /\ \E n \in 0..Len(Saved) : \E started \in Starts(n) :
        /\ life' = [t \in Tabs |-> IF t \in ToSet(started) THEN "running" ELSE life[t]]
        /\ GoOn(Boot, <<"extend">> \o PushTabs, [tabs |-> started])
    /\ UNCHANGED <<appVars, bridgeVars, owner, client, userVars, screen, window>>

(* Mutant: the restored tabs take the place of those opened meanwhile. *)
ExtendOver ==
    /\ At(Boot, "extend")
    /\ LET started == held[Boot].tabs
       IN IF started = <<>> THEN UNCHANGED <<sessions, active>>
          ELSE sessions' = started /\ active' = Last(started)
    /\ GoOn(Boot, Rest(Boot), None)
    /\ UNCHANGED <<pending, bridgeVars, clientVars, userVars, screen, window>>

Extend ==
    /\ At(Boot, "extend")
    /\ LET started == held[Boot].tabs
           all == sessions \o started
       IN IF started = <<>> THEN UNCHANGED <<sessions, active>>
          ELSE /\ sessions' = all
               /\ active' = all[IF SavedActive <= Len(all) THEN SavedActive ELSE Len(all)]
    /\ GoOn(Boot, Rest(Boot), None)
    /\ UNCHANGED <<pending, bridgeVars, clientVars, userVars, screen, window>>

OpenSession(th) ==
    /\ At(th, "append")
    /\ sessions' = Append(sessions, about[th])
    /\ active' = about[th]
    /\ GoOn(th, PushTabs, None)
    /\ UNCHANGED <<pending, bridgeVars, clientVars, userVars, screen, window>>

SwitchTo(th) ==
    /\ At(th, "select")
    /\ IF about[th] \in ToSet(sessions) \ {active}
       THEN active' = about[th] /\ GoOn(th, PushTabs \o <<"replay">>, None)
       ELSE UNCHANGED active /\ GoOn(th, <<>>, None)
    /\ UNCHANGED <<sessions, pending, bridgeVars, clientVars, userVars, screen, window>>

\* The tab that slides into the closed one's place, or the last one.
Promoted(place, left) ==
    IF sessions[place] # active THEN active
    ELSE IF left = <<>> THEN None
    ELSE left[IF place <= Len(left) THEN place ELSE Len(left)]

CloseSession(th) ==
    /\ At(th, "remove")
    /\ LET t == about[th]
       IN \/ \E place \in DOMAIN sessions :
              /\ sessions[place] = t
              /\ sessions' = RemoveAt(sessions, place)
              /\ active' = Promoted(place, RemoveAt(sessions, place))
              /\ pending' = [pending EXCEPT ![t] = None]
              /\ GoOn(th, <<"release", "stop">> \o PushTabs \o <<"replay">>, [request |-> pending[t]])
          \/ t \notin ToSet(sessions) /\ GoOn(th, <<>>, None) /\ UNCHANGED appVars
    /\ UNCHANGED <<bridgeVars, clientVars, userVars, screen, window>>

Resolved(r, choice) ==
    IF r \in waiting THEN [decision EXCEPT ![r] = choice] ELSE decision

Release(th) ==
    /\ At(th, "release")
    /\ decision' = Resolved(held[th].request, "deny")
    /\ GoOn(th, Rest(th), None)
    /\ UNCHANGED <<appVars, waiting, clientVars, userVars, screen, window>>

\* A claude that is gone takes its permission server with it.
Stopped(gone) ==
    /\ life' = [t \in Tabs |-> IF t \in gone THEN "stopped" ELSE life[t]]
    /\ client' = [r \in Requests |-> IF client[r] = "asking" /\ owner[r] \in gone THEN "gone" ELSE client[r]]
    /\ UNCHANGED owner

Stop(th) ==
    /\ At(th, "stop")
    /\ Stopped({about[th]})
    /\ GoOn(th, Rest(th), None)
    /\ UNCHANGED <<appVars, bridgeVars, userVars, screen, window>>

Clear ==
    /\ At(Closer, "clear")
    /\ sessions' = <<>>
    /\ active' = None
    /\ pending' = [t \in Tabs |-> None]
    /\ GoOn(Closer, Rest(Closer), [tabs |-> sessions])
    /\ UNCHANGED <<bridgeVars, clientVars, userVars, screen, window>>

StopAll ==
    /\ At(Closer, "stop_all")
    /\ Stopped(ToSet(held[Closer].tabs))
    /\ GoOn(Closer, Rest(Closer), None)
    /\ UNCHANGED <<appVars, bridgeVars, userVars, screen, window>>

\* PermissionBridge.stop: whoever still waits is denied.
Silence ==
    /\ At(Closer, "silence")
    /\ decision' = [r \in Requests |-> IF r \in waiting /\ decision[r] = "none" THEN "deny" ELSE decision[r]]
    /\ GoOn(Closer, <<>>, None)
    /\ UNCHANGED <<appVars, waiting, clientVars, userVars, screen, window>>

-----------------------------------------------------------------------------
(* A permission request: permission_mcp.py serves one call at a time.  A   *)
(* claude asks in a turn, and a turn starts with input to an open tab:     *)
(* later than the pushes that open a tab, which replay no prompt.  It asks *)
(* again only after an answer, when the calls then served are through and  *)
(* the bridge, whose timer started a little later, has let the old one go. *)

BridgeUp == window \/ todo[Closer] # <<>>

Opening ==
    \/ todo[Boot] # <<>>
    \/ \E th \in Calls : about[th] \in Tabs /\ Last(todo[th]) \in {"append", "strip"}

Ask(r, t) ==
    /\ client[r] = "none" /\ todo[r] = <<>>
    /\ t \in ToSet(sessions) /\ life[t] = "running" /\ ~Opening
    /\ \A q \in Requests : owner[q] = t =>
        client[q] # "asking" /\ \A th \in Calls \cup {q} : todo[th] = <<>>
    /\ BridgeUp
    /\ owner' = [owner EXCEPT ![r] = t]
    /\ client' = [client EXCEPT ![r] = "asking"]
    /\ GoOn(r, <<"register", "store", "strip", "show", "wait">>, None)
    /\ UNCHANGED <<appVars, bridgeVars, life, userVars, screen, window>>

Register(r) ==
    /\ At(r, "register")
    /\ waiting' = waiting \cup {r}
    /\ GoOn(r, Rest(r), None)
    /\ UNCHANGED <<appVars, decision, clientVars, userVars, screen, window>>

PushPrompt(r) ==
    /\ At(r, "store")
    /\ pending' = [pending EXCEPT ![owner[r]] = r]
    /\ GoOn(r, Rest(r), None)
    /\ UNCHANGED <<sessions, active, bridgeVars, clientVars, userVars, screen, window>>

\* evt.wait returns for a decision or for the timeout, which denies.
Reply(r) ==
    /\ At(r, "wait")
    /\ waiting' = waiting \ {r}
    /\ decision' = [decision EXCEPT ![r] = "none"]
    /\ client' = IF client[r] # "asking" THEN client
                 ELSE [client EXCEPT ![r] = IF decision[r] = "allow" THEN "allowed" ELSE "denied"]
    /\ GoOn(r, <<>>, None)
    /\ UNCHANGED <<appVars, owner, life, userVars, screen, window>>

\* _ask_bridge waits as long as the bridge does, from a little earlier.
GiveUp(r) ==
    /\ client[r] = "asking" /\ At(r, "wait")
    /\ client' = [client EXCEPT ![r] = "denied"]
    /\ UNCHANGED <<appVars, bridgeVars, threadVars, owner, life, userVars, screen, window>>

(* Mutant: the answer goes to the prompt stored for the tab. *)
ResolveForTab(th, choice) ==
    /\ At(th, choice)
    /\ decision' = Resolved(pending[owner[about[th]]], choice)
    /\ GoOn(th, Rest(th), None)
    /\ UNCHANGED <<appVars, waiting, clientVars, userVars, screen, window>>

ResolvePermission(th, choice) ==
    /\ At(th, choice)
    /\ decision' = Resolved(about[th], choice)
    /\ GoOn(th, Rest(th), None)
    /\ UNCHANGED <<appVars, waiting, clientVars, userVars, screen, window>>

Unbadge(th) ==
    /\ At(th, "unbadge")
    /\ LET t == owner[about[th]]
       IN IF pending[t] = about[th]
          THEN pending' = [pending EXCEPT ![t] = None] /\ GoOn(th, <<"strip">>, None)
          ELSE UNCHANGED pending /\ GoOn(th, <<>>, None)
    /\ UNCHANGED <<sessions, active, bridgeVars, clientVars, userVars, screen, window>>

-----------------------------------------------------------------------------

Pushes(th) ==
    \/ ReadActive(th) \/ ShowActive(th)
    \/ PushSessions(th)
    \/ ReadReplay(th) \/ ReadPrompt(th) \/ ShowPrompt(th)

Handler(r) ==
    \/ Register(r)
    \/ PushPrompt(r)
    \/ Reply(r)

Call(th) ==
    \/ OpenSession(th)
    \/ SwitchTo(th)
    \/ CloseSession(th)
    \/ Release(th)
    \/ Stop(th)
    \/ \E choice \in Behavior : ResolvePermission(th, choice)
    \/ Unbadge(th)

User(th) ==
    \/ \E t \in Tabs : UserOpens(th, t) \/ UserSwitches(th, t) \/ UserCloses(th, t)
    \/ \E choice \in Behavior : UserAnswers(th, choice)

Next ==
    \/ \E th \in Threads : Pushes(th)
    \/ \E th \in Calls : User(th) \/ Call(th)
    \/ \E r \in Requests : Handler(r) \/ GiveUp(r) \/ \E t \in Tabs : Ask(r, t)
    \/ Restore \/ Extend
    \/ CloseWindow \/ Clear \/ StopAll \/ Silence

Spec == Init /\ [][Next]_vars

-----------------------------------------------------------------------------

Settled ==
    /\ \A th \in Threads \ Requests : todo[th] = <<>>
    /\ \A r \in Requests : todo[r] \in {<<>>, <<"wait">>}

\* A call runs only if the user allowed that very call.  A prompt on screen
\* may be a stale one, and a tab's stored prompt may have been replaced since.
AllowedByTheUser ==
    \A r \in Requests : client[r] = "allowed" => "allow" \in clicked[r]

\* Whatever switches, closings and prompts met, a call that waits for the tab
\* the user looks at is on screen once everything has been pushed; unless the
\* late pushes of an open showed that tab, which replay nothing.
BlockedCallShown ==
    window /\ Settled /\ screen.active = active =>
        \A r \in Requests \ screen.passed :
            owner[r] = active /\ client[r] = "asking" /\ decision[r] = "none" => screen.banner = r

\* (CLAIM of _replay_active_session): "the one replay path for every caller that
\* changes what the chat pane is showing", so also for the pushes of an open that
\* show the tab the user had switched to.
EveryPaneReplayed ==
    window /\ Settled /\ screen.active = active =>
        \A r \in Requests :
            owner[r] = active /\ client[r] = "asking" /\ decision[r] = "none" => screen.banner = r

\* No claude outlives its tab, and no tab is left without its claude, whatever
\* the page asks for while the saved tabs are being restored.
NoOrphans ==
    Settled => {t \in Tabs : life[t] = "running"} = ToSet(sessions)

\* (CLAIM of switch_to): "Make session_id the active tab. Frontend pushes then apply to it.": what
\* is on screen once everything has been pushed is the tab that input goes to.
ScreenFollowsTheActiveTab ==
    window /\ Settled => screen.active = active
=============================================================================
