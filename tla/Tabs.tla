-------------------------------- MODULE Tabs --------------------------------
(***************************************************************************)
(* The tabs of the browser shell (app/appState.js) over React's state      *)
(* updates and the web view's own history.                                 *)
(*                                                                         *)
(* A click, a key or a popstate event calls a handler, whose state update  *)
(* is rendered, with its effects, before the next event.  The update of a  *)
(* timer waits (Flush): until it is rendered, later events are shown       *)
(* without it, and then what is shown is every update applied in the order *)
(* of the calls.  Every tab's page stays mounted, keyed by its route and   *)
(* tick, and a page that has published something opens it by a timer.      *)
(***************************************************************************)
EXTENDS Integers, Sequences, SequencesExt

CONSTANTS
    Routes,         \* normalized inputs (normalizing one again changes nothing)
    Home,           \* DEFAULT_ROUTE_INPUT
    MaxTabs,        \* MAX_TABS
    MaxHistory,     \* bound: entries of a tab's history
    MaxTick,        \* bound: refreshes of the tabs that are open
    MaxEntries,     \* bound: entries of the web view's history
    MaxQueue        \* bound: updates called since the first that waits

ASSUME TabsAssumption ==
    /\ Home \in Routes
    /\ MaxTabs \in Nat \ {0} /\ MaxHistory \in Nat \ {0}
    /\ MaxTick \in Nat /\ MaxEntries \in Nat \ {0} /\ MaxQueue \in Nat

VARIABLES
    pending,    \* the tab state that all updates called so far give, in order
    waiting,    \* how many were called since the first that waits, or 0
    shown,      \* the tab state as rendered
    due,        \* whether the location effect of the last render has yet to run
    web,        \* the web view's history and what the effect knows of it
    popped      \* whether a popstate event is on its way

tabsVars == <<pending, waiting, shown, due, web, popped>>

-----------------------------------------------------------------------------
(* The state updaters.                                                     *)

Ids == 1..(2 * MaxTabs + 1)

Tab == [id : Ids, route : Routes, tick : 0..MaxTick,
        history : BoundedSeq(Routes, MaxHistory), index : 1..MaxHistory]

MakeTab(id, route) ==
    [id |-> id, route |-> route, tick |-> 0, history |-> <<route>>, index |-> 1]

IdsOf(state) == {state.tabs[i].id : i \in DOMAIN state.tabs}

Position(state, id) == CHOOSE i \in DOMAIN state.tabs : state.tabs[i].id = id

ActiveTab(state) == state.tabs[Position(state, state.active)]

ReplaceTab(state, tab) ==
    [state EXCEPT !.tabs[Position(state, tab.id)] = tab]

\* A new history entry drops what was ahead; the entry shown now is not repeated.
Navigate(state, route) ==
    LET tab == ActiveTab(state)
        past == SubSeq(tab.history, 1, tab.index)
    IN  ReplaceTab(state, [tab EXCEPT !.route = route,
            !.history = IF Last(past) = route THEN @ ELSE Append(past, route),
            !.index = IF Last(past) = route THEN @ ELSE @ + 1])

MoveHistory(state, delta) ==
    LET tab == ActiveTab(state)
        next == tab.index + delta
    IN  IF next \notin DOMAIN tab.history THEN state
        ELSE ReplaceTab(state, [tab EXCEPT !.route = tab.history[next],
                                           !.index = next])

RefreshTab(state) ==
    LET tab == ActiveTab(state)
    IN  ReplaceTab(state, [tab EXCEPT !.tick = @ + 1])

OpenTab(state, tab) ==
    IF Len(state.tabs) >= MaxTabs THEN state
    ELSE [tabs |-> Append(state.tabs, tab), active |-> tab.id]

\* The last tab stays; closing the active one shows its neighbour.
CloseTab(state, id) ==
    IF Len(state.tabs) <= 1 \/ id \notin IdsOf(state) THEN state
    ELSE LET i == Position(state, id)
             tabs == RemoveAt(state.tabs, i)
             neighbour == IF i > Len(tabs) THEN Len(tabs) ELSE i
         IN  [tabs |-> tabs, active |-> IF state.active = id THEN tabs[neighbour].id
                                        ELSE state.active]

ActivateTab(state, id) ==
    IF id \in IdsOf(state) THEN [state EXCEPT !.active = id] ELSE state

\* The two updaters of the keyboard: the tab some places on, around the ends.
FocusByOffset(state, offset) ==
    LET next == (Position(state, state.active) - 1 + offset) % Len(state.tabs)
    IN  [state EXCEPT !.active = state.tabs[next + 1].id]

\* The first entry that is this route.
EntryOf(history, route) == SelectInSeq(history, LAMBDA r : r = route)

\* Faulty: the current entry is not replaced.
FromLocationKeepingEntry(state, route) ==
    LET tab == ActiveTab(state)
    IN  IF tab.route = route THEN state
        ELSE IF Contains(tab.history, route)
        THEN ReplaceTab(state, [tab EXCEPT !.route = route,
                     !.index = EntryOf(tab.history, route)])
        ELSE ReplaceTab(state, [tab EXCEPT !.route = route])

\* Faulty: a route the tab has not been to is ignored.
FromLocationKnownOnly(state, route) ==
    LET tab == ActiveTab(state)
    IN  IF Contains(tab.history, route)
        THEN ReplaceTab(state, [tab EXCEPT !.route = route,
                     !.index = EntryOf(tab.history, route)])
        ELSE state

\* The location has become this route: the active tab goes to the entry of its
\* history that has it, or else its current entry is replaced.
FromLocation(state, route) ==
    LET tab == ActiveTab(state)
    IN  IF tab.route = route THEN state
        ELSE IF Contains(tab.history, route)
        THEN ReplaceTab(state, [tab EXCEPT !.route = route,
                     !.index = EntryOf(tab.history, route)])
        ELSE ReplaceTab(state, [tab EXCEPT !.route = route,
                     !.history[tab.index] = route])

\* The update u of a state.
Apply(state, u) ==
    CASE u.op = "navigate" -> Navigate(state, u.route)
      [] u.op = "move" -> MoveHistory(state, u.by)
      [] u.op = "refresh" -> RefreshTab(state)
      [] u.op = "open" -> OpenTab(state, u.tab)
      [] u.op = "close" -> CloseTab(state, u.id)
      [] u.op = "activate" -> ActivateTab(state, u.id)
      [] u.op = "focus" -> FocusByOffset(state, u.by)
      [] u.op = "location" -> FromLocation(state, u.route)

-----------------------------------------------------------------------------
(* Rendering, and the location effect.  web.mode is locationWriteModeRef,  *)
(* web.written the route and tick the effect last ran for.                 *)

Location == web.entries[web.at]

\* writeRouteToBrowserLocation: pushing drops the entries ahead.
WriteLocation(w, route) ==
    IF w.mode = "push"
    THEN [w EXCEPT !.entries = Append(SubSeq(@, 1, w.at), route), !.at = @ + 1]
    ELSE [w EXCEPT !.entries[w.at] = route]

Key(state) == LET tab == ActiveTab(state) IN <<tab.route, tab.tick>>

\* The effect runs when the active route or its tick is another than last time.
LocationEffect(w, state) ==
    IF Key(state) = w.written THEN w
    ELSE [WriteLocation(w, Key(state)[1])
             EXCEPT !.written = Key(state), !.mode = "replace"]

InBounds(state) ==
    \A tab \in ToSet(state.tabs) : Len(tab.history) <= MaxHistory /\ tab.tick <= MaxTick

\* An event's handler sets the mode and makes the update u.  An effect still due
\* runs before u is rendered, in that mode already.
Event(u, how) ==
    LET w == [web EXCEPT !.mode = how]
        settled == IF due THEN LocationEffect(w, shown) ELSE w
    IN  /\ shown' = Apply(shown, u) /\ pending' = Apply(pending, u)
        /\ InBounds(shown') /\ InBounds(pending')
        /\ waiting' = IF waiting = 0 THEN 0 ELSE waiting + 1
        /\ waiting' <= MaxQueue
        /\ web' = LocationEffect(settled, shown') /\ Len(web'.entries) <= MaxEntries
        /\ due' = FALSE

\* The waiting updates are rendered, after any effect still due; their own
\* effect follows later.
Flush ==
    /\ ~due /\ waiting > 0
    /\ shown' = pending /\ waiting' = 0 /\ due' = TRUE
    /\ UNCHANGED <<pending, web, popped>>

RunEffect ==
    /\ due /\ due' = FALSE
    /\ web' = LocationEffect(web, shown) /\ Len(web'.entries) <= MaxEntries
    /\ UNCHANGED <<pending, waiting, shown, popped>>

-----------------------------------------------------------------------------
(* The handlers.                                                           *)

\* createTabId: an identifier no tab has.
NewId == CHOOSE id \in Ids : id \notin IdsOf(pending) \cup IdsOf(shown)

\* The address bar, a link, Home.  A page opens what it published the same way,
\* but from a timer: its update waits.
UserNavigates ==
    \E route \in Routes :
        /\ Event([op |-> "navigate", route |-> route], "push")
        /\ UNCHANGED popped

GoBackOrForward ==
    \E by \in {-1, 1} :
        Event([op |-> "move", by |-> by], "replace") /\ UNCHANGED popped

Refreshes == FoldLeft(LAMBDA n, tab : n + tab.tick, 0, shown.tabs)

Refresh ==
    /\ Refreshes < MaxTick
    /\ Event([op |-> "refresh"], "replace") /\ UNCHANGED popped

\* A new tab shows Home; at the limit the handler answers "max_tabs".
OpenNewTab ==
    /\ Len(shown.tabs) < MaxTabs
    /\ Event([op |-> "open", tab |-> MakeTab(NewId, Home)], "push")
    /\ UNCHANGED popped

Close ==
    \E id \in IdsOf(shown) :
        /\ Len(shown.tabs) > 1
        /\ Event([op |-> "close", id |-> id], "replace") /\ UNCHANGED popped

Activate ==
    \E id \in IdsOf(shown) :
        Event([op |-> "activate", id |-> id], "replace") /\ UNCHANGED popped

FocusNextOrPrevious ==
    \E by \in {-1, 1} :
        Event([op |-> "focus", by |-> by], "replace") /\ UNCHANGED popped

\* The web view goes back or forward by itself; the event comes later.
BrowserMoves ==
    \E next \in {web.at - 1, web.at + 1} :
        /\ next \in DOMAIN web.entries
        /\ web' = [web EXCEPT !.at = next]
        /\ popped' = TRUE
        /\ UNCHANGED <<pending, waiting, shown, due>>

SyncFromLocation ==
    /\ popped /\ popped' = FALSE
    /\ Event([op |-> "location", route |-> Location], web.mode)

\* A page, of whatever tab, has published something, and its timer opens that in
\* the active tab; the update waits.
TimerNavigates ==
    \E route \in Routes :
        /\ waiting < MaxQueue /\ waiting' = waiting + 1
        /\ pending' = Navigate(pending, route) /\ InBounds(pending')
        /\ web' = [web EXCEPT !.mode = "push"]
        /\ UNCHANGED <<shown, due, popped>>

TabsInit ==
    /\ \E route \in Routes :
           /\ pending = [tabs |-> <<MakeTab(1, route)>>, active |-> 1]
           /\ web = [entries |-> <<route>>, at |-> 1, mode |-> "replace",
                     written |-> <<route, 0>>]
    /\ shown = pending /\ waiting = 0 /\ due = FALSE /\ popped = FALSE

TabsNext ==
    \/ UserNavigates \/ GoBackOrForward \/ Refresh
    \/ OpenNewTab \/ Close \/ Activate \/ FocusNextOrPrevious
    \/ BrowserMoves \/ SyncFromLocation
    \/ TimerNavigates \/ Flush \/ RunEffect

TabsSpec == TabsInit /\ [][TabsNext]_tabsVars

-----------------------------------------------------------------------------
(* What must hold.                                                         *)

StateOK(state) ==
    /\ Len(state.tabs) \in 1..MaxTabs /\ ToSet(state.tabs) \subseteq Tab
    /\ \A i, j \in DOMAIN state.tabs :
           state.tabs[i].id = state.tabs[j].id => i = j
    /\ state.active \in IdsOf(state)

\* There is always a tab, never more than MAX_TABS, and one of them is active.
TabsTypeOK ==
    /\ StateOK(pending) /\ StateOK(shown) /\ waiting \in 0..MaxQueue
    /\ web.at \in DOMAIN web.entries /\ web.mode \in {"push", "replace"}
    /\ due \in BOOLEAN /\ popped \in BOOLEAN

\* A tab shows the entry of its own history it says it is at, whatever was
\* navigated to, gone back to, or taken from the location: Back and Forward
\* start from the page the user sees.
RouteIsCurrentEntry ==
    \A tab \in ToSet(shown.tabs) :
        tab.index \in DOMAIN tab.history /\ tab.history[tab.index] = tab.route

\* Once effects and events have run, the location is the page the active tab
\* shows: reloading the application comes back to it.
LocationShowsActive == ~due /\ ~popped => Location = ActiveTab(shown).route

\* There are one to MAX_TABS tabs of different ids, one of them active, and each
\* shows the entry its history points at, also after the web view went back to an
\* entry another tab made.
TabsInv == TabsTypeOK /\ RouteIsCurrentEntry
=============================================================================
