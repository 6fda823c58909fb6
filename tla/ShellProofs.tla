---------------------------- MODULE ShellProofs -----------------------------
(***************************************************************************)
(* Proofs about what the shell shows around a page.                        *)
(*                                                                         *)
(* The tabs, for any routes and any limits: ShellInv is inductive.  Every  *)
(* state of the tabs, rendered or waiting, is one the shell can show, and  *)
(* the location effect last ran for what is rendered unless it is due.     *)
(*                                                                         *)
(* The balance, for any accounts and any number of refreshes at once:      *)
(* whatever fails and in whatever order the answers come, it is one the    *)
(* ledger had for the account it is attributed to; while only the chip     *)
(* refreshes it is the newest shown.                                       *)
(***************************************************************************)
EXTENDS Tabs, WalletBalance, WellFoundedInduction, FiniteSetTheorems,
        SequenceTheorems, TLAPS

(***************************************************************************)
(* The tabs                                                                *)
(***************************************************************************)

USE TabsAssumption

\* The tabs the updaters make.
GoodTabs ==
    {tab \in [id : Ids, route : Routes, tick : Nat, history : Seq(Routes), index : Nat] :
        tab.index \in 1..Len(tab.history) /\ tab.history[tab.index] = tab.route}

GoodStates ==
    {state \in [tabs : Seq(GoodTabs), active : Ids] :
        /\ Len(state.tabs) \in 1..MaxTabs
        /\ \A i, j \in DOMAIN state.tabs : state.tabs[i].id = state.tabs[j].id => i = j
        /\ state.active \in IdsOf(state)}

-----------------------------------------------------------------------------
(* The updaters.                                                           *)

LEMMA TabsAre ==
  ASSUME NEW tab \in GoodTabs
  PROVE  /\ tab.id \in Ids /\ tab.route \in Routes /\ tab.tick \in Nat
         /\ tab.history \in Seq(Routes) /\ Len(tab.history) \in Nat
         /\ DOMAIN tab.history = 1..Len(tab.history)
         /\ tab.index \in 1..Len(tab.history) /\ tab.history[tab.index] = tab.route
  BY DEF GoodTabs

LEMMA StatesAre ==
  ASSUME NEW state \in GoodStates
  PROVE  /\ state.tabs \in Seq(GoodTabs) /\ Len(state.tabs) \in 1..MaxTabs
         /\ DOMAIN state.tabs = 1..Len(state.tabs)
         /\ \A i \in DOMAIN state.tabs : state.tabs[i] \in GoodTabs
         /\ \A i, j \in DOMAIN state.tabs : state.tabs[i].id = state.tabs[j].id => i = j
         /\ state.active \in IdsOf(state) /\ state.active \in Ids
<1> HIDE DEF GoodTabs
<1> QED BY DEF GoodStates

LEMMA PositionIs ==
  ASSUME NEW state, NEW id \in IdsOf(state)
  PROVE  Position(state, id) \in DOMAIN state.tabs /\ state.tabs[Position(state, id)].id = id
  BY DEF Position, IdsOf

LEMMA ActiveIs ==
  ASSUME NEW state \in GoodStates
  PROVE  /\ ActiveTab(state) \in GoodTabs /\ ActiveTab(state).id = state.active
         /\ Position(state, state.active) \in DOMAIN state.tabs
  BY StatesAre, PositionIs DEF ActiveTab

\* The active tab is replaced by one of its own identifier.
LEMMA ReplaceKeeps ==
  ASSUME NEW state \in GoodStates, NEW tab \in GoodTabs, tab.id = state.active
  PROVE  /\ ReplaceTab(state, tab) \in GoodStates
         /\ ActiveTab(ReplaceTab(state, tab)) = tab
<1> DEFINE p == Position(state, state.active)
           tabs == [state.tabs EXCEPT ![p] = tab]
           new == ReplaceTab(state, tab)
<1>1. /\ state.tabs \in Seq(GoodTabs) /\ Len(state.tabs) \in 1..MaxTabs
      /\ DOMAIN state.tabs = 1..Len(state.tabs)
      /\ \A i, j \in DOMAIN state.tabs : state.tabs[i].id = state.tabs[j].id => i = j
      /\ state.active \in Ids /\ p \in DOMAIN state.tabs
      /\ state.tabs[p].id = state.active
  BY StatesAre, PositionIs
<1>2. new.tabs = tabs /\ new.active = state.active
      /\ new = [tabs |-> tabs, active |-> state.active]
  <2> HIDE DEF GoodTabs
  <2>1. state \in [tabs : Seq(GoodTabs), active : Ids]
    BY DEF GoodStates
  <2>2. new = [state EXCEPT !.tabs[p] = tab]
    BY DEF ReplaceTab
  <2> HIDE DEF new, p
  <2> QED BY <2>1, <2>2
<1> HIDE DEF new, p
<1>3. /\ tabs \in Seq(GoodTabs) /\ Len(tabs) = Len(state.tabs)
      /\ DOMAIN tabs = DOMAIN state.tabs /\ tabs[p] = tab
      /\ \A i \in DOMAIN tabs : i # p => tabs[i] = state.tabs[i]
  BY <1>1
<1> HIDE DEF tabs
<1>4. \A i \in DOMAIN tabs : tabs[i].id = state.tabs[i].id
  BY <1>1, <1>3
<1>5. new.active \in IdsOf(new)
  BY <1>1, <1>2, <1>3 DEF IdsOf
<1>6. new \in [tabs : Seq(GoodTabs), active : Ids]
  BY <1>1, <1>2, <1>3
<1>7. \A i, j \in DOMAIN tabs : tabs[i].id = tabs[j].id => i = j
  BY <1>1, <1>3, <1>4
<1>8. new \in GoodStates
  <2>1. Len(new.tabs) \in 1..MaxTabs
    BY <1>1, <1>2, <1>3
  <2> QED BY <1>2, <1>5, <1>6, <1>7, <2>1 DEF GoodStates
<1>9. Position(new, new.active) = p
  <2> DEFINE q == Position(new, new.active)
  <2>1. q \in DOMAIN new.tabs /\ new.tabs[q].id = new.active
    BY <1>5, PositionIs
  <2>2. q \in DOMAIN tabs /\ tabs[q].id = state.active
    BY <1>2, <2>1
  <2> HIDE DEF q
  <2>3. p \in DOMAIN tabs /\ tabs[p].id = state.active
    BY <1>1, <1>3, <1>4
  <2>4. q = p
    BY <1>7, <2>2, <2>3
  <2> QED BY <2>4 DEF q
<1>10. ActiveTab(new) = tab
  BY <1>2, <1>3, <1>9 DEF ActiveTab
<1> QED BY <1>8, <1>10 DEF new

LEMMA NavigateKeeps ==
  ASSUME NEW state \in GoodStates, NEW route \in Routes
  PROVE  Navigate(state, route) \in GoodStates
<1> DEFINE tab == ActiveTab(state)
           past == SubSeq(tab.history, 1, tab.index)
           repeats == Last(past) = route
           next == [tab EXCEPT !.route = route,
                        !.history = IF repeats THEN @ ELSE Append(past, route),
                        !.index = IF repeats THEN @ ELSE @ + 1]
<1>1. tab \in GoodTabs /\ tab.id = state.active
  BY ActiveIs
<1>2. /\ tab.id \in Ids /\ tab.route \in Routes /\ tab.tick \in Nat
      /\ tab.history \in Seq(Routes) /\ tab.index \in 1..Len(tab.history)
      /\ tab.history[tab.index] = tab.route
  BY <1>1, TabsAre
<1>3. /\ past \in Seq(Routes) /\ Len(past) = tab.index
      /\ \A i \in 1..tab.index : past[i] = tab.history[i]
  BY <1>2, SubSeqProperties
<1>4. Last(past) = tab.history[tab.index]
  BY <1>2, <1>3 DEF Last
<1>5. next \in GoodTabs /\ next.id = state.active
  <2>1. CASE repeats
    <3>1. next = [tab EXCEPT !.route = route]
      BY <1>1, <2>1 DEF GoodTabs
    <3>2. route = tab.route
      BY <1>2, <1>4, <2>1
    <3> QED BY <1>1, <3>1, <3>2 DEF GoodTabs
  <2>2. CASE ~repeats
    <3>1. next = [tab EXCEPT !.route = route, !.history = Append(past, route),
                             !.index = @ + 1]
      BY <2>2
    <3> DEFINE history == Append(past, route)
    <3>2. /\ history \in Seq(Routes) /\ Len(history) = tab.index + 1
          /\ history[tab.index + 1] = route
      BY <1>2, <1>3
    <3> HIDE DEF history
    <3>3. next = [tab EXCEPT !.route = route, !.history = history, !.index = @ + 1]
      BY <3>1 DEF history
    <3> HIDE DEF next, past
    <3>4. /\ next = [id |-> tab.id, route |-> route, tick |-> tab.tick,
                     history |-> history, index |-> tab.index + 1]
          /\ next.id = tab.id
      BY <1>1, <3>3 DEF GoodTabs
    <3> QED BY <1>1, <1>2, <3>2, <3>4 DEF GoodTabs
  <2> QED BY <2>1, <2>2
<1>6. Navigate(state, route) = ReplaceTab(state, next)
  BY DEF Navigate
<1> HIDE DEF next
<1> QED BY <1>5, <1>6, ReplaceKeeps

LEMMA MoveKeeps ==
  ASSUME NEW state \in GoodStates, NEW delta \in {-1, 1}
  PROVE  MoveHistory(state, delta) \in GoodStates
<1> DEFINE tab == ActiveTab(state)
           at == tab.index + delta
           next == [tab EXCEPT !.route = tab.history[at], !.index = at]
<1>1. tab \in GoodTabs /\ tab.id = state.active
  BY ActiveIs
<1>2. CASE at \notin DOMAIN tab.history
  BY <1>2 DEF MoveHistory
<1>3. CASE at \in DOMAIN tab.history
  <2>1. at \in 1..Len(tab.history) /\ tab.history[at] \in Routes /\ at \in Nat
    BY <1>1, <1>3, TabsAre
  <2>2. next \in GoodTabs /\ next.id = state.active
    BY <1>1, <2>1 DEF GoodTabs
  <2>3. MoveHistory(state, delta) = ReplaceTab(state, next)
    BY <1>3 DEF MoveHistory
  <2> HIDE DEF next
  <2> QED BY <2>2, <2>3, ReplaceKeeps
<1> QED BY <1>2, <1>3

LEMMA RefreshKeeps ==
  ASSUME NEW state \in GoodStates PROVE RefreshTab(state) \in GoodStates
<1> DEFINE tab == ActiveTab(state)
           next == [tab EXCEPT !.tick = @ + 1]
<1>1. tab \in GoodTabs /\ tab.id = state.active
  BY ActiveIs
<1>2. next \in GoodTabs /\ next.id = state.active
  BY <1>1 DEF GoodTabs
<1>3. RefreshTab(state) = ReplaceTab(state, next)
  BY DEF RefreshTab
<1> HIDE DEF next
<1> QED BY <1>2, <1>3, ReplaceKeeps

\* The first entry that is this route.
LEMMA FirstEntry ==
  ASSUME NEW history \in Seq(Routes), NEW route, Contains(history, route)
  PROVE  /\ EntryOf(history, route) \in 1..Len(history)
         /\ history[EntryOf(history, route)] = route
<1> DEFINE I == {i \in 1..Len(history) : history[i] = route}
<1>1. I # {} /\ I \subseteq Nat
  BY DEF Contains
<1> HIDE DEF I
<1> DEFINE less == {ss \in Nat \X Nat : ss[1] < ss[2]}
<1>2. PICK x \in I : \A y \in I : ~(<<y, x>> \in less)
  <2>1. IsWellFoundedOn(less, Nat)
    BY NatLessThanWellFounded, Zenon DEF OpToRel
  <2> HIDE DEF less
  <2> QED BY <1>1, <2>1, WFMin
<1>3. ASSUME NEW y \in I PROVE x <= y
  <2>1. <<y, x>> \in Nat \X Nat /\ <<y, x>>[1] = y /\ <<y, x>>[2] = x
    BY <1>1
  <2>2. ~(y < x)
    BY <1>2, <2>1
  <2> QED BY <1>1, <2>2
<1>4. Min(I) \in I
  BY <1>2, <1>3 DEF Min
<1>5. EntryOf(history, route) = Min(I)
  BY <1>1 DEF EntryOf, SelectInSeq, I
<1> QED BY <1>4, <1>5 DEF I

LEMMA LocationKeeps ==
  ASSUME NEW state \in GoodStates, NEW route \in Routes
  PROVE  /\ FromLocation(state, route) \in GoodStates
         /\ ActiveTab(FromLocation(state, route)).route = route
<1> DEFINE tab == ActiveTab(state)
           k == EntryOf(tab.history, route)
           gone == [tab EXCEPT !.route = route, !.index = k]
           replaced == [tab EXCEPT !.route = route, !.history[tab.index] = route]
<1>1. tab \in GoodTabs /\ tab.id = state.active
  BY ActiveIs
<1>2. CASE tab.route = route
  BY <1>2 DEF FromLocation
<1>3. CASE tab.route # route /\ Contains(tab.history, route)
  <2>1. k \in 1..Len(tab.history) /\ tab.history[k] = route /\ k \in Nat
    BY <1>1, <1>3, TabsAre, FirstEntry
  <2>2. FromLocation(state, route) = ReplaceTab(state, gone)
    BY <1>3 DEF FromLocation
  <2> HIDE DEF k
  <2>3. gone \in GoodTabs /\ gone.id = state.active /\ gone.route = route
    BY <1>1, <2>1 DEF GoodTabs
  <2> HIDE DEF gone
  <2> QED BY <2>2, <2>3, ReplaceKeeps
<1>4. CASE tab.route # route /\ ~Contains(tab.history, route)
  <2>1. FromLocation(state, route) = ReplaceTab(state, replaced)
    BY <1>4 DEF FromLocation
  <2>2. replaced \in GoodTabs /\ replaced.id = state.active /\ replaced.route = route
    <3> DEFINE history == [tab.history EXCEPT ![tab.index] = route]
    <3>1. /\ history \in Seq(Routes) /\ Len(history) = Len(tab.history)
          /\ history[tab.index] = route
      BY <1>1, TabsAre
    <3>2. replaced = [tab EXCEPT !.route = route, !.history = history]
      BY <1>1 DEF GoodTabs
    <3> HIDE DEF history, replaced
    <3> QED BY <1>1, <3>1, <3>2 DEF GoodTabs
  <2> HIDE DEF replaced
  <2> QED BY <2>1, <2>2, ReplaceKeeps
<1> QED BY <1>2, <1>3, <1>4

LEMMA OpenKeeps ==
  ASSUME NEW state \in GoodStates, NEW tab \in GoodTabs, tab.id \notin IdsOf(state)
  PROVE  OpenTab(state, tab) \in GoodStates
<1> DEFINE tabs == Append(state.tabs, tab)
           new == [tabs |-> tabs, active |-> tab.id]
           n == Len(state.tabs)
<1>1. /\ state.tabs \in Seq(GoodTabs) /\ n \in 1..MaxTabs
      /\ DOMAIN state.tabs = 1..n
      /\ \A i, j \in DOMAIN state.tabs : state.tabs[i].id = state.tabs[j].id => i = j
  BY StatesAre
<1>2. CASE n >= MaxTabs
  BY <1>2 DEF OpenTab
<1>3. CASE n < MaxTabs
  <2>1. OpenTab(state, tab) = new
    BY <1>1, <1>3 DEF OpenTab
  <2>2. /\ tabs \in Seq(GoodTabs) /\ Len(tabs) = n + 1 /\ DOMAIN tabs = 1..(n + 1)
        /\ tabs[n + 1] = tab /\ \A i \in 1..n : tabs[i] = state.tabs[i]
    BY <1>1
  <2> HIDE DEF tabs
  <2>3. \A i \in 1..n : tabs[i].id # tab.id
    BY <1>1, <2>2 DEF IdsOf
  <2>4. \A i, j \in DOMAIN tabs : tabs[i].id = tabs[j].id => i = j
    <3> SUFFICES ASSUME NEW i \in 1..(n + 1), NEW j \in 1..(n + 1),
                        tabs[i].id = tabs[j].id
                 PROVE  i = j
      BY <2>2
    <3>1. CASE i \in 1..n /\ j \in 1..n
      BY <1>1, <2>2, <3>1
    <3>2. CASE i = n + 1 \/ j = n + 1
      BY <1>1, <2>2, <2>3, <3>2
    <3> QED BY <1>1, <3>1, <3>2
  <2>5. new.active \in IdsOf(new) /\ new.active \in Ids
    BY <1>1, <2>2, TabsAre DEF IdsOf
  <2> HIDE DEF GoodTabs
  <2>6. new \in [tabs : Seq(GoodTabs), active : Ids] /\ Len(new.tabs) \in 1..MaxTabs
    BY <1>1, <1>3, <2>2, <2>5
  <2>7. new \in GoodStates
    BY <2>4, <2>5, <2>6 DEF GoodStates
  <2> QED BY <2>1, <2>7
<1> QED BY <1>1, <1>2, <1>3

\* The sequence without its k-th element.
LEMMA Removed ==
  ASSUME NEW S, NEW seq \in Seq(S), NEW k \in 1..Len(seq)
  PROVE  /\ RemoveAt(seq, k) \in Seq(S) /\ Len(RemoveAt(seq, k)) = Len(seq) - 1
         /\ \A i \in 1..(Len(seq) - 1) :
               RemoveAt(seq, k)[i] = IF i < k THEN seq[i] ELSE seq[i + 1]
<1> DEFINE before == SubSeq(seq, 1, k - 1)
           after == SubSeq(seq, k + 1, Len(seq))
<1>1. /\ before \in Seq(S) /\ Len(before) = k - 1
      /\ \A i \in 1..(k - 1) : before[i] = seq[i]
  BY SubSeqProperties
<1>2. /\ after \in Seq(S) /\ Len(after) = Len(seq) - k
      /\ \A i \in 1..(Len(seq) - k) : after[i] = seq[k + i]
  BY SubSeqProperties
<1>3. RemoveAt(seq, k) = before \o after
  BY DEF RemoveAt
<1> HIDE DEF before, after
<1>4. /\ before \o after \in Seq(S) /\ Len(before \o after) = Len(before) + Len(after)
      /\ \A i \in 1..(Len(before) + Len(after)) :
            (before \o after)[i] = IF i <= Len(before) THEN before[i]
                                   ELSE after[i - Len(before)]
  <2>1. before \in Seq(S) /\ after \in Seq(S)
    BY <1>1, <1>2
  <2> QED BY ONLY <2>1, ConcatProperties
<1>5. Len(before) = k - 1 /\ Len(before) + Len(after) = Len(seq) - 1 /\ Len(seq) \in Nat
  BY <1>1, <1>2
<1>6. ASSUME NEW i \in 1..(Len(seq) - 1)
      PROVE  (before \o after)[i] = IF i < k THEN seq[i] ELSE seq[i + 1]
  <2>1. CASE i < k
    BY <1>1, <1>4, <1>5, <2>1
  <2>2. CASE i >= k
    <3>1. i - (k - 1) \in 1..(Len(seq) - k) /\ ~(i <= k - 1)
      BY <1>5, <2>2
    <3>2. (before \o after)[i] = after[i - (k - 1)]
      BY <1>4, <1>5, <3>1
    <3>3. after[i - (k - 1)] = seq[k + (i - (k - 1))] /\ k + (i - (k - 1)) = i + 1
      BY <1>2, <1>5, <3>1
    <3> QED BY <2>2, <3>2, <3>3
  <2> QED BY <1>5, <2>1, <2>2
<1> QED BY <1>3, <1>4, <1>5, <1>6

LEMMA CloseKeeps ==
  ASSUME NEW state \in GoodStates, NEW id PROVE CloseTab(state, id) \in GoodStates
<1> DEFINE n == Len(state.tabs)
           k == Position(state, id)
           tabs == RemoveAt(state.tabs, k)
           neighbour == IF k > Len(tabs) THEN Len(tabs) ELSE k
           active == IF state.active = id THEN tabs[neighbour].id ELSE state.active
           new == [tabs |-> tabs, active |-> active]
<1>1. /\ state.tabs \in Seq(GoodTabs) /\ n \in 1..MaxTabs
      /\ DOMAIN state.tabs = 1..n /\ state.active \in IdsOf(state) /\ state.active \in Ids
      /\ \A i, j \in DOMAIN state.tabs : state.tabs[i].id = state.tabs[j].id => i = j
  BY StatesAre
<1>2. CASE n <= 1 \/ id \notin IdsOf(state)
  BY <1>2 DEF CloseTab
<1>3. CASE n > 1 /\ id \in IdsOf(state)
  <2>1. CloseTab(state, id) = new
    BY <1>1, <1>3 DEF CloseTab
  <2>2. k \in 1..n /\ state.tabs[k].id = id
    BY <1>1, <1>3, PositionIs
  <2> HIDE DEF k
  <2>3. /\ tabs \in Seq(GoodTabs) /\ Len(tabs) = n - 1 /\ DOMAIN tabs = 1..(n - 1)
        /\ \A i \in 1..(n - 1) : tabs[i] = IF i < k THEN state.tabs[i]
                                           ELSE state.tabs[i + 1]
    <3>1. /\ tabs \in Seq(GoodTabs) /\ Len(tabs) = n - 1
          /\ \A i \in 1..(n - 1) : tabs[i] = IF i < k THEN state.tabs[i]
                                             ELSE state.tabs[i + 1]
      <4> HIDE DEF GoodTabs
      <4>1. k \in 1..Len(state.tabs)
        BY <2>2
      <4>2. /\ tabs \in Seq(GoodTabs) /\ Len(tabs) = Len(state.tabs) - 1
            /\ \A i \in 1..(Len(state.tabs) - 1) :
                  tabs[i] = IF i < k THEN state.tabs[i] ELSE state.tabs[i + 1]
        <5> HIDE DEF n
        <5> QED BY <1>1, <4>1, Removed
      <4> QED BY <4>2
    <3>2. DOMAIN tabs = 1..(n - 1)
      BY <3>1, LenProperties
    <3> QED BY <3>1, <3>2
  <2> HIDE DEF tabs
  <2>4. \A i, j \in DOMAIN tabs : tabs[i].id = tabs[j].id => i = j
    <3> SUFFICES ASSUME NEW i \in 1..(n - 1), NEW j \in 1..(n - 1),
                        tabs[i].id = tabs[j].id
                 PROVE  i = j
      BY <2>3
    <3> DEFINE at(x) == IF x < k THEN x ELSE x + 1
    <3>1. \A x \in 1..(n - 1) : at(x) \in 1..n /\ tabs[x] = state.tabs[at(x)]
      BY <1>1, <2>2, <2>3
    <3>2. at(i) = at(j)
      <4> HIDE DEF at
      <4> QED BY <1>1, <3>1
    <3> QED BY <1>1, <2>2, <3>2
  <2>5. active \in IdsOf(new) /\ active \in Ids
    <3>1. CASE state.active = id
      <4>1. neighbour \in 1..(n - 1)
        BY <1>1, <1>3, <2>2, <2>3
      <4>2. tabs[neighbour] \in GoodTabs
        BY <2>3, <4>1
      <4> QED BY <2>3, <3>1, <4>1, <4>2, TabsAre DEF IdsOf
    <3>2. CASE state.active # id
      <4>1. PICK i \in 1..n : state.tabs[i].id = state.active
        BY <1>1 DEF IdsOf
      <4>2. i # k
        BY <2>2, <3>2, <4>1
      <4>3. PICK j \in 1..(n - 1) : tabs[j] = state.tabs[i]
        <5>1. CASE i < k
          BY <1>1, <2>2, <2>3, <5>1
        <5>2. CASE i > k
          <6>1. i - 1 \in 1..(n - 1) /\ ~(i - 1 < k) /\ (i - 1) + 1 = i
            BY <1>1, <2>2, <5>2
          <6>2. tabs[i - 1] = state.tabs[(i - 1) + 1]
            BY <2>3, <6>1
          <6> QED BY <6>1, <6>2
        <5> QED BY <1>1, <2>2, <4>2, <5>1, <5>2
      <4>4. active = state.active /\ new.tabs = tabs /\ j \in DOMAIN tabs
        BY <2>3, <3>2
      <4> HIDE DEF active, new
      <4> QED BY <1>1, <4>1, <4>3, <4>4 DEF IdsOf
    <3> QED BY <3>1, <3>2
  <2> HIDE DEF active, GoodTabs
  <2>6. new \in [tabs : Seq(GoodTabs), active : Ids] /\ Len(new.tabs) \in 1..MaxTabs
    BY <1>1, <1>3, <2>3, <2>5
  <2> QED BY <2>1, <2>4, <2>5, <2>6 DEF GoodStates
<1> QED BY <1>1, <1>2, <1>3

LEMMA ActivateKeeps ==
  ASSUME NEW state \in GoodStates, NEW id \in IdsOf(state)
  PROVE  [state EXCEPT !.active = id] \in GoodStates
<1>1. PICK i \in DOMAIN state.tabs : id = state.tabs[i].id
  BY DEF IdsOf
<1>2. id \in Ids
  BY <1>1, StatesAre, TabsAre
<1> DEFINE new == [state EXCEPT !.active = id]
<1>3. new.tabs = state.tabs /\ new.active = id
  BY DEF GoodStates
<1>4. new \in [tabs : Seq(GoodTabs), active : Ids]
  <2> HIDE DEF GoodTabs
  <2> QED BY <1>2 DEF GoodStates
<1> HIDE DEF new
<1>5. new.active \in IdsOf(new)
  BY <1>1, <1>3 DEF IdsOf
<1>6. new \in GoodStates
  BY <1>3, <1>4, <1>5, StatesAre DEF GoodStates
<1> QED BY <1>6 DEF new

LEMMA FocusKeeps ==
  ASSUME NEW state \in GoodStates, NEW offset \in {-1, 1}
  PROVE  FocusByOffset(state, offset) \in GoodStates
<1> DEFINE n == Len(state.tabs)
           next == (Position(state, state.active) - 1 + offset) % n
<1>1. n \in Nat \ {0} /\ DOMAIN state.tabs = 1..n
  BY StatesAre
<1>2. Position(state, state.active) \in 1..n
  BY <1>1, ActiveIs
<1>3. next + 1 \in 1..n
  <2> HIDE DEF n
  <2>1. Position(state, state.active) - 1 + offset \in Int
    BY <1>2
  <2> QED BY <1>1, <2>1
<1>4. state.tabs[next + 1].id \in IdsOf(state)
  BY <1>1, <1>3 DEF IdsOf
<1>5. FocusByOffset(state, offset) = [state EXCEPT !.active = state.tabs[next + 1].id]
  BY DEF FocusByOffset
<1> QED BY <1>4, <1>5, ActivateKeeps

\* A state has no more identifiers than tabs.
LEMMA FewIds ==
  ASSUME NEW state \in GoodStates
  PROVE  /\ IsFiniteSet(IdsOf(state)) /\ Cardinality(IdsOf(state)) \in 0..MaxTabs
         /\ IdsOf(state) \subseteq Ids
<1> DEFINE n == Len(state.tabs)
           f == [i \in 1..n |-> state.tabs[i].id]
<1>1. n \in 1..MaxTabs /\ DOMAIN state.tabs = 1..n
  BY StatesAre
<1> HIDE DEF n
<1>2. f \in Surjection(1..n, IdsOf(state))
  BY <1>1 DEF Surjection, IdsOf
<1> HIDE DEF f
<1>3. IsFiniteSet(1..n) /\ Cardinality(1..n) = n
  BY <1>1, FS_Interval
<1>4. IsFiniteSet(IdsOf(state)) /\ Cardinality(IdsOf(state)) <= n
  BY <1>2, <1>3, FS_Surjection
<1>5. Cardinality(IdsOf(state)) \in Nat
  BY <1>4, FS_CardinalityType
<1>6. IdsOf(state) \subseteq Ids
  BY StatesAre, TabsAre DEF IdsOf
<1> QED BY <1>1, <1>4, <1>5, <1>6

\* There is an identifier no tab has, and a new tab of it is one.
LEMMA NewIdIs ==
  ASSUME pending \in GoodStates, shown \in GoodStates
  PROVE  /\ NewId \notin IdsOf(pending) /\ NewId \notin IdsOf(shown)
         /\ MakeTab(NewId, Home) \in GoodTabs /\ MakeTab(NewId, Home).id = NewId
<1> DEFINE T == IdsOf(pending) \cup IdsOf(shown)
<1>1. /\ IsFiniteSet(IdsOf(pending)) /\ Cardinality(IdsOf(pending)) \in 0..MaxTabs
      /\ IsFiniteSet(IdsOf(shown)) /\ Cardinality(IdsOf(shown)) \in 0..MaxTabs
  BY FewIds
<1>2. IsFiniteSet(T) /\ Cardinality(T) <= 2 * MaxTabs
  <2>1. IsFiniteSet(IdsOf(pending) \cap IdsOf(shown))
    BY <1>1, FS_Subset, IdsOf(pending) \cap IdsOf(shown) \in SUBSET IdsOf(shown)
  <2>2. Cardinality(IdsOf(pending) \cap IdsOf(shown)) \in Nat
    BY <2>1, FS_CardinalityType
  <2>3. /\ IsFiniteSet(T)
        /\ Cardinality(T) = Cardinality(IdsOf(pending)) + Cardinality(IdsOf(shown))
                                - Cardinality(IdsOf(pending) \cap IdsOf(shown))
    BY <1>1, FS_Union
  <2> QED BY <1>1, <2>2, <2>3
<1> HIDE DEF T
<1>3. IsFiniteSet(Ids) /\ Cardinality(Ids) = 2 * MaxTabs + 1
  BY FS_Interval DEF Ids
<1>4. Cardinality(T) \in Nat
  BY <1>2, FS_CardinalityType
<1>5. \E id \in Ids : id \notin T
  <2> SUFFICES ASSUME Ids \subseteq T PROVE FALSE
    OBVIOUS
  <2>1. Cardinality(Ids) <= Cardinality(T)
    BY <1>2, FS_Subset
  <2> QED BY <1>2, <1>3, <1>4, <2>1
<1>6. NewId \in Ids /\ NewId \notin T
  BY <1>5 DEF NewId, T
<1>7. /\ <<Home>> \in Seq(Routes) /\ Len(<<Home>>) = 1 /\ <<Home>>[1] = Home
  OBVIOUS
<1> HIDE DEF NewId
<1> QED BY <1>6, <1>7 DEF T, MakeTab, GoodTabs

-----------------------------------------------------------------------------
(* The location effect.                                                    *)

Webs ==
    {w \in [entries : Seq(Routes), at : Nat, mode : {"push", "replace"},
            written : Routes \X Nat] : w.at \in 1..Len(w.entries)}

LEMMA KeyIs ==
  ASSUME NEW state \in GoodStates
  PROVE  Key(state) \in Routes \X Nat /\ Key(state)[1] = ActiveTab(state).route
  BY ActiveIs, TabsAre DEF Key

\* The effect writes the active route unless it did so last time.
LEMMA EffectIs ==
  ASSUME NEW w \in Webs, NEW state \in GoodStates
  PROVE  LET after == LocationEffect(w, state)
         IN  /\ after \in Webs /\ after.written = Key(state)
             /\ IF Key(state) = w.written THEN after = w
                ELSE after.entries[after.at] = Key(state)[1]
<1> DEFINE route == Key(state)[1]
           after == LocationEffect(w, state)
<1>1. /\ w.entries \in Seq(Routes) /\ w.at \in 1..Len(w.entries) /\ w.at \in Nat
      /\ w = [entries |-> w.entries, at |-> w.at, mode |-> w.mode, written |-> w.written]
  BY DEF Webs
<1>2. Key(state) \in Routes \X Nat /\ route \in Routes
  BY KeyIs
<1> HIDE DEF route
<1>3. CASE Key(state) = w.written
  BY <1>3 DEF LocationEffect
<1>4. CASE Key(state) # w.written
  <2>1. after = [WriteLocation(w, route) EXCEPT !.written = Key(state),
                                                !.mode = "replace"]
    BY <1>4 DEF LocationEffect, route
  <2>2. CASE w.mode = "push"
    <3> DEFINE before == SubSeq(w.entries, 1, w.at)
               entries == Append(before, route)
    <3>1. before \in Seq(Routes) /\ Len(before) = w.at
      BY <1>1, SubSeqProperties
    <3>2. /\ entries \in Seq(Routes) /\ Len(entries) = w.at + 1
          /\ entries[w.at + 1] = route
      BY <1>1, <1>2, <3>1
    <3>3. WriteLocation(w, route) = [w EXCEPT !.entries = entries, !.at = @ + 1]
      BY <2>2 DEF WriteLocation
    <3> HIDE DEF entries, after
    <3>4. after = [entries |-> entries, at |-> w.at + 1, mode |-> "replace",
                   written |-> Key(state)]
      BY <1>1, <2>1, <3>3
    <3> QED BY <1>1, <1>2, <1>4, <3>2, <3>4 DEF Webs, after, route
  <2>3. CASE w.mode # "push"
    <3> DEFINE entries == [w.entries EXCEPT ![w.at] = route]
    <3>1. /\ entries \in Seq(Routes) /\ Len(entries) = Len(w.entries)
          /\ entries[w.at] = route
      BY <1>1, <1>2
    <3>2. WriteLocation(w, route) = [w EXCEPT !.entries = entries]
      BY <1>1, <2>3 DEF WriteLocation
    <3> HIDE DEF entries, after
    <3>3. after = [entries |-> entries, at |-> w.at, mode |-> "replace",
                   written |-> Key(state)]
      BY <1>1, <2>1, <3>2
    <3> QED BY <1>1, <1>2, <1>4, <3>1, <3>3 DEF Webs, after, route
  <2> QED BY <2>2, <2>3
<1> QED BY <1>3, <1>4

-----------------------------------------------------------------------------
(* The invariant.  What the effect last wrote is what is shown unless one  *)
(* is due, and is the location unless an event is on its way.              *)

LocationIsWritten ==
    /\ ~due => web.written = Key(shown)
    /\ ~popped => Location = web.written[1]

StatesInv ==
    /\ pending \in GoodStates /\ InBounds(pending)
    /\ shown \in GoodStates /\ InBounds(shown)
    /\ waiting \in 0..MaxQueue /\ web \in Webs
    /\ due \in BOOLEAN /\ popped \in BOOLEAN

ShellInv == StatesInv /\ LocationIsWritten

\* An event whose update is a tab state keeps the invariant, also one that takes
\* the location's route to the active tab.
LEMMA EventKeeps ==
  ASSUME ShellInv, NEW u, NEW how \in {"push", "replace"}, Event(u, how),
         Apply(shown, u) \in GoodStates, Apply(pending, u) \in GoodStates,
         popped' \in BOOLEAN,
         popped' = popped \/ ActiveTab(Apply(shown, u)).route = Location
  PROVE  ShellInv'
<1> DEFINE w == [web EXCEPT !.mode = how]
           settled == IF due THEN LocationEffect(w, shown) ELSE w
<1>1. /\ shown' = Apply(shown, u) /\ pending' = Apply(pending, u)
      /\ InBounds(shown') /\ InBounds(pending')
      /\ waiting' = IF waiting = 0 THEN 0 ELSE waiting + 1
      /\ waiting' <= MaxQueue /\ due' = FALSE
      /\ web' = LocationEffect(settled, shown')
  BY DEF Event
<1>2. /\ w \in Webs /\ w.written = web.written /\ w.entries = web.entries
      /\ w.at = web.at
  BY DEF ShellInv, StatesInv, Webs
<1> HIDE DEF w
<1>3. /\ settled \in Webs /\ settled.written = Key(shown)
      /\ \/ settled.entries[settled.at] = Key(shown)[1]
         \/ settled.entries[settled.at] = Location /\ web.written = Key(shown)
  <2>1. CASE due
    <3>1. settled = LocationEffect(w, shown)
      BY <2>1
    <3> HIDE DEF settled
    <3> QED BY <1>2, <3>1, EffectIs DEF ShellInv, StatesInv, Location
  <2>2. CASE ~due
    BY <1>2, <2>2 DEF ShellInv, LocationIsWritten, Location
  <2> QED BY <2>1, <2>2
<1> HIDE DEF settled
<1>4. /\ web' \in Webs /\ web'.written = Key(shown')
      /\ IF Key(shown') = settled.written THEN web' = settled
         ELSE web'.entries[web'.at] = Key(shown')[1]
  BY <1>1, <1>3, EffectIs
<1>5. (due = FALSE /\ waiting \in 0..MaxQueue)'
  BY <1>1 DEF ShellInv, StatesInv
<1>6. StatesInv'
  BY <1>1, <1>4, <1>5 DEF StatesInv
<1>7. ASSUME ~popped' PROVE web'.entries[web'.at] = web'.written[1]
  <2>1. CASE Key(shown') # settled.written
    BY <1>4, <2>1
  <2>2. CASE Key(shown') = settled.written
    <3>1. web' = settled /\ Key(shown') = Key(shown)
      BY <1>3, <1>4, <2>2
    <3>2. CASE settled.entries[settled.at] = Key(shown)[1]
      BY <1>4, <3>1, <3>2
    <3>3. CASE settled.entries[settled.at] = Location /\ web.written = Key(shown)
      <4>1. CASE ~popped
        BY <1>4, <3>1, <3>3, <4>1 DEF ShellInv, LocationIsWritten
      <4>2. CASE popped
        <5>1. ActiveTab(shown').route = Location
          BY <1>1, <1>7, <4>2
        <5>2. Key(shown')[1] = Location
          BY <1>1, <5>1, KeyIs
        <5> QED BY <1>4, <3>1, <3>3, <5>2
      <4> QED BY <4>1, <4>2
    <3> QED BY <1>3, <3>2, <3>3
  <2> QED BY <2>1, <2>2
<1>8. LocationIsWritten'
  BY <1>4, <1>7 DEF LocationIsWritten, Location
<1> QED BY <1>6, <1>8 DEF ShellInv

LEMMA InitShell == TabsInit => ShellInv
<1> SUFFICES ASSUME TabsInit PROVE ShellInv
  OBVIOUS
<1>1. PICK route \in Routes :
        /\ pending = [tabs |-> <<MakeTab(1, route)>>, active |-> 1]
        /\ web = [entries |-> <<route>>, at |-> 1, mode |-> "replace",
                  written |-> <<route, 0>>]
        /\ shown = pending /\ waiting = 0 /\ due = FALSE /\ popped = FALSE
  BY DEF TabsInit
<1>2. MakeTab(1, route) \in GoodTabs
  <2>1. <<route>> \in Seq(Routes) /\ Len(<<route>>) = 1 /\ <<route>>[1] = route
    OBVIOUS
  <2> QED BY <2>1 DEF MakeTab, GoodTabs, Ids
<1> DEFINE tab == MakeTab(1, route)
<1>3. tab.id = 1 /\ tab.route = route /\ tab.tick = 0 /\ Len(tab.history) = 1
  BY DEF MakeTab
<1> HIDE DEF tab
<1>4. /\ shown.tabs = <<tab>> /\ shown.active = 1 /\ DOMAIN shown.tabs = {1}
      /\ shown.tabs[1] = tab /\ Len(shown.tabs) = 1
  BY <1>1 DEF tab
<1>5. IdsOf(shown) = {1} /\ 1 \in Ids
  BY <1>3, <1>4 DEF IdsOf, Ids
<1>6. shown \in GoodStates
  <2> HIDE DEF GoodTabs
  <2>1. <<tab>> \in Seq(GoodTabs)
    BY <1>2 DEF tab
  <2>2. shown \in [tabs : Seq(GoodTabs), active : Ids]
    BY <1>1, <1>5, <2>1 DEF tab
  <2>3. /\ Len(shown.tabs) \in 1..MaxTabs /\ shown.active \in IdsOf(shown)
        /\ \A i, j \in DOMAIN shown.tabs : shown.tabs[i].id = shown.tabs[j].id => i = j
    BY <1>4, <1>5
  <2> HIDE DEF tab
  <2> QED BY <2>2, <2>3 DEF GoodStates
<1>7. InBounds(shown)
  <2>1. ToSet(shown.tabs) = {tab}
    BY <1>4 DEF ToSet
  <2>2. Len(tab.history) <= MaxHistory /\ tab.tick <= MaxTick
    BY <1>3
  <2> QED BY <2>1, <2>2 DEF InBounds
<1>8. Key(shown) = <<route, 0>>
  BY <1>3, <1>4, <1>5, <1>6, ActiveIs DEF Key, ActiveTab
<1>9. web \in Webs /\ Location = route /\ web.written = <<route, 0>>
  BY <1>1 DEF Webs, Location
<1>10. /\ pending \in GoodStates /\ InBounds(pending)
       /\ waiting \in 0..MaxQueue /\ due \in BOOLEAN /\ popped \in BOOLEAN
  <2>1. waiting = 0 /\ due = FALSE /\ popped = FALSE /\ pending = shown
    BY <1>1
  <2>2. pending \in GoodStates
    BY <1>6, <2>1
  <2>3. InBounds(pending)
    BY <1>7, <2>1
  <2>4. waiting \in 0..MaxQueue
    BY <2>1
  <2> QED BY <2>1, <2>2, <2>3, <2>4
<1>11. StatesInv
  BY <1>6, <1>7, <1>9, <1>10 DEF StatesInv
<1>12. LocationIsWritten
  BY <1>8, <1>9 DEF LocationIsWritten
<1> QED BY <1>11, <1>12 DEF ShellInv

\* What an update of each kind gives.
LEMMA ApplyIs ==
  ASSUME NEW state
  PROVE  /\ \A route \in Routes :
               /\ Apply(state, [op |-> "navigate", route |-> route])
                    = Navigate(state, route)
               /\ Apply(state, [op |-> "location", route |-> route])
                    = FromLocation(state, route)
         /\ \A by \in {-1, 1} :
               /\ Apply(state, [op |-> "move", by |-> by]) = MoveHistory(state, by)
               /\ Apply(state, [op |-> "focus", by |-> by]) = FocusByOffset(state, by)
         /\ Apply(state, [op |-> "refresh"]) = RefreshTab(state)
         /\ \A tab \in GoodTabs :
               Apply(state, [op |-> "open", tab |-> tab]) = OpenTab(state, tab)
         /\ \A id \in Ids :
               /\ Apply(state, [op |-> "close", id |-> id]) = CloseTab(state, id)
               /\ Apply(state, [op |-> "activate", id |-> id]) = ActivateTab(state, id)
  BY DEF Apply

LEMMA ActivatedKeeps ==
  ASSUME NEW state \in GoodStates, NEW id PROVE ActivateTab(state, id) \in GoodStates
  BY ActivateKeeps DEF ActivateTab

\* Every handler keeps the invariant.
LEMMA HandlersKeep ==
  ASSUME ShellInv,
         \/ UserNavigates \/ GoBackOrForward \/ Refresh
         \/ OpenNewTab \/ Close \/ Activate \/ FocusNextOrPrevious
  PROVE  ShellInv'
<1>1. pending \in GoodStates /\ shown \in GoodStates /\ popped \in BOOLEAN
  BY DEF ShellInv, StatesInv
<1>2. CASE UserNavigates
  <2>1. PICK route \in Routes :
          Event([op |-> "navigate", route |-> route], "push") /\ UNCHANGED popped
    BY <1>2 DEF UserNavigates
  <2> QED BY <1>1, <2>1, ApplyIs, NavigateKeeps, EventKeeps
<1>3. CASE GoBackOrForward
  <2>1. PICK by \in {-1, 1} :
          Event([op |-> "move", by |-> by], "replace") /\ UNCHANGED popped
    BY <1>3 DEF GoBackOrForward
  <2> QED BY <1>1, <2>1, ApplyIs, MoveKeeps, EventKeeps
<1>4. CASE Refresh
  <2>1. Event([op |-> "refresh"], "replace") /\ UNCHANGED popped
    BY <1>4 DEF Refresh
  <2> QED BY <1>1, <2>1, ApplyIs, RefreshKeeps, EventKeeps
<1>5. CASE OpenNewTab
  <2> DEFINE tab == MakeTab(NewId, Home)
  <2>1. Event([op |-> "open", tab |-> tab], "push") /\ UNCHANGED popped
    BY <1>5 DEF OpenNewTab
  <2>2. /\ tab \in GoodTabs
        /\ tab.id \notin IdsOf(pending) /\ tab.id \notin IdsOf(shown)
    BY <1>1, NewIdIs
  <2> HIDE DEF tab
  <2> QED BY <1>1, <2>1, <2>2, ApplyIs, OpenKeeps, EventKeeps
<1>6. CASE Close
  <2>1. PICK id \in IdsOf(shown) :
          Event([op |-> "close", id |-> id], "replace") /\ UNCHANGED popped
    BY <1>6 DEF Close
  <2>2. id \in Ids
    BY <1>1, FewIds
  <2> QED BY <1>1, <2>1, <2>2, ApplyIs, CloseKeeps, EventKeeps
<1>7. CASE Activate
  <2>1. PICK id \in IdsOf(shown) :
          Event([op |-> "activate", id |-> id], "replace") /\ UNCHANGED popped
    BY <1>7 DEF Activate
  <2>2. id \in Ids
    BY <1>1, FewIds
  <2> QED BY <1>1, <2>1, <2>2, ApplyIs, ActivatedKeeps, EventKeeps
<1>8. CASE FocusNextOrPrevious
  <2>1. PICK by \in {-1, 1} :
          Event([op |-> "focus", by |-> by], "replace") /\ UNCHANGED popped
    BY <1>8 DEF FocusNextOrPrevious
  <2> QED BY <1>1, <2>1, ApplyIs, FocusKeeps, EventKeeps
<1> QED BY <1>2, <1>3, <1>4, <1>5, <1>6, <1>7, <1>8

LEMMA TabsStep == ShellInv /\ [TabsNext]_tabsVars => ShellInv'
<1> SUFFICES ASSUME ShellInv, [TabsNext]_tabsVars PROVE ShellInv'
  OBVIOUS
<1>1. CASE UserNavigates \/ GoBackOrForward \/ Refresh
           \/ OpenNewTab \/ Close \/ Activate \/ FocusNextOrPrevious
  BY <1>1, HandlersKeep
<1>2. CASE BrowserMoves
  <2>1. PICK next \in DOMAIN web.entries :
          /\ web' = [web EXCEPT !.at = next] /\ popped' = TRUE
          /\ UNCHANGED <<pending, waiting, shown, due>>
    BY <1>2 DEF BrowserMoves
  <2>2. web' \in Webs /\ web'.written = web.written
    <3>1. /\ web \in [entries : Seq(Routes), at : Nat, mode : {"push", "replace"},
                      written : Routes \X Nat]
          /\ next \in 1..Len(web.entries) /\ next \in Nat
      BY <2>1 DEF ShellInv, StatesInv, Webs
    <3> QED BY <2>1, <3>1 DEF Webs
  <2>3. StatesInv'
    BY <2>1, <2>2 DEF ShellInv, StatesInv
  <2>4. LocationIsWritten'
    BY <2>1, <2>2 DEF ShellInv, LocationIsWritten
  <2> QED BY <2>3, <2>4 DEF ShellInv
<1>3. CASE SyncFromLocation
  <2>1. /\ popped /\ popped' = FALSE
        /\ Event([op |-> "location", route |-> Location], web.mode)
    BY <1>3 DEF SyncFromLocation
  <2>2. /\ Location \in Routes /\ web.mode \in {"push", "replace"}
        /\ pending \in GoodStates /\ shown \in GoodStates
    BY DEF ShellInv, StatesInv, Webs, Location
  <2> DEFINE u == [op |-> "location", route |-> Location]
  <2>3. /\ Apply(shown, u) = FromLocation(shown, Location)
        /\ Apply(pending, u) = FromLocation(pending, Location)
    BY <2>2, ApplyIs
  <2> HIDE DEF u
  <2>4. /\ Apply(shown, u) \in GoodStates /\ Apply(pending, u) \in GoodStates
        /\ ActiveTab(Apply(shown, u)).route = Location
    BY <2>2, <2>3, LocationKeeps
  <2> QED BY <2>1, <2>2, <2>4, EventKeeps DEF u
<1>4. CASE TimerNavigates
  <2>1. PICK route \in Routes :
          /\ waiting < MaxQueue /\ waiting' = waiting + 1
          /\ pending' = Navigate(pending, route) /\ InBounds(pending')
          /\ web' = [web EXCEPT !.mode = "push"]
          /\ UNCHANGED <<shown, due, popped>>
    BY <1>4 DEF TimerNavigates
  <2>2. pending' \in GoodStates /\ waiting' \in 0..MaxQueue
    BY <2>1, NavigateKeeps DEF ShellInv, StatesInv
  <2>3. /\ web' \in Webs /\ web'.written = web.written
        /\ web'.entries = web.entries /\ web'.at = web.at
    BY <2>1 DEF ShellInv, StatesInv, Webs
  <2>4. StatesInv'
    BY <2>1, <2>2, <2>3 DEF ShellInv, StatesInv
  <2>5. LocationIsWritten'
    BY <2>1, <2>3 DEF ShellInv, LocationIsWritten, Location
  <2> QED BY <2>4, <2>5 DEF ShellInv
<1>5. CASE Flush
  <2>1. shown' = pending /\ waiting' = 0 /\ due' = TRUE /\ UNCHANGED <<pending, web, popped>>
    BY <1>5 DEF Flush
  <2>2. waiting' \in 0..MaxQueue /\ due' \in BOOLEAN
    BY <2>1
  <2>3. StatesInv'
    BY <2>1, <2>2 DEF ShellInv, StatesInv
  <2>4. LocationIsWritten'
    BY <2>1 DEF ShellInv, LocationIsWritten, Location
  <2> QED BY <2>3, <2>4 DEF ShellInv
<1>6. CASE RunEffect
  <2>1. /\ due /\ due' = FALSE /\ web' = LocationEffect(web, shown)
        /\ UNCHANGED <<pending, waiting, shown, popped>>
    BY <1>6 DEF RunEffect
  <2>2. /\ web' \in Webs /\ web'.written = Key(shown)
        /\ IF Key(shown) = web.written THEN web' = web
           ELSE web'.entries[web'.at] = Key(shown)[1]
    BY <2>1, EffectIs DEF ShellInv, StatesInv
  <2>3. due' \in BOOLEAN
    BY <2>1
  <2>4. StatesInv'
    BY <2>1, <2>2, <2>3 DEF ShellInv, StatesInv
  <2>5. Key(shown)' = Key(shown)
    BY <2>1
  <2>6. LocationIsWritten'
    BY <2>1, <2>2, <2>5 DEF ShellInv, LocationIsWritten, Location
  <2> QED BY <2>4, <2>6 DEF ShellInv
<1>7. CASE UNCHANGED tabsVars
  BY <1>7 DEF tabsVars, ShellInv, StatesInv, LocationIsWritten, Location, Key, ActiveTab,
              Position, InBounds
<1> QED BY <1>1, <1>2, <1>3, <1>4, <1>5, <1>6, <1>7 DEF TabsNext

LEMMA ShellIsSafe == TabsSpec => []ShellInv
<1> QED BY InitShell, TabsStep, PTL DEF TabsSpec

-----------------------------------------------------------------------------
(* The properties.                                                         *)

\* A state of good tabs within the bounds is one of the type.
LEMMA StatesAreTyped ==
  ASSUME NEW state \in GoodStates, InBounds(state) PROVE StateOK(state)
<1>1. ASSUME NEW i \in DOMAIN state.tabs PROVE state.tabs[i] \in Tab
  <2> DEFINE tab == state.tabs[i]
  <2>1. tab \in GoodTabs
    BY StatesAre
  <2>2. Len(tab.history) <= MaxHistory /\ tab.tick <= MaxTick
    BY DEF InBounds, ToSet
  <2>3. /\ tab.id \in Ids /\ tab.route \in Routes /\ tab.tick \in Nat
        /\ tab.history \in Seq(Routes) /\ Len(tab.history) \in Nat
        /\ tab.index \in 1..Len(tab.history)
        /\ tab = [id |-> tab.id, route |-> tab.route, tick |-> tab.tick,
                  history |-> tab.history, index |-> tab.index]
    BY <2>1 DEF GoodTabs
  <2> HIDE DEF tab
  <2>4. tab.history \in BoundedSeq(Routes, MaxHistory)
    <3>1. tab.history \in [1..Len(tab.history) -> Routes] /\ Len(tab.history) \in 0..MaxHistory
      BY <2>2, <2>3
    <3> QED BY <3>1 DEF BoundedSeq, SeqOf
  <2>5. tab.tick \in 0..MaxTick /\ tab.index \in 1..MaxHistory
    BY <2>2, <2>3
  <2>6. tab \in Tab
    BY <2>3, <2>4, <2>5 DEF Tab
  <2> QED BY <2>6 DEF tab
<1> QED BY <1>1, StatesAre DEF StateOK, ToSet

\* Whatever the user, the timers and the web view's own history do, there are
\* one to MAX_TABS tabs of different identifiers, one of them active, and each
\* shows the entry its history points at (appState.js, every updater).
THEOREM TabsAreSafe == TabsSpec => []TabsInv
<1>1. ShellInv => TabsInv
  <2> SUFFICES ASSUME ShellInv PROVE TabsInv
    OBVIOUS
  <2>1. TabsTypeOK
    BY StatesAreTyped DEF ShellInv, StatesInv, TabsTypeOK, Webs
  <2>2. RouteIsCurrentEntry
    <3>1. ASSUME NEW i \in DOMAIN shown.tabs
          PROVE  /\ shown.tabs[i].index \in DOMAIN shown.tabs[i].history
                 /\ shown.tabs[i].history[shown.tabs[i].index] = shown.tabs[i].route
      BY StatesAre, TabsAre DEF ShellInv, StatesInv
    <3> QED BY <3>1 DEF RouteIsCurrentEntry, ToSet
  <2> QED BY <2>1, <2>2 DEF TabsInv
<1> QED BY <1>1, ShellIsSafe, PTL

\* Once the effects have run and the web view's events have come, the location is
\* the page the active tab shows (appState.js, the two effects of useRouteState).
THEOREM LocationFollows == TabsSpec => []LocationShowsActive
<1>1. ShellInv => LocationShowsActive
  BY KeyIs DEF ShellInv, StatesInv, LocationIsWritten, LocationShowsActive
<1> QED BY <1>1, ShellIsSafe, PTL

(***************************************************************************)
(* The balance                                                             *)
(***************************************************************************)

\* Together the two checked invariants are inductive.
DisplayInv == BalanceInv /\ ShownIsNewest

USE WalletBalanceAssumption
USE DEF DisplayInv, BalanceInv, BalanceTypeOK, BalancesAreReal, PendingAreReal,
        OneAtATime, ShownIsNewest, Balance, MaybeBalance

LEMMA InitDisplay == BalanceInit => DisplayInv
<1> SUFFICES ASSUME BalanceInit PROVE DisplayInv
  OBVIOUS
<1> USE DEF BalanceInit, Idle
<1>1. BalanceTypeOK
  <2>1. truth \in [Accounts -> 0..MaxTransfers]
    OBVIOUS
  <2>2. wallet \in [status : {"idle", "checking", "ok", "error"},
                   account : Accounts \cup {NoWallet}, data : MaybeBalance]
    OBVIOUS
  <2>3. newest \in [Accounts -> 0..MaxTransfers]
    BY <2>1
  <2>4. wallet.status # "ok" /\ wallet.status # "error" /\ requested \in 0..MaxRefreshes
    OBVIOUS
  <2> QED BY <2>1, <2>2, <2>3, <2>4
<1>2. BalancesAreReal /\ OneAtATime /\ ShownIsNewest
  OBVIOUS
<1>3. PendingAreReal
  OBVIOUS
<1> QED BY <1>1, <1>2, <1>3

(* A refresh asked for by a callback leaves on display what the callback   *)
(* saw, and one more request, which carries it.                            *)
LEMMA ChipKeeps == DisplayInv /\ ClickChip => DisplayInv'
<1> SUFFICES ASSUME DisplayInv, ClickChip PROVE DisplayInv'
  OBVIOUS
<1>1. CASE account = NoWallet
  BY <1>1 DEF ClickChip, RefreshWallet
<1>2. CASE account # NoWallet
  <2> DEFINE r == [id |-> requested + 1, account |-> account,
                   seen |-> wallet.data, read |-> -1]
  <2>1. /\ r \in [id : 1..MaxRefreshes, account : Accounts,
                  seen : MaybeBalance, read : -1..MaxTransfers]
        /\ requested' \in 0..MaxRefreshes
        /\ refreshes' = refreshes \cup {r}
    BY <1>2 DEF ClickChip, RefreshWallet
  <2>2. BalanceTypeOK'
    BY <1>2, <2>1 DEF ClickChip, RefreshWallet
  <2>3. BalancesAreReal' /\ PendingAreReal' /\ ShownIsNewest'
    BY <1>2, <2>1 DEF ClickChip, RefreshWallet
  <2>4. (~mixed => OneAtATime)'
    BY <1>2, <2>1 DEF ClickChip, RefreshWallet
  <2> QED BY <2>2, <2>3, <2>4
<1> QED BY <1>1, <1>2

LEMMA PageKeeps ==
  ASSUME DisplayInv, NEW c \in callers, PageRefreshes(c) PROVE DisplayInv'
<1>1. CASE c.account = NoWallet
  BY <1>1 DEF PageRefreshes, RefreshWallet
<1>2. CASE c.account # NoWallet
  <2> DEFINE r == [id |-> requested + 1, account |-> c.account,
                   seen |-> c.seen, read |-> -1]
  <2>1. /\ r \in [id : 1..MaxRefreshes, account : Accounts,
                  seen : MaybeBalance, read : -1..MaxTransfers]
        /\ requested' \in 0..MaxRefreshes
        /\ refreshes' = refreshes \cup {r}
    BY <1>2 DEF PageRefreshes, RefreshWallet
  <2>2. BalanceTypeOK'
    BY <1>2, <2>1 DEF PageRefreshes, RefreshWallet
  <2>3. BalancesAreReal' /\ PendingAreReal' /\ mixed'
    BY <1>2, <2>1 DEF PageRefreshes, RefreshWallet
  <2> QED BY <2>2, <2>3
<1> QED BY <1>1, <1>2

LEMMA ReadKeeps ==
  ASSUME DisplayInv, NEW r \in refreshes, Read(r) PROVE DisplayInv'
<1> DEFINE s == [r EXCEPT !.read = truth[r.account]]
<1>1. /\ s \in [id : 1..MaxRefreshes, account : Accounts,
                seen : MaybeBalance, read : -1..MaxTransfers]
      /\ refreshes' = (refreshes \ {r}) \cup {s}
      /\ s.read = truth[s.account] /\ s.seen = r.seen /\ s.account = r.account
  BY DEF Read
<1> HIDE DEF s
<1>2. BalanceTypeOK' /\ BalancesAreReal' /\ ShownIsNewest'
  BY <1>1 DEF Read
<1>3. PendingAreReal'
  BY <1>1 DEF Read
<1>4. (~mixed => OneAtATime)'
  BY <1>1 DEF Read
<1> QED BY <1>2, <1>3, <1>4

LEMMA AnsweredKeeps ==
  ASSUME DisplayInv, NEW r \in refreshes, RefreshAnswered(r) PROVE DisplayInv'
<1>1. BalanceTypeOK'
  <2> DEFINE b == [account |-> r.account, asOf |-> r.read, stale |-> FALSE]
  <2>1. r.account \in Accounts /\ r.read \in 0..MaxTransfers
    BY DEF RefreshAnswered
  <2>2. b \in Balance
    BY <2>1
  <2>3. b # NoWallet
    BY <2>2
  <2>4. newest' \in [Accounts -> 0..MaxTransfers]
    BY <2>1 DEF RefreshAnswered, Larger
  <2> QED BY <2>2, <2>3, <2>4 DEF RefreshAnswered
<1>2. /\ \A a \in Accounts : newest[a] <= newest'[a] /\ newest'[a] <= truth[a]
      /\ r.read <= newest'[r.account] /\ truth' = truth
      /\ r.account \in Accounts /\ r.read \in 0..MaxTransfers
  BY DEF RefreshAnswered, Larger
<1>3. BalancesAreReal' /\ PendingAreReal'
  BY <1>1, <1>2 DEF RefreshAnswered
<1>4. (~mixed => OneAtATime)' /\ ShownIsNewest'
  BY DEF RefreshAnswered, Larger
<1> QED BY <1>1, <1>3, <1>4

LEMMA FailedKeeps ==
  ASSUME DisplayInv, NEW r \in refreshes, RefreshFailed(r) PROVE DisplayInv'
<1> DEFINE b == MarkStale(r.seen, r.account)
<1>1. /\ b \in MaybeBalance
      /\ b = NoWallet <=> r.seen = NoWallet
      /\ b # NoWallet => b.stale /\ b.account = r.seen.account /\ b.asOf = r.seen.asOf
  <2>1. r.seen \in MaybeBalance
    OBVIOUS
  <2>2. CASE r.seen = NoWallet
    BY <2>2 DEF MarkStale
  <2>3. CASE r.seen # NoWallet
    <3>1. b = [r.seen EXCEPT !.stale = TRUE] /\ r.seen \in Balance
      BY <2>1, <2>3 DEF MarkStale
    <3> HIDE DEF b
    <3> QED BY <2>3, <3>1
  <2> QED BY <2>2, <2>3
<1> HIDE DEF b
<1>2. /\ wallet' = [status |-> "error", account |-> r.account, data |-> b]
      /\ refreshes' = refreshes \ {r}
      /\ UNCHANGED <<truth, account, requested, callers, newest, mixed>>
  BY DEF RefreshFailed, b
<1>3. BalanceTypeOK'
  BY <1>1, <1>2
<1>4. BalancesAreReal' /\ PendingAreReal'
  BY <1>1, <1>2
<1>5. (~mixed => OneAtATime)' /\ ShownIsNewest'
  BY <1>1, <1>2
<1> QED BY <1>3, <1>4, <1>5

LEMMA TransferKeeps ==
  ASSUME DisplayInv, NEW a \in Accounts, Transfer(a) PROVE DisplayInv'
<1>1. \A b \in Accounts : truth[b] <= truth'[b]
  BY DEF Transfer
<1> QED BY <1>1 DEF Transfer

LEMMA StepDisplay == DisplayInv /\ [BalanceNext]_balanceVars => DisplayInv'
<1> SUFFICES ASSUME DisplayInv, [BalanceNext]_balanceVars PROVE DisplayInv'
  OBVIOUS
<1>1. CASE ClickChip
  BY <1>1, ChipKeeps
<1>2. CASE PagePays
  BY <1>2 DEF PagePays
<1>3. CASE SwitchAccount
  BY <1>3 DEF SwitchAccount
<1>4. CASE ResetSettings
  BY <1>4 DEF ResetSettings, Idle
<1>5. CASE \E a \in Accounts : Transfer(a)
  BY <1>5, TransferKeeps
<1>6. CASE \E c \in callers : PageRefreshes(c)
  BY <1>6, PageKeeps
<1>7. CASE \E r \in refreshes : Read(r) \/ RefreshAnswered(r) \/ RefreshFailed(r)
  BY <1>7, ReadKeeps, AnsweredKeeps, FailedKeeps
<1>8. CASE UNCHANGED balanceVars
  BY <1>8 DEF balanceVars
<1> QED BY <1>1, <1>2, <1>3, <1>4, <1>5, <1>6, <1>7, <1>8 DEF BalanceNext

THEOREM DisplayIsSafe == BalanceSpec => []DisplayInv
  BY InitDisplay, StepDisplay, PTL DEF BalanceSpec

(* AppContext.refreshWallet: the balance it leaves in walletState, also    *)
(* when a failure marks an older one stale, is one the ledger had for the  *)
(* account it is attributed to, and while only the chip has refreshed one  *)
(* refresh at most is under way.                                           *)
THEOREM BalanceIsReal == BalanceSpec => []BalanceInv
<1>1. DisplayInv => BalanceInv
  OBVIOUS
<1> QED BY <1>1, DisplayIsSafe, PTL

(* While only the chip refreshes, answers cannot overtake each other: the  *)
(* balance shown is the newest that was ever shown of its account.         *)
THEOREM ShownStaysNewest == BalanceSpec => []ShownIsNewest
<1>1. DisplayInv => ShownIsNewest
  OBVIOUS
<1> QED BY <1>1, DisplayIsSafe, PTL
=============================================================================
