------------------------ MODULE LocalFollowingProofs ------------------------
(***************************************************************************)
(* Proofs about the record of followed creators, for any number of open    *)
(* profiles and refreshes, any clock and any limit: it can always be read  *)
(* again, and until a write replaces a record its writer had not read it   *)
(* follows whom the user asked for, a view that offers to change it shows  *)
(* it, and no refresh time goes back.                                      *)
(***************************************************************************)
EXTENDS LocalFollowing, SequenceTheorems, TLAPS

USE LocalFollowingAssumption

\* The records that can be read again.
Good == {rec \in Records : Readable(rec)}

-----------------------------------------------------------------------------
(* The record's pure changes.                                              *)

LEMMA RecordIsSeq ==
  ASSUME NEW rec \in Records
  PROVE  /\ rec \in Seq(Entry) /\ Len(rec) \in 0..MaxEntries
         /\ DOMAIN rec = 1..Len(rec) /\ \A i \in DOMAIN rec : rec[i] \in Entry
<1>1. PICK n \in 0..MaxEntries : rec \in [1..n -> Entry]
  BY DEF Records
<1> HIDE DEF Entry
<1> QED BY <1>1

LEMMA SeqIsRecord ==
  ASSUME NEW rec \in Seq(Entry), Len(rec) <= MaxEntries PROVE rec \in Records
<1> HIDE DEF Entry
<1>1. rec \in [1..Len(rec) -> Entry] /\ Len(rec) \in 0..MaxEntries
  BY LenProperties
<1> QED BY <1>1 DEF Records

LEMMA FollowAdds ==
  ASSUME NEW rec \in Good, NEW c \in Creators, Readable(FollowProfile(rec, c))
  PROVE  /\ FollowProfile(rec, c) \in Good
         /\ Followed(FollowProfile(rec, c)) = Followed(rec) \cup {c}
         /\ \A i \in DOMAIN FollowProfile(rec, c) :
              \/ i \in DOMAIN rec /\ FollowProfile(rec, c)[i] = rec[i]
              \/ FollowProfile(rec, c)[i].who = c
<1> DEFINE e == [who |-> c, cursor |-> None, at |-> 0]
           new == FollowProfile(rec, c)
<1>1. e \in Entry /\ e.who = c
  BY DEF Entry
<1>2. /\ rec \in Seq(Entry) /\ DOMAIN rec = 1..Len(rec) /\ Len(rec) \in Nat
  BY RecordIsSeq DEF Good
<1>3. new = Append(rec, e)
  BY DEF FollowProfile
<1> HIDE DEF e, new
<1>4. /\ new \in Seq(Entry) /\ DOMAIN new = 1..(Len(rec) + 1) /\ Len(new) = Len(rec) + 1
      /\ new[Len(rec) + 1] = e /\ \A i \in DOMAIN rec : new[i] = rec[i]
  BY <1>1, <1>2, <1>3
<1>5. Readable(new) /\ Len(new) <= MaxEntries
  BY DEF new, Readable
<1>6. new \in Good
  BY <1>4, <1>5, SeqIsRecord DEF Good
<1>7. Followed(new) = Followed(rec) \cup {c}
  BY <1>1, <1>2, <1>4 DEF Followed
<1>8. \A i \in DOMAIN new : (i \in DOMAIN rec /\ new[i] = rec[i]) \/ new[i].who = c
  BY <1>1, <1>2, <1>4
<1> QED BY <1>6, <1>7, <1>8 DEF new

LEMMA UnfollowRemoves ==
  ASSUME NEW rec \in Good, NEW c \in Followed(rec)
  PROVE  /\ UnfollowProfile(rec, c) \in Good
         /\ Followed(UnfollowProfile(rec, c)) = Followed(rec) \ {c}
         /\ \A j \in DOMAIN UnfollowProfile(rec, c) :
              \E i \in DOMAIN rec : UnfollowProfile(rec, c)[j] = rec[i]
<1> DEFINE k == CHOOSE i \in DOMAIN rec : rec[i].who = c
           new == UnfollowProfile(rec, c)
           before == SubSeq(rec, 1, k - 1)
           after == SubSeq(rec, k + 1, Len(rec))
<1>1. /\ rec \in Seq(Entry) /\ DOMAIN rec = 1..Len(rec) /\ Len(rec) \in 0..MaxEntries
      /\ Readable(rec) /\ \A i \in DOMAIN rec : rec[i] \in Entry
  BY RecordIsSeq DEF Good
<1>2. k \in DOMAIN rec /\ rec[k].who = c
  BY DEF Followed
<1>3. new = before \o after
  BY DEF UnfollowProfile, RemoveAt
<1> HIDE DEF k, new
<1>4. /\ before \in Seq(Entry) /\ Len(before) = k - 1
      /\ \A i \in 1..(k - 1) : before[i] = rec[i]
  BY <1>1, <1>2, SubSeqProperties
<1>5. /\ after \in Seq(Entry) /\ Len(after) = Len(rec) - k
      /\ \A i \in 1..(Len(rec) - k) : after[i] = rec[k + i]
  BY <1>1, <1>2, SubSeqProperties
<1> HIDE DEF before, after
<1>6. /\ new \in Seq(Entry) /\ Len(new) = Len(rec) - 1 /\ DOMAIN new = 1..(Len(rec) - 1)
      /\ \A i \in DOMAIN new : new[i] = IF i < k THEN rec[i] ELSE rec[i + 1]
  <2>1. /\ new \in Seq(Entry) /\ Len(new) = Len(rec) - 1
        /\ \A i \in 1..(Len(rec) - 1) :
             new[i] = IF i <= k - 1 THEN before[i] ELSE after[i - (k - 1)]
    <3>1. /\ new \in Seq(Entry) /\ Len(new) = Len(before) + Len(after)
          /\ \A i \in 1..(Len(before) + Len(after)) :
               new[i] = IF i <= Len(before) THEN before[i] ELSE after[i - Len(before)]
      BY <1>3, <1>4, <1>5, ConcatProperties
    <3>2. Len(before) = k - 1 /\ Len(before) + Len(after) = Len(rec) - 1
      BY <1>1, <1>2, <1>4, <1>5
    <3> QED BY <3>1, <3>2
  <2>2. DOMAIN new = 1..(Len(rec) - 1)
    BY <2>1, LenProperties
  <2>3. ASSUME NEW i \in 1..(Len(rec) - 1)
        PROVE  new[i] = IF i < k THEN rec[i] ELSE rec[i + 1]
    <3>1. CASE i < k
      BY <1>1, <1>2, <1>4, <2>1, <3>1
    <3>2. CASE i >= k
      <4>1. i - (k - 1) \in 1..(Len(rec) - k) /\ ~(i <= k - 1)
        BY <1>1, <1>2, <3>2
      <4>2. new[i] = after[i - (k - 1)] /\ after[i - (k - 1)] = rec[k + (i - (k - 1))]
        BY <1>5, <2>1, <4>1
      <4> QED BY <1>1, <1>2, <3>2, <4>2
    <3> QED BY <1>1, <1>2, <3>1, <3>2
  <2> QED BY <2>1, <2>2, <2>3
<1>7. \A i \in DOMAIN rec : rec[i].who = c => i = k
  BY <1>1, <1>2 DEF Readable
<1>8. Readable(new)
  <2>1. SUFFICES ASSUME NEW i \in DOMAIN new, NEW j \in DOMAIN new, i # j
                 PROVE  new[i].who # new[j].who
    <3>1. Len(new) <= MaxEntries
      BY <1>1, <1>6
    <3> HIDE DEF new
    <3> QED BY <3>1 DEF Readable
  <2> DEFINE old(m) == IF m < k THEN m ELSE m + 1
  <2>2. /\ old(i) \in DOMAIN rec /\ old(j) \in DOMAIN rec /\ old(i) # old(j)
        /\ new[i] = rec[old(i)] /\ new[j] = rec[old(j)]
    BY <1>1, <1>2, <1>6, <2>1
  <2> QED BY <1>1, <2>2 DEF Readable
<1>9. new \in Good
  BY <1>1, <1>6, <1>8, SeqIsRecord DEF Good
<1>10. Followed(new) \subseteq Followed(rec) \ {c}
  BY <1>1, <1>2, <1>6, <1>7 DEF Followed
<1>11. ASSUME NEW i \in DOMAIN rec, rec[i].who # c PROVE rec[i].who \in Followed(new)
  <2>1. CASE i < k
    <3>1. i \in DOMAIN new /\ new[i] = rec[i]
      BY <1>1, <1>2, <1>6, <2>1
    <3> QED BY <3>1 DEF Followed
  <2>2. CASE i > k
    <3>1. i - 1 \in DOMAIN new /\ new[i - 1] = rec[i]
      BY <1>1, <1>2, <1>6, <2>2
    <3> QED BY <3>1 DEF Followed
  <2> QED BY <1>1, <1>2, <1>11, <2>1, <2>2
<1>12. \A j \in DOMAIN new : \E i \in DOMAIN rec : new[j] = rec[i]
  BY <1>1, <1>2, <1>6
<1>13. Followed(rec) \ {c} \subseteq Followed(new)
  BY <1>11 DEF Followed
<1> QED BY <1>9, <1>10, <1>12, <1>13 DEF new

LEMMA PagesAreNoted ==
  ASSUME NEW rec \in Good, NEW pages \in Pages, NEW at \in 0..MaxTime
  PROVE  /\ WithPages(rec, pages, at) \in Good
         /\ Followed(WithPages(rec, pages, at)) = Followed(rec)
         /\ DOMAIN WithPages(rec, pages, at) = DOMAIN rec
         /\ \A i \in DOMAIN rec : /\ WithPages(rec, pages, at)[i].who = rec[i].who
                                  /\ WithPages(rec, pages, at)[i].at >= rec[i].at
<1> DEFINE new == WithPages(rec, pages, at)
<1>1. PICK n \in 0..MaxEntries : rec \in [1..n -> Entry] /\ Readable(rec)
  BY DEF Good, Records
<1>2. \A c \in DOMAIN pages : pages[c] \in Cursors \cup {None}
  BY DEF Pages
<1>3. ASSUME NEW i \in 1..n
      PROVE  new[i] \in Entry /\ new[i].who = rec[i].who /\ new[i].at >= rec[i].at
  <2>1. rec[i] \in Entry
    BY <1>1
  <2>2. CASE rec[i].who \in DOMAIN pages /\ Supersedes(rec[i], pages[rec[i].who], at)
    <3>1. new[i] = [rec[i] EXCEPT !.cursor = pages[rec[i].who], !.at = at]
      BY <1>1, <2>2 DEF WithPages
    <3>2. at >= rec[i].at
      BY <2>1, <2>2 DEF Supersedes, Entry
    <3> QED BY <1>2, <2>1, <2>2, <3>1, <3>2 DEF Entry
  <2>3. CASE ~(rec[i].who \in DOMAIN pages /\ Supersedes(rec[i], pages[rec[i].who], at))
    <3>1. new[i] = rec[i]
      BY <1>1, <2>3 DEF WithPages
    <3> QED BY <2>1, <3>1 DEF Entry
  <2> QED BY <2>2, <2>3
<1>4. DOMAIN rec = 1..n /\ DOMAIN new = 1..n
  BY <1>1 DEF WithPages
<1>5. new \in [1..n -> Entry]
  <2>1. new = [i \in 1..n |-> new[i]]
    BY <1>1 DEF WithPages
  <2> HIDE DEF new
  <2> QED BY <1>3, <2>1
<1> HIDE DEF new, Entry
<1>6. new \in Records /\ Len(new) = n /\ Len(rec) = n
  BY <1>1, <1>5 DEF Records
<1>7. Readable(new)
  BY <1>1, <1>3, <1>4, <1>6 DEF Readable
<1>8. Followed(new) = Followed(rec)
  BY <1>3, <1>4 DEF Followed
<1> QED BY <1>3, <1>4, <1>6, <1>7, <1>8 DEF new, Good

-----------------------------------------------------------------------------
(* The invariant.                                                          *)

USE DEF TypeOK, FollowsAsAsked, FreshViewIsTruth, ReadIsStored, ViewState, RunState

\* What a click writes.
LEMMA ClickedIs ==
  ASSUME FollowingInv, NEW v \in Views, view[v].status = "ready", Readable(Clicked(v))
  PROVE  /\ Clicked(v) \in Good
         /\ Followed(Clicked(v)) = IF view[v].who \in Followed(view[v].record)
                                   THEN Followed(view[v].record) \ {view[v].who}
                                   ELSE Followed(view[v].record) \cup {view[v].who}
         /\ \A j \in DOMAIN Clicked(v) :
              \/ \E i \in DOMAIN view[v].record : Clicked(v)[j] = view[v].record[i]
              \/ Clicked(v)[j].who \notin Followed(view[v].record)
<1> DEFINE rec == view[v].record  c == view[v].who
<1>1. rec \in Good /\ c \in Creators
  BY DEF FollowingInv, Good
<1>2. CASE c \in Followed(rec)
  <2>1. Clicked(v) = UnfollowProfile(rec, c)
    BY <1>2 DEF Clicked
  <2> HIDE DEF rec, c
  <2>2. /\ Clicked(v) \in Good /\ Followed(Clicked(v)) = Followed(rec) \ {c}
        /\ \A j \in DOMAIN Clicked(v) : \E i \in DOMAIN rec : Clicked(v)[j] = rec[i]
    BY <1>1, <1>2, <2>1, UnfollowRemoves
  <2> QED BY <1>2, <2>2 DEF rec, c
<1>3. CASE c \notin Followed(rec)
  <2>1. Clicked(v) = FollowProfile(rec, c)
    BY <1>3 DEF Clicked
  <2> HIDE DEF rec, c
  <2>2. /\ Clicked(v) \in Good /\ Followed(Clicked(v)) = Followed(rec) \cup {c}
        /\ \A j \in DOMAIN Clicked(v) :
             (j \in DOMAIN rec /\ Clicked(v)[j] = rec[j]) \/ Clicked(v)[j].who = c
    BY <1>1, <1>3, <2>1, FollowAdds
  <2> QED BY <1>3, <2>2 DEF rec, c
<1> QED BY <1>2, <1>3

\* What a refresh writes.
LEMMA NotedIs ==
  ASSUME FollowingInv, NEW r \in Runs
  PROVE  /\ Noted(r) \in Good /\ Followed(Noted(r)) = Followed(run[r].record)
         /\ DOMAIN Noted(r) = DOMAIN run[r].record
         /\ \A i \in DOMAIN Noted(r) : /\ Noted(r)[i].who = run[r].record[i].who
                                       /\ Noted(r)[i].at >= run[r].record[i].at
<1>1. run[r].record \in Good /\ run[r].pages \in Pages /\ run[r].at \in 0..MaxTime
  BY DEF FollowingInv, Good
<1> QED BY <1>1, PagesAreNoted DEF Noted

LEMMA EmptyRecord == <<>> \in Records /\ Readable(<<>>) /\ <<>> \in Pages
<1>1. <<>> \in Records
  BY DEF Records
<1>2. Readable(<<>>)
  BY DEF Readable
<1>3. <<>> \in Pages
  <2>1. <<>> \in [{} -> Cursors \cup {None}]
    OBVIOUS
  <2> QED BY <2>1 DEF Pages
<1> QED BY <1>1, <1>2, <1>3

LEMMA InitFollowing == Init => FollowingInv
<1> SUFFICES ASSUME Init PROVE FollowingInv
  OBVIOUS
<1> USE DEF Init
<1>1. store \in Records /\ Readable(store) /\ Followed(store) \subseteq Creators
  <2>1. store \in Records /\ Readable(store)
    BY DEF Initial
  <2>2. \A i \in DOMAIN store : store[i] \in Entry
    BY <2>1, RecordIsSeq
  <2> QED BY <2>1, <2>2 DEF Followed, Entry
<1>2. /\ view \in [Views -> ViewState]
      /\ \A v \in Views : /\ view[v].status = "closed"
                         /\ Readable(view[v].record) /\ Readable(view[v].answer)
  BY EmptyRecord DEF Closed
<1>3. /\ run \in [Runs -> RunState]
      /\ \A r \in Runs : run[r].step = "idle" /\ Readable(run[r].record)
  BY EmptyRecord DEF Resting
<1> QED BY <1>1, <1>2, <1>3 DEF FollowingInv

\* One view sends a request.
LEMMA AskIs ==
  ASSUME FollowingInv, NEW v \in Views, NEW rec \in Records, Readable(rec),
         NEW s \in {"loading", "saving", "failing", "error"},
         view[v].status # "closed", Ask(v, s, rec)
  PROVE  /\ view' \in [Views -> ViewState]
         /\ \A w \in Views : /\ Readable(view'[w].record) /\ Readable(view'[w].answer)
                             /\ view'[w].status # "closed" => view'[w].who \in Creators
         /\ view'[v].status = s /\ view'[v].answer = rec
         /\ \A w \in Views \ {v} : view'[w] = view[w]
<1> DEFINE new == [view[v] EXCEPT !.status = s, !.answer = rec]
<1>1. view[v] \in ViewState
  BY DEF FollowingInv
<1>2. /\ new \in ViewState /\ new.status = s /\ new.answer = rec
      /\ new.who = view[v].who /\ new.record = view[v].record
  BY <1>1
<1>3. view' = [view EXCEPT ![v] = new]
  BY <1>1 DEF Ask, FollowingInv
<1> HIDE DEF new
<1> QED BY <1>2, <1>3 DEF FollowingInv

\* One view gets its answer.
LEMMA AnswerKeeps ==
  ASSUME FollowingInv, NEW v \in Views, view[v].status \in {"loading", "saving"}, Answer(v),
         UNCHANGED <<store, run, asked, stale, lost>>
  PROVE  FollowingInv'
<1> USE DEF FollowingInv
<1>1. CASE Ask(v, "error", <<>>)
  BY <1>1, AskIs, EmptyRecord
<1>2. CASE view' = [view EXCEPT ![v].status = "ready", ![v].record = view[v].answer, ![v].answer = <<>>]
  <2> DEFINE new == [view[v] EXCEPT !.status = "ready", !.record = view[v].answer, !.answer = <<>>]
  <2>1. view[v] \in ViewState /\ <<>> \in Records /\ Readable(<<>>)
    BY EmptyRecord
  <2>2. /\ new \in ViewState /\ new.status = "ready" /\ new.answer = <<>>
        /\ new.who = view[v].who /\ new.record = view[v].answer
    BY <2>1
  <2>3. view' = [view EXCEPT ![v] = new]
    BY <1>2, <2>1
  <2> HIDE DEF new
  <2> QED BY <2>1, <2>2, <2>3
<1> QED BY <1>1, <1>2 DEF Answer

LEMMA ViewKeeps ==
  ASSUME FollowingInv, NEW v \in Views, ViewNext(v) PROVE FollowingInv'
<1> USE DEF FollowingInv
<1>1. CASE \E c \in Creators : Open(v, c)
  <2>1. PICK c \in Creators : Open(v, c)
    BY <1>1
  <2> DEFINE new == [Closed EXCEPT !.status = "loading", !.who = c, !.answer = store]
  <2>2. /\ new \in ViewState /\ new.status = "loading" /\ new.who = c
        /\ new.answer = store /\ Readable(new.record)
    BY EmptyRecord DEF Closed
  <2>3. /\ view' = [view EXCEPT ![v] = new]
        /\ stale' = stale \ {v} /\ UNCHANGED <<store, run, asked, lost>>
    BY <2>1 DEF Open
  <2> HIDE DEF new
  <2> QED BY <2>2, <2>3
<1>2. CASE Loaded(v)
  BY <1>2, AnswerKeeps DEF Loaded
<1>3. CASE Retry(v)
  <2>1. /\ view[v].status # "closed" /\ Ask(v, "loading", store)
        /\ stale' = stale \ {v} /\ UNCHANGED <<store, run, asked, lost>>
    BY <1>3 DEF Retry
  <2> QED BY <2>1, AskIs
<1>4. CASE Click(v)
  <2>1. Clicked(v) \in Records /\ Readable(Clicked(v))
    BY <1>4, ClickedIs DEF Click, Good
  <2>2. /\ Ask(v, "saving", Clicked(v)) /\ view[v].status = "ready"
        /\ store' = Clicked(v) /\ stale' = Writers \ {v}
        /\ lost' = (lost \/ (v \in stale /\ view[v].record # store)) /\ run' = run
        /\ asked' = IF view[v].who \in Followed(view[v].record)
                    THEN asked \ {view[v].who} ELSE asked \cup {view[v].who}
    BY <1>4 DEF Click, Write
  <2>3. /\ view' \in [Views -> ViewState]
        /\ \A w \in Views : /\ Readable(view'[w].record) /\ Readable(view'[w].answer)
                            /\ view'[w].status # "closed" => view'[w].who \in Creators
        /\ view'[v].status = "saving" /\ view'[v].answer = Clicked(v)
        /\ \A w \in Views \ {v} : view'[w] = view[w]
    BY <2>1, <2>2, AskIs
  <2>4. TypeOK'
    BY <2>1, <2>2, <2>3 DEF Writers
  <2>5. FreshViewIsTruth' /\ ReadIsStored'
    BY <2>2, <2>3, LocalFollowingAssumption DEF Writers
  <2>6. FollowsAsAsked'
    BY <2>2, ClickedIs, <1>4 DEF Click
  <2> QED BY <2>4, <2>5, <2>6
<1>5. CASE ClickRefused(v)
  <2>1. view[v].status = "ready" /\ Ask(v, "failing", <<>>)
    BY <1>5 DEF ClickRefused
  <2>2. /\ view' \in [Views -> ViewState]
        /\ \A w \in Views : /\ Readable(view'[w].record) /\ Readable(view'[w].answer)
                            /\ view'[w].status # "closed" => view'[w].who \in Creators
        /\ view'[v].status = "failing" /\ \A w \in Views \ {v} : view'[w] = view[w]
    BY <2>1, AskIs, EmptyRecord
  <2>3. UNCHANGED <<store, run, asked, stale, lost>>
    BY <1>5 DEF ClickRefused
  <2> QED BY <2>2, <2>3
<1>6. CASE Saved(v)
  <2>1. CASE view[v].status = "saving" /\ Answer(v)
    BY <1>6, <2>1, AnswerKeeps DEF Saved
  <2>2. CASE view[v].status = "failing" /\ Ask(v, "error", <<>>)
    BY <1>6, <2>2, AskIs, EmptyRecord DEF Saved
  <2> QED BY <1>6, <2>1, <2>2 DEF Saved
<1>7. CASE Close(v)
  BY <1>7, EmptyRecord DEF Close, Closed
<1> QED BY <1>1, <1>2, <1>3, <1>4, <1>5, <1>6, <1>7 DEF ViewNext

LEMMA RunKeeps ==
  ASSUME FollowingInv, NEW r \in Runs, RunNext(r) PROVE FollowingInv'
<1> USE DEF FollowingInv
<1>1. CASE BeginRefresh(r)
  BY <1>1, EmptyRecord DEF BeginRefresh, Time
<1>2. CASE Hydrated(r)
  <2>0. PICK ok \in SUBSET Selected(run[r].record) : \E pages \in [ok -> Cursors \cup {None}] :
           run' = [run EXCEPT ![r] = IF ok = {} THEN Resting
                       ELSE [@ EXCEPT !.step = "reread", !.pages = pages]]
    BY <1>2 DEF Hydrated
  <2>1. PICK pages \in [ok -> Cursors \cup {None}] :
           run' = [run EXCEPT ![r] = IF ok = {} THEN Resting
                       ELSE [@ EXCEPT !.step = "reread", !.pages = pages]]
    BY <2>0
  <2>2. ok \in SUBSET Creators
    <3>1. \A i \in DOMAIN run[r].record : run[r].record[i] \in Entry
      BY RecordIsSeq
    <3> QED BY <3>1 DEF Selected, Entry
  <2>3. pages \in Pages
    BY <2>2 DEF Pages
  <2> DEFINE new == [run[r] EXCEPT !.step = "reread", !.pages = pages]
  <2>4. new \in RunState /\ new.step = "reread" /\ Readable(new.record)
    <3>1. run[r] \in RunState /\ Readable(run[r].record)
      OBVIOUS
    <3> HIDE DEF FollowingInv
    <3> QED BY ONLY <2>3, <3>1 DEF RunState
  <2>5. Resting \in RunState /\ Resting.step = "idle" /\ Readable(Resting.record)
    BY EmptyRecord DEF Resting
  <2>6. run' = [run EXCEPT ![r] = new] \/ run' = [run EXCEPT ![r] = Resting]
    BY <2>1
  <2> HIDE DEF new
  <2>7. UNCHANGED <<store, view, asked, stale, lost>>
    BY <1>2 DEF Hydrated
  <2> QED BY <2>4, <2>5, <2>6, <2>7
<1>3. CASE Reread(r)
  <2> DEFINE new == [run[r] EXCEPT !.step = "write", !.record = store]
  <2>1. \/ run' = [run EXCEPT ![r] = new] /\ stale' = stale \ {r}
        \/ run' = [run EXCEPT ![r] = Resting] /\ stale' = stale
    BY <1>3 DEF Reread
  <2>2. new \in RunState /\ new.record = store /\ Readable(new.record)
    <3>1. run[r] \in RunState /\ store \in Records /\ Readable(store)
      OBVIOUS
    <3> QED BY ONLY <3>1 DEF RunState
  <2>3. Resting \in RunState /\ Resting.step = "idle" /\ Readable(Resting.record)
    BY EmptyRecord DEF Resting
  <2>4. UNCHANGED <<store, view, asked, lost>> /\ r \notin Views
    BY <1>3, LocalFollowingAssumption DEF Reread
  <2> HIDE DEF new
  <2>5. /\ run' \in [Runs -> RunState] /\ \A q \in Runs : Readable(run'[q].record)
        /\ \A q \in Runs \ {r} : run'[q] = run[q]
        /\ run'[r].step = "write" => run'[r].record = store
    BY <2>1, <2>2, <2>3
  <2>6. stale' \subseteq stale /\ stale \ {r} \subseteq stale'
    BY <2>1
  <2>7. FreshViewIsTruth'
    BY <2>4, <2>6
  <2>8. TypeOK' /\ FollowsAsAsked' /\ ReadIsStored'
    BY <2>4, <2>5, <2>6
  <2> QED BY <2>7, <2>8
<1>4. CASE WriteMetadata(r)
  <2>1. /\ run' \in [Runs -> RunState]
        /\ \A q \in Runs : Readable(run'[q].record)
        /\ run'[r].step = "idle" /\ \A q \in Runs \ {r} : run'[q] = run[q]
    BY <1>4, EmptyRecord DEF WriteMetadata, Resting
  <2>2. CASE UNCHANGED <<store, stale, lost>>
    BY <1>4, <2>1, <2>2 DEF WriteMetadata
  <2>3. CASE Write(r, run[r].record, Noted(r))
    <3>1. /\ store' = Noted(r) /\ stale' = Writers \ {r} /\ UNCHANGED <<view, asked>>
          /\ lost' = (lost \/ (r \in stale /\ run[r].record # store)) /\ run[r].step = "write"
      BY <1>4, <2>3 DEF WriteMetadata, Write
    <3>2. TypeOK'
      BY <2>1, <3>1, NotedIs DEF Writers, Good
    <3>3. FollowsAsAsked'
      BY <3>1, NotedIs
    <3>4. FreshViewIsTruth' /\ ReadIsStored'
      BY <2>1, <3>1, LocalFollowingAssumption DEF Writers
    <3> QED BY <3>2, <3>3, <3>4
  <2> QED BY <1>4, <2>2, <2>3 DEF WriteMetadata
<1> QED BY <1>1, <1>2, <1>3, <1>4 DEF RunNext

LEMMA StepKeeps == FollowingInv /\ [Next]_vars => FollowingInv'
<1>1. FollowingInv /\ UNCHANGED vars => FollowingInv'
  BY DEF FollowingInv, vars
<1> QED BY <1>1, ViewKeeps, RunKeeps DEF Next

(* However profile views and refreshes overlap and whatever fails, every   *)
(* record written can be read again and follows whom the user's clicks     *)
(* asked for until a write replaces a record its writer had not read.      *)
THEOREM FollowingIsKept == Spec => []FollowingInv
  BY InitFollowing, StepKeeps, PTL DEF Spec

(* ProfilePublicView.jsx: while nobody else has written, a Follow or       *)
(* Unfollow button is that of the stored record, also after clicks and     *)
(* reads answered with an error, and after retries.                        *)
THEOREM ViewsAreTrue == Spec => []FreshViewIsTruth
<1>1. FollowingInv => FreshViewIsTruth
  BY DEF FollowingInv
<1> QED BY <1>1, FollowingIsKept, PTL

(* persistHydratedRefreshMetadata rereads the record and skips what is not *)
(* news: no creator's refresh time goes back.                              *)
THEOREM RefreshTimesGrow == Spec => RefreshNeverRegresses
<1>1. ASSUME FollowingInv, Next, ~lost',
             NEW i \in DOMAIN store, NEW j \in DOMAIN store', store[i].who = store'[j].who
      PROVE  store'[j].at >= store[i].at
  <2>1. /\ store \in Records /\ \A k \in DOMAIN store : store[k] \in Entry
        /\ \A k, l \in DOMAIN store : store[k].who = store[l].who => k = l
    BY <1>1, RecordIsSeq DEF FollowingInv, Readable
  <2>2. \A k \in DOMAIN store : store[k].at >= store[k].at
    BY <2>1 DEF Entry
  <2>3. CASE store' = store
    BY <1>1, <2>1, <2>2, <2>3
  <2>4. ASSUME NEW v \in Views, Click(v) PROVE store'[j].at >= store[i].at
    <3>1. /\ store' = Clicked(v) /\ view[v].record = store
          /\ view[v].status = "ready" /\ Readable(Clicked(v))
      BY <1>1, <2>4 DEF Click, Write, FollowingInv
    <3>2. \/ \E k \in DOMAIN store : store'[j] = store[k]
          \/ store'[j].who \notin Followed(store)
      BY <1>1, <3>1, ClickedIs
    <3>3. store'[j].who \in Followed(store)
      BY <1>1 DEF Followed
    <3> QED BY <1>1, <2>1, <2>2, <3>2, <3>3
  <2>5. ASSUME NEW r \in Runs, WriteMetadata(r) PROVE store'[j].at >= store[i].at
    <3>1. CASE Write(r, run[r].record, Noted(r))
      <4>1. store' = Noted(r) /\ run[r].record = store
        BY <1>1, <2>5, <3>1 DEF Write, WriteMetadata, FollowingInv
      <4>2. j \in DOMAIN store /\ store'[j].who = store[j].who /\ store'[j].at >= store[j].at
        BY <1>1, <4>1, NotedIs
      <4>3. i = j
        BY <1>1, <2>1, <4>2
      <4> QED BY <4>2, <4>3
    <3> QED BY <2>3, <2>5, <3>1 DEF WriteMetadata
  <2>6. ASSUME NEW v \in Views, ViewNext(v), ~Click(v) PROVE store' = store
    BY <2>6 DEF ViewNext, Open, Loaded, Retry, ClickRefused, Saved, Close
  <2>7. ASSUME NEW r \in Runs, RunNext(r), ~WriteMetadata(r) PROVE store' = store
    BY <2>7 DEF RunNext, BeginRefresh, Hydrated, Reread
  <2> QED BY <1>1, <2>3, <2>4, <2>5, <2>6, <2>7 DEF Next
<1>2. FollowingInv /\ [Next]_vars =>
        [lost' \/ \A i \in DOMAIN store, j \in DOMAIN store' :
           store[i].who = store'[j].who => store'[j].at >= store[i].at]_vars
  BY <1>1
<1> QED BY <1>2, FollowingIsKept, PTL DEF Spec, RefreshNeverRegresses
=============================================================================
