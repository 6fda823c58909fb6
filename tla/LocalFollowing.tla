--------------------------- MODULE LocalFollowing ---------------------------
(***************************************************************************)
(* The record of locally followed creators and its two kinds of writers:   *)
(* the profile views, one per tab, whose Follow and Unfollow buttons write *)
(* back a changed copy of the record they hold, and the refreshes of the   *)
(* Home feed, which note for each creator how far its timeline was read.   *)
(* The store command reads or replaces the whole record under a mutex; the *)
(* record has no revision.  Commands run in the order they are invoked, so *)
(* a command is one step; its answer reaches the web view later.           *)
(*                                                                         *)
(* An absent record is the empty one: no reader tells them apart.          *)
(***************************************************************************)
EXTENDS Integers, Sequences, SequencesExt

CONSTANTS Creators,      \* creators that can be followed
          Views,         \* profile views that may be open at once
          Runs,          \* Home refreshes that may be under way at once
          Cursors,       \* timeline cursors the network may answer
          None,          \* null: no cursor
          MaxTime,       \* bound: wall clock readings are 1..MaxTime
          CreatorLimit,  \* creators one refresh reads (16 in the code)
          MaxEntries     \* entries the record may hold (10000 in the code)

ASSUME LocalFollowingAssumption ==
  /\ None \notin Cursors /\ Views \cap Runs = {}
  /\ MaxTime \in Nat /\ CreatorLimit \in Nat \ {0} /\ MaxEntries \in Nat \ {0}

VARIABLES store,  \* the record on disk
          view,   \* the profile views
          run,    \* the refreshes
          asked,  \* history: the creators the user last asked to follow
          stale,  \* history: views and refreshes that have not read the last write
          lost    \* history: a write replaced a record its writer had not read

vars == <<store, view, run, asked, stale, lost>>

Time    == 1..MaxTime
Entry   == [who : Creators, cursor : Cursors \cup {None}, at : 0..MaxTime]
Records == UNION {[1..n -> Entry] : n \in 0..MaxEntries}

Pages   == UNION {[ok -> Cursors \cup {None}] : ok \in SUBSET Creators}

Followed(rec) == {rec[i].who : i \in DOMAIN rec}

(* What normalizeLocalFollowingRecord accepts: an unreadable record would  *)
(* block following for good.                                               *)
Readable(rec) ==
  /\ Len(rec) <= MaxEntries
  /\ \A i, j \in DOMAIN rec : rec[i].who = rec[j].who => i = j

(* A cursor is only kept together with the time it was read at.            *)
Initial(rec) == Readable(rec) /\ \A i \in DOMAIN rec : rec[i].at = 0 => rec[i].cursor = None

(* A view keeps the record it last had an answer for; answer is what its   *)
(* request on the way will be answered with.                               *)
Closed  == [status |-> "closed", who |-> None, record |-> <<>>, answer |-> <<>>]
Resting == [step |-> "idle", at |-> 0, record |-> <<>>, pages |-> <<>>]

Init ==
  /\ store \in {rec \in Records : Initial(rec)}
  /\ view = [v \in Views |-> Closed]
  /\ run = [r \in Runs |-> Resting]
  /\ asked = Followed(store)
  /\ stale = {} /\ lost = FALSE

----------------------------------------------------------------------------
(* The record's pure changes *)

FollowProfile(rec, c) == Append(rec, [who |-> c, cursor |-> None, at |-> 0])

(* Faulty: leaves the entry in the record when it is the only one. *)
UnfollowProfileButLast(rec, c) ==
  IF Len(rec) = 1 \/ c \notin Followed(rec) THEN rec
  ELSE RemoveAt(rec, CHOOSE i \in DOMAIN rec : rec[i].who = c)

UnfollowProfile(rec, c) ==
  IF c \notin Followed(rec) THEN rec
  ELSE RemoveAt(rec, CHOOSE i \in DOMAIN rec : rec[i].who = c)

(* Faulty: a refresh with an earlier time is not skipped. *)
SupersedesAlways(e, cursor, at) == TRUE

(* A page read at a time is news unless the entry has a later one, or      *)
(* another cursor of the same time.                                        *)
Supersedes(e, cursor, at) == e.at < at \/ (e.at = at /\ e.cursor = cursor)

(* The record with every page of a refresh noted at its creator's entry.   *)
(* Pages of creators no longer in it are dropped.                          *)
WithPages(rec, pages, at) ==
  [i \in DOMAIN rec |->
    IF rec[i].who \in DOMAIN pages /\ Supersedes(rec[i], pages[rec[i].who], at)
    THEN [rec[i] EXCEPT !.cursor = pages[rec[i].who], !.at = at] ELSE rec[i]]

----------------------------------------------------------------------------
(* Profile views *)

(* Those that have, or will be answered with, a record they may write back.*)
Writers == {v \in Views : view[v].status \in {"loading", "ready", "saving"}}
             \cup {r \in Runs : run[r].step = "write"}

(* A writer replaces the record it had read.                               *)
Write(w, read, record) ==
  /\ store' = record
  /\ stale' = Writers \ {w}
  /\ lost' = (lost \/ (w \in stale /\ read # store))

(* A request of the view is on its way; the record it has stays.           *)
Ask(v, status, answer) ==
  view' = [view EXCEPT ![v].status = status, ![v].answer = answer]

(* The answer brings the record, an error leaves the view the one it had.  *)
Answer(v) ==
  \/ view' = [view EXCEPT ![v].status = "ready", ![v].record = view[v].answer, ![v].answer = <<>>]
  \/ Ask(v, "error", <<>>)

(* A public profile of another user is shown: its effect reads the record. *)
Open(v, c) ==
  /\ view[v].status = "closed"
  /\ view' = [view EXCEPT ![v] = [Closed EXCEPT !.status = "loading", !.who = c, !.answer = store]]
  /\ stale' = stale \ {v}
  /\ UNCHANGED <<store, run, asked, lost>>

(* The read answers; a failed one leaves only the Retry button. *)
Loaded(v) ==
  /\ view[v].status = "loading"
  /\ Answer(v)
  /\ UNCHANGED <<store, run, asked, stale, lost>>

(* Faulty: retry goes back to the record the view already had. *)
RetryUnread(v) ==
  /\ view[v].status = "error"
  /\ Ask(v, "loading", view[v].record)
  /\ stale' = stale \ {v}
  /\ UNCHANGED <<store, run, asked, lost>>

Retry(v) ==
  /\ view[v].status = "error"
  /\ Ask(v, "loading", store)
  /\ stale' = stale \ {v}
  /\ UNCHANGED <<store, run, asked, lost>>

(* What a click makes of the record the view holds. *)
Clicked(v) ==
  LET c == view[v].who  rec == view[v].record
  IN IF c \in Followed(rec) THEN UnfollowProfile(rec, c) ELSE FollowProfile(rec, c)

(* A click on the view's button: the changed copy replaces the record.     *)
(* The button shown, and so the wish, depends on the record held.          *)
Click(v) ==
  /\ view[v].status = "ready"
  /\ Readable(Clicked(v))
  /\ Write(v, view[v].record, Clicked(v))
  /\ Ask(v, "saving", Clicked(v))
  /\ asked' = IF view[v].who \in Followed(view[v].record)
              THEN asked \ {view[v].who} ELSE asked \cup {view[v].who}
  /\ UNCHANGED run

(* The write fails without effect, or the record is full: the wish is      *)
(* answered with an error and stands for nothing.                          *)
ClickRefused(v) ==
  /\ view[v].status = "ready"
  /\ Ask(v, "failing", <<>>)
  /\ UNCHANGED <<store, run, asked, stale, lost>>

(* The answer of a click; also a write that landed may be answered with an *)
(* error, when the sync or the read back of the native store failed: the   *)
(* view then has the record from before the write, and only Retry.         *)
Saved(v) ==
  /\ \/ view[v].status = "saving" /\ Answer(v)
     \/ view[v].status = "failing" /\ Ask(v, "error", <<>>)
  /\ UNCHANGED <<store, run, asked, stale, lost>>

(* The tab navigates away; a write on its way has been made all the same. *)
Close(v) ==
  /\ view[v].status # "closed"
  /\ view' = [view EXCEPT ![v] = Closed]
  /\ stale' = stale \ {v}
  /\ UNCHANGED <<store, run, asked, lost>>

----------------------------------------------------------------------------
(* Home refreshes *)

Selected(rec) == {rec[i].who : i \in {k \in DOMAIN rec : k <= CreatorLimit}}

(* hydrateLocalFollowingFeedBatch reads the record and picks the creators. *)
BeginRefresh(r) ==
  /\ run[r].step = "idle"
  /\ \E t \in Time :
       run' = [run EXCEPT ![r] = [step |-> "hydrate", at |-> t, record |-> store, pages |-> <<>>]]
  /\ UNCHANGED <<store, view, asked, stale, lost>>

(* The pages of some of them arrive, the others fail.  Without a page, or  *)
(* if the read fails, there is nothing to note.                            *)
Hydrated(r) ==
  /\ run[r].step = "hydrate"
  /\ \E ok \in SUBSET Selected(run[r].record) :
       \E pages \in [ok -> Cursors \cup {None}] :
         run' = [run EXCEPT ![r] = IF ok = {} THEN Resting
                                   ELSE [@ EXCEPT !.step = "reread", !.pages = pages]]
  /\ UNCHANGED <<store, view, asked, stale, lost>>

(* Faulty: notes the pages in the record the refresh began with. *)
RereadSkipped(r) ==
  /\ run[r].step = "reread"
  /\ \/ run' = [run EXCEPT ![r].step = "write"] /\ stale' = stale \ {r}
     \/ run' = [run EXCEPT ![r] = Resting] /\ UNCHANGED stale
  /\ UNCHANGED <<store, view, asked, lost>>

(* persistHydratedRefreshMetadata reads the record once more. *)
Reread(r) ==
  /\ run[r].step = "reread"
  /\ \/ run' = [run EXCEPT ![r].step = "write", ![r].record = store] /\ stale' = stale \ {r}
     \/ run' = [run EXCEPT ![r] = Resting] /\ UNCHANGED stale
  /\ UNCHANGED <<store, view, asked, lost>>

Noted(r) == WithPages(run[r].record, run[r].pages, run[r].at)

(* One write, if an entry changed; it may fail. *)
WriteMetadata(r) ==
  /\ run[r].step = "write"
  /\ run' = [run EXCEPT ![r] = Resting]
  /\ \/ Noted(r) # run[r].record /\ Write(r, run[r].record, Noted(r))
     \/ UNCHANGED <<store, stale, lost>>
  /\ UNCHANGED <<view, asked>>

----------------------------------------------------------------------------
ViewNext(v) ==
  \/ \E c \in Creators : Open(v, c)
  \/ Loaded(v) \/ Retry(v) \/ Click(v) \/ ClickRefused(v) \/ Saved(v) \/ Close(v)

RunNext(r) == BeginRefresh(r) \/ Hydrated(r) \/ Reread(r) \/ WriteMetadata(r)

Next == (\E v \in Views : ViewNext(v)) \/ (\E r \in Runs : RunNext(r))

Spec == Init /\ [][Next]_vars

----------------------------------------------------------------------------
(* Properties *)

ViewState == [status : {"closed", "loading", "ready", "saving", "failing", "error"},
              who : Creators \cup {None}, record : Records, answer : Records]
RunState  == [step : {"idle", "hydrate", "reread", "write"},
              at : 0..MaxTime, record : Records, pages : Pages]

(* Every record in use can be read again: no creator is in it twice and it *)
(* is not over its limit.                                                  *)
TypeOK ==
  /\ store \in Records /\ Readable(store)
  /\ view \in [Views -> ViewState] /\ run \in [Runs -> RunState]
  /\ \A v \in Views : Readable(view[v].record) /\ Readable(view[v].answer)
  /\ \A v \in Views : view[v].status # "closed" => view[v].who \in Creators
  /\ \A r \in Runs : Readable(run[r].record)
  /\ asked \subseteq Creators /\ stale \subseteq Views \cup Runs /\ lost \in BOOLEAN

(* The creators followed are those the user asked for last: until a write  *)
(* replaces a record its writer had not read, no click is undone by a      *)
(* later one, by a failed write, by a retry or by a refresh.               *)
FollowsAsAsked == lost \/ Followed(store) = asked

(* As long as nobody else has written since, a view that offers Follow or  *)
(* Unfollow holds what is stored, also after clicks and reads that were    *)
(* answered with an error, and after retries.                              *)
FreshViewIsTruth ==
  \A v \in Views \ stale : view[v].status = "ready" => view[v].record = store

(* "per-creator refresh time never regresses", "stale metadata never wins" *)
(* although the wall clock may go back between two refreshes, and although *)
(* the creator is unfollowed and the record written meanwhile.             *)
RefreshNeverRegresses ==
  [][lost' \/ \A i \in DOMAIN store, j \in DOMAIN store' :
       store[i].who = store'[j].who => store'[j].at >= store[i].at]_vars

(* What a view waits for while it reads or saves is what is stored, and so *)
(* is what a refresh is about to note its pages in, until somebody else    *)
(* writes.  Of a view that shows an error nothing is claimed: a write that *)
(* landed but was answered with an error leaves it the record from before. *)
ReadIsStored ==
  /\ \A v \in Views \ stale : view[v].status \in {"loading", "saving"} => view[v].answer = store
  /\ \A r \in Runs \ stale : run[r].step = "write" => run[r].record = store

(* Every record written can be read again, and until a write replaces a    *)
(* record its writer had not read, it follows exactly whom the user's Follow*)
(* and Unfollow clicks asked for, although a click or a refresh writes the *)
(* whole record back from a copy.                                          *)
FollowingInv == TypeOK /\ FollowsAsAsked /\ FreshViewIsTruth /\ ReadIsStored
=============================================================================
