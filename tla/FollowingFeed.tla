---------------------------- MODULE FollowingFeed ----------------------------
(***************************************************************************)
(* The Home page's feed of followed creators and its offline cache.  An    *)
(* effect of the page loads the feed when its tab becomes active, the user *)
(* asks for a refresh or the settings change: it reads who is followed,    *)
(* reads the creators' timelines, stores refresh metadata (LocalFollowing) *)
(* and the cache, and shows the result; without a result it shows the      *)
(* cache.  An effect that was superseded, or whose tab was left, goes on   *)
(* storing but shows nothing.  Meanwhile profile views follow and unfollow *)
(* creators.                                                               *)
(***************************************************************************)
EXTENDS FeedDocuments

CONSTANTS Creators,      \* creators, as numbers
          Pages,         \* Pages[c]: the pages a creator's timeline may answer
          Runs,          \* loads of the feed that may be under way at once
          None,
          MaxTime,       \* bound: wall clock readings are 1..MaxTime
          CreatorLimit   \* creators one load reads (16 in the code)

ASSUME FollowingFeedAssumption ==
  /\ Creators \subseteq Nat /\ MaxTime \in Nat /\ CreatorLimit \in Nat \ {0}
  /\ DOMAIN Pages = Creators
  /\ \A c \in Creators : \A page \in Pages[c] :
        page # None /\ page \subseteq Publication /\ IsFiniteSet(page)
  /\ None \notin Runs /\ None \notin [items : Seq(Publication), at : 1..MaxTime]

VARIABLES following,  \* the followed creators, in the record's order
          cache,      \* the cache on disk: None or [items, at]
          run,        \* the loads
          current,    \* the load whose effect is alive, or None
          feed,       \* what the page shows
          seen,       \* history: the publications of every feed cached, until lost
          lost,       \* history: a load replaced a cache it had not read
          eligible    \* history: whom a load's offline projection may show

vars == <<following, cache, run, current, feed, seen, lost, eligible>>

Time == 1..MaxTime
Publications == UNION {UNION Pages[c] : c \in Creators}
Resting == [step |-> "idle", at |-> 0, record |-> <<>>, pages |-> <<>>, saved |-> None]
Hydrating(t, record) == [step |-> "hydrate", at |-> t, record |-> record,
                         pages |-> <<>>, saved |-> None]

Init ==
  /\ following = <<>>
  /\ cache = None
  /\ run = [r \in Runs |-> Resting]
  /\ current = None
  /\ feed = [status |-> "idle", items |-> <<>>]
  /\ seen = {}
  /\ lost = FALSE
  /\ eligible = [r \in Runs |-> {}]

(* The profile views' part: see LocalFollowing. *)
Follow(c) ==
  /\ c \notin Range(following)
  /\ following' = Append(following, c)
  /\ eligible' = [r \in Runs |-> IF run[r].step \in {"o_cache", "o_follow"}
                                 THEN eligible[r] \cup {c} ELSE eligible[r]]
  /\ UNCHANGED <<cache, run, current, feed, seen, lost>>

Unfollow(c) ==
  /\ c \in Range(following)
  /\ following' = RemoveAt(following, CHOOSE i \in DOMAIN following : following[i] = c)
  /\ UNCHANGED <<cache, run, current, feed, seen, lost, eligible>>

Step(r, from, to) == run[r].step = from /\ run' = [run EXCEPT ![r].step = to]

(* Turn to the offline projection: what is followed from now on counts. *)
GoOffline(r, from) ==
  /\ run[r].step = from
  /\ run' = [run EXCEPT ![r] = [Resting EXCEPT !.step = "o_cache"]]
  /\ eligible' = [eligible EXCEPT ![r] = Range(following)]

EndLoad(r) == run' = [run EXCEPT ![r] = Resting] /\ eligible' = [eligible EXCEPT ![r] = {}]

----------------------------------------------------------------------------
(* The effect starts, in place of one that is alive.  What was shown stays.*)
(* It either has a gateway, and invokes the read of the record, or goes    *)
(* offline at once.                                                        *)
StartLoad(r) ==
  /\ run[r].step = "idle"
  /\ current' = r
  /\ feed' = [feed EXCEPT !.status = "loading"]
  /\ \/ /\ \E t \in Time : run' = [run EXCEPT ![r] = Hydrating(t, following)]
        /\ UNCHANGED eligible
     \/ GoOffline(r, "idle")
  /\ UNCHANGED <<following, cache, seen, lost>>

(* The tab becomes active, or Refresh is pressed, which is disabled while  *)
(* loading.                                                                *)
Load(r) == (current = None \/ feed.status # "loading") /\ StartLoad(r)

(* New settings make another publication client, also during a load.       *)
ClientChanged(r) == current # None /\ StartLoad(r)

(* The tab is left or the page closed. *)
LeaveTab ==
  /\ current # None
  /\ current' = None
  /\ UNCHANGED <<following, cache, run, feed, seen, lost, eligible>>

Selected(r) == {run[r].record[i] : i \in {k \in DOMAIN run[r].record : k <= CreatorLimit}}

(* What comes of a load's timeline reads. *)
Outcome(r) ==
  IF run[r].record = <<>> THEN "empty"
  ELSE IF DOMAIN run[r].pages = Selected(r) THEN "ready" ELSE "partial"

(* The answers for the creators arrive; a page that cannot be composed     *)
(* counts as a failure.  With no page of several creators, or no record,   *)
(* nothing is stored and a live effect projects the cache.                 *)
Hydrated(r) ==
  /\ run[r].step = "hydrate"
  /\ \E answers \in [Selected(r) -> UNION {Pages[c] : c \in Creators} \cup {None}] :
       LET ok == {c \in Selected(r) : answers[c] \in Pages[c] /\ Acceptable(c, answers[c])}
       IN IF ok # {}
          THEN /\ run' = [run EXCEPT ![r].step = "c_read", ![r].pages = [c \in ok |-> answers[c]]]
               /\ UNCHANGED eligible
          ELSE IF Selected(r) = {} THEN Step(r, "hydrate", "show") /\ UNCHANGED eligible
          ELSE IF r = current THEN GoOffline(r, "hydrate") ELSE EndLoad(r)
  /\ UNCHANGED <<following, cache, current, feed, seen, lost>>

ReadFails(r) ==
  /\ GoOffline(r, "hydrate")
  /\ UNCHANGED <<following, cache, current, feed, seen, lost>>

(* persistHydratedFeedCache reads the cache, or fails to. *)
ReadCache(r) ==
  /\ \/ run[r].step = "c_read" /\ run' = [run EXCEPT ![r].step = "c_write", ![r].saved = cache]
     \/ Step(r, "c_read", "show")
  /\ UNCHANGED <<following, cache, current, feed, seen, lost, eligible>>

NextCache(r) ==
  LET old == run[r].saved
  IN [items |-> Merge(IF old = None THEN <<>> ELSE old.items, Compose(run[r].pages)),
      at |-> run[r].at]

(* The merged cache is written, unless its time would regress.             *)
WriteCache(r) ==
  /\ Step(r, "c_write", "show")
  /\ run[r].saved # None => run[r].saved.at <= run[r].at
  /\ cache' = NextCache(r)
  /\ lost' = (lost \/ cache # run[r].saved)
  /\ seen' = IF lost' THEN {} ELSE seen \cup Range(Compose(run[r].pages))
  /\ UNCHANGED <<following, current, feed, eligible>>

(* It would, or the store fails: the feed is shown all the same. *)
WriteCacheFails(r) ==
  /\ Step(r, "c_write", "show")
  /\ UNCHANGED <<following, cache, current, feed, seen, lost, eligible>>

(* A live effect shows the feed of the pages it got. *)
Show(r) ==
  /\ run[r].step = "show"
  /\ feed' = IF r = current THEN [status |-> Outcome(r), items |-> Compose(run[r].pages)] ELSE feed
  /\ EndLoad(r)
  /\ UNCHANGED <<following, cache, current, seen, lost>>

----------------------------------------------------------------------------
(* loadOfflineLocalFollowingFeed reads the cache, and then, unless it is   *)
(* missing, who is followed; either read may fail.                         *)
OfflineEnd(r, status, items) ==
  /\ feed' = IF r = current THEN [status |-> status, items |-> items] ELSE feed
  /\ EndLoad(r)

(* Faulty: a missing cache ends the projection without a word. *)
ReadOfflineCacheSilently(r) ==
  /\ run[r].step = "o_cache"
  /\ IF cache # None
     THEN run' = [run EXCEPT ![r].step = "o_follow", ![r].saved = cache] /\ UNCHANGED eligible
     ELSE EndLoad(r)
  /\ UNCHANGED <<following, cache, current, feed, seen, lost>>

ReadOfflineCache(r) ==
  /\ run[r].step = "o_cache"
  /\ \/ /\ cache # None
        /\ run' = [run EXCEPT ![r].step = "o_follow", ![r].saved = cache]
        /\ UNCHANGED <<feed, eligible>>
     \/ cache = None /\ OfflineEnd(r, "offline-empty", <<>>)
     \/ OfflineEnd(r, "error", <<>>)
  /\ UNCHANGED <<following, cache, current, seen, lost>>

(* Faulty: the cache is shown as it is. *)
ReadOfflineFollowingUnused(r) ==
  /\ run[r].step = "o_follow"
  /\ run' = [run EXCEPT ![r].step = "o_show"]
  /\ UNCHANGED <<following, cache, current, feed, seen, lost, eligible>>

ReadOfflineFollowing(r) ==
  /\ run[r].step = "o_follow"
  /\ \/ /\ run' = [run EXCEPT ![r].step = "o_show",
                              ![r].saved.items = Visible(run[r].saved.items, Range(following))]
        /\ UNCHANGED <<feed, eligible>>
     \/ OfflineEnd(r, "error", <<>>)
  /\ UNCHANGED <<following, cache, current, seen, lost>>

(* The projection is labelled stale; with nothing in it the page is empty. *)
ShowOffline(r) ==
  /\ run[r].step = "o_show"
  /\ OfflineEnd(r, IF run[r].saved.items = <<>> THEN "offline-empty" ELSE "stale-offline",
                run[r].saved.items)
  /\ UNCHANGED <<following, cache, current, seen, lost>>

----------------------------------------------------------------------------
RunStep(r) ==
  \/ Hydrated(r) \/ ReadFails(r) \/ ReadCache(r) \/ WriteCache(r) \/ WriteCacheFails(r) \/ Show(r)
  \/ ReadOfflineCache(r) \/ ReadOfflineFollowing(r) \/ ShowOffline(r)

Next ==
  \/ \E c \in Creators : Follow(c) \/ Unfollow(c)
  \/ LeaveTab
  \/ \E r \in Runs : Load(r) \/ ClientChanged(r) \/ RunStep(r)

Spec == Init /\ [][Next]_vars

----------------------------------------------------------------------------
(* Properties *)

Statuses == {"idle", "loading", "ready", "partial", "empty", "stale-offline", "offline-empty", "error"}

(* The cache on disk can always be read again, and nothing but public      *)
(* publications is ever cached or shown, whatever timelines answer.        *)
TypeOK ==
  /\ Range(following) \subseteq Creators
  /\ \A i, j \in DOMAIN following : following[i] = following[j] => i = j
  /\ cache # None => WellFormed(cache.items) /\ cache.at \in Time
  /\ current \in Runs \cup {None}
  /\ feed.status \in Statuses /\ WellFormed(feed.items)
  /\ seen \subseteq Publications

(* Until a load replaces a cache that it had not read, the cache is        *)
(* exactly the newest of everything it was ever given: no failed creator,  *)
(* failed write or cut loses a newer publication while an older one stays. *)
(* A timeline never changes a publication.                                 *)
CacheIsNewestSeen ==
  (cache # None /\ ~lost) => cache.items = Cut(Chronological(seen), CacheMax)

(* "current follows filter cached creators": nobody who was unfollowed     *)
(* before the offline projection started is shown by it.                   *)
OfflineIsFollowed ==
  [][\A r \in Runs : (run[r].step = "o_show" /\ run'[r] # run[r] /\ feed' # feed) =>
       \A i \in DOMAIN feed'.items : feed'.items[i].creator \in eligible[r]]_vars

(* A page that stays open leaves the state in which Refresh is disabled:   *)
(* while it says loading, its load is under way and can go on; a load has  *)
(* no loop, so that it shows something once its requests have answered.    *)
LoadingIsUnderWay ==
  (feed.status = "loading" /\ current # None) => ENABLED RunStep(current)

(* What is cached and shown is public, ordered and bounded, and until a load*)
(* replaces a cache it had not read, updateLocalFollowingFeedCache keeps   *)
(* exactly the newest publications it was ever given.                      *)
FeedInv == TypeOK /\ CacheIsNewestSeen
=============================================================================
