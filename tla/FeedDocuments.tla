---------------------------- MODULE FeedDocuments ----------------------------
(***************************************************************************)
(* The pure functions of the shared core library over publications: the    *)
(* feed composed from the pages of followed creators, and the bounded      *)
(* cache kept of it.  A publication is a record                            *)
(*   [creator, id, at, public]: who, which, when, and its visibility;      *)
(* creators and ids are numbers, for their order.  A page is the set of    *)
(* publications a creator's timeline answered; equal copies are one.       *)
(***************************************************************************)
EXTENDS Integers, Sequences, FiniteSets, SequencesExt

CONSTANT FeedMax,   \* items of a composed feed (50 in the code)
         CacheMax   \* items of the cache (50 in the code)

ASSUME FeedDocumentsAssumption == FeedMax \in Nat /\ CacheMax \in Nat \ {0} /\ FeedMax <= CacheMax

Publication == [creator : Nat, id : Nat, at : Nat, public : BOOLEAN]

Identity(p) == <<p.creator, p.id>>

(* Newest first, then by creator and id. *)
Before(p, q) ==
  \/ p.at > q.at
  \/ p.at = q.at /\ (p.creator < q.creator \/ (p.creator = q.creator /\ p.id < q.id))

Rank(S, p) == Cardinality({q \in S : Before(q, p)})

Chronological(S) == [i \in 1..Cardinality(S) |-> CHOOSE p \in S : Rank(S, p) = i - 1]

Cut(seq, max) == SubSeq(seq, 1, IF Len(seq) < max THEN Len(seq) ELSE max)

(* Only one's own publications, and no two different ones of one identity. *)
Acceptable(c, page) ==
  /\ \A p \in page : p.creator = c
  /\ \A p, q \in page : (p.public /\ q.public /\ Identity(p) = Identity(q)) => p = q

(* The feed of acceptable pages, one per followed creator. *)
Compose(pages) ==
  Cut(Chronological({p \in UNION {pages[c] : c \in DOMAIN pages} : p.public}), FeedMax)

(* Faulty: new publications only fill the room that is left. *)
MergeKeepingOld(old, new) ==
  Chronological(Range(old) \cup Range(Cut(Chronological(Range(new) \ Range(old)), CacheMax - Len(old))))

(* The incoming copy of a publication replaces the cached one. *)
Merge(old, new) ==
  LET kept == {p \in Range(old) : \A q \in Range(new) : Identity(q) # Identity(p)}
  IN Cut(Chronological(kept \cup Range(new)), CacheMax)

(* What normalizeLocalFollowingFeedCache accepts. *)
WellFormed(items) ==
  /\ Len(items) <= CacheMax
  /\ \A i \in DOMAIN items : items[i].public
  /\ \A i, j \in DOMAIN items : i < j => /\ Identity(items[i]) # Identity(items[j])
                                         /\ Before(items[i], items[j])

(* Creators no longer followed are not shown from the cache. *)
Visible(items, followed) == Chronological({p \in Range(items) : p.creator \in followed})
=============================================================================
