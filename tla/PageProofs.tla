----------------------------- MODULE PageProofs -----------------------------
(***************************************************************************)
(* Proofs about two pages.                                                 *)
(*                                                                         *)
(* The publication of posts, for any drafts and any number of requests on  *)
(* their way: however clicks, answers and failures fall, keys are used     *)
(* once and posts are paid; under conditions the code leaves to the user   *)
(* and the gateway, trying again holds once.                               *)
(*                                                                         *)
(* The feed of followed creators, for any timelines and any number of      *)
(* overlapping loads: what is cached can be read again, holds the newest   *)
(* of what was seen, and offline only those still followed are shown.      *)
(***************************************************************************)
EXTENDS PostPublish, FollowingFeed, FiniteSetTheorems, SequenceTheorems, TLAPS

(***************************************************************************)
(* The publication of posts                                                *)
(***************************************************************************)

USE PostPublishAssumption, HoldServiceAssumption

-----------------------------------------------------------------------------
(* However clicks, answers and failures fall.                              *)

\* The requests of a behaviour: on their way, or still waited for.
InFlight == sent \cup waiting

RequestsDiffer ==
    /\ requests \in Nat
    /\ \A r \in InFlight : r.id <= requests
    /\ \A r, s \in InFlight : r.id = s.id => r = s

\* The services make one hold and one post for each key, and a post goes by the
\* key of the hold it is paid with.
KeysAreUsedOnce ==
    /\ \A h, g \in ledger : h.key = g.key => h = g
    /\ \A p, q \in posts : p.key = q.key => p = q
    /\ \A p \in posts : p.key = p.hold
    /\ \A r \in InFlight : r.op = "publish" => r.key = r.hold

\* An answer tells of something that was done.
AnswersAreServed ==
    \A r \in waiting : Answered(r) =>
        /\ r.op = "publish" => \E p \in posts : p.key = r.key
        /\ r.op = "hold" /\ replies[r.id] = 0 => \E h \in ledger : h.key = r.key

ServiceInv == RequestsDiffer /\ KeysAreUsedOnce /\ AnswersAreServed

\* Every request was sent by an opening of the page there was.
SentByPage == \A r \in InFlight \cup published : r.mount \in 1..mount

FlowInv == PostTypeOK /\ ServiceInv /\ SentByPage

\* What PostTypeOK says of the services, and of the page.
ServiceTypes ==
    /\ sent \subseteq Request /\ waiting \subseteq Request
    /\ DOMAIN replies \subseteq {r.id : r \in waiting}
    /\ \A i \in DOMAIN replies : replies[i] \in Nat
    /\ ledger \subseteq [key : Key, nonce : Nat, draft : Draft]
    /\ posts \subseteq [key : Key, draft : Draft, hold : Key]
    /\ expected \in Nat \ {0}

PageTypes ==
    /\ mount \in Nat \ {0} /\ shown \in BOOLEAN /\ draft \in Draft
    /\ prepare \in PrepareStates /\ hold \in StepStates /\ publish \in StepStates
    /\ nonce \in Nat \ {0} /\ lastNonce \in Nat
    /\ holdReview \in BOOLEAN /\ publishReview \in BOOLEAN
    /\ published \subseteq Request /\ opening \subseteq 1..mount

LEMMA Types == PostTypeOK <=> ServiceTypes /\ PageTypes
  BY DEF PostTypeOK, ServiceTypes, PageTypes

LEMMA NextFlow == ServiceTypes' /\ PageTypes' /\ ServiceInv' /\ SentByPage' => FlowInv'
  BY DEF FlowInv, PostTypeOK, ServiceTypes, PageTypes

\* What the panel's steps may become.
LEMMA StatesAreTyped ==
  /\ NoKey \in Key /\ \A d \in Draft : PrepareKey(d) \in Key
  /\ IdlePrepare \in PrepareStates
  /\ [status |-> "sending", draft |-> NoDraft] \in PrepareStates
  /\ [status |-> "error", draft |-> NoDraft] \in PrepareStates
  /\ \A d \in Draft : [status |-> "ok", draft |-> d] \in PrepareStates
  /\ Idle \in StepStates /\ Sending \in StepStates /\ Error \in StepStates
  /\ \A k \in Key : [status |-> "ok", key |-> k] \in StepStates
  /\ \A s \in StepStates : s.key \in Key
  /\ \A s \in PrepareStates : s.status = "ok" => s.draft \in Draft
  BY DEF NoKey, Key, PrepareKey, IdlePrepare, Idle, Sending, Error, Status,
         StepStates, PrepareStates

LEMMA RequestsAreTyped ==
  ASSUME NEW r \in Request
  PROVE  /\ r.id \in Nat /\ r.mount \in Nat /\ r.draft \in Draft /\ r.nonce \in Nat
         /\ r.key \in Key /\ r.hold \in Key
  BY DEF Request

-----------------------------------------------------------------------------
(* The steps of the services and of the requests on their way.             *)

LEMMA UntouchedService ==
  ASSUME FlowInv, UNCHANGED service PROVE ServiceInv' /\ ServiceTypes'
<1>1. ServiceTypes
  BY Types DEF FlowInv
<1> QED BY <1>1
    DEF FlowInv, ServiceInv, service, network, ServiceTypes, RequestsDiffer, InFlight,
        KeysAreUsedOnce, AnswersAreServed, Answered

\* A new request, in place of one that was answered or of none.
LEMMA PutKeeps ==
  ASSUME FlowInv, NEW r \in Request, NEW done, done \subseteq waiting, Put(r, done),
         r.id = requests + 1, r.op = "publish" => r.key = r.hold
  PROVE  ServiceInv' /\ ServiceTypes'
<1> USE DEF FlowInv, ServiceInv, RequestsDiffer, InFlight
<1>1. ServiceTypes
  BY Types
<1>2. /\ sent' = sent \cup {r} /\ waiting' = (waiting \ done) \cup {r}
      /\ requests' = requests + 1
      /\ replies' = [i \in DOMAIN replies \ {d.id : d \in done} |-> replies[i]]
      /\ UNCHANGED <<expected, ledger, posts>>
  BY DEF Put
<1>3. RequestsDiffer'
  <2>1. \A s \in InFlight' : s \in InFlight \/ s = r
    BY <1>2
  <2> QED BY <1>1, <1>2, <2>1 DEF ServiceTypes, Request
<1>4. KeysAreUsedOnce'
  BY <1>2 DEF KeysAreUsedOnce
<1>5. ASSUME NEW i \in DOMAIN replies'
      PROVE  i \in DOMAIN replies /\ replies'[i] = replies[i] /\ i # r.id
  BY <1>1, <1>2 DEF ServiceTypes, Request
<1>6. AnswersAreServed'
  BY <1>2, <1>5 DEF AnswersAreServed, Answered
<1>7. DOMAIN replies' \subseteq {s.id : s \in waiting'}
  <2> SUFFICES ASSUME NEW i \in DOMAIN replies' PROVE \E s \in waiting' : i = s.id
    OBVIOUS
  <2>1. PICK s \in waiting : i = s.id
    BY <1>1, <1>5 DEF ServiceTypes
  <2>2. s \notin done
    BY <1>2, <2>1
  <2> QED BY <1>2, <2>1, <2>2
<1>8. ServiceTypes'
  BY <1>1, <1>2, <1>5, <1>7 DEF ServiceTypes
<1> QED BY <1>3, <1>4, <1>6, <1>8

LEMMA PutIsOfPage ==
  ASSUME FlowInv, NEW r, NEW done, Put(r, done), r.mount \in 1..mount,
         UNCHANGED <<mount, published>>
  PROVE  SentByPage'
  BY DEF FlowInv, SentByPage, InFlight, Put

\* The client stops waiting for r.
LEMMA EndKeeps ==
  ASSUME FlowInv, NEW r \in waiting, End(r) PROVE ServiceInv' /\ ServiceTypes'
<1> USE DEF FlowInv, ServiceInv
<1>1. ServiceTypes
  BY Types
<1>2. /\ waiting' = waiting \ {r}
      /\ replies' = [i \in DOMAIN replies \ {r.id} |-> replies[i]]
      /\ UNCHANGED <<requests, sent, expected, ledger, posts>>
  BY DEF End
<1>3. RequestsDiffer' /\ KeysAreUsedOnce'
  BY <1>2 DEF RequestsDiffer, InFlight, KeysAreUsedOnce
<1>4. AnswersAreServed'
  BY <1>2 DEF AnswersAreServed, Answered
<1>5. ServiceTypes'
  BY <1>1, <1>2 DEF ServiceTypes
<1> QED BY <1>3, <1>4, <1>5

\* What an answer on its way is.
LEMMA RepliedAre ==
  ASSUME FlowInv, NEW r \in sent, NEW n \in Nat, Replied(r, n)
  PROVE  /\ DOMAIN replies' \subseteq {s.id : s \in waiting}
         /\ \A i \in DOMAIN replies' : replies'[i] \in Nat
         /\ \A s \in waiting : s.id \in DOMAIN replies' =>
               IF s = r THEN replies'[s.id] = n
               ELSE s.id \in DOMAIN replies /\ replies'[s.id] = replies[s.id]
<1>1. ServiceTypes /\ RequestsDiffer
  BY Types DEF FlowInv, ServiceInv
<1>2. CASE r \notin waiting
  <2>1. replies' = replies
    BY <1>2 DEF Replied
  <2> QED BY <1>1, <1>2, <2>1 DEF ServiceTypes
<1>3. CASE r \in waiting
  <2>1. replies' = [i \in DOMAIN replies \cup {r.id} |-> IF i = r.id THEN n ELSE replies[i]]
    BY <1>3 DEF Replied
  <2>2. \A s \in waiting : s.id = r.id => s = r
    BY <1>1 DEF RequestsDiffer, InFlight
  <2> QED BY <1>1, <1>3, <2>1, <2>2 DEF ServiceTypes
<1> QED BY <1>2, <1>3

LEMMA ServeKeeps ==
  ASSUME FlowInv, NEW r \in sent, Serve(r) PROVE ServiceInv' /\ ServiceTypes'
<1> USE DEF FlowInv, ServiceInv
<1>1. ServiceTypes /\ r \in Request
  BY Types DEF ServiceTypes
<1>2. sent' = sent \ {r} /\ UNCHANGED <<requests, waiting>>
  BY DEF Serve, ServePrepare, ServeHold, ServePublish, Replied
<1>3. RequestsDiffer'
  BY <1>2 DEF RequestsDiffer, InFlight
<1>4. CASE ServePrepare(r)
  <2>1. PICK n \in Nat : Replied(r, n)
    BY <1>1, <1>4 DEF ServePrepare, ServiceTypes
  <2>2. UNCHANGED <<expected, ledger, posts>> /\ r.op = "prepare"
    BY <1>4 DEF ServePrepare
  <2>3. KeysAreUsedOnce'
    BY <1>2, <2>2 DEF KeysAreUsedOnce, InFlight
  <2>4. AnswersAreServed'
    BY <1>2, <2>1, <2>2, RepliedAre DEF AnswersAreServed, Answered
  <2>5. ServiceTypes'
    BY <1>1, <1>2, <2>1, <2>2, RepliedAre DEF ServiceTypes
  <2> QED BY <1>3, <2>3, <2>4, <2>5
<1>5. CASE ServePublish(r)
  <2>1. Replied(r, 0) /\ UNCHANGED <<expected, ledger>> /\ r.op = "publish"
    BY <1>5 DEF ServePublish
  <2>2. /\ posts \subseteq posts' /\ \E p \in posts' : p.key = r.key
        /\ posts' \subseteq [key : Key, draft : Draft, hold : Key]
    <3> DEFINE new == [key |-> r.key, draft |-> r.draft, hold |-> r.hold]
    <3>1. new \in [key : Key, draft : Draft, hold : Key] /\ new.key = r.key
      BY <1>1 DEF Request
    <3>2. \/ posts' = posts /\ \E p \in posts : p.key = r.key
          \/ posts' = posts \cup {new}
      BY <1>5 DEF ServePublish
    <3> HIDE DEF new
    <3>3. posts \subseteq [key : Key, draft : Draft, hold : Key]
      BY <1>1 DEF ServiceTypes
    <3> QED BY <3>1, <3>2, <3>3
  <2>3. KeysAreUsedOnce'
    <3>1. CASE posts' = posts
      BY <1>2, <2>1, <3>1 DEF KeysAreUsedOnce, InFlight
    <3>2. CASE posts' # posts
      <4> DEFINE new == [key |-> r.key, draft |-> r.draft, hold |-> r.hold]
      <4>1. /\ posts' = posts \cup {new} /\ \A p \in posts : p.key # r.key
            /\ new.key = r.key /\ new.hold = r.hold
        BY <1>5, <3>2 DEF ServePublish
      <4> HIDE DEF new
      <4> QED BY <1>2, <2>1, <4>1 DEF KeysAreUsedOnce, InFlight
    <3> QED BY <3>1, <3>2
  <2>4. AnswersAreServed'
    BY <1>2, <2>1, <2>2, RepliedAre DEF AnswersAreServed, Answered
  <2>5. ServiceTypes'
    BY <1>1, <1>2, <2>1, <2>2, RepliedAre DEF ServiceTypes
  <2> QED BY <1>3, <2>3, <2>4, <2>5
<1>6. CASE ServeHold(r)
  <2>1. /\ ledger \subseteq ledger' /\ UNCHANGED posts /\ r.op = "hold"
        /\ ledger' \subseteq [key : Key, nonce : Nat, draft : Draft]
        /\ expected' \in Nat \ {0}
    BY <1>1, <1>6 DEF ServeHold, ServiceTypes, Request
  <2>2. PICK n \in Nat : /\ Replied(r, n)
                         /\ n = 0 => \E h \in ledger' : h.key = r.key
    <3> DEFINE new == [key |-> r.key, nonce |-> r.nonce, draft |-> r.draft]
    <3>1. \/ Replied(r, 0) /\ (new \in ledger' \/ \E h \in ledger' : h.key = r.key)
          \/ Replied(r, expected)
      <4> HIDE DEF Replied
      <4> QED BY <1>6, <2>1 DEF ServeHold
    <3>2. expected \in Nat \ {0}
      BY <1>1 DEF ServiceTypes
    <3> QED BY <3>1, <3>2
  <2>3. KeysAreUsedOnce'
    <3>1. CASE ledger' = ledger
      BY <1>2, <2>1, <3>1 DEF KeysAreUsedOnce, InFlight
    <3>2. CASE ledger' # ledger
      <4> DEFINE new == [key |-> r.key, nonce |-> r.nonce, draft |-> r.draft]
      <4>1. /\ ledger' = ledger \cup {new} /\ \A h \in ledger : h.key # r.key
            /\ new.key = r.key
        BY <1>6, <3>2 DEF ServeHold
      <4> HIDE DEF new
      <4> QED BY <1>2, <2>1, <4>1 DEF KeysAreUsedOnce, InFlight
    <3> QED BY <3>1, <3>2
  <2>4. AnswersAreServed'
    BY <1>2, <2>1, <2>2, RepliedAre DEF AnswersAreServed, Answered
  <2>5. ServiceTypes'
    BY <1>1, <1>2, <2>1, <2>2, RepliedAre DEF ServiceTypes
  <2> QED BY <1>3, <2>3, <2>4, <2>5
<1> QED BY <1>4, <1>5, <1>6 DEF Serve

-----------------------------------------------------------------------------
(* The flow's invariant.                                                   *)

LEMMA InitFlow == PostInit => FlowInv
<1> SUFFICES ASSUME PostInit PROVE FlowInv
  OBVIOUS
<1> USE DEF PostInit, ServiceInit
<1>1. DOMAIN replies = {}
  OBVIOUS
<1>2. ServiceTypes
  BY <1>1 DEF ServiceTypes
<1>3. PageTypes
  <2>1. prepare \in PrepareStates /\ hold \in StepStates /\ publish \in StepStates
    BY StatesAreTyped
  <2>2. mount \in Nat \ {0} /\ nonce \in Nat \ {0} /\ lastNonce \in Nat
    OBVIOUS
  <2>3. shown \in BOOLEAN /\ holdReview \in BOOLEAN /\ publishReview \in BOOLEAN
    OBVIOUS
  <2> QED BY <2>1, <2>2, <2>3 DEF PageTypes
<1>4. ServiceInv
  BY <1>1 DEF ServiceInv, RequestsDiffer, KeysAreUsedOnce, AnswersAreServed, InFlight
<1>5. SentByPage
  BY DEF SentByPage, InFlight
<1> QED BY <1>2, <1>3, <1>4, <1>5, Types DEF FlowInv

\* What a request carries that a click sends.
LEMMA SentRequests ==
  ASSUME FlowInv
  PROVE  /\ [id |-> requests + 1, op |-> "prepare", mount |-> mount, draft |-> draft,
             nonce |-> 0, key |-> PrepareKey(draft), hold |-> NoKey] \in Request
         /\ prepare.status = "ok" =>
               [id |-> requests + 1, op |-> "hold", mount |-> mount,
                draft |-> prepare.draft, nonce |-> nonce, key |-> HoldKey,
                hold |-> NoKey] \in Request
         /\ [id |-> requests + 1, op |-> "publish", mount |-> mount, draft |-> draft,
             nonce |-> 0, key |-> PublishKey, hold |-> hold.key] \in Request
<1>1. PageTypes /\ requests \in Nat
  BY Types DEF FlowInv, ServiceInv, RequestsDiffer
<1>2. PrepareKey(draft) \in Key /\ NoKey \in Key /\ hold.key \in Key
  BY <1>1, StatesAreTyped DEF PageTypes
<1>3. prepare.status = "ok" => prepare.draft \in Draft /\ HoldKey \in Key
  BY <1>1, StatesAreTyped DEF PageTypes, HoldKey, Key
<1>4. mount \in Nat /\ draft \in Draft /\ nonce \in Nat
  BY <1>1 DEF PageTypes
<1> QED BY <1>1, <1>2, <1>3, <1>4 DEF Request, PublishKey

LEMMA ClicksKeep ==
  ASSUME FlowInv,
         \/ \E d \in Draft : Edit(d)
         \/ SendPrepare \/ ReviewHold \/ CancelHoldReview \/ SendHold
         \/ ReviewPublish \/ CancelPublishReview \/ SendPublish
         \/ Leave \/ AutoOpen \/ OpenPage
  PROVE  FlowInv'
<1> USE DEF ResetFlow, reviews, afterwards
<1>1. PageTypes
  BY Types DEF FlowInv
<1>2. ASSUME UNCHANGED <<service, published>>, PageTypes', mount' \in {mount, mount + 1}
      PROVE  FlowInv'
  <2>1. SentByPage'
    BY <1>1, <1>2 DEF FlowInv, SentByPage, InFlight, service, network, PageTypes
  <2> QED BY <1>2, <2>1, UntouchedService, NextFlow
<1>3. CASE \E d \in Draft : Edit(d)
  BY <1>1, <1>2, <1>3, StatesAreTyped DEF Edit, PageTypes
<1>4. CASE SendPrepare
  <2> DEFINE r == [id |-> requests + 1, op |-> "prepare", mount |-> mount,
                   draft |-> draft, nonce |-> 0, key |-> PrepareKey(draft),
                   hold |-> NoKey]
  <2>1. r \in Request /\ r.id = requests + 1 /\ r.op = "prepare" /\ Put(r, {})
    BY <1>4, SentRequests DEF SendPrepare
  <2>2. ServiceInv' /\ ServiceTypes' /\ SentByPage'
    <3>1. r.mount = mount /\ UNCHANGED <<mount, published>> /\ mount \in Nat \ {0}
      BY <1>1, <1>4 DEF SendPrepare, PageTypes
    <3> HIDE DEF r
    <3> QED BY <2>1, <3>1, PutKeeps, PutIsOfPage
  <2>3. PageTypes'
    BY <1>1, <1>4, StatesAreTyped DEF SendPrepare, PageTypes
  <2> QED BY <2>2, <2>3, NextFlow
<1>5. CASE ReviewHold \/ CancelHoldReview \/ ReviewPublish \/ CancelPublishReview
  BY <1>1, <1>2, <1>5
     DEF ReviewHold, CancelHoldReview, ReviewPublish, CancelPublishReview, PageTypes
<1>6. CASE SendHold
  <2> DEFINE r == [id |-> requests + 1, op |-> "hold", mount |-> mount,
                   draft |-> prepare.draft, nonce |-> nonce, key |-> HoldKey,
                   hold |-> NoKey]
  <2>1. r \in Request /\ r.id = requests + 1 /\ r.op = "hold" /\ Put(r, {})
    BY <1>6, SentRequests DEF SendHold, CanHold
  <2>2. ServiceInv' /\ ServiceTypes' /\ SentByPage'
    <3>1. r.mount = mount /\ UNCHANGED <<mount, published>> /\ mount \in Nat \ {0}
      BY <1>1, <1>6 DEF SendHold, PageTypes
    <3> HIDE DEF r
    <3> QED BY <2>1, <3>1, PutKeeps, PutIsOfPage
  <2>3. PageTypes'
    BY <1>1, <1>6, StatesAreTyped DEF SendHold, PageTypes
  <2> QED BY <2>2, <2>3, NextFlow
<1>7. CASE SendPublish
  <2> DEFINE r == [id |-> requests + 1, op |-> "publish", mount |-> mount,
                   draft |-> draft, nonce |-> 0, key |-> PublishKey,
                   hold |-> hold.key]
  <2>1. r \in Request /\ r.id = requests + 1 /\ Put(r, {}) /\ r.key = r.hold
    BY <1>7, SentRequests DEF SendPublish, PublishKey
  <2>2. ServiceInv' /\ ServiceTypes' /\ SentByPage'
    <3>1. r.mount = mount /\ UNCHANGED <<mount, published>> /\ mount \in Nat \ {0}
      BY <1>1, <1>7 DEF SendPublish, PageTypes
    <3> HIDE DEF r
    <3> QED BY <2>1, <3>1, PutKeeps, PutIsOfPage
  <2>3. PageTypes'
    BY <1>1, <1>7, StatesAreTyped DEF SendPublish, PageTypes
  <2> QED BY <2>2, <2>3, NextFlow
<1>8. CASE Leave \/ AutoOpen
  BY <1>1, <1>2, <1>8, StatesAreTyped DEF Leave, AutoOpen, Unmount, PageTypes
<1>9. CASE OpenPage
  BY <1>1, <1>2, <1>9 DEF OpenPage, PageTypes
<1> QED BY <1>3, <1>4, <1>5, <1>6, <1>7, <1>8, <1>9

\* The second try of a hold.
LEMMA RetriedRequests ==
  ASSUME FlowInv, NEW r \in waiting, HoldRetried(r)
  PROVE  \E s \in Request :
            /\ Put(s, {r}) /\ UNCHANGED page /\ s.id = requests + 1
            /\ s.op = "hold" /\ s.mount = r.mount /\ s.draft = r.draft
            /\ s.nonce = replies[r.id] /\ s.nonce \in Nat \ {0}
            /\ s.key = [r.key EXCEPT !.retry = replies[r.id]]
<1> DEFINE s == [r EXCEPT !.id = requests + 1, !.nonce = replies[r.id],
                          !.key.retry = replies[r.id]]
<1>1. /\ Put(s, {r}) /\ UNCHANGED page /\ r.op = "hold" /\ Answered(r)
      /\ replies[r.id] # 0
  BY DEF HoldRetried
<1>2. r \in Request /\ requests + 1 \in Nat /\ replies[r.id] \in Nat
  BY <1>1, Types DEF FlowInv, ServiceInv, ServiceTypes, RequestsDiffer, Answered
<1>3. s \in Request
  BY <1>1, <1>2 DEF Request, Key
<1>4. /\ s.id = requests + 1 /\ s.op = "hold" /\ s.mount = r.mount
      /\ s.draft = r.draft /\ s.nonce = replies[r.id]
      /\ s.key = [r.key EXCEPT !.retry = replies[r.id]]
  BY <1>1, <1>2 DEF Request
<1> QED BY <1>1, <1>2, <1>3, <1>4

LEMMA AnswersKeep ==
  ASSUME FlowInv, NEW r \in waiting, RequestEnds(r) PROVE FlowInv'
<1> USE DEF reviews, afterwards
<1>1. PageTypes /\ ServiceTypes /\ RequestsDiffer /\ r \in Request
  BY Types DEF FlowInv, ServiceInv, ServiceTypes
<1>2. /\ r.id \in DOMAIN replies => replies[r.id] \in Nat
      /\ r.mount \in 1..mount
      /\ r.draft \in Draft /\ r.nonce \in Nat /\ r.key \in Key
  BY <1>1, RequestsAreTyped DEF ServiceTypes, FlowInv, SentByPage, InFlight
<1>3. ASSUME End(r), PageTypes', mount' = mount, published' \subseteq published \cup {r}
      PROVE  FlowInv'
  <2>1. SentByPage'
    BY <1>3 DEF FlowInv, SentByPage, InFlight, End
  <2> QED BY <1>3, <2>1, EndKeeps, NextFlow
<1>4. CASE PrepareAnswered(r)
  BY <1>1, <1>2, <1>3, <1>4, StatesAreTyped DEF PrepareAnswered, PageTypes, Answered
<1>5. CASE PrepareFailed(r) \/ HoldFailed(r) \/ PublishFailed(r)
  BY <1>1, <1>2, <1>3, <1>5, StatesAreTyped
     DEF PrepareFailed, HoldFailed, PublishFailed, Lost, PageTypes
<1>6. CASE HoldAnswered(r)
  <2>1. /\ End(r) /\ lastNonce' = r.nonce /\ UNCHANGED <<mount, shown, draft, prepare>>
        /\ UNCHANGED <<publish, publishReview, published, opening>>
    BY <1>6 DEF HoldAnswered
  <2>2. hold' \in StepStates /\ nonce' \in Nat \ {0} /\ holdReview' \in BOOLEAN
    <3>1. CASE Mounted(r)
      <4>1. [status |-> "ok", key |-> r.key] \in StepStates
        BY <1>2, StatesAreTyped
      <4>2. /\ hold' = [status |-> "ok", key |-> r.key] /\ nonce' = r.nonce + 1
            /\ holdReview' = FALSE
        BY <1>6, <3>1 DEF HoldAnswered
      <4>3. nonce' \in Nat \ {0}
        BY <1>2, <4>2
      <4> QED BY <4>1, <4>2, <4>3
    <3>2. CASE ~Mounted(r)
      BY <1>1, <1>6, <3>2 DEF HoldAnswered, PageTypes
    <3> QED BY <3>1, <3>2
  <2>3. PageTypes'
    BY <1>1, <1>2, <2>1, <2>2 DEF PageTypes
  <2> QED BY <1>3, <2>1, <2>3
<1>7. CASE HoldRetried(r)
  <2>1. PICK s \in Request :
            /\ Put(s, {r}) /\ UNCHANGED page /\ s.id = requests + 1
            /\ s.op = "hold" /\ s.mount = r.mount
    BY <1>7, RetriedRequests
  <2>2. ServiceInv' /\ ServiceTypes' /\ SentByPage'
    BY <1>2, <2>1, PutKeeps, PutIsOfPage DEF page
  <2>3. PageTypes'
    BY <1>1, <2>1 DEF page, PageTypes
  <2> QED BY <2>2, <2>3, NextFlow
<1>8. CASE HoldRefused(r)
  <2>1. /\ End(r) /\ UNCHANGED <<mount, shown, draft, prepare, publish, lastNonce>>
        /\ UNCHANGED <<holdReview, publishReview, published, opening>>
    BY <1>8 DEF HoldRefused
  <2>2. hold' \in StepStates /\ nonce' \in Nat \ {0}
    BY <1>1, <1>2, <1>8, StatesAreTyped DEF HoldRefused, PageTypes, Answered
  <2>3. PageTypes'
    BY <1>1, <2>1, <2>2 DEF PageTypes
  <2> QED BY <1>3, <2>1, <2>3
<1>9. CASE PublishAnswered(r)
  BY <1>1, <1>2, <1>3, <1>9, StatesAreTyped DEF PublishAnswered, PageTypes
<1> QED BY <1>4, <1>5, <1>6, <1>7, <1>8, <1>9 DEF RequestEnds

LEMMA FlowKeeps == FlowInv /\ [PostNext]_postVars => FlowInv'
<1> SUFFICES ASSUME FlowInv, [PostNext]_postVars PROVE FlowInv'
  OBVIOUS
<1>1. ASSUME NEW r \in sent, ServiceServes(r) PROVE FlowInv'
  <2>1. ServiceInv' /\ ServiceTypes'
    BY <1>1, ServeKeeps DEF ServiceServes
  <2>2. PageTypes'
    BY <1>1, Types DEF ServiceServes, FlowInv, PageTypes, page, reviews, afterwards
  <2>3. SentByPage'
    BY <1>1 DEF ServiceServes, Serve, ServePrepare, ServeHold, ServePublish, Replied,
                FlowInv, SentByPage, InFlight, page, afterwards
  <2> QED BY <2>1, <2>2, <2>3, NextFlow
<1>2. CASE UNCHANGED postVars
  <2>1. PageTypes' /\ SentByPage'
    BY <1>2, Types
       DEF postVars, page, reviews, afterwards, service, network, FlowInv, PageTypes, SentByPage, InFlight
  <2> QED BY <1>2, <2>1, UntouchedService, NextFlow DEF postVars
<1>3. ASSUME NEW r \in published, BalanceRefreshed(r) PROVE FlowInv'
  <2>1. /\ UNCHANGED service /\ UNCHANGED <<mount, shown, draft, prepare, hold, publish>>
        /\ UNCHANGED <<nonce, lastNonce, holdReview, publishReview>>
        /\ published' \subseteq published /\ opening' \subseteq opening \cup {r.mount}
    BY <1>3 DEF BalanceRefreshed, reviews
  <2>2. PageTypes' /\ SentByPage'
    BY <2>1, Types DEF service, network, FlowInv, PageTypes, SentByPage, InFlight
  <2> QED BY <2>1, <2>2, UntouchedService, NextFlow
<1> QED BY <1>1, <1>2, <1>3, ClicksKeep, AnswersKeep DEF PostNext

LEMMA FlowIsKept == PostSpec => []FlowInv
  BY InitFlow, FlowKeeps, PTL DEF PostSpec

-----------------------------------------------------------------------------
(* What is paid with a hold.                                               *)

LEMMA StatusesAre ==
  /\ IdlePrepare.status = "idle" /\ Idle.status = "idle"
  /\ Sending.status = "sending" /\ Error.status = "error"
  BY DEF IdlePrepare, Idle, Sending, Error

IsHeld(key) == \E h \in ledger : h.key = key

\* What the panel takes for a hold, and pays with, is one the wallet made.
HoldsAreMade ==
    /\ hold.status = "ok" => IsHeld(hold.key)
    /\ \A r \in InFlight : r.op = "publish" => IsHeld(r.hold)
    /\ \A p \in posts : IsHeld(p.hold)

\* What a step adds to the requests on their way.
LEMMA AddedRequests ==
  ASSUME FlowInv, [PostNext]_postVars, NEW r \in InFlight', r \notin InFlight
  PROVE  \/ r.op = "prepare"
         \/ /\ r.op = "hold" /\ r.key = HoldKey /\ r.draft = prepare.draft
            /\ prepare.status = "ok"
         \/ r.op = "publish" /\ hold.status = "ok" /\ r.hold = hold.key
         \/ \E a \in waiting :
               /\ r.op = "hold" /\ a.op = "hold" /\ r.draft = a.draft
               /\ r.key.bytes = a.key.bytes /\ r.key.amount = a.key.amount
<1> USE DEF InFlight
<1>1. CASE SendPrepare
  BY <1>1 DEF SendPrepare, Put
<1>2. CASE SendHold
  BY <1>2 DEF SendHold, CanHold, Put
<1>3. CASE SendPublish
  BY <1>3 DEF SendPublish, CanPublish, Put
<1>4. ASSUME NEW a \in waiting, HoldRetried(a)
      PROVE  /\ r.op = "hold" /\ a.op = "hold" /\ r.draft = a.draft
             /\ r.key.bytes = a.key.bytes /\ r.key.amount = a.key.amount
  <2>1. PICK s \in Request :
            /\ Put(s, {a}) /\ s.op = "hold" /\ s.draft = a.draft
            /\ s.key = [a.key EXCEPT !.retry = replies[a.id]]
    BY <1>4, RetriedRequests
  <2>2. r = s /\ a.op = "hold" /\ a.key \in Key
    BY <1>4, <2>1, Types, RequestsAreTyped
       DEF Put, FlowInv, ServiceTypes, HoldRetried
  <2> QED BY <2>1, <2>2 DEF Key
<1>5. ASSUME UNCHANGED service PROVE FALSE
  BY <1>5 DEF service, network
<1>6. ASSUME NEW a \in waiting, RequestEnds(a), ~HoldRetried(a) PROVE FALSE
  <2>1. End(a)
    BY <1>6 DEF RequestEnds, PrepareAnswered, PrepareFailed, HoldAnswered, HoldRefused,
                HoldFailed, PublishAnswered, PublishFailed, Lost
  <2> QED BY <2>1 DEF End
<1>7. ASSUME NEW a \in sent, ServiceServes(a) PROVE FALSE
  BY <1>7 DEF ServiceServes, Serve, ServePrepare, ServeHold, ServePublish, Replied
<1>8. CASE UNCHANGED postVars
  BY <1>5, <1>8 DEF postVars
<1>9. CASE \/ \E d \in Draft : Edit(d)
           \/ ReviewHold \/ CancelHoldReview \/ ReviewPublish \/ CancelPublishReview
           \/ Leave \/ AutoOpen \/ OpenPage
           \/ \E a \in published : BalanceRefreshed(a)
  BY <1>5, <1>9 DEF BalanceRefreshed, Edit, ReviewHold, CancelHoldReview, ReviewPublish,
                    CancelPublishReview, Leave, AutoOpen, Unmount, OpenPage
<1> QED BY <1>1, <1>2, <1>3, <1>4, <1>6, <1>7, <1>8, <1>9 DEF PostNext

\* The services only add to what they did, and only on request.
LEMMA ServicesRecord ==
  ASSUME [PostNext]_postVars
  PROVE  /\ ledger \subseteq ledger' /\ posts \subseteq posts'
         /\ \A h \in ledger' \ ledger : \E r \in sent :
               /\ ServeHold(r) /\ r.nonce = expected
               /\ \A g \in ledger : g.key # r.key
               /\ h = [key |-> r.key, nonce |-> r.nonce, draft |-> r.draft]
         /\ \A p \in posts' \ posts : \E r \in sent :
               r.op = "publish" /\ p = [key |-> r.key, draft |-> r.draft, hold |-> r.hold]
<1>1. ASSUME NEW r \in sent, ServiceServes(r)
      PROVE  /\ ledger \subseteq ledger' /\ posts \subseteq posts'
             /\ \A h \in ledger' \ ledger :
                   /\ ServeHold(r) /\ r.nonce = expected
                   /\ \A g \in ledger : g.key # r.key
                   /\ h = [key |-> r.key, nonce |-> r.nonce, draft |-> r.draft]
             /\ \A p \in posts' \ posts :
                   r.op = "publish"
                   /\ p = [key |-> r.key, draft |-> r.draft, hold |-> r.hold]
  <2>1. CASE ServePrepare(r)
    BY <2>1 DEF ServePrepare
  <2>2. CASE ServePublish(r)
    BY <2>2 DEF ServePublish
  <2>3. CASE ServeHold(r)
    <3>1. UNCHANGED posts
      BY <2>3 DEF ServeHold
    <3>2. CASE ledger' = ledger
      BY <3>1, <3>2
    <3>3. CASE ledger' # ledger
      <4>1. /\ r.nonce = expected /\ \A g \in ledger : g.key # r.key
            /\ ledger' = ledger \cup
                 {[key |-> r.key, nonce |-> r.nonce, draft |-> r.draft]}
        BY <2>3, <3>3 DEF ServeHold
      <4> QED BY <2>3, <3>1, <4>1
    <3> QED BY <3>2, <3>3
  <2> QED BY <1>1, <2>1, <2>2, <2>3 DEF ServiceServes, Serve
<1>2. CASE UNCHANGED <<ledger, posts>>
  BY <1>2
<1>3. ASSUME NEW r \in waiting, RequestEnds(r) PROVE UNCHANGED <<ledger, posts>>
  <2>1. End(r) \/ HoldRetried(r)
    BY <1>3 DEF RequestEnds, PrepareAnswered, PrepareFailed, HoldAnswered, HoldRefused,
                HoldFailed, PublishAnswered, PublishFailed, Lost
  <2> QED BY <2>1 DEF End, HoldRetried, Put
<1>4. CASE SendPrepare \/ SendHold \/ SendPublish
  BY <1>4 DEF SendPrepare, SendHold, SendPublish, Put
<1>5. CASE \/ \E d \in Draft : Edit(d)
           \/ ReviewHold \/ CancelHoldReview \/ ReviewPublish \/ CancelPublishReview
           \/ Leave \/ AutoOpen \/ OpenPage
           \/ \E r \in published : BalanceRefreshed(r)
  BY <1>5 DEF Edit, ReviewHold, CancelHoldReview, ReviewPublish, CancelPublishReview,
              Leave, AutoOpen, Unmount, OpenPage, BalanceRefreshed, service
<1>6. CASE UNCHANGED postVars
  BY <1>6 DEF postVars, service
<1> QED BY <1>1, <1>2, <1>3, <1>4, <1>5, <1>6 DEF PostNext

\* How the panel comes to have a hold.
LEMMA HeldSteps ==
  ASSUME FlowInv, [PostNext]_postVars, hold'.status = "ok"
  PROVE  UNCHANGED hold \/ \E r \in waiting : HoldAnswered(r) /\ hold'.key = r.key
<1> USE DEF reviews
<1>1. CASE \E d \in Draft : Edit(d)
  BY <1>1, StatusesAre DEF Edit, ResetFlow
<1>2. CASE SendPrepare \/ SendHold \/ SendPublish
  BY <1>2, StatusesAre DEF SendPrepare, SendHold, SendPublish
<1>3. CASE ReviewHold \/ CancelHoldReview \/ ReviewPublish \/ CancelPublishReview
  BY <1>3 DEF ReviewHold, CancelHoldReview, ReviewPublish, CancelPublishReview
<1>4. CASE Leave \/ AutoOpen
  BY <1>4, StatusesAre DEF Leave, AutoOpen, Unmount, ResetFlow
<1>5. CASE OpenPage \/ \E r \in published : BalanceRefreshed(r)
  BY <1>5 DEF OpenPage, BalanceRefreshed
<1>6. ASSUME NEW r \in sent, ServiceServes(r) PROVE UNCHANGED hold
  BY <1>6 DEF ServiceServes, page
<1>7. ASSUME NEW r \in waiting, RequestEnds(r)
      PROVE  UNCHANGED hold \/ (HoldAnswered(r) /\ hold'.key = r.key)
  <2>1. CASE HoldAnswered(r)
    BY <2>1 DEF HoldAnswered
  <2>2. CASE ~HoldAnswered(r)
    BY <1>7, <2>2, StatusesAre
       DEF RequestEnds, PrepareAnswered, PrepareFailed, HoldRetried, HoldRefused,
           HoldFailed, PublishAnswered, PublishFailed, page
  <2> QED BY <2>1, <2>2
<1>8. CASE UNCHANGED postVars
  BY <1>8 DEF postVars, page
<1> QED BY <1>1, <1>2, <1>3, <1>4, <1>5, <1>6, <1>7, <1>8 DEF PostNext

LEMMA MadeKeeps ==
  ASSUME FlowInv, HoldsAreMade, [PostNext]_postVars PROVE HoldsAreMade'
<1>1. ASSUME NEW k, IsHeld(k) PROVE IsHeld(k)'
  BY <1>1, ServicesRecord DEF IsHeld
<1>2. ASSUME hold'.status = "ok" PROVE IsHeld(hold.key)'
  <2>1. CASE UNCHANGED hold
    BY <1>1, <1>2, <2>1 DEF HoldsAreMade
  <2>2. ASSUME NEW r \in waiting, HoldAnswered(r), hold'.key = r.key
        PROVE  IsHeld(hold.key)'
    <3>1. IsHeld(r.key)
      BY <2>2 DEF HoldAnswered, FlowInv, ServiceInv, AnswersAreServed, IsHeld
    <3> QED BY <1>1, <2>2, <3>1 DEF IsHeld
  <2> QED BY <1>2, <2>1, <2>2, HeldSteps
<1>3. ASSUME NEW r \in InFlight', r.op = "publish" PROVE IsHeld(r.hold)'
  <2>1. IsHeld(r.hold)
    BY <1>3, AddedRequests DEF HoldsAreMade
  <2> QED BY <1>1, <2>1
<1>4. ASSUME NEW p \in posts' PROVE IsHeld(p.hold)'
  <2>1. CASE p \in posts
    BY <1>1, <2>1 DEF HoldsAreMade
  <2>2. CASE p \notin posts
    <3>1. PICK r \in sent :
              r.op = "publish"
              /\ p = [key |-> r.key, draft |-> r.draft, hold |-> r.hold]
      BY <1>4, <2>2, ServicesRecord
    <3>2. IsHeld(r.hold) /\ p.hold = r.hold
      BY <3>1 DEF HoldsAreMade, InFlight
    <3> QED BY <1>1, <3>2
  <2> QED BY <2>1, <2>2
<1>5. (hold.status = "ok" => IsHeld(hold.key))'
  BY <1>2
<1>6. (\A r \in InFlight : r.op = "publish" => IsHeld(r.hold))'
  BY <1>3
<1>7. (\A p \in posts : IsHeld(p.hold))'
  BY <1>4
<1> QED BY <1>5, <1>6, <1>7 DEF HoldsAreMade

LEMMA InitMade == PostInit => HoldsAreMade
  BY StatusesAre DEF PostInit, ServiceInit, HoldsAreMade, InFlight

\* However clicks, answers and failures fall, and whatever the services answer late or
\* never: the flow's state is well formed, a hold pays one post, because the post's key
\* is its hold's, and every post is paid, because the panel takes nothing for a hold
\* but what the wallet answered for one.
THEOREM PostsAreSafe == PostSpec => []PostInv
<1>1. FlowInv /\ HoldsAreMade => PostInv
  BY DEF FlowInv, ServiceInv, KeysAreUsedOnce, PostInv, OnePostPerHold, PostsArePaid,
         HoldsAreMade, IsHeld
<1>2. FlowInv /\ HoldsAreMade /\ [PostNext]_postVars => (FlowInv /\ HoldsAreMade)'
  BY FlowKeeps, MadeKeeps
<1> QED BY <1>1, <1>2, InitFlow, InitMade, PTL DEF PostSpec

\* A publication that is answered has spent the hold it was sent with: the post route
\* answers with the post made under its key, which is the key of that post's hold.
THEOREM AnswersArePaidFor == PostSpec => []AnswerIsPaidFor
<1>1. FlowInv => AnswerIsPaidFor
  <2> SUFFICES ASSUME FlowInv, NEW r \in waiting, r.op = "publish", Answered(r)
               PROVE  PostUnder(r.key).hold = r.hold
    BY DEF AnswerIsPaidFor
  <2> USE DEF FlowInv, ServiceInv
  <2>1. PICK p \in posts : p.key = r.key
    BY DEF AnswersAreServed
  <2>2. PostUnder(r.key) = p
    BY <2>1 DEF PostUnder, KeysAreUsedOnce
  <2> QED BY <2>1, <2>2 DEF KeysAreUsedOnce, InFlight
<1> QED BY <1>1, FlowIsKept, PTL


-----------------------------------------------------------------------------
(* A user who waits for each answer before the next click, and edits only  *)
(* what workflowKey is made of.  The code enforces neither.                *)

\* A draft differs from another in its text, if at all.
OneWarning == \A d, e \in Draft : d.text = e.text => d = e

\* One request at a time, and it and what was prepared are of the draft on the page.
OneDraft ==
    /\ \A r, s \in waiting : r = s
    /\ \A r \in waiting : Mounted(r) => r.draft = draft
    /\ prepare.status = "ok" => prepare.draft = draft
    /\ ~shown => prepare.status # "ok" /\ hold.status # "ok"

\* A hold's key names the price of what it is made for.
PricedByDraft ==
    /\ \A r \in InFlight : r.op = "hold" =>
          r.key.bytes = Bytes[r.draft] /\ r.key.amount = Bytes[r.draft]
    /\ \A h \in ledger :
          h.key.bytes = Bytes[h.draft] /\ h.key.amount = Bytes[h.draft]

LEMMA OneDraftKeeps ==
  ASSUME WaitsForAnswers, OneWarning, FlowInv, OneDraft, [PostNext]_postVars PROVE OneDraft'
<1> USE DEF OneDraft, Mounted, reviews
<1>1. /\ mount \in Nat /\ draft \in Draft /\ shown \in BOOLEAN
      /\ \A r \in waiting : r.mount <= mount /\ r.mount \in Nat
  BY Types DEF FlowInv, PageTypes, SentByPage, InFlight
<1>2. CASE \E d \in Draft : Edit(d)
  <2>1. PICK d \in Draft : Edit(d)
    BY <1>2
  <2>2. d.text # draft.text /\ UserActs
    BY <1>1, <2>1 DEF Edit, OneWarning
  <2> QED BY <2>1, <2>2, StatusesAre DEF Edit, ResetFlow, UserActs, service, network
<1>3. CASE SendPrepare
  BY <1>3, StatusesAre DEF SendPrepare, UserActs, Put
<1>4. CASE ReviewHold \/ CancelHoldReview \/ ReviewPublish \/ CancelPublishReview
  BY <1>4 DEF ReviewHold, CancelHoldReview, ReviewPublish, CancelPublishReview,
              UserActs, service, network
<1>5. CASE SendHold
  BY <1>5, StatusesAre DEF SendHold, UserActs, CanHold, Put
<1>6. CASE SendPublish
  BY <1>6 DEF SendPublish, UserActs, Put
<1>7. CASE Leave \/ AutoOpen
  BY <1>7, StatusesAre DEF Leave, AutoOpen, Unmount, ResetFlow, service, network
<1>8. CASE OpenPage \/ \E r \in published : BalanceRefreshed(r)
  BY <1>1, <1>8 DEF OpenPage, BalanceRefreshed, service, network
<1>9. ASSUME NEW r \in sent, ServiceServes(r) PROVE OneDraft'
  BY <1>9 DEF ServiceServes, Serve, ServePrepare, ServeHold, ServePublish, Replied, page
<1>10. ASSUME NEW r \in waiting, RequestEnds(r) PROVE OneDraft'
  <2>1. CASE PrepareAnswered(r) \/ PrepareFailed(r)
    BY <2>1 DEF PrepareAnswered, PrepareFailed, Lost, End
  <2>2. CASE HoldAnswered(r) \/ HoldFailed(r) \/ HoldRefused(r)
    BY <2>2, StatusesAre DEF HoldAnswered, HoldFailed, HoldRefused, Lost, End
  <2>3. CASE HoldRetried(r)
    <3>1. PICK s \in Request :
              Put(s, {r}) /\ UNCHANGED page /\ s.mount = r.mount /\ s.draft = r.draft
      BY <2>3, RetriedRequests
    <3>2. waiting' = {s} /\ UNCHANGED page
      BY <3>1 DEF Put
    <3> QED BY <3>1, <3>2 DEF page
  <2>4. CASE PublishAnswered(r) \/ PublishFailed(r)
    BY <2>4 DEF PublishAnswered, PublishFailed, Lost, End
  <2> QED BY <1>10, <2>1, <2>2, <2>3, <2>4 DEF RequestEnds
<1>11. CASE UNCHANGED postVars
  BY <1>11 DEF postVars, page, service, network
<1> QED BY <1>2, <1>3, <1>4, <1>5, <1>6, <1>7, <1>8, <1>9, <1>10, <1>11 DEF PostNext

LEMMA PriceKeeps ==
  ASSUME FlowInv, OneDraft, PricedByDraft, [PostNext]_postVars
  PROVE  PricedByDraft'
<1>1. ASSUME NEW r \in InFlight', r.op = "hold"
      PROVE  r.key.bytes = Bytes[r.draft] /\ r.key.amount = Bytes[r.draft]
  <2>1. CASE r \in InFlight
    BY <1>1, <2>1 DEF PricedByDraft
  <2>2. CASE r \notin InFlight
    BY <1>1, <2>2, AddedRequests DEF OneDraft, PricedByDraft, InFlight, HoldKey
  <2> QED BY <2>1, <2>2
<1>2. ASSUME NEW h \in ledger'
      PROVE  h.key.bytes = Bytes[h.draft] /\ h.key.amount = Bytes[h.draft]
  <2>1. CASE h \in ledger
    BY <2>1 DEF PricedByDraft
  <2>2. CASE h \notin ledger
    <3>1. PICK r \in sent :
              /\ ServeHold(r)
              /\ h = [key |-> r.key, nonce |-> r.nonce, draft |-> r.draft]
      BY <1>2, <2>2, ServicesRecord
    <3>2. r \in InFlight /\ r.op = "hold" /\ h.key = r.key /\ h.draft = r.draft
      BY <3>1 DEF InFlight, ServeHold
    <3> QED BY <3>2 DEF PricedByDraft
  <2> QED BY <2>1, <2>2
<1> QED BY <1>1, <1>2 DEF PricedByDraft

-----------------------------------------------------------------------------
(* The nonce hint of a page that learns nonces from its own holds only.    *)

FirstTry(r) == r.op = "hold" /\ r.key.retry = 0
SecondTry(r) == r.op = "hold" /\ r.key.retry # 0

\* A hold was made by a second try, with a nonce the wallet named.
Recovered == \E g \in ledger : g.key.retry # 0

NonceOf(key) == IF key.retry = 0 THEN key.nonce ELSE key.retry

\* No nonce is ahead of the wallet's, and a refusal names another than was sent.
NoncesAgree ==
    /\ \A r \in InFlight : r.op = "hold" =>
          r.nonce \in 1..expected /\ r.nonce = NonceOf(r.key)
    /\ \A h \in ledger : h.nonce < expected /\ h.nonce = NonceOf(h.key)
    /\ lastNonce < expected /\ nonce <= expected
    /\ \A r \in waiting : Answered(r) =>
          /\ replies[r.id] <= expected
          /\ r.op = "prepare" => replies[r.id] = 0
          /\ r.op = "hold" => replies[r.id] # r.nonce

\* A hold with this nonce was made, or is on its way.
AtFrontier(n) ==
    \/ \E r \in InFlight : FirstTry(r) /\ r.nonce = n
    \/ \E h \in ledger : h.nonce = n

\* Nothing is more than one nonce ahead of the hint.
NoFarNonce ==
    /\ \A r \in InFlight : FirstTry(r) => r.nonce <= lastNonce + 1
    /\ \A h \in ledger : h.nonce <= lastNonce + 1
    /\ shown => nonce \in {lastNonce, lastNonce + 1}
    /\ \A r \in waiting : r.op = "hold" => r.nonce >= lastNonce
    /\ shown /\ nonce = lastNonce => \A r \in waiting : r.mount = mount

\* Once a hold one ahead may have been made, the page sends no other nonce.
FrontierIsKnown ==
    AtFrontier(lastNonce + 1) =>
        /\ shown => nonce = lastNonce + 1
        /\ \A r \in waiting : FirstTry(r) => r.nonce = lastNonce + 1

NotHeldBefore(d) == \A h \in ledger : h.draft = d => h.nonce <= lastNonce

Contested == \E r \in InFlight : FirstTry(r) /\ r.nonce = expected

\* A second try is made only for what no unanswered hold was made for.
Refusals ==
    /\ \A r \in waiting : FirstTry(r) /\ Answered(r) /\ replies[r.id] # 0 =>
          replies[r.id] = expected /\ ~Contested /\ NotHeldBefore(r.draft)
    /\ \A r \in waiting : SecondTry(r) =>
          r.nonce = expected /\ ~Contested /\ ~Answered(r)
    /\ \A r \in InFlight : SecondTry(r) /\ r.nonce = expected => NotHeldBefore(r.draft)

NonceInv == NoncesAgree /\ (~Recovered => NoFarNonce /\ FrontierIsKnown /\ Refusals)

\* What a step does to the nonces and the requests that carry them.
Quiet ==
    /\ UNCHANGED <<sent, waiting, replies, expected, ledger, lastNonce>>
    /\ \/ UNCHANGED nonce /\ (shown' => UNCHANGED <<mount, shown>>)
       \/ nonce' = lastNonce + 1

Sends(r) ==
    /\ r \in Request /\ waiting' = {r} /\ sent' = sent \cup {r} /\ ~Answered(r)'
    /\ UNCHANGED <<expected, ledger, mount, shown, nonce, lastNonce>>

SendsFirst(r) ==
    /\ r.mount = mount
    /\ r.op = "hold" => /\ r.key.retry = 0 /\ r.key.nonce = nonce /\ r.nonce = nonce
                        /\ shown

SendsSecond(r, a) ==
    /\ FirstTry(a) /\ Answered(a) /\ replies[a.id] # 0
    /\ r.op = "hold" /\ r.mount = a.mount /\ r.draft = a.draft
    /\ r.nonce = replies[a.id] /\ r.key.retry = replies[a.id]

Ends(r) ==
    /\ waiting' = {}
    /\ UNCHANGED <<sent, expected, ledger, mount, shown>>
    /\ \/ UNCHANGED <<nonce, lastNonce>>
       \/ HoldAnswered(r)
       \/ UNCHANGED lastNonce /\ HoldRefused(r)

LEMMA StepKinds ==
  ASSUME WaitsForAnswers, FlowInv, OneDraft, NoncesAgree, [PostNext]_postVars
  PROVE  \/ Quiet
         \/ \E r \in Request : Sends(r) /\ SendsFirst(r)
         \/ \E r \in Request, a \in waiting : Sends(r) /\ SendsSecond(r, a)
         \/ \E r \in waiting : Ends(r)
         \/ \E r \in sent : ServiceServes(r)
<1>1. ASSUME UNCHANGED <<service, nonce, lastNonce>>,
             ~shown' \/ UNCHANGED <<mount, shown>>
      PROVE  Quiet
  BY <1>1 DEF Quiet, service, network
<1>2. CASE \/ \E d \in Draft : Edit(d)
           \/ ReviewHold \/ CancelHoldReview \/ ReviewPublish \/ CancelPublishReview
           \/ Leave \/ AutoOpen \/ UNCHANGED postVars
           \/ \E r \in published : BalanceRefreshed(r)
  BY <1>1, <1>2
     DEF BalanceRefreshed, Edit, ReviewHold, CancelHoldReview, ReviewPublish, CancelPublishReview, Leave,
         AutoOpen, Unmount, postVars, page
<1>3. CASE OpenPage
  BY <1>3 DEF OpenPage, Quiet, service, network
<1>4. DOMAIN replies \subseteq {r.id : r \in waiting} /\ waiting \subseteq Request
  BY Types DEF FlowInv, ServiceTypes
<1>5. ASSUME NEW r \in Request, Put(r, {}), waiting = {}, SendsFirst(r),
             UNCHANGED <<mount, shown, nonce, lastNonce>>
      PROVE  Sends(r) /\ SendsFirst(r)
  <2>1. /\ waiting' = {r} /\ sent' = sent \cup {r} /\ UNCHANGED <<expected, ledger>>
        /\ replies' = [i \in DOMAIN replies \ {d.id : d \in {}} |-> replies[i]]
    BY <1>5 DEF Put
  <2>2. DOMAIN replies' = {}
    BY <1>4, <1>5, <2>1
  <2> QED BY <1>5, <2>1, <2>2 DEF Sends, Answered
<1>6. CASE SendPrepare
  <2> DEFINE r == [id |-> requests + 1, op |-> "prepare", mount |-> mount,
                   draft |-> draft, nonce |-> 0, key |-> PrepareKey(draft),
                   hold |-> NoKey]
  <2>1. r \in Request /\ r.op = "prepare" /\ r.mount = mount
    BY SentRequests
  <2>2. SendsFirst(r)
    BY <2>1 DEF SendsFirst
  <2>3. Put(r, {}) /\ waiting = {} /\ UNCHANGED <<mount, shown, nonce, lastNonce>>
    BY <1>6 DEF SendPrepare, UserActs
  <2> HIDE DEF r
  <2> QED BY <1>5, <2>1, <2>2, <2>3
<1>7. CASE SendPublish
  <2> DEFINE r == [id |-> requests + 1, op |-> "publish", mount |-> mount,
                   draft |-> draft, nonce |-> 0, key |-> PublishKey,
                   hold |-> hold.key]
  <2>1. r \in Request /\ r.op = "publish" /\ r.mount = mount
    BY SentRequests
  <2>2. SendsFirst(r)
    BY <2>1 DEF SendsFirst
  <2>3. Put(r, {}) /\ waiting = {} /\ UNCHANGED <<mount, shown, nonce, lastNonce>>
    BY <1>7 DEF SendPublish, UserActs
  <2> HIDE DEF r
  <2> QED BY <1>5, <2>1, <2>2, <2>3
<1>8. CASE SendHold
  <2> DEFINE r == [id |-> requests + 1, op |-> "hold", mount |-> mount,
                   draft |-> prepare.draft, nonce |-> nonce, key |-> HoldKey,
                   hold |-> NoKey]
  <2>1. r \in Request /\ r.mount = mount /\ r.nonce = nonce /\ r.key = HoldKey /\ shown
    BY <1>8, SentRequests DEF SendHold, CanHold, UserActs
  <2>2. SendsFirst(r)
    BY <2>1 DEF SendsFirst, HoldKey
  <2>3. Put(r, {}) /\ waiting = {} /\ UNCHANGED <<mount, shown, nonce, lastNonce>>
    BY <1>8 DEF SendHold, UserActs
  <2> HIDE DEF r
  <2> QED BY <1>5, <2>1, <2>2, <2>3
<1>9. ASSUME NEW a \in waiting, HoldRetried(a)
      PROVE  \E r \in Request : Sends(r) /\ SendsSecond(r, a)
  <2>1. PICK r \in Request :
            /\ Put(r, {a}) /\ UNCHANGED page /\ r.id = requests + 1
            /\ r.op = "hold" /\ r.mount = a.mount /\ r.draft = a.draft
            /\ r.nonce = replies[a.id]
            /\ r.key = [a.key EXCEPT !.retry = replies[a.id]]
    BY <1>9, RetriedRequests
  <2>2. /\ waiting' = (waiting \ {a}) \cup {r} /\ sent' = sent \cup {r}
        /\ UNCHANGED <<expected, ledger>>
        /\ replies' = [i \in DOMAIN replies \ {d.id : d \in {a}} |-> replies[i]]
    BY <2>1 DEF Put
  <2>3. waiting = {a} /\ DOMAIN replies' = {}
    BY <1>4, <2>2 DEF OneDraft
  <2>4. Sends(r)
    BY <2>1, <2>2, <2>3 DEF Sends, Answered, page
  <2>5. FirstTry(a) /\ Answered(a) /\ replies[a.id] # 0
    BY <1>9 DEF HoldRetried, FirstTry
  <2>6. a.key \in Key
    BY <1>4, RequestsAreTyped
  <2>7. r.key.retry = replies[a.id]
    BY <2>1, <2>6 DEF Key
  <2> QED BY <2>1, <2>4, <2>5, <2>7 DEF SendsSecond
<1>10. ASSUME NEW r \in waiting, RequestEnds(r), ~HoldRetried(r) PROVE Ends(r)
  <2>1. End(r)
    BY <1>10 DEF RequestEnds, PrepareAnswered, PrepareFailed, HoldAnswered, HoldRefused,
                 HoldFailed, PublishAnswered, PublishFailed, Lost
  <2>2. waiting' = {} /\ UNCHANGED <<sent, expected, ledger>>
    BY <2>1 DEF End, OneDraft
  <2>3. UNCHANGED <<mount, shown>>
    BY <1>10 DEF RequestEnds, PrepareAnswered, PrepareFailed, HoldAnswered, HoldRefused,
                 HoldFailed, PublishAnswered, PublishFailed
  <2>4. \/ UNCHANGED <<nonce, lastNonce>> \/ HoldAnswered(r)
        \/ UNCHANGED lastNonce /\ HoldRefused(r)
    <3>1. CASE PrepareAnswered(r)
      <4>1. replies[r.id] = 0
        BY <3>1 DEF PrepareAnswered, NoncesAgree
      <4> QED BY <3>1, <4>1 DEF PrepareAnswered
    <3>2. CASE HoldRefused(r)
      BY <3>2 DEF HoldRefused
    <3> QED BY <1>10, <3>1, <3>2 DEF RequestEnds, PrepareFailed, HoldFailed,
                                     PublishAnswered, PublishFailed
  <2> QED BY <2>2, <2>3, <2>4 DEF Ends
<1> QED BY <1>2, <1>3, <1>6, <1>7, <1>8, <1>9, <1>10 DEF PostNext

\* The answers after r was answered n.
Answers(r, n) ==
    \A s \in waiting : Answered(s)' =>
        IF s = r THEN replies'[s.id] = n
        ELSE Answered(s) /\ replies'[s.id] = replies[s.id]

Made(r) == [key |-> r.key, nonce |-> r.nonce, draft |-> r.draft]

LEMMA ServiceKinds ==
  ASSUME ~TemplateNonce, FlowInv, NEW r \in sent, ServiceServes(r)
  PROVE  /\ sent' = sent \ {r} /\ UNCHANGED <<waiting, mount, shown, nonce, lastNonce>>
         /\ \/ /\ Answers(r, 0) /\ UNCHANGED <<expected, ledger>>
               /\ r.op = "hold" => \E h \in ledger : h.key = r.key
            \/ /\ r.op = "hold" /\ r.nonce # expected /\ Answers(r, expected)
               /\ \A h \in ledger : h.key # r.key
               /\ UNCHANGED <<expected, ledger>>
            \/ /\ r.op = "hold" /\ r.nonce = expected /\ Answers(r, 0)
               /\ expected' = expected + 1 /\ ledger' = ledger \cup {Made(r)}
<1>1. sent' = sent \ {r} /\ UNCHANGED <<waiting, mount, shown, nonce, lastNonce>>
  BY DEF ServiceServes, Serve, ServePrepare, ServeHold, ServePublish, Replied, page
<1>2. expected \in Nat
  BY Types DEF FlowInv, ServiceTypes
<1>3. ASSUME NEW n \in Nat, Replied(r, n) PROVE Answers(r, n)
  <2>1. \A s \in waiting : s.id \in DOMAIN replies' =>
               IF s = r THEN replies'[s.id] = n
               ELSE s.id \in DOMAIN replies /\ replies'[s.id] = replies[s.id]
    BY <1>3, RepliedAre
  <2> QED BY <1>1, <2>1 DEF Answers, Answered
<1>4. CASE ServePrepare(r)
  BY <1>1, <1>3, <1>4 DEF ServePrepare
<1>5. CASE ServePublish(r)
  BY <1>1, <1>3, <1>5 DEF ServePublish
<1>6. CASE ServeHold(r)
  <2>1. r.op = "hold"
    BY <1>6 DEF ServeHold
  <2>2. CASE \E h \in ledger : h.key = r.key
    <3>1. Replied(r, 0) /\ UNCHANGED <<expected, ledger>>
      BY <1>6, <2>2 DEF ServeHold
    <3> QED BY <1>1, <1>3, <2>1, <2>2, <3>1
  <2>3. CASE (\A h \in ledger : h.key # r.key) /\ r.nonce # expected
    <3>1. Replied(r, expected) /\ UNCHANGED <<expected, ledger>>
      BY <1>6, <2>3 DEF ServeHold
    <3> QED BY <1>1, <1>2, <1>3, <2>1, <2>3, <3>1
  <2>4. CASE (\A h \in ledger : h.key # r.key) /\ r.nonce = expected
    <3>1. Replied(r, 0) /\ expected' = expected + 1 /\ ledger' = ledger \cup {Made(r)}
      BY <1>6, <2>4 DEF ServeHold, Made
    <3> QED BY <1>1, <1>3, <2>1, <2>4, <3>1
  <2> QED BY <2>2, <2>3, <2>4
<1> QED BY <1>4, <1>5, <1>6 DEF ServiceServes, Serve

LEMMA NonceTypes ==
  ASSUME FlowInv
  PROVE  /\ lastNonce \in Nat /\ nonce \in Nat \ {0} /\ expected \in Nat \ {0}
         /\ mount \in Nat
         /\ \A r \in InFlight :
               r \in Request /\ r.nonce \in Nat /\ r.key.retry \in Nat
         /\ \A h \in ledger : h.nonce \in Nat /\ h.key.retry \in Nat
         /\ \A r \in waiting : Answered(r) => replies[r.id] \in Nat
<1>1. ServiceTypes /\ PageTypes
  BY Types DEF FlowInv
<1>2. \A r \in InFlight : r \in Request /\ r.nonce \in Nat /\ r.key \in Key
  BY <1>1, RequestsAreTyped DEF ServiceTypes, InFlight
<1>3. \A h \in ledger : h.nonce \in Nat /\ h.key \in Key
  BY <1>1 DEF ServiceTypes
<1> QED BY <1>1, <1>2, <1>3 DEF ServiceTypes, PageTypes, Key, Answered

LEMMA NoncesKeep ==
  ASSUME ~TemplateNonce, WaitsForAnswers, FlowInv, FlowInv', OneDraft, NoncesAgree,
         [PostNext]_postVars
  PROVE  NoncesAgree'
<1> USE NonceTypes DEF InFlight
<1>1. CASE Quiet
  BY <1>1 DEF Quiet, NoncesAgree, Answered
<1>2. ASSUME NEW r \in Request, Sends(r),
             r.op = "hold" => r.nonce \in 1..expected /\ r.nonce = NonceOf(r.key)
      PROVE  NoncesAgree'
  BY <1>2 DEF Sends, NoncesAgree
<1>3. ASSUME NEW r \in Request, Sends(r), SendsFirst(r) PROVE NoncesAgree'
  <2>1. r.op = "hold" => r.nonce \in 1..expected /\ r.nonce = NonceOf(r.key)
    BY <1>3 DEF SendsFirst, NonceOf, NoncesAgree
  <2> QED BY <1>2, <1>3, <2>1
<1>4. ASSUME NEW r \in Request, NEW a \in waiting, Sends(r), SendsSecond(r, a)
      PROVE  NoncesAgree'
  <2>1. r.nonce \in 1..expected /\ r.nonce = NonceOf(r.key)
    BY <1>4 DEF SendsSecond, NonceOf, NoncesAgree
  <2> QED BY <1>2, <1>4, <2>1
<1>5. ASSUME NEW r \in waiting, Ends(r) PROVE NoncesAgree'
  <2>1. nonce' <= expected /\ lastNonce' < expected
    <3>1. CASE UNCHANGED <<nonce, lastNonce>>
      BY <3>1 DEF NoncesAgree
    <3>2. CASE HoldAnswered(r)
      <4>1. r.nonce < expected
        <5>1. PICK h \in ledger : h.key = r.key
          BY <3>2 DEF HoldAnswered, FlowInv, ServiceInv, AnswersAreServed
        <5>2. r.op = "hold" /\ h.nonce = r.nonce
          BY <3>2, <5>1 DEF HoldAnswered, NoncesAgree
        <5> QED BY <5>2 DEF NoncesAgree
      <4> QED BY <3>2, <4>1 DEF HoldAnswered, NoncesAgree
    <3>3. CASE UNCHANGED lastNonce /\ HoldRefused(r)
      BY <3>3 DEF HoldRefused, NoncesAgree
    <3> QED BY <1>5, <3>1, <3>2, <3>3 DEF Ends
  <2> QED BY <1>5, <2>1 DEF Ends, NoncesAgree
<1>6. ASSUME NEW r \in sent, ServiceServes(r) PROVE NoncesAgree'
  <2>1. sent' = sent \ {r} /\ UNCHANGED <<waiting, mount, shown, nonce, lastNonce>>
    BY <1>6, ServiceKinds
  <2>2. \A s \in waiting : Answered(s)' => s \in waiting
    OBVIOUS
  <2>3. CASE Answers(r, 0) /\ UNCHANGED <<expected, ledger>>
    BY <2>1, <2>3 DEF Answers, NoncesAgree
  <2>4. CASE r.nonce # expected /\ Answers(r, expected) /\ UNCHANGED <<expected, ledger>>
            /\ r.op = "hold"
    BY <2>1, <2>4 DEF Answers, NoncesAgree
  <2>5. CASE /\ r.op = "hold" /\ r.nonce = expected /\ Answers(r, 0)
             /\ expected' = expected + 1 /\ ledger' = ledger \cup {Made(r)}
    <3>1. Made(r).nonce = expected /\ Made(r).nonce = NonceOf(Made(r).key)
      BY <2>5 DEF Made, NoncesAgree
    <3> QED BY <2>1, <2>5, <3>1 DEF Answers, NoncesAgree
  <2> QED BY <1>6, <2>3, <2>4, <2>5, ServiceKinds
<1> QED BY <1>1, <1>3, <1>4, <1>5, <1>6, StepKinds

LEMMA NoFarKeeps ==
  ASSUME ~TemplateNonce, WaitsForAnswers, FlowInv, FlowInv', OneDraft, NonceInv,
         ~Recovered', [PostNext]_postVars
  PROVE  NoFarNonce'
<1> USE NonceTypes DEF InFlight
<1>1. ~Recovered
  BY ServicesRecord DEF Recovered
<1>2. NoncesAgree /\ NoFarNonce /\ FrontierIsKnown /\ Refusals
  BY <1>1 DEF NonceInv
<1>3. CASE Quiet
  BY <1>2, <1>3 DEF Quiet, NoFarNonce, FirstTry, OneDraft
<1>4. ASSUME NEW r \in Request, Sends(r), SendsFirst(r) PROVE NoFarNonce'
  BY <1>2, <1>4 DEF Sends, SendsFirst, NoFarNonce, FirstTry
<1>5. ASSUME NEW r \in Request, NEW a \in waiting, Sends(r), SendsSecond(r, a)
      PROVE  NoFarNonce'
  <2>1. r.nonce = expected /\ r.key.retry # 0
    BY <1>2, <1>5 DEF SendsSecond, Refusals
  <2> QED BY <1>2, <1>5, <2>1 DEF Sends, SendsSecond, NoFarNonce, FirstTry, NoncesAgree
<1>6. ASSUME NEW r \in waiting, Ends(r) PROVE NoFarNonce'
  <2>1. CASE UNCHANGED <<nonce, lastNonce>>
    BY <1>2, <1>6, <2>1 DEF Ends, NoFarNonce, FirstTry
  <2>2. CASE HoldAnswered(r)
    <3>1. lastNonce' = r.nonce /\ r.nonce >= lastNonce
      BY <1>2, <2>2 DEF HoldAnswered, NoFarNonce
    <3>2. r.nonce <= lastNonce + 1
      <4>1. PICK h \in ledger : h.key = r.key
        BY <2>2 DEF HoldAnswered, FlowInv, ServiceInv, AnswersAreServed
      <4>2. h.nonce = r.nonce
        BY <1>2, <2>2, <4>1 DEF HoldAnswered, NoncesAgree
      <4> QED BY <1>2, <4>2 DEF NoFarNonce
    <3>3. shown => nonce' \in {lastNonce', lastNonce' + 1}
      <4>1. CASE Mounted(r)
        BY <2>2, <3>1, <4>1 DEF HoldAnswered
      <4>2. CASE shown /\ ~Mounted(r)
        <5>1. nonce = lastNonce + 1 /\ nonce' = nonce
          BY <1>2, <2>2, <4>2 DEF NoFarNonce, Mounted, HoldAnswered
        <5> QED BY <3>1, <3>2, <5>1
      <4> QED BY <4>1, <4>2 DEF Mounted
    <3>4. \A s \in InFlight' : FirstTry(s) => s.nonce <= lastNonce' + 1
      BY <1>2, <1>6, <3>1 DEF Ends, NoFarNonce
    <3>5. \A h \in ledger' : h.nonce <= lastNonce' + 1
      BY <1>2, <1>6, <3>1 DEF Ends, NoFarNonce
    <3> QED BY <1>6, <3>3, <3>4, <3>5 DEF Ends, NoFarNonce, FirstTry
  <2>3. ~HoldRefused(r)
    BY <1>2 DEF HoldRefused, NoncesAgree, Refusals, SecondTry
  <2> QED BY <1>6, <2>1, <2>2, <2>3 DEF Ends
<1>7. ASSUME NEW r \in sent, ServiceServes(r) PROVE NoFarNonce'
  <2>1. sent' = sent \ {r} /\ UNCHANGED <<waiting, mount, shown, nonce, lastNonce>>
    BY <1>7, ServiceKinds
  <2>2. \A h \in ledger' : h.nonce <= lastNonce + 1
    <3>1. CASE ledger' = ledger
      BY <1>2, <3>1 DEF NoFarNonce
    <3>2. CASE r.op = "hold" /\ ledger' = ledger \cup {Made(r)}
      <4>1. r.key.retry = 0
        <5>1. Made(r) \in ledger' /\ Made(r).key = r.key
          BY <3>2 DEF Made
        <5> QED BY <5>1 DEF Recovered
      <4>2. r.nonce <= lastNonce + 1
        BY <1>2, <3>2, <4>1 DEF NoFarNonce, FirstTry
      <4>3. Made(r).nonce = r.nonce
        BY DEF Made
      <4> QED BY <1>2, <3>2, <4>2, <4>3 DEF NoFarNonce
    <3> QED BY <1>7, <3>1, <3>2, ServiceKinds
  <2> QED BY <1>2, <2>1, <2>2 DEF NoFarNonce, FirstTry
<1> QED BY <1>2, <1>3, <1>4, <1>5, <1>6, <1>7, StepKinds

LEMMA FrontierKeeps ==
  ASSUME ~TemplateNonce, WaitsForAnswers, FlowInv, FlowInv', OneDraft, NonceInv,
         ~Recovered', [PostNext]_postVars
  PROVE  FrontierIsKnown'
<1> USE NonceTypes DEF InFlight
<1>1. ~Recovered
  BY ServicesRecord DEF Recovered
<1>2. NoncesAgree /\ NoFarNonce /\ FrontierIsKnown /\ Refusals
  BY <1>1 DEF NonceInv
<1>3. CASE Quiet
  BY <1>2, <1>3 DEF Quiet, FrontierIsKnown, AtFrontier, FirstTry
<1>4. ASSUME NEW r \in Request, Sends(r), SendsFirst(r) PROVE FrontierIsKnown'
  <2>1. AtFrontier(lastNonce + 1)' =>
           AtFrontier(lastNonce + 1) \/ (FirstTry(r) /\ r.nonce = lastNonce + 1)
    BY <1>4 DEF Sends, AtFrontier, FirstTry
  <2>2. FirstTry(r) => shown /\ r.nonce = nonce
    BY <1>4 DEF FirstTry, SendsFirst
  <2>3. waiting' = {r} /\ UNCHANGED <<shown, nonce, lastNonce>>
    BY <1>4 DEF Sends
  <2>4. ASSUME AtFrontier(lastNonce + 1)'
        PROVE  (shown => nonce = lastNonce + 1) /\ (FirstTry(r) => r.nonce = lastNonce + 1)
    <3>1. CASE AtFrontier(lastNonce + 1)
      BY <1>2, <2>2, <3>1 DEF FrontierIsKnown
    <3>2. CASE FirstTry(r) /\ r.nonce = lastNonce + 1
      BY <2>2, <3>2
    <3> QED BY <2>1, <2>4, <3>1, <3>2
  <2> QED BY <2>3, <2>4 DEF FrontierIsKnown, FirstTry
<1>5. ASSUME NEW r \in Request, NEW a \in waiting, Sends(r), SendsSecond(r, a)
      PROVE  FrontierIsKnown'
  <2>1. ~FirstTry(r)
    BY <1>5 DEF SendsSecond, FirstTry
  <2>2. AtFrontier(lastNonce + 1)' => AtFrontier(lastNonce + 1)
    BY <1>5, <2>1 DEF Sends, AtFrontier, FirstTry
  <2> QED BY <1>2, <1>5, <2>1, <2>2 DEF Sends, FrontierIsKnown, FirstTry
<1>6. ASSUME NEW r \in waiting, Ends(r) PROVE FrontierIsKnown'
  <2>1. CASE UNCHANGED <<nonce, lastNonce>>
    BY <1>2, <1>6, <2>1 DEF Ends, FrontierIsKnown, AtFrontier, FirstTry
  <2>2. CASE HoldAnswered(r)
    <3>1. lastNonce' = r.nonce /\ r.nonce >= lastNonce
      BY <1>2, <2>2 DEF HoldAnswered, NoFarNonce
    <3>2. CASE Mounted(r)
      <4>1. nonce' = lastNonce' + 1
        BY <2>2, <3>1, <3>2 DEF HoldAnswered
      <4> QED BY <1>6, <4>1 DEF Ends, FrontierIsKnown
    <3>3. CASE ~Mounted(r) /\ r.nonce = lastNonce
      <4>1. UNCHANGED <<nonce, lastNonce>>
        BY <2>2, <3>1, <3>3 DEF HoldAnswered
      <4> QED BY <2>1, <4>1
    <3>4. CASE r.nonce > lastNonce
      <4>1. ~AtFrontier(lastNonce + 1)'
        BY <1>2, <1>6, <3>1, <3>4 DEF Ends, AtFrontier, FirstTry, NoFarNonce
      <4> QED BY <4>1 DEF FrontierIsKnown
    <3> QED BY <3>1, <3>2, <3>3, <3>4
  <2>3. ~HoldRefused(r)
    BY <1>2 DEF HoldRefused, NoncesAgree, Refusals, SecondTry
  <2> QED BY <1>6, <2>1, <2>2, <2>3 DEF Ends
<1>7. ASSUME NEW r \in sent, ServiceServes(r) PROVE FrontierIsKnown'
  <2>1. sent' = sent \ {r} /\ UNCHANGED <<waiting, mount, shown, nonce, lastNonce>>
    BY <1>7, ServiceKinds
  <2>2. \A h \in ledger' : h.nonce = lastNonce + 1 => AtFrontier(lastNonce + 1)
    <3>1. CASE ledger' = ledger
      BY <3>1 DEF AtFrontier
    <3>2. CASE r.op = "hold" /\ ledger' = ledger \cup {Made(r)}
      <4>1. FirstTry(r)
        <5>1. Made(r) \in ledger' /\ Made(r).key = r.key
          BY <3>2 DEF Made
        <5> QED BY <3>2, <5>1 DEF Recovered, FirstTry
      <4>2. Made(r).nonce = r.nonce
        BY DEF Made
      <4> QED BY <3>2, <4>1, <4>2 DEF AtFrontier
    <3> QED BY <1>7, <3>1, <3>2, ServiceKinds
  <2>3. AtFrontier(lastNonce + 1)' => AtFrontier(lastNonce + 1)
    BY <2>1, <2>2 DEF AtFrontier, FirstTry
  <2> QED BY <1>2, <2>1, <2>3 DEF FrontierIsKnown, FirstTry
<1> QED BY <1>2, <1>3, <1>4, <1>5, <1>6, <1>7, StepKinds

\* A first try of a page that is still waited for is refused: no other hold is on its
\* way with the nonce it is refused with, and none was made for its draft that the page
\* does not know.
LEMMA RefusedFirstTry ==
  ASSUME FlowInv, PricedByDraft, NoncesAgree, NoFarNonce, FrontierIsKnown, ~Recovered,
         NEW r \in waiting, FirstTry(r), r.nonce # expected,
         \A h \in ledger : h.key # r.key
  PROVE  ~Contested /\ NotHeldBefore(r.draft)
<1> USE NonceTypes DEF InFlight
<1>1. ~Contested
  <2> SUFFICES ASSUME NEW c \in InFlight, FirstTry(c), c.nonce = expected PROVE FALSE
    BY DEF Contested
  <2>1. expected = lastNonce + 1
    BY DEF NoFarNonce, NoncesAgree
  <2>2. AtFrontier(lastNonce + 1)
    BY <2>1 DEF AtFrontier
  <2> QED BY <2>1, <2>2 DEF FrontierIsKnown
<1>2. ASSUME NEW h \in ledger, h.draft = r.draft PROVE h.nonce <= lastNonce
  <2> SUFFICES ASSUME h.nonce > lastNonce PROVE h.key = r.key
    BY <1>2
  <2>1. h.nonce = lastNonce + 1
    BY DEF NoFarNonce
  <2>2. AtFrontier(lastNonce + 1)
    BY <2>1 DEF AtFrontier
  <2>3. r.nonce = lastNonce + 1
    BY <2>2 DEF FrontierIsKnown
  <2>4. h.key.retry = 0 /\ r.key.retry = 0 /\ r.op = "hold"
    BY DEF Recovered, FirstTry
  <2>5. h.key.nonce = r.key.nonce
    BY <2>1, <2>3, <2>4 DEF NoncesAgree, NonceOf
  <2>6. h.key.bytes = r.key.bytes /\ h.key.amount = r.key.amount
    BY <1>2, <2>4 DEF PricedByDraft
  <2>7. h.key \in Key /\ r.key \in Key
    BY Types, RequestsAreTyped DEF FlowInv, ServiceTypes
  <2> QED BY <2>4, <2>5, <2>6, <2>7 DEF Key
<1> QED BY <1>1, <1>2 DEF NotHeldBefore

LEMMA RefusalsKeep ==
  ASSUME ~TemplateNonce, WaitsForAnswers, FlowInv, FlowInv', OneDraft, PricedByDraft,
         NonceInv, ~Recovered', [PostNext]_postVars
  PROVE  Refusals'
<1> USE NonceTypes DEF InFlight
<1>1. ~Recovered
  BY ServicesRecord DEF Recovered
<1>2. NoncesAgree /\ NoFarNonce /\ FrontierIsKnown /\ Refusals
  BY <1>1 DEF NonceInv
<1>3. CASE Quiet
  BY <1>2, <1>3 DEF Quiet, Refusals, Contested, NotHeldBefore, FirstTry, SecondTry, Answered
<1>4. ASSUME NEW r \in Request, Sends(r), SendsFirst(r) PROVE Refusals'
  <2>1. ~SecondTry(r)
    BY <1>4 DEF SecondTry, SendsFirst
  <2> QED BY <1>2, <1>4, <2>1 DEF Sends, Refusals, NotHeldBefore, FirstTry, SecondTry
<1>5. ASSUME NEW r \in Request, NEW a \in waiting, Sends(r), SendsSecond(r, a)
      PROVE  Refusals'
  <2>1. /\ r.nonce = expected /\ ~Contested /\ NotHeldBefore(r.draft)
        /\ SecondTry(r) /\ ~FirstTry(r)
    BY <1>2, <1>5 DEF SendsSecond, Refusals, SecondTry, FirstTry
  <2>2. waiting' = {r} /\ sent' = sent \cup {r} /\ ~Answered(r)'
        /\ UNCHANGED <<expected, ledger, lastNonce>>
    BY <1>5 DEF Sends
  <2>3. ~Contested'
    BY <2>1, <2>2 DEF Contested, FirstTry
  <2>4. \A s \in InFlight' : SecondTry(s) /\ s.nonce = expected' => NotHeldBefore(s.draft)'
    BY <1>2, <2>1, <2>2 DEF Refusals, NotHeldBefore
  <2> QED BY <2>1, <2>2, <2>3, <2>4 DEF Refusals, FirstTry, SecondTry
<1>6. ASSUME NEW r \in waiting, Ends(r) PROVE Refusals'
  <2>1. lastNonce' >= lastNonce
    <3>1. CASE HoldAnswered(r)
      BY <1>2, <3>1 DEF HoldAnswered, NoFarNonce
    <3> QED BY <1>6, <3>1 DEF Ends
  <2>2. lastNonce' \in Nat /\ waiting' = {} /\ UNCHANGED <<sent, expected, ledger>>
    BY <1>6 DEF Ends, FlowInv, PostTypeOK
  <2>3. \A d : NotHeldBefore(d) => NotHeldBefore(d)'
    BY <2>1, <2>2 DEF NotHeldBefore
  <2> QED BY <1>2, <2>2, <2>3 DEF Refusals, SecondTry
<1>7. ASSUME NEW r \in sent, ServiceServes(r) PROVE Refusals'
  <2>1. sent' = sent \ {r} /\ UNCHANGED <<waiting, mount, shown, nonce, lastNonce>>
    BY <1>7, ServiceKinds
  <2>2. CASE /\ Answers(r, 0) /\ UNCHANGED <<expected, ledger>>
             /\ r.op = "hold" => \E h \in ledger : h.key = r.key
    <3>1. ~SecondTry(r)
      BY <1>1, <2>2 DEF SecondTry, Recovered
    <3>2. Contested' => Contested
      BY <2>1, <2>2 DEF Contested, FirstTry
    <3>3. \A d : NotHeldBefore(d) => NotHeldBefore(d)'
      BY <2>1, <2>2 DEF NotHeldBefore
    <3> QED BY <1>2, <2>1, <2>2, <3>1, <3>2, <3>3
            DEF Refusals, Answers, FirstTry, SecondTry
  <2>3. CASE /\ r.op = "hold" /\ r.nonce # expected /\ Answers(r, expected)
             /\ \A h \in ledger : h.key # r.key
             /\ UNCHANGED <<expected, ledger>>
    <3>1. Contested' => Contested
      BY <2>1, <2>3 DEF Contested, FirstTry
    <3>2. \A d : NotHeldBefore(d) => NotHeldBefore(d)'
      BY <2>1, <2>3 DEF NotHeldBefore
    <3>3. r \in waiting => FirstTry(r)
      BY <1>2, <2>3 DEF Refusals, FirstTry, SecondTry
    <3>4. r \in waiting => ~Contested /\ NotHeldBefore(r.draft)
      BY <1>1, <1>2, <2>3, <3>3, RefusedFirstTry
    <3> QED BY <1>2, <2>1, <2>3, <3>1, <3>2, <3>3, <3>4
            DEF Refusals, Answers, FirstTry, SecondTry
  <2>4. CASE /\ r.op = "hold" /\ r.nonce = expected /\ Answers(r, 0)
             /\ expected' = expected + 1 /\ ledger' = ledger \cup {Made(r)}
    <3>1. FirstTry(r)
      <4>1. Made(r) \in ledger' /\ Made(r).key = r.key
        BY <2>4 DEF Made
      <4> QED BY <2>4, <4>1 DEF Recovered, FirstTry
    <3>2. Contested
      BY <2>4, <3>1 DEF Contested
    <3>3. \A s \in InFlight' : SecondTry(s) => s.nonce # expected'
      BY <1>2, <2>1, <2>4 DEF NoncesAgree, SecondTry
    <3> QED BY <1>2, <2>1, <2>4, <3>2, <3>3 DEF Refusals, Answers, FirstTry, SecondTry
  <2> QED BY <1>7, <2>2, <2>3, <2>4, ServiceKinds
<1> QED BY <1>2, <1>3, <1>4, <1>5, <1>6, <1>7, StepKinds

RetryInv == FlowInv /\ OneDraft /\ PricedByDraft /\ NonceInv

LEMMA RetryKeeps ==
  ASSUME WaitsForAnswers, OneWarning, ~TemplateNonce, RetryInv, [PostNext]_postVars
  PROVE  RetryInv'
<1>1. FlowInv' /\ OneDraft' /\ PricedByDraft'
  BY FlowKeeps, OneDraftKeeps, PriceKeeps DEF RetryInv
<1>2. NoncesAgree'
  BY <1>1, NoncesKeep DEF RetryInv, NonceInv
<1>3. ~Recovered' => NoFarNonce' /\ FrontierIsKnown' /\ Refusals'
  BY <1>1, NoFarKeeps, FrontierKeeps, RefusalsKeep DEF RetryInv
<1> QED BY <1>1, <1>2, <1>3 DEF RetryInv, NonceInv

LEMMA InitRetry == PostInit => RetryInv
<1> SUFFICES ASSUME PostInit PROVE RetryInv
  OBVIOUS
<1>1. FlowInv
  BY InitFlow
<1>2. /\ waiting = {} /\ sent = {} /\ ledger = {} /\ expected = FirstNonce
      /\ shown = TRUE /\ nonce = 1 /\ lastNonce = 0
      /\ prepare = IdlePrepare /\ hold = Idle
  BY DEF PostInit, ServiceInit
<1>3. OneDraft /\ PricedByDraft
  BY <1>2, StatusesAre DEF OneDraft, PricedByDraft, InFlight
<1>4. NoncesAgree
  BY <1>2 DEF NoncesAgree, InFlight
<1>5. NoFarNonce /\ FrontierIsKnown /\ Refusals
  BY <1>2 DEF NoFarNonce, FrontierIsKnown, AtFrontier, Refusals, InFlight
<1> QED BY <1>1, <1>3, <1>4, <1>5 DEF RetryInv, NonceInv

\* A page whose user waits for its answers, whose drafts differ in what workflowKey is
\* made of, and that learns the wallet's nonce from its own holds only, does not hold
\* again for what an unanswered hold was made for, until a nonce had to be recovered: a
\* repeated hold carries the key of the first, or is refused.
THEOREM RetriesHoldOnce ==
  ASSUME WaitsForAnswers, OneWarning, ~TemplateNonce
  PROVE  PostSpec => RetryHoldsOnce
<1>1. RetryInv /\ [PostNext]_postVars =>
          \A new \in ledger' \ ledger, h \in ledger :
              (h.draft = new.draft /\ \A g \in ledger : g.key.retry = 0)
                  => h.nonce <= lastNonce
  <2> SUFFICES ASSUME RetryInv, [PostNext]_postVars, NEW new \in ledger' \ ledger,
                      NEW h \in ledger, h.draft = new.draft, ~Recovered,
                      h.nonce > lastNonce
               PROVE  FALSE
    BY NonceTypes DEF Recovered, RetryInv
  <2> USE NonceTypes DEF RetryInv, NonceInv, InFlight
  <2>1. PICK r \in sent : ServeHold(r) /\ r.nonce = expected /\ new = Made(r)
    BY ServicesRecord DEF Made
  <2>2. r.op = "hold" /\ r.draft = h.draft
    BY <2>1 DEF ServeHold, Made
  <2>3. h.nonce = lastNonce + 1 /\ r.nonce > lastNonce + 1
    BY <2>1 DEF NoFarNonce, NoncesAgree
  <2>4. SecondTry(r)
    BY <2>2, <2>3 DEF NoFarNonce, FirstTry, SecondTry
  <2>5. NotHeldBefore(h.draft)
    BY <2>1, <2>2, <2>4 DEF Refusals
  <2> QED BY <2>3, <2>5 DEF NotHeldBefore
<1>2. RetryInv /\ [PostNext]_postVars => RetryInv'
  BY RetryKeeps
<1> QED BY <1>1, <1>2, InitRetry, PTL DEF PostSpec, RetryHoldsOnce

(***************************************************************************)
(* The feed and its cache                                                  *)
(***************************************************************************)

USE FeedDocumentsAssumption

-----------------------------------------------------------------------------
(* The order of publications and the sequence of a set in that order.      *)

\* Finite sets of publications of different identities.
Sortable(S) ==
    /\ IsFiniteSet(S) /\ S \subseteq Publication
    /\ \A p, q \in S : Identity(p) = Identity(q) => p = q

\* The order is strict and, on such a set, total.
LEMMA OrderIs ==
  ASSUME NEW S, Sortable(S)
  PROVE  /\ \A p, q \in S : p # q => Before(p, q) \/ Before(q, p)
         /\ \A p, q \in S : Before(p, q) => ~Before(q, p) /\ p # q
         /\ \A p, q, r \in S : Before(p, q) /\ Before(q, r) => Before(p, r)
  BY DEF Sortable, Before, Identity, Publication

LEMMA SubsetIs ==
  ASSUME NEW S, Sortable(S), NEW T \in SUBSET S
  PROVE  Sortable(T) /\ Cardinality(T) <= Cardinality(S)
  BY FS_Subset DEF Sortable

\* A publication's rank grows with the order, within the set and with the set.
LEMMA RankIs ==
  ASSUME NEW S, Sortable(S), NEW p \in S
  PROVE  Rank(S, p) \in 0..(Cardinality(S) - 1)
<1> DEFINE T == {q \in S : Before(q, p)}
<1>1. IsFiniteSet(S)
  BY DEF Sortable
<1>2. T \in SUBSET S /\ p \notin T
  BY OrderIs
<1>3. /\ IsFiniteSet(T) /\ Cardinality(T) <= Cardinality(S)
      /\ Cardinality(S) # Cardinality(T)
  BY <1>1, <1>2, FS_Subset
<1>4. Cardinality(T) \in Nat /\ Cardinality(S) \in Nat
  BY <1>1, <1>3, FS_CardinalityType
<1> QED BY <1>3, <1>4 DEF Rank

LEMMA RankGrows ==
  ASSUME NEW S, Sortable(S), NEW p \in S, NEW q \in S, Before(p, q)
  PROVE  Rank(S, p) < Rank(S, q)
<1> DEFINE P == {r \in S : Before(r, p)}
           Q == {r \in S : Before(r, q)}
<1>1. P \in SUBSET Q /\ p \in Q /\ p \notin P
  BY OrderIs
<1>2. IsFiniteSet(S) /\ Q \in SUBSET S
  BY DEF Sortable
<1>3. IsFiniteSet(Q)
  BY <1>2, FS_Subset
<1>4. Cardinality(P) <= Cardinality(Q) /\ Cardinality(P) # Cardinality(Q) /\ IsFiniteSet(P)
  BY <1>1, <1>3, FS_Subset
<1>5. Cardinality(P) \in Nat /\ Cardinality(Q) \in Nat
  BY <1>3, <1>4, FS_CardinalityType
<1> QED BY <1>4, <1>5 DEF Rank

LEMMA RankInSubset ==
  ASSUME NEW S, Sortable(S), NEW T \in SUBSET S, NEW p \in T
  PROVE  Rank(T, p) <= Rank(S, p)
<1>1. {q \in T : Before(q, p)} \in SUBSET {q \in S : Before(q, p)}
  OBVIOUS
<1>2. IsFiniteSet({q \in S : Before(q, p)})
  BY FS_Subset, {q \in S : Before(q, p)} \in SUBSET S DEF Sortable
<1> QED BY <1>1, <1>2, FS_Subset DEF Rank

LEMMA RankOrders ==
  ASSUME NEW S, Sortable(S), NEW p \in S, NEW q \in S
  PROVE  /\ Rank(S, p) < Rank(S, q) <=> Before(p, q)
         /\ Rank(S, p) = Rank(S, q) => p = q
<1>1. Rank(S, p) \in Int /\ Rank(S, q) \in Int
  BY RankIs
<1>2. p # q => Before(p, q) \/ Before(q, p)
  BY OrderIs
<1> QED BY <1>1, <1>2, RankGrows

\* Every rank has a publication.
LEMMA RanksAreTaken ==
  ASSUME NEW S, Sortable(S), NEW i \in 1..Cardinality(S)
  PROVE  \E p \in S : Rank(S, p) = i - 1
<1> DEFINE n == Cardinality(S)
           f == [p \in S |-> Rank(S, p) + 1]
<1>1. IsFiniteSet(S) /\ n \in Nat
  BY FS_CardinalityType DEF Sortable
<1> HIDE DEF n
<1>2. ASSUME NEW p \in S PROVE Rank(S, p) + 1 \in 1..n
  BY <1>1, RankIs DEF n
<1>3. f \in [S -> 1..n]
  BY <1>2
<1>4. ASSUME NEW p \in S, NEW q \in S, f[p] = f[q] PROVE p = q
  <2>1. Rank(S, p) \in Int /\ Rank(S, q) \in Int
    BY RankIs
  <2> QED BY <1>4, <2>1, RankOrders
<1>5. f \in Injection(S, 1..n)
  BY <1>3, <1>4 DEF Injection, IsInjective
<1>6. IsFiniteSet(1..n) /\ Cardinality(1..n) = n
  BY <1>1, FS_Interval
<1> HIDE DEF f
<1>7. f \in Surjection(S, 1..n)
  BY <1>5, <1>6, FS_Injection DEF n
<1>8. PICK p \in S : f[p] = i
  BY <1>7 DEF Surjection, n
<1> QED BY <1>1, <1>8, RankIs DEF f, n

\* The sequence has each publication of the set at its rank.
LEMMA ChronologicalIs ==
  ASSUME NEW S, Sortable(S)
  PROVE  /\ Cardinality(S) \in Nat
         /\ Chronological(S) \in Seq(S) /\ Len(Chronological(S)) = Cardinality(S)
         /\ \A i \in 1..Cardinality(S) :
               Chronological(S)[i] \in S /\ Rank(S, Chronological(S)[i]) = i - 1
<1> DEFINE n == Cardinality(S)
<1>1. n \in Nat
  BY FS_CardinalityType DEF Sortable
<1>2. ASSUME NEW i \in 1..n
      PROVE  /\ Chronological(S)[i] \in S
             /\ Rank(S, Chronological(S)[i]) = i - 1
  BY <1>2, RanksAreTaken DEF Chronological
<1> HIDE DEF n
<1>3. Chronological(S) \in [1..n -> S]
  BY <1>1, <1>2 DEF Chronological, n
<1>4. Chronological(S) \in Seq(S) /\ Len(Chronological(S)) = n
  BY <1>1, <1>3
<1> QED BY <1>1, <1>2, <1>4 DEF n

\* The first of a set, up to a limit: in order, each at its rank.
LEMMA FirstAre ==
  ASSUME NEW S, Sortable(S), NEW max \in Nat
  PROVE  LET first == Cut(Chronological(S), max)
         IN  /\ first \in Seq(S)
             /\ Len(first) = IF Cardinality(S) < max THEN Cardinality(S) ELSE max
             /\ \A i \in 1..Len(first) : first[i] \in S /\ Rank(S, first[i]) = i - 1
             /\ \A i, j \in 1..Len(first) : i < j => Before(first[i], first[j])
             /\ Range(first) = {p \in S : Rank(S, p) < max}
<1> DEFINE seq == Chronological(S)
           n == Cardinality(S)
           k == IF Len(seq) < max THEN Len(seq) ELSE max
           first == Cut(seq, max)
<1>1. /\ n \in Nat /\ seq \in Seq(S) /\ Len(seq) = n
      /\ \A i \in 1..n : seq[i] \in S /\ Rank(S, seq[i]) = i - 1
  BY ChronologicalIs
<1> HIDE DEF seq, n
<1>2. k \in 0..n /\ k = IF n < max THEN n ELSE max
  BY <1>1
<1>3. first = SubSeq(seq, 1, k)
  BY DEF Cut
<1> HIDE DEF k, first
<1>4. first \in Seq(S) /\ Len(first) = k /\ \A i \in 1..k : first[i] = seq[i]
  BY <1>1, <1>2, <1>3, SubSeqProperties
<1>5. \A i \in 1..k : first[i] \in S /\ Rank(S, first[i]) = i - 1
  BY <1>1, <1>2, <1>4
<1>6. ASSUME NEW i \in 1..k, NEW j \in 1..k, i < j PROVE Before(first[i], first[j])
  <2>1. Rank(S, first[i]) < Rank(S, first[j])
    BY <1>2, <1>5, <1>6
  <2> QED BY <1>5, <2>1, RankOrders
<1>7. Range(first) = {p \in S : Rank(S, p) < max}
  <2>1. DOMAIN first = 1..k
    BY <1>4
  <2>2. ASSUME NEW i \in 1..k PROVE first[i] \in S /\ Rank(S, first[i]) < max
    BY <1>2, <1>5
  <2>3. ASSUME NEW p \in S, Rank(S, p) < max PROVE \E i \in 1..k : first[i] = p
    <3>1. Rank(S, p) \in 0..(n - 1)
      BY RankIs DEF n
    <3>2. Rank(S, p) + 1 \in 1..k
      BY <1>1, <1>2, <2>3, <3>1
    <3>3. first[Rank(S, p) + 1] \in S /\ Rank(S, first[Rank(S, p) + 1]) = Rank(S, p)
      BY <1>5, <3>1, <3>2
    <3> QED BY <3>2, <3>3, RankOrders
  <2> QED BY <2>1, <2>2, <2>3 DEF Range
<1> QED BY <1>2, <1>4, <1>5, <1>6, <1>7 DEF first, seq, n

\* Adding to the first of a set and taking the first again is adding to the set
\* and taking the first.
LEMMA FirstOfFirst ==
  ASSUME NEW S, NEW N, NEW U, NEW V, NEW max \in Nat \ {0}, Sortable(U),
         \A p : p \in U <=> p \in S \/ p \in N,
         \A p : p \in V <=> (p \in S /\ Rank(S, p) < max) \/ p \in N
  PROVE  Cut(Chronological(V), max) = Cut(Chronological(U), max)
<1> DEFINE n == Cardinality(U)
           m == Cardinality(V)
<1>1. V \in SUBSET U /\ S \in SUBSET U /\ Sortable(U) /\ Sortable(V) /\ Sortable(S)
  BY SubsetIs
<1>2. n \in Nat /\ m \in Nat /\ m <= n
  BY <1>1, SubsetIs, FS_CardinalityType DEF Sortable
<1>3. \A p \in U : Rank(U, p) \in 0..(n - 1)
  BY <1>1, RankIs
<1>4. \A p \in V : Rank(V, p) \in 0..(m - 1) /\ Rank(V, p) <= Rank(U, p)
  BY <1>1, RankIs, RankInSubset
<1>5. ASSUME NEW p \in U, Rank(U, p) < max PROVE p \in V
  <2>1. CASE p \in S
    <3>1. Rank(S, p) <= Rank(U, p) /\ Rank(S, p) \in Int /\ Rank(U, p) \in Int
      BY <1>1, <1>3, <2>1, RankIs, RankInSubset
    <3> QED BY <1>5, <2>1, <3>1
  <2>2. CASE p \notin S
    BY <2>2
  <2> QED BY <2>1, <2>2
<1>6. ASSUME NEW p \in U, Rank(U, p) < max PROVE Rank(V, p) = Rank(U, p)
  <2>1. ASSUME NEW q \in U, Before(q, p) PROVE q \in V
    <3>1. Rank(U, q) < Rank(U, p) /\ Rank(U, q) \in Int /\ Rank(U, p) \in Int
      BY <1>1, <1>3, <2>1, RankGrows
    <3> QED BY <1>5, <1>6, <3>1
  <2>2. {q \in V : Before(q, p)} = {q \in U : Before(q, p)}
    BY <1>1, <2>1
  <2> QED BY <2>2 DEF Rank
<1>7. ASSUME max <= n
      PROVE  \E w \in V : Rank(U, w) = max - 1 /\ Rank(V, w) = max - 1
  <2>1. PICK w \in U : Rank(U, w) = max - 1
    BY <1>1, <1>2, <1>7, RanksAreTaken DEF n
  <2> QED BY <1>5, <1>6, <2>1
<1>8. ASSUME NEW p \in V, Rank(V, p) < max PROVE Rank(U, p) = Rank(V, p)
  <2> SUFFICES ASSUME Rank(U, p) >= max PROVE FALSE
    BY <1>1, <1>3, <1>4, <1>6
  <2>1. p \in U /\ Rank(U, p) \in 0..(n - 1)
    BY <1>1, <1>3
  <2>2. PICK w \in V : Rank(U, w) = max - 1 /\ Rank(V, w) = max - 1
    BY <1>2, <1>7, <2>1
  <2>3. w \in U /\ Rank(U, w) < Rank(U, p)
    BY <1>1, <2>1, <2>2
  <2>4. Before(w, p)
    BY <1>1, <2>1, <2>3, RankOrders
  <2>5. Rank(V, w) < Rank(V, p)
    BY <1>1, <2>4, RankGrows
  <2> QED BY <1>4, <1>8, <2>2, <2>5
<1> DEFINE k == IF n < max THEN n ELSE max
           old == Cut(Chronological(U), max)
           new == Cut(Chronological(V), max)
<1>9. k = IF m < max THEN m ELSE max
  <2>1. CASE n < max
    <3>1. \A p \in U : p \in V
      BY <1>2, <1>3, <1>5, <2>1
    <3>2. U = V
      BY <1>1, <3>1
    <3> QED BY <3>2 DEF n, m
  <2>2. CASE n >= max
    <3>1. PICK w \in V : Rank(V, w) = max - 1
      BY <1>7, <2>2
    <3>2. m >= max
      BY <1>2, <1>4, <3>1
    <3> QED BY <1>2, <2>2, <3>2
  <2> QED BY <1>2, <2>1, <2>2
<1>10. /\ old \in Seq(U) /\ Len(old) = k
       /\ \A i \in 1..k : old[i] \in U /\ Rank(U, old[i]) = i - 1
  BY <1>1, FirstAre DEF n
<1>11. /\ new \in Seq(V) /\ Len(new) = k
       /\ \A i \in 1..k : new[i] \in V /\ Rank(V, new[i]) = i - 1
  <2>1. /\ new \in Seq(V) /\ Len(new) = IF m < max THEN m ELSE max
        /\ \A i \in 1..Len(new) : new[i] \in V /\ Rank(V, new[i]) = i - 1
    BY <1>1, FirstAre DEF m
  <2> HIDE DEF new, k
  <2> QED BY <1>9, <2>1
<1>12. k \in 0..max
  BY <1>2
<1> HIDE DEF k, old, new, n, m
<1>13. ASSUME NEW i \in 1..k PROVE old[i] = new[i]
  <2>1. Rank(V, new[i]) < max /\ new[i] \in U
    BY <1>1, <1>11, <1>12
  <2>2. Rank(U, new[i]) = i - 1
    BY <1>8, <1>11, <2>1
  <2> QED BY <1>1, <1>10, <2>1, <2>2, RankOrders
<1>14. DOMAIN old = 1..k /\ DOMAIN new = 1..k
  BY <1>10, <1>11, LenProperties
<1>15. old = new
  BY <1>10, <1>11, <1>13, <1>14, SeqEqual
<1> QED BY <1>15 DEF old, new

-----------------------------------------------------------------------------
(* The feed and the cache.                                                 *)

\* What the cache accepts and the page shows.
GoodItems == {items \in Seq(Publication) : WellFormed(items)}

\* Finite sets of public publications of different identities.
Shareable(S) == Sortable(S) /\ \A p \in S : p.public

LEMMA FirstAreGood ==
  ASSUME NEW S, Shareable(S), NEW max \in 0..CacheMax
  PROVE  Cut(Chronological(S), max) \in GoodItems
<1> DEFINE first == Cut(Chronological(S), max)
<1>1. /\ first \in Seq(S) /\ Len(first) <= max
      /\ \A i \in 1..Len(first) : first[i] \in S
      /\ \A i, j \in 1..Len(first) : i < j => Before(first[i], first[j])
  <2>1. Sortable(S) /\ max \in Nat /\ Cardinality(S) \in Nat
    BY ChronologicalIs DEF Shareable
  <2> QED BY <2>1, FirstAre
<1>2. S \subseteq Publication
  BY DEF Shareable, Sortable
<1> HIDE DEF first
<1>3. first \in Seq(Publication) /\ DOMAIN first = 1..Len(first) /\ Len(first) \in Nat
  BY <1>1, <1>2
<1>4. \A i \in 1..Len(first) : first[i].public
  BY <1>1 DEF Shareable
<1>5. ASSUME NEW i \in 1..Len(first), NEW j \in 1..Len(first), i < j
      PROVE  Identity(first[i]) # Identity(first[j])
  <2>1. Before(first[i], first[j]) /\ first[i] \in S /\ first[j] \in S
    BY <1>1, <1>5
  <2>2. first[i] # first[j]
    BY <2>1, OrderIs DEF Shareable
  <2> QED BY <2>1, <2>2 DEF Shareable, Sortable
<1>6. WellFormed(first)
  BY <1>1, <1>3, <1>4, <1>5 DEF WellFormed
<1> QED BY <1>3, <1>6 DEF GoodItems, first

\* The publications of such a sequence are such a set.
LEMMA ItemsAre ==
  ASSUME NEW items \in GoodItems
  PROVE  /\ Shareable(Range(items)) /\ Len(items) \in 0..CacheMax
         /\ \A i \in DOMAIN items : items[i] \in Range(items)
<1> DEFINE n == Len(items)
           f == [i \in 1..n |-> items[i]]
<1>1. /\ items \in Seq(Publication) /\ n \in Nat /\ DOMAIN items = 1..n
      /\ \A i \in 1..n : items[i] \in Publication
  BY DEF GoodItems
<1>2. f \in Surjection(1..n, Range(items))
  BY <1>1 DEF Surjection, Range
<1>3. IsFiniteSet(Range(items))
  BY <1>1, <1>2, FS_Interval, FS_Surjection
<1>4. WellFormed(items)
  BY DEF GoodItems
<1>5. ASSUME NEW p \in Range(items), NEW q \in Range(items), Identity(p) = Identity(q)
      PROVE  p = q
  <2>1. PICK i \in 1..n, j \in 1..n : p = items[i] /\ q = items[j]
    BY <1>1 DEF Range
  <2>2. ~(i < j) /\ ~(j < i)
    BY <1>1, <1>4, <1>5, <2>1 DEF WellFormed
  <2> QED BY <2>1, <2>2
<1>6. Sortable(Range(items))
  BY <1>1, <1>3, <1>5 DEF Sortable, Range
<1>7. \A p \in Range(items) : p.public
  BY <1>4 DEF Range, WellFormed
<1> QED BY <1>1, <1>4, <1>6, <1>7 DEF Shareable, Range, WellFormed

\* All of a set within the limit are its first.
LEMMA AllAreFirst ==
  ASSUME NEW S, Sortable(S), NEW max \in Nat, Cardinality(S) <= max
  PROVE  Cut(Chronological(S), max) = Chronological(S)
<1> DEFINE seq == Chronological(S)
           n == Cardinality(S)
<1>1. seq \in Seq(S) /\ Len(seq) = n /\ n \in Nat
  BY ChronologicalIs
<1> HIDE DEF seq, n
<1>2. Cut(seq, max) = SubSeq(seq, 1, n)
  BY <1>1 DEF Cut, n
<1>3. SubSeq(seq, 1, n) = seq
  <2>1. /\ SubSeq(seq, 1, n) \in Seq(S) /\ Len(SubSeq(seq, 1, n)) = n
        /\ \A i \in 1..n : SubSeq(seq, 1, n)[i] = seq[i]
    BY <1>1, SubSeqProperties
  <2> QED BY <1>1, <2>1, SeqEqual
<1> QED BY <1>2, <1>3 DEF seq

\* The projection of the cache shows those of the followed creators.
LEMMA VisibleKeeps ==
  ASSUME NEW items \in GoodItems, NEW followed
  PROVE  /\ Visible(items, followed) \in GoodItems
         /\ \A i \in DOMAIN Visible(items, followed) :
               Visible(items, followed)[i].creator \in followed
<1> DEFINE T == {p \in Range(items) : p.creator \in followed}
           n == Len(items)
           f == [i \in 1..n |-> items[i]]
<1>1. Shareable(Range(items)) /\ n \in 0..CacheMax
  BY ItemsAre
<1>2. Shareable(T)
  BY <1>1, SubsetIs, T \in SUBSET Range(items) DEF Shareable
<1>3. Cardinality(T) <= CacheMax
  <2>1. DOMAIN items = 1..n
    BY DEF GoodItems
  <2>2. f \in Surjection(1..n, Range(items))
    BY <2>1 DEF Surjection, Range
  <2> HIDE DEF f, n, T
  <2>3. IsFiniteSet(1..n) /\ Cardinality(1..n) = n
    <3>1. n \in Nat /\ 1 \in Int /\ n \in Int
      BY <1>1
    <3> QED BY <3>1, FS_Interval
  <2>4. Cardinality(Range(items)) <= n
    BY <2>2, <2>3, FS_Surjection
  <2>5. Cardinality(T) <= Cardinality(Range(items))
    <3>1. T \in SUBSET Range(items) /\ Sortable(Range(items))
      BY <1>1 DEF Shareable, T
    <3> QED BY <3>1, SubsetIs
  <2>6. Cardinality(T) \in Nat /\ Cardinality(Range(items)) \in Nat
    BY <1>1, <1>2, ChronologicalIs DEF Shareable
  <2> QED BY <1>1, <2>4, <2>5, <2>6
<1> HIDE DEF T
<1>4. Chronological(T) = Cut(Chronological(T), CacheMax)
  BY <1>2, <1>3, AllAreFirst DEF Shareable
<1>5. Chronological(T) \in GoodItems
  BY <1>2, <1>4, FirstAreGood
<1>6. ASSUME NEW i \in DOMAIN Chronological(T) PROVE Chronological(T)[i] \in T
  BY <1>2, ChronologicalIs DEF Shareable
<1>7. Visible(items, followed) = Chronological(T)
  BY DEF Visible, T
<1>8. \A p \in T : p.creator \in followed
  BY DEF T
<1> QED BY <1>5, <1>6, <1>7, <1>8

\* Copies of the same publication are not kept.
LEMMA MergeIs ==
  ASSUME NEW old \in GoodItems, NEW new \in GoodItems
  PROVE  LET kept == {p \in Range(old) :
                        \A q \in Range(new) : Identity(q) # Identity(p)}
         IN  /\ Shareable(kept \cup Range(new))
             /\ Merge(old, new) = Cut(Chronological(kept \cup Range(new)), CacheMax)
             /\ Merge(old, new) \in GoodItems
<1> DEFINE kept == {p \in Range(old) : \A q \in Range(new) : Identity(q) # Identity(p)}
           S == kept \cup Range(new)
<1>1. Shareable(Range(old)) /\ Shareable(Range(new))
  BY ItemsAre
<1>2. IsFiniteSet(S)
  <2>1. IsFiniteSet(kept)
    BY <1>1, FS_Subset, kept \in SUBSET Range(old) DEF Shareable, Sortable
  <2> QED BY <1>1, <2>1, FS_Union DEF Shareable, Sortable
<1>3. /\ S \subseteq Publication /\ \A p \in S : p.public
      /\ \A p, q \in S : Identity(p) = Identity(q) => p = q
  BY <1>1 DEF Shareable, Sortable
<1>4. Shareable(S)
  BY <1>2, <1>3 DEF Shareable, Sortable
<1>5. Merge(old, new) = Cut(Chronological(S), CacheMax)
  BY DEF Merge
<1> HIDE DEF S
<1>6. Merge(old, new) \in GoodItems
  BY <1>4, <1>5, FirstAreGood
<1> QED BY <1>4, <1>5, <1>6 DEF S

\* The pages a load may hold: one acceptable page of each of some creators.
GoodPages ==
    {pages \in UNION {[D -> UNION {Pages[c] : c \in Creators}] : D \in SUBSET Creators} :
        /\ IsFiniteSet(DOMAIN pages)
        /\ \A c \in DOMAIN pages : pages[c] \in Pages[c] /\ Acceptable(c, pages[c])}

LEMMA ComposeIs ==
  ASSUME NEW pages \in GoodPages
  PROVE  /\ Compose(pages) \in GoodItems
         /\ Range(Compose(pages)) \subseteq Publications
<1> DEFINE D == DOMAIN pages
           all == {pages[c] : c \in D}
           S == {p \in UNION all : p.public}
           f == [c \in D |-> pages[c]]
<1>1. /\ IsFiniteSet(D) /\ D \subseteq Creators
      /\ \A c \in D : pages[c] \in Pages[c] /\ Acceptable(c, pages[c])
  BY DEF GoodPages
<1>2. ASSUME NEW c \in D PROVE IsFiniteSet(pages[c]) /\ pages[c] \subseteq Publication
  BY <1>1, FollowingFeedAssumption
<1>3. f \in Surjection(D, all)
  BY DEF Surjection
<1>4. IsFiniteSet(all)
  <2> HIDE DEF f, all
  <2> QED BY <1>1, <1>3, FS_Surjection
<1>5. IsFiniteSet(UNION all)
  BY <1>2, <1>4, FS_UNION
<1>6. IsFiniteSet(S)
  BY <1>5, FS_Subset, S \in SUBSET UNION all
<1>7. ASSUME NEW p \in S, NEW q \in S, Identity(p) = Identity(q) PROVE p = q
  <2>1. PICK c \in D : p \in pages[c]
    OBVIOUS
  <2>2. PICK d \in D : q \in pages[d]
    OBVIOUS
  <2>3. p.creator = c /\ q.creator = d /\ p.public /\ q.public
    BY <1>1, <2>1, <2>2 DEF Acceptable
  <2>4. c = d
    BY <1>7, <2>3 DEF Identity
  <2> QED BY <1>1, <1>7, <2>1, <2>2, <2>3, <2>4 DEF Acceptable
<1>8. S \subseteq Publication
  BY <1>2
<1>9. Shareable(S)
  BY <1>6, <1>7, <1>8 DEF Shareable, Sortable
<1>10. Compose(pages) = Cut(Chronological(S), FeedMax)
  BY DEF Compose
<1>11. S \subseteq Publications
  BY <1>1 DEF Publications
<1> HIDE DEF S
<1>12. FeedMax \in 0..CacheMax /\ FeedMax \in Nat
  OBVIOUS
<1>13. Compose(pages) \in GoodItems
  BY <1>9, <1>10, <1>12, FirstAreGood
<1>14. Range(Compose(pages)) \subseteq S
  <2>1. Range(Compose(pages)) = {p \in S : Rank(S, p) < FeedMax}
    BY <1>9, <1>10, <1>12, FirstAre DEF Shareable
  <2> QED BY <2>1
<1> QED BY <1>11, <1>13, <1>14

LEMMA NothingIsGood == <<>> \in GoodItems /\ <<>> \in GoodPages /\ Range(<<>>) = {}
<1>1. <<>> \in GoodItems
  BY DEF GoodItems, WellFormed
<1>2. DOMAIN <<>> = {} /\ <<>> \in [{} -> UNION {Pages[c] : c \in Creators}]
  OBVIOUS
<1>3. IsFiniteSet({})
  BY FS_EmptySet
<1>4. <<>> \in GoodPages
  BY <1>2, <1>3 DEF GoodPages
<1> QED BY <1>1, <1>4 DEF Range

-----------------------------------------------------------------------------
(* The invariant of the loads.                                             *)

Caches == [items : GoodItems, at : Time]

Loads ==
    {load \in [step : {"idle", "hydrate", "c_read", "c_write", "show",
                       "o_cache", "o_follow", "o_show"},
               at : 0..MaxTime, record : Seq(Creators), pages : GoodPages,
               saved : Caches \cup {None}] :
        /\ load.step \in {"hydrate", "c_read", "c_write", "show"} => load.at \in Time
        /\ load.step \in {"o_follow", "o_show"} => load.saved # None}

LEMMA CachesAreNotNone == None \notin Caches
<1>1. ASSUME NEW items \in GoodItems PROVE items \in Seq(Publication)
  BY DEF GoodItems
<1> QED BY <1>1, FollowingFeedAssumption DEF Caches, Time

\* What is offline is of creators followed at some time since it went offline.
OfflineOf(r) ==
    /\ run[r].step \in {"o_cache", "o_follow"} => Range(following) \subseteq eligible[r]
    /\ run[r].step = "o_show" =>
         \A i \in DOMAIN run[r].saved.items : run[r].saved.items[i].creator \in eligible[r]

Following ==
    {f \in Seq(Creators) : \A i, j \in DOMAIN f : f[i] = f[j] => i = j}

FeedTypes ==
    /\ following \in Following
    /\ cache \in Caches \cup {None}
    /\ current \in Runs \cup {None}
    /\ feed \in [status : Statuses, items : GoodItems]
    /\ seen \subseteq Publications /\ IsFiniteSet(seen) /\ \A p \in seen : p.public
    /\ lost \in BOOLEAN

LoadTypes ==
    /\ run \in [Runs -> Loads] /\ eligible \in [Runs -> SUBSET Creators]
    /\ \A r \in Runs : OfflineOf(r)

LEMMA RestingIsLoad ==
  /\ Resting \in Loads
  /\ [Resting EXCEPT !.step = "o_cache"] \in Loads
  /\ \A t \in Time, f \in Seq(Creators) :
        Hydrating(t, f) \in Loads
<1>1. 0 \in 0..MaxTime /\ \A t \in Time : t \in 0..MaxTime
  BY FollowingFeedAssumption DEF Time
<1>2. <<>> \in Seq(Creators) /\ <<>> \in GoodPages /\ None \in Caches \cup {None}
  BY NothingIsGood
<1> DEFINE empty == <<>>
<1>3. Resting = [step |-> "idle", at |-> 0, record |-> empty, pages |-> empty,
                 saved |-> None]
  BY DEF Resting
<1> HIDE DEF empty
<1>4. Resting \in Loads
  BY <1>1, <1>2, <1>3 DEF Loads, empty
<1>5. [Resting EXCEPT !.step = "o_cache"] \in Loads
  BY <1>1, <1>2, <1>3 DEF Loads, empty
<1>6. ASSUME NEW t \in Time, NEW f \in Seq(Creators)
      PROVE  Hydrating(t, f) \in Loads
  BY <1>1, <1>2 DEF Loads, empty, Hydrating
<1> HIDE DEF Loads
<1> QED BY <1>4, <1>5, <1>6

LEMMA InitFeed == Init => FeedTypes /\ LoadTypes
<1> SUFFICES ASSUME Init PROVE FeedTypes /\ LoadTypes
  OBVIOUS
<1>1. FeedTypes
  <2>1. <<>> \in Following
    BY DEF Following
  <2>2. feed \in [status : Statuses, items : GoodItems] /\ lost \in BOOLEAN
    BY NothingIsGood DEF Init, Statuses
  <2>3. seen \subseteq Publications /\ IsFiniteSet(seen) /\ \A p \in seen : p.public
    BY FS_EmptySet DEF Init
  <2>4. following = <<>> /\ cache = None /\ current = None
    BY DEF Init
  <2> QED BY <2>1, <2>2, <2>3, <2>4 DEF FeedTypes
<1>2. LoadTypes
  <2>1. run \in [Runs -> Loads]
    <3>1. Resting \in Loads
      BY RestingIsLoad
    <3> HIDE DEF Loads
    <3> QED BY <3>1 DEF Init
  <2>2. eligible \in [Runs -> SUBSET Creators]
    BY DEF Init
  <2>3. \A r \in Runs : run[r].step = "idle"
    BY DEF Init, Resting
  <2> QED BY <2>1, <2>2, <2>3 DEF LoadTypes, OfflineOf
<1> QED BY <1>1, <1>2

\* A step of one load.
LEMMA LoadMoves ==
  ASSUME LoadTypes, NEW r \in Runs, NEW load \in Loads, run' = [run EXCEPT ![r] = load],
         NEW E \in SUBSET Creators, eligible' = [eligible EXCEPT ![r] = E],
         UNCHANGED following,
         load.step \in {"o_cache", "o_follow"} => Range(following) \subseteq E,
         load.step = "o_show" =>
           \A i \in DOMAIN load.saved.items : load.saved.items[i].creator \in E
  PROVE  LoadTypes'
<1>1. run' \in [Runs -> Loads] /\ eligible' \in [Runs -> SUBSET Creators]
  BY DEF LoadTypes
<1>2. ASSUME NEW s \in Runs PROVE OfflineOf(s)'
  <2>1. CASE s = r
    <3>1. run'[s] = load /\ eligible'[s] = E
      BY <2>1 DEF LoadTypes
    <3> QED BY <3>1 DEF OfflineOf
  <2>2. CASE s # r
    <3>1. run'[s] = run[s] /\ eligible'[s] = eligible[s]
      BY <2>2 DEF LoadTypes
    <3> QED BY <3>1 DEF LoadTypes, OfflineOf
  <2> QED BY <2>1, <2>2
<1> QED BY <1>1, <1>2 DEF LoadTypes

\* A step that leaves the load on line or ends it.
LEMMA LoadStays ==
  ASSUME LoadTypes, NEW r \in Runs, NEW load \in Loads, run' = [run EXCEPT ![r] = load],
         load.step \notin {"o_cache", "o_follow", "o_show"},
         eligible' = eligible \/ eligible' = [eligible EXCEPT ![r] = {}],
         UNCHANGED following
  PROVE  LoadTypes'
<1>1. eligible[r] \in SUBSET Creators /\ eligible = [eligible EXCEPT ![r] = eligible[r]]
  BY DEF LoadTypes
<1> QED BY <1>1, LoadMoves

LEMMA FollowingIs ==
  ASSUME FeedTypes PROVE Range(following) \subseteq Creators /\ following \in Seq(Creators)
  BY DEF FeedTypes, Following, Range

LEMMA OfflineKeeps ==
  ASSUME FeedTypes, LoadTypes, NEW r \in Runs, NEW from, GoOffline(r, from),
         UNCHANGED following
  PROVE  LoadTypes'
<1> DEFINE load == [Resting EXCEPT !.step = "o_cache"]
<1>1. load \in Loads /\ load.step = "o_cache"
  BY RestingIsLoad DEF Resting
<1>2. run' = [run EXCEPT ![r] = load] /\ eligible' = [eligible EXCEPT ![r] = Range(following)]
  BY DEF GoOffline
<1> HIDE DEF load
<1> QED BY <1>1, <1>2, FollowingIs, LoadMoves

LEMMA EndLoadKeeps ==
  ASSUME LoadTypes, NEW r \in Runs, EndLoad(r), UNCHANGED following PROVE LoadTypes'
<1>1. Resting \in Loads /\ Resting.step = "idle"
  BY RestingIsLoad DEF Resting
<1> QED BY <1>1, LoadStays DEF EndLoad

LEMMA StepKeeps ==
  ASSUME LoadTypes, NEW r \in Runs, NEW to \in {"c_write", "show"},
         run[r].step \in {"hydrate", "c_read", "c_write", "show"},
         run' = [run EXCEPT ![r].step = to], UNCHANGED <<following, eligible>>
  PROVE  LoadTypes'
<1> DEFINE load == [run[r] EXCEPT !.step = to]
<1>1. run[r] \in Loads
  BY DEF LoadTypes
<1>2. load \in Loads /\ load.step = to
  BY <1>1 DEF Loads
<1>3. run' = [run EXCEPT ![r] = load]
  OBVIOUS
<1> HIDE DEF load
<1> QED BY <1>2, <1>3, LoadStays

LEMMA LoadKeeps ==
  ASSUME FeedTypes, LoadTypes, NEW r \in Runs, StartLoad(r) PROVE LoadTypes'
<1>1. UNCHANGED following
  BY DEF StartLoad
<1>2. CASE GoOffline(r, "idle")
  BY <1>1, <1>2, OfflineKeeps
<1>3. ASSUME NEW t \in Time, run' = [run EXCEPT ![r] = Hydrating(t, following)],
             UNCHANGED eligible
      PROVE  LoadTypes'
  <2>1. Hydrating(t, following) \in Loads /\ Hydrating(t, following).step = "hydrate"
    BY RestingIsLoad, FollowingIs DEF Hydrating
  <2> QED BY <1>1, <1>3, <2>1, LoadStays
<1> QED BY <1>2, <1>3 DEF StartLoad

\* The selected creators are finitely many.
LEMMA SelectedAre ==
  ASSUME LoadTypes, NEW r \in Runs
  PROVE  IsFiniteSet(Selected(r)) /\ Selected(r) \subseteq Creators
<1> DEFINE record == run[r].record
           D == {k \in DOMAIN record : k <= CreatorLimit}
           f == [i \in D |-> record[i]]
<1>1. record \in Seq(Creators) /\ DOMAIN record = 1..Len(record) /\ Len(record) \in Nat
  BY DEF LoadTypes, Loads
<1>2. f \in Surjection(D, Selected(r))
  BY DEF Surjection, Selected
<1> HIDE DEF record
<1>3. D \in SUBSET (1..Len(record))
  BY <1>1
<1> HIDE DEF f, D
<1>4. IsFiniteSet(D)
  <2>1. IsFiniteSet(1..Len(record))
    BY <1>1, FS_Interval
  <2> QED BY <1>3, <2>1, FS_Subset
<1>5. IsFiniteSet(Selected(r))
  BY <1>2, <1>4, FS_Surjection
<1>6. Selected(r) \subseteq Creators
  BY <1>1 DEF Selected, record
<1> QED BY <1>5, <1>6

LEMMA HydratedKeeps ==
  ASSUME FeedTypes, LoadTypes, NEW r \in Runs, Hydrated(r) PROVE LoadTypes'
<1> DEFINE ok(answers) == {c \in Selected(r) : answers[c] \in Pages[c]
                                              /\ Acceptable(c, answers[c])}
<1>1. run[r].step = "hydrate" /\ UNCHANGED following
  BY DEF Hydrated
<1>2. run[r] \in Loads /\ run[r].at \in Time
  BY <1>1 DEF LoadTypes, Loads
<1>3. PICK answers \in [Selected(r) -> UNION {Pages[c] : c \in Creators} \cup {None}] :
        \/ /\ ok(answers) # {}
           /\ run' = [run EXCEPT ![r].step = "c_read",
                                 ![r].pages = [c \in ok(answers) |-> answers[c]]]
           /\ UNCHANGED eligible
        \/ Step(r, "hydrate", "show") /\ UNCHANGED eligible
        \/ GoOffline(r, "hydrate")
        \/ EndLoad(r)
  <2>1. PICK answers \in [Selected(r) -> UNION {Pages[c] : c \in Creators} \cup {None}] :
          IF ok(answers) # {}
          THEN /\ run' = [run EXCEPT ![r].step = "c_read",
                                     ![r].pages = [c \in ok(answers) |-> answers[c]]]
               /\ UNCHANGED eligible
          ELSE IF Selected(r) = {} THEN Step(r, "hydrate", "show") /\ UNCHANGED eligible
          ELSE IF r = current THEN GoOffline(r, "hydrate") ELSE EndLoad(r)
    BY Zenon DEF Hydrated
  <2> HIDE DEF ok
  <2> QED BY <2>1, Zenon
<1>4. CASE Step(r, "hydrate", "show") /\ UNCHANGED eligible
  BY <1>1, <1>4, StepKeeps DEF Step
<1>5. CASE GoOffline(r, "hydrate")
  BY <1>1, <1>5, OfflineKeeps
<1>6. CASE EndLoad(r)
  BY <1>1, <1>6, EndLoadKeeps
<1>7. CASE /\ run' = [run EXCEPT ![r].step = "c_read",
                                 ![r].pages = [c \in ok(answers) |-> answers[c]]]
           /\ UNCHANGED eligible
  <2> DEFINE D == ok(answers)
             pages == [c \in D |-> answers[c]]
             load == [run[r] EXCEPT !.step = "c_read", !.pages = pages]
  <2>1. D \in SUBSET Selected(r) /\ IsFiniteSet(D) /\ D \subseteq Creators
    BY SelectedAre, FS_Subset
  <2>2. \A c \in D : answers[c] \in Pages[c] /\ Acceptable(c, answers[c])
    OBVIOUS
  <2> HIDE DEF D
  <2>3. pages \in [D -> UNION {Pages[c] : c \in Creators}] /\ DOMAIN pages = D
    BY <2>1, <2>2
  <2>4. pages \in GoodPages
    BY <2>1, <2>2, <2>3 DEF GoodPages
  <2>5. run' = [run EXCEPT ![r] = load]
    BY <1>7 DEF LoadTypes, D
  <2> HIDE DEF pages
  <2> DEFINE new == load
  <2>6. new = load
    OBVIOUS
  <2> HIDE DEF new
  <2>7. new \in Loads /\ new.step = "c_read"
    BY <1>2, <2>4, <2>6 DEF Loads
  <2> QED BY <1>1, <1>7, <2>5, <2>6, <2>7, LoadStays
<1> QED BY <1>3, <1>4, <1>5, <1>6, <1>7

\* A load that reads the cache keeps what it read.
LEMMA SavedKeeps ==
  ASSUME LoadTypes, NEW r \in Runs, NEW load \in Loads,
         load.step \in {"c_write", "o_follow", "o_show"},
         load.step = "o_follow" => run[r].step = "o_cache",
         load.step = "o_show" =>
           \A i \in DOMAIN load.saved.items : load.saved.items[i].creator \in eligible[r],
         run' = [run EXCEPT ![r] = load], UNCHANGED <<following, eligible>>
  PROVE  LoadTypes'
<1>1. /\ OfflineOf(r) /\ eligible[r] \in SUBSET Creators
      /\ eligible' = [eligible EXCEPT ![r] = eligible[r]]
  BY DEF LoadTypes
<1>2. load.step \in {"o_cache", "o_follow"} => Range(following) \subseteq eligible[r]
  BY <1>1 DEF OfflineOf
<1> QED BY <1>1, <1>2, LoadMoves

LEMMA OfflineEndKeeps ==
  ASSUME LoadTypes, NEW r \in Runs, NEW status, NEW items, OfflineEnd(r, status, items),
         UNCHANGED following
  PROVE  LoadTypes'
  BY EndLoadKeeps DEF OfflineEnd

LEMMA RunStepKeepsLoads ==
  ASSUME FeedTypes, LoadTypes, NEW r \in Runs, RunStep(r) PROVE LoadTypes'
<1>1. CASE Hydrated(r)
  BY <1>1, HydratedKeeps
<1>2. CASE ReadFails(r)
  BY <1>2, OfflineKeeps DEF ReadFails
<1>3. CASE ReadCache(r)
  <2>1. UNCHANGED <<following, eligible>>
    BY <1>3 DEF ReadCache
  <2>2. CASE run[r].step = "c_read" /\ run' = [run EXCEPT ![r].step = "c_write", ![r].saved = cache]
    <3> DEFINE load == [run[r] EXCEPT !.step = "c_write", !.saved = cache]
    <3>1. run' = [run EXCEPT ![r] = load]
      BY <2>2 DEF LoadTypes
    <3>2. cache \in Caches \cup {None} /\ run[r] \in Loads
      BY DEF FeedTypes, LoadTypes
    <3> DEFINE new == load
    <3>3. new = load
      OBVIOUS
    <3> HIDE DEF new
    <3>4. new \in Loads /\ new.step = "c_write"
      BY <2>2, <3>2, <3>3 DEF Loads
    <3>5. run' = [run EXCEPT ![r] = new] /\ run[r].step = "c_read"
      BY <2>1, <2>2, <3>1, <3>3
    <3> QED BY <2>1, <2>2, <3>4, <3>5, SavedKeeps
  <2>3. CASE Step(r, "c_read", "show")
    BY <2>1, <2>3, StepKeeps DEF Step
  <2> QED BY <1>3, <2>2, <2>3 DEF ReadCache
<1>4. CASE WriteCache(r)
  BY <1>4, StepKeeps DEF WriteCache, Step
<1>5. CASE WriteCacheFails(r)
  BY <1>5, StepKeeps DEF WriteCacheFails, Step
<1>6. CASE Show(r)
  BY <1>6, EndLoadKeeps DEF Show
<1>7. CASE ReadOfflineCache(r)
  <2>1. UNCHANGED following /\ run[r].step = "o_cache"
    BY <1>7 DEF ReadOfflineCache
  <2>2. CASE /\ cache # None
             /\ run' = [run EXCEPT ![r].step = "o_follow", ![r].saved = cache]
             /\ UNCHANGED <<feed, eligible>>
    <3> DEFINE load == [run[r] EXCEPT !.step = "o_follow", !.saved = cache]
    <3>1. run' = [run EXCEPT ![r] = load]
      BY <2>2 DEF LoadTypes
    <3>2. cache \in Caches \cup {None} /\ run[r] \in Loads
      BY DEF FeedTypes, LoadTypes
    <3> DEFINE new == load
    <3>3. new = load
      OBVIOUS
    <3> HIDE DEF new
    <3>4. new \in Loads /\ new.step = "o_follow"
      BY <2>2, <3>2, <3>3 DEF Loads
    <3>5. run' = [run EXCEPT ![r] = new] /\ run[r].step = "o_cache"
      BY <2>1, <2>2, <3>1, <3>3
    <3> QED BY <2>1, <2>2, <3>4, <3>5, SavedKeeps
  <2>3. CASE OfflineEnd(r, "offline-empty", <<>>) \/ OfflineEnd(r, "error", <<>>)
    BY <2>1, <2>3, OfflineEndKeeps
  <2> QED BY <1>7, <2>2, <2>3 DEF ReadOfflineCache
<1>8. CASE ReadOfflineFollowing(r)
  <2>1. UNCHANGED following /\ run[r].step = "o_follow"
    BY <1>8 DEF ReadOfflineFollowing
  <2> DEFINE old == run[r].saved
             items == Visible(old.items, Range(following))
  <2>2. CASE /\ run' = [run EXCEPT ![r].step = "o_show", ![r].saved.items = items]
             /\ UNCHANGED <<feed, eligible>>
    <3>1. run[r] \in Loads /\ OfflineOf(r) /\ old \in Caches
      BY <2>1 DEF LoadTypes, Loads
    <3>2. /\ items \in GoodItems
          /\ \A i \in DOMAIN items : items[i].creator \in Range(following)
      BY <3>1, VisibleKeeps DEF Caches
    <3> HIDE DEF items
    <3> DEFINE saved == [items |-> items, at |-> old.at]
    <3>3. saved \in Caches /\ saved.items = items
      BY <3>1, <3>2 DEF Caches
    <3>4. [old EXCEPT !.items = items] = saved
      BY <3>1 DEF Caches
    <3> DEFINE load == [run[r] EXCEPT !.step = "o_show", !.saved = saved]
    <3>5. run' = [run EXCEPT ![r] = load]
      BY <2>2, <3>1, <3>4 DEF LoadTypes, Loads
    <3>6. \A i \in DOMAIN saved.items : saved.items[i].creator \in eligible[r]
      BY <2>1, <3>1, <3>2, <3>3 DEF OfflineOf
    <3>7. saved # None
      BY <3>3, CachesAreNotNone
    <3> HIDE DEF saved
    <3> DEFINE new == load
    <3>8. new = load
      OBVIOUS
    <3> HIDE DEF new
    <3>9. new \in Loads /\ new.step = "o_show" /\ new.saved = saved
      BY <3>1, <3>3, <3>7, <3>8 DEF Loads
    <3>10. run' = [run EXCEPT ![r] = new] /\ UNCHANGED <<following, eligible>>
      BY <2>1, <2>2, <3>5, <3>8
    <3> QED BY <3>6, <3>9, <3>10, SavedKeeps
  <2>3. CASE OfflineEnd(r, "error", <<>>)
    BY <2>1, <2>3, OfflineEndKeeps
  <2> QED BY <1>8, <2>2, <2>3 DEF ReadOfflineFollowing
<1>9. CASE ShowOffline(r)
  BY <1>9, OfflineEndKeeps DEF ShowOffline
<1> QED BY <1>1, <1>2, <1>3, <1>4, <1>5, <1>6, <1>7, <1>8, <1>9 DEF RunStep

-----------------------------------------------------------------------------
(* The invariant of what is stored and shown.                              *)

\* The sequence without its k-th element.
LEMMA Removed ==
  ASSUME NEW S, NEW seq \in Seq(S), NEW k \in 1..Len(seq)
  PROVE  /\ RemoveAt(seq, k) \in Seq(S) /\ Len(RemoveAt(seq, k)) = Len(seq) - 1
         /\ \A i \in 1..(Len(seq) - 1) :
               RemoveAt(seq, k)[i] = IF i < k THEN seq[i] ELSE seq[i + 1]
<1> DEFINE before == SubSeq(seq, 1, k - 1)
           after == SubSeq(seq, k + 1, Len(seq))
<1>1. /\ before \in Seq(S) /\ Len(before) = k - 1
      /\ \A i \in 1..(k - 1) : before[i] = seq[i]
  BY SubSeqProperties
<1>2. /\ after \in Seq(S) /\ Len(after) = Len(seq) - k
      /\ \A i \in 1..(Len(seq) - k) : after[i] = seq[k + i]
  BY SubSeqProperties
<1>3. RemoveAt(seq, k) = before \o after
  BY DEF RemoveAt
<1> HIDE DEF before, after
<1>4. /\ before \o after \in Seq(S) /\ Len(before \o after) = Len(before) + Len(after)
      /\ \A i \in 1..(Len(before) + Len(after)) :
            (before \o after)[i] = IF i <= Len(before) THEN before[i]
                                   ELSE after[i - Len(before)]
  <2>1. before \in Seq(S) /\ after \in Seq(S)
    BY <1>1, <1>2
  <2> QED BY ONLY <2>1, ConcatProperties
<1>5. Len(before) = k - 1 /\ Len(before) + Len(after) = Len(seq) - 1 /\ Len(seq) \in Nat
  BY <1>1, <1>2
<1>6. ASSUME NEW i \in 1..(Len(seq) - 1)
      PROVE  (before \o after)[i] = IF i < k THEN seq[i] ELSE seq[i + 1]
  <2>1. CASE i < k
    BY <1>1, <1>4, <1>5, <2>1
  <2>2. CASE i >= k
    <3>1. i - (k - 1) \in 1..(Len(seq) - k) /\ ~(i <= k - 1)
      BY <1>5, <2>2
    <3>2. (before \o after)[i] = after[i - (k - 1)]
      BY <1>4, <1>5, <3>1
    <3>3. after[i - (k - 1)] = seq[k + (i - (k - 1))] /\ k + (i - (k - 1)) = i + 1
      BY <1>2, <1>5, <3>1
    <3> QED BY <2>2, <3>2, <3>3
  <2> QED BY <1>5, <2>1, <2>2
<1> QED BY <1>3, <1>4, <1>5, <1>6

\* Following one more, or one fewer.
LEMMA FollowAdds ==
  ASSUME NEW f \in Following, NEW c \in Creators, c \notin Range(f)
  PROVE  Append(f, c) \in Following /\ Range(Append(f, c)) = Range(f) \cup {c}
<1> DEFINE n == Len(f)
           new == Append(f, c)
<1>1. /\ f \in Seq(Creators) /\ n \in Nat /\ DOMAIN f = 1..n
      /\ \A i, j \in 1..n : f[i] = f[j] => i = j
      /\ \A i \in 1..n : f[i] # c
  BY DEF Following, Range
<1>2. /\ new \in Seq(Creators) /\ DOMAIN new = 1..(n + 1) /\ new[n + 1] = c
      /\ \A i \in 1..n : new[i] = f[i]
  BY <1>1
<1> HIDE DEF new, n
<1>3. ASSUME NEW i \in 1..(n + 1), NEW j \in 1..(n + 1), new[i] = new[j] PROVE i = j
  <2>1. CASE i \in 1..n /\ j \in 1..n
    BY <1>1, <1>2, <1>3, <2>1
  <2>2. CASE i = n + 1 \/ j = n + 1
    BY <1>1, <1>2, <1>3, <2>2
  <2> QED BY <1>1, <2>1, <2>2
<1>4. new \in Following
  BY <1>2, <1>3 DEF Following
<1>5. Range(new) = Range(f) \cup {c}
  <2>1. \A i \in 1..(n + 1) : i = n + 1 \/ i \in 1..n
    BY <1>1
  <2>2. n + 1 \in 1..(n + 1) /\ \A i \in 1..n : i \in 1..(n + 1)
    BY <1>1
  <2> QED BY <1>1, <1>2, <2>1, <2>2 DEF Range
<1> QED BY <1>4, <1>5 DEF new

LEMMA UnfollowRemoves ==
  ASSUME NEW f \in Following, NEW c \in Range(f)
  PROVE  LET new == RemoveAt(f, CHOOSE i \in DOMAIN f : f[i] = c)
         IN  new \in Following /\ Range(new) \subseteq Range(f)
<1> DEFINE k == CHOOSE i \in DOMAIN f : f[i] = c
           n == Len(f)
           new == RemoveAt(f, k)
           at(i) == IF i < k THEN i ELSE i + 1
<1>1. /\ f \in Seq(Creators) /\ n \in Nat /\ DOMAIN f = 1..n
      /\ \A i, j \in 1..n : f[i] = f[j] => i = j
  BY DEF Following
<1>2. k \in 1..n
  BY <1>1 DEF Range
<1> HIDE DEF k
<1>3. /\ new \in Seq(Creators) /\ Len(new) = n - 1
      /\ \A i \in 1..(n - 1) : new[i] = f[at(i)] /\ at(i) \in 1..n
  <2>1. /\ new \in Seq(Creators) /\ Len(new) = n - 1
        /\ \A i \in 1..(n - 1) : new[i] = IF i < k THEN f[i] ELSE f[i + 1]
    <3>1. f \in Seq(Creators) /\ k \in 1..Len(f) /\ n = Len(f)
      BY <1>1, <1>2
    <3> HIDE DEF n
    <3> QED BY <3>1, Removed
  <2> HIDE DEF new
  <2> QED BY <1>1, <1>2, <2>1
<1>4. DOMAIN new = 1..(n - 1)
  BY <1>3, LenProperties
<1>5. \A i, j \in 1..(n - 1) : at(i) = at(j) => i = j
  BY <1>1, <1>2
<1> HIDE DEF new, n, at
<1>6. new \in Following
  BY <1>1, <1>3, <1>4, <1>5 DEF Following
<1>7. Range(new) \subseteq Range(f)
  BY <1>1, <1>3, <1>4 DEF Range
<1> QED BY <1>6, <1>7 DEF new, k

LEMMA FollowKeeps ==
  ASSUME FeedTypes, LoadTypes, NEW c \in Creators, Follow(c) \/ Unfollow(c)
  PROVE  FeedTypes' /\ LoadTypes'
<1>1. CASE Follow(c)
  <2>1. /\ c \notin Range(following) /\ following' = Append(following, c)
        /\ eligible' = [r \in Runs |-> IF run[r].step \in {"o_cache", "o_follow"}
                                       THEN eligible[r] \cup {c} ELSE eligible[r]]
        /\ UNCHANGED <<cache, run, current, feed, seen, lost>>
    BY <1>1 DEF Follow
  <2>2. following' \in Following /\ Range(following') = Range(following) \cup {c}
    BY <2>1, FollowAdds DEF FeedTypes
  <2>3. FeedTypes'
    BY <2>1, <2>2 DEF FeedTypes
  <2>4. eligible' \in [Runs -> SUBSET Creators]
    BY <2>1 DEF LoadTypes
  <2>5. \A r \in Runs : OfflineOf(r)'
    BY <2>1, <2>2 DEF LoadTypes, OfflineOf
  <2> QED BY <2>1, <2>3, <2>4, <2>5 DEF LoadTypes
<1>2. CASE Unfollow(c)
  <2>1. /\ c \in Range(following)
        /\ following' = RemoveAt(following, CHOOSE i \in DOMAIN following : following[i] = c)
        /\ UNCHANGED <<cache, run, current, feed, seen, lost, eligible>>
    BY <1>2 DEF Unfollow
  <2>2. following' \in Following /\ Range(following') \subseteq Range(following)
    BY <2>1, UnfollowRemoves DEF FeedTypes
  <2>3. FeedTypes'
    BY <2>1, <2>2 DEF FeedTypes
  <2>4. \A r \in Runs : OfflineOf(r)'
    BY <2>1, <2>2 DEF LoadTypes, OfflineOf
  <2> QED BY <2>1, <2>3, <2>4 DEF LoadTypes
<1> QED BY <1>1, <1>2

LEMMA WrittenIs ==
  ASSUME LoadTypes, NEW r \in Runs, run[r].step = "c_write"
  PROVE  /\ NextCache(r) \in Caches
         /\ Compose(run[r].pages) \in GoodItems
         /\ Range(Compose(run[r].pages)) \subseteq Publications
         /\ run[r].saved \in Caches \cup {None}
<1>1. run[r] \in Loads /\ run[r].at \in Time
  BY DEF LoadTypes, Loads
<1>2. run[r].saved \in Caches \cup {None} /\ run[r].pages \in GoodPages
  BY <1>1 DEF Loads
<1>3. /\ Compose(run[r].pages) \in GoodItems
      /\ Range(Compose(run[r].pages)) \subseteq Publications
  BY <1>2, ComposeIs
<1> DEFINE items == IF run[r].saved = None THEN <<>> ELSE run[r].saved.items
<1>4. items \in GoodItems
  BY <1>2, NothingIsGood DEF Caches
<1> HIDE DEF items
<1>5. Merge(items, Compose(run[r].pages)) \in GoodItems
  BY <1>3, <1>4, MergeIs
<1>6. NextCache(r) = [items |-> Merge(items, Compose(run[r].pages)), at |-> run[r].at]
  BY DEF NextCache, items
<1> QED BY <1>1, <1>2, <1>3, <1>5, <1>6 DEF Caches

\* What the page shows is of the type.
LEMMA FeedShows ==
  ASSUME FeedTypes, NEW status \in Statuses, NEW items \in GoodItems, NEW live \in BOOLEAN,
         feed' = IF live THEN [status |-> status, items |-> items] ELSE feed,
         UNCHANGED <<following, cache, current, seen, lost>>
  PROVE  FeedTypes'
<1>1. feed' \in [status : Statuses, items : GoodItems]
  BY DEF FeedTypes
<1> QED BY <1>1 DEF FeedTypes

LEMMA RunStepKeepsFeed ==
  ASSUME FeedTypes, LoadTypes, NEW r \in Runs, RunStep(r) PROVE FeedTypes'
<1>1. CASE Hydrated(r) \/ ReadFails(r) \/ ReadCache(r) \/ WriteCacheFails(r)
  <2>1. UNCHANGED <<following, cache, current, feed, seen, lost>>
    BY <1>1 DEF Hydrated, ReadFails, ReadCache, WriteCacheFails
  <2> QED BY <2>1 DEF FeedTypes
<1>2. CASE WriteCache(r)
  <2>1. /\ run[r].step = "c_write" /\ cache' = NextCache(r)
        /\ lost' = (lost \/ cache # run[r].saved)
        /\ seen' = IF lost' THEN {} ELSE seen \cup Range(Compose(run[r].pages))
        /\ UNCHANGED <<following, current, feed>>
    BY <1>2 DEF WriteCache, Step
  <2>2. /\ NextCache(r) \in Caches /\ Compose(run[r].pages) \in GoodItems
        /\ Range(Compose(run[r].pages)) \subseteq Publications
    BY <2>1, WrittenIs
  <2>3. Shareable(Range(Compose(run[r].pages)))
    BY <2>2, ItemsAre
  <2>4. IsFiniteSet(seen \cup Range(Compose(run[r].pages)))
    BY <2>3, FS_Union DEF FeedTypes, Shareable, Sortable
  <2>5. \A p \in seen \cup Range(Compose(run[r].pages)) : p.public
    BY <2>3 DEF FeedTypes, Shareable
  <2>6. seen' \subseteq Publications /\ IsFiniteSet(seen') /\ \A p \in seen' : p.public
    BY <2>1, <2>2, <2>4, <2>5, FS_EmptySet DEF FeedTypes
  <2>7. lost' \in BOOLEAN
    BY <2>1
  <2> QED BY <2>1, <2>2, <2>6, <2>7 DEF FeedTypes
<1>3. CASE Show(r)
  <2>1. /\ feed' = IF r = current
                   THEN [status |-> Outcome(r), items |-> Compose(run[r].pages)] ELSE feed
        /\ UNCHANGED <<following, cache, current, seen, lost>>
    BY <1>3 DEF Show
  <2>2. Outcome(r) \in Statuses
    BY DEF Outcome, Statuses
  <2>3. Compose(run[r].pages) \in GoodItems
    BY ComposeIs DEF LoadTypes, Loads
  <2> QED BY <2>1, <2>2, <2>3, FeedShows
<1>4. ASSUME NEW status \in Statuses, NEW items \in GoodItems,
             OfflineEnd(r, status, items),
             UNCHANGED <<following, cache, current, seen, lost>>
      PROVE  FeedTypes'
  BY <1>4, FeedShows DEF OfflineEnd
<1>5. {"offline-empty", "stale-offline", "error"} \subseteq Statuses /\ <<>> \in GoodItems
  BY NothingIsGood DEF Statuses
<1>6. CASE ReadOfflineCache(r)
  <2>1. UNCHANGED <<following, cache, current, seen, lost>>
    BY <1>6 DEF ReadOfflineCache
  <2>2. CASE UNCHANGED feed
    BY <2>1, <2>2 DEF FeedTypes
  <2>3. CASE OfflineEnd(r, "offline-empty", <<>>) \/ OfflineEnd(r, "error", <<>>)
    BY <1>4, <1>5, <2>1, <2>3
  <2> QED BY <1>6, <2>2, <2>3 DEF ReadOfflineCache
<1>7. CASE ReadOfflineFollowing(r)
  <2>1. UNCHANGED <<following, cache, current, seen, lost>>
    BY <1>7 DEF ReadOfflineFollowing
  <2>2. CASE UNCHANGED feed
    BY <2>1, <2>2 DEF FeedTypes
  <2>3. CASE OfflineEnd(r, "error", <<>>)
    BY <1>4, <1>5, <2>1, <2>3
  <2> QED BY <1>7, <2>2, <2>3 DEF ReadOfflineFollowing
<1>8. CASE ShowOffline(r)
  <2> DEFINE items == run[r].saved.items
             status == IF items = <<>> THEN "offline-empty" ELSE "stale-offline"
  <2>1. /\ run[r].step = "o_show" /\ OfflineEnd(r, status, items)
        /\ UNCHANGED <<following, cache, current, seen, lost>>
    BY <1>8 DEF ShowOffline
  <2>2. items \in GoodItems
    BY <2>1 DEF LoadTypes, Loads, Caches
  <2>3. status \in Statuses
    BY <1>5
  <2> HIDE DEF items, status
  <2> QED BY <1>4, <2>1, <2>2, <2>3
<1> QED BY <1>1, <1>2, <1>3, <1>6, <1>7, <1>8 DEF RunStep

FeedSafe == FeedTypes /\ LoadTypes

LEMMA FeedStep == FeedSafe /\ [Next]_vars => FeedSafe'
<1> SUFFICES ASSUME FeedSafe, [Next]_vars PROVE FeedSafe'
  OBVIOUS
<1>1. FeedTypes /\ LoadTypes
  BY DEF FeedSafe
<1>2. ASSUME NEW c \in Creators, Follow(c) \/ Unfollow(c) PROVE FeedSafe'
  BY <1>1, <1>2, FollowKeeps DEF FeedSafe
<1>3. CASE LeaveTab
  <2>1. FeedTypes'
    BY <1>1, <1>3 DEF LeaveTab, FeedTypes
  <2>2. LoadTypes'
    BY <1>1, <1>3 DEF LeaveTab, LoadTypes, OfflineOf
  <2> QED BY <2>1, <2>2 DEF FeedSafe
<1>4. ASSUME NEW r \in Runs, StartLoad(r) PROVE FeedSafe'
  <2>1. /\ current' = r /\ feed' = [feed EXCEPT !.status = "loading"]
        /\ UNCHANGED <<following, cache, seen, lost>>
    BY <1>4 DEF StartLoad
  <2>2. FeedTypes'
    BY <1>1, <2>1 DEF FeedTypes, Statuses
  <2> QED BY <1>1, <1>4, <2>2, LoadKeeps DEF FeedSafe
<1>5. ASSUME NEW r \in Runs, RunStep(r) PROVE FeedSafe'
  BY <1>1, <1>5, RunStepKeepsLoads, RunStepKeepsFeed DEF FeedSafe
<1>6. CASE UNCHANGED vars
  <2>1. FeedTypes'
    BY <1>1, <1>6 DEF vars, FeedTypes
  <2>2. LoadTypes'
    BY <1>1, <1>6 DEF vars, LoadTypes, OfflineOf
  <2> QED BY <2>1, <2>2 DEF FeedSafe
<1> QED BY <1>2, <1>3, <1>4, <1>5, <1>6 DEF Next, Load, ClientChanged

LEMMA FeedStaysSafe == Spec => []FeedSafe
<1>1. Init => FeedSafe
  BY InitFeed DEF FeedSafe
<1> QED BY <1>1, FeedStep, PTL DEF Spec

LEMMA FeedIsTyped == FeedSafe => TypeOK
<1> SUFFICES ASSUME FeedSafe PROVE TypeOK
  OBVIOUS
<1>1. /\ Range(following) \subseteq Creators
      /\ \A i, j \in DOMAIN following : following[i] = following[j] => i = j
  BY FollowingIs DEF FeedSafe, FeedTypes, Following
<1>2. cache # None => WellFormed(cache.items) /\ cache.at \in Time
  BY DEF FeedSafe, FeedTypes, Caches, GoodItems
<1>3. feed.status \in Statuses /\ WellFormed(feed.items)
  BY DEF FeedSafe, FeedTypes, GoodItems
<1> QED BY <1>1, <1>2, <1>3 DEF FeedSafe, FeedTypes, TypeOK

\* Whatever timelines answer, the cache can be read again and nothing but public
\* publications is cached or shown (localFollowingFeedCache.js, mergeItems and
\* normalizeLocalFollowingFeedCache).
THEOREM CacheStaysReadable == Spec => []TypeOK
<1> QED BY FeedStaysSafe, FeedIsTyped, PTL

-----------------------------------------------------------------------------
(* The cache.                                                              *)

\* Timelines never change a publication.
NeverChanges ==
    \A p, q \in Publications : p.public /\ q.public /\ Identity(p) = Identity(q) => p = q

CacheInv == CacheIsNewestSeen /\ (cache = None /\ ~lost => seen = {})

\* Merging a feed into the newest of what was seen gives the newest of all of it.
LEMMA MergedIsNewest ==
  ASSUME NeverChanges, FeedTypes, CacheInv, ~lost, NEW new \in GoodItems,
         Range(new) \subseteq Publications
  PROVE  Merge(IF cache = None THEN <<>> ELSE cache.items, new) =
           Cut(Chronological(seen \cup Range(new)), CacheMax)
<1> DEFINE old == IF cache = None THEN <<>> ELSE cache.items
           kept == {p \in Range(old) : \A q \in Range(new) : Identity(q) # Identity(p)}
           first == {p \in seen : Rank(seen, p) < CacheMax}
<1>1. old \in GoodItems
  BY NothingIsGood DEF FeedTypes, Caches
<1>2. Shareable(Range(new))
  BY ItemsAre
<1>3. Sortable(seen \cup Range(new))
  <2>1. IsFiniteSet(seen \cup Range(new))
    BY <1>2, FS_Union DEF FeedTypes, Shareable, Sortable
  <2>2. Publications \subseteq Publication
    BY FollowingFeedAssumption DEF Publications
  <2>3. \A p \in seen \cup Range(new) : p.public /\ p \in Publications
    BY <1>2 DEF FeedTypes, Shareable
  <2>4. \A p, q \in seen \cup Range(new) : Identity(p) = Identity(q) => p = q
    BY <2>3 DEF NeverChanges
  <2>5. seen \cup Range(new) \subseteq Publication
    BY <2>2, <2>3
  <2> QED BY <2>1, <2>4, <2>5 DEF Sortable
<1>4. Sortable(seen)
  BY <1>3, SubsetIs, seen \in SUBSET (seen \cup Range(new))
<1>5. Range(old) = first
  <2>1. CASE cache = None
    <3>1. seen = {} /\ Range(old) = {}
      BY <2>1, NothingIsGood DEF CacheInv
    <3> HIDE DEF old
    <3> QED BY <3>1
  <2>2. CASE cache # None
    <3>1. old = Cut(Chronological(seen), CacheMax)
      BY <2>2 DEF CacheInv, CacheIsNewestSeen
    <3> HIDE DEF old
    <3> QED BY <1>4, <3>1, FirstAre
  <2> QED BY <2>1, <2>2
<1> HIDE DEF old
<1>6. kept \cup Range(new) = first \cup Range(new)
  <2>1. ASSUME NEW p \in first PROVE p \in kept \cup Range(new)
    <3>1. CASE \E q \in Range(new) : Identity(q) = Identity(p)
      BY <1>3, <3>1 DEF Sortable
    <3>2. CASE \A q \in Range(new) : Identity(q) # Identity(p)
      BY <1>5, <3>2
    <3> QED BY <3>1, <3>2
  <2> QED BY <1>5, <2>1
<1>7. Merge(old, new) = Cut(Chronological(kept \cup Range(new)), CacheMax)
  BY DEF Merge
<1> HIDE DEF kept
<1>8. Cut(Chronological(first \cup Range(new)), CacheMax)
        = Cut(Chronological(seen \cup Range(new)), CacheMax)
  <2> DEFINE N == Range(new)
             U == seen \cup N
             V == first \cup N
  <2>1. /\ CacheMax \in Nat \ {0} /\ Sortable(U)
        /\ \A p : p \in U <=> p \in seen \/ p \in N
        /\ \A p : p \in V <=> (p \in seen /\ Rank(seen, p) < CacheMax) \/ p \in N
    BY <1>3, FeedDocumentsAssumption
  <2> HIDE DEF N, U, V
  <2>2. Cut(Chronological(V), CacheMax) = Cut(Chronological(U), CacheMax)
    BY <2>1, FirstOfFirst
  <2> QED BY <2>2 DEF N, U, V
<1> QED BY <1>6, <1>7, <1>8 DEF old

LEMMA CacheStep ==
  ASSUME NeverChanges, FeedSafe, CacheInv, [Next]_vars PROVE CacheInv'
<1>1. CASE UNCHANGED <<cache, seen, lost>>
  BY <1>1 DEF CacheInv, CacheIsNewestSeen
<1>2. ASSUME NEW r \in Runs, WriteCache(r) PROVE CacheInv'
  <2> DEFINE new == Compose(run[r].pages)
             old == run[r].saved
  <2>1. /\ run[r].step = "c_write" /\ cache' = NextCache(r)
        /\ lost' = (lost \/ cache # old)
        /\ seen' = IF lost' THEN {} ELSE seen \cup Range(new)
    BY <1>2 DEF WriteCache, Step
  <2>2. /\ new \in GoodItems /\ Range(new) \subseteq Publications
        /\ NextCache(r) \in Caches
    BY <2>1, WrittenIs DEF FeedSafe
  <2>3. cache' # None
    BY <2>1, <2>2, CachesAreNotNone
  <2>4. cache'.items = Merge(IF old = None THEN <<>> ELSE old.items, new)
    BY <2>1 DEF NextCache
  <2> HIDE DEF new, old
  <2>5. ASSUME ~lost' PROVE cache'.items = Cut(Chronological(seen'), CacheMax)
    <3>1. ~lost /\ cache = old /\ seen' = seen \cup Range(new)
      BY <2>1, <2>5
    <3> QED BY <2>2, <2>4, <3>1, MergedIsNewest DEF FeedSafe
  <2> QED BY <2>3, <2>5 DEF CacheInv, CacheIsNewestSeen
<1>3. ASSUME NEW r \in Runs, RunStep(r) PROVE CacheInv'
  <2>1. WriteCache(r) \/ UNCHANGED <<cache, seen, lost>>
    BY <1>3 DEF RunStep, Hydrated, ReadFails, ReadCache, WriteCacheFails, Show,
                ReadOfflineCache, ReadOfflineFollowing, ShowOffline
  <2> QED BY <1>1, <1>2, <2>1
<1>4. ASSUME NEW c \in Creators, Follow(c) \/ Unfollow(c)
      PROVE  UNCHANGED <<cache, seen, lost>>
  BY <1>4 DEF Follow, Unfollow
<1>5. ASSUME NEW r \in Runs, StartLoad(r) PROVE UNCHANGED <<cache, seen, lost>>
  BY <1>5 DEF StartLoad
<1>6. ASSUME LeaveTab \/ UNCHANGED vars PROVE UNCHANGED <<cache, seen, lost>>
  BY <1>6 DEF LeaveTab, vars
<1> QED BY <1>1, <1>3, <1>4, <1>5, <1>6 DEF Next, Load, ClientChanged

\* Until a load replaces a cache it had not read, updateLocalFollowingFeedCache
\* keeps exactly the newest publications it was ever given, however loads
\* overlap and fail, if timelines never change a publication.
THEOREM CacheIsNewest ==
  ASSUME NeverChanges PROVE Spec => []FeedInv
<1>1. Init => CacheInv
  BY DEF Init, CacheInv, CacheIsNewestSeen
<1>2. FeedSafe /\ CacheInv /\ [Next]_vars => CacheInv'
  BY CacheStep
<1>3. FeedSafe /\ CacheInv => FeedInv
  BY FeedIsTyped DEF FeedInv, CacheInv
<1> QED BY <1>1, <1>2, <1>3, FeedStaysSafe, PTL DEF Spec

-----------------------------------------------------------------------------
(* The offline projection.                                                 *)

\* Nobody who was unfollowed before a load went offline is shown by it
\* (localFollowingOffline.js, projectOfflineLocalFollowingFeedCache).
THEOREM OfflineShowsFollowed == Spec => OfflineIsFollowed
<1> DEFINE Shown(r) ==
             (run[r].step = "o_show" /\ run'[r] # run[r] /\ feed' # feed) =>
               \A i \in DOMAIN feed'.items : feed'.items[i].creator \in eligible[r]
<1>1. ASSUME FeedSafe, [Next]_vars, NEW r \in Runs, run[r].step = "o_show",
             run'[r] # run[r], feed' # feed
      PROVE  \A i \in DOMAIN feed'.items : feed'.items[i].creator \in eligible[r]
  <2>1. run \in [Runs -> Loads] /\ OfflineOf(r)
    BY <1>1 DEF FeedSafe, LoadTypes
  <2>2. ASSUME NEW s \in Runs, RunStep(s) \/ StartLoad(s) PROVE s = r
    <3>1. ASSUME s # r PROVE run'[r] = run[r]
      BY <2>1, <2>2, <3>1 DEF RunStep, Hydrated, ReadFails, ReadCache, WriteCache,
           WriteCacheFails, Show, ReadOfflineCache, ReadOfflineFollowing, ShowOffline,
           OfflineEnd, EndLoad, GoOffline, Step, StartLoad
    <3> QED BY <1>1, <3>1
  <2>3. ~(UNCHANGED vars) /\ ~LeaveTab /\ \A c \in Creators : ~Follow(c) /\ ~Unfollow(c)
    BY <1>1 DEF vars, LeaveTab, Follow, Unfollow
  <2>4. RunStep(r) \/ StartLoad(r)
    BY <1>1, <2>2, <2>3 DEF Next, Load, ClientChanged
  <2>5. ShowOffline(r)
    BY <1>1, <2>4 DEF RunStep, Hydrated, ReadFails, ReadCache, WriteCache,
         WriteCacheFails, Show, ReadOfflineCache, ReadOfflineFollowing,
         GoOffline, Step, StartLoad
  <2>6. feed'.items = run[r].saved.items
    BY <1>1, <2>5 DEF ShowOffline, OfflineEnd
  <2> QED BY <1>1, <2>1, <2>6 DEF OfflineOf
<1>2. FeedSafe /\ [Next]_vars => [\A r \in Runs : Shown(r)]_vars
  BY <1>1
<1> QED BY <1>2, FeedStaysSafe, PTL DEF Spec, OfflineIsFollowed
=============================================================================
