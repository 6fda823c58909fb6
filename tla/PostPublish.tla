---------------------------- MODULE PostPublish ----------------------------
(***************************************************************************)
(* PostPublishFlow: the post page's panel that prepares a draft with the   *)
(* gateway, holds the ROC its answer asks for through WalletClient.hold,   *)
(* and publishes the post with the hold as proof.  Each step is a click;   *)
(* hold and publish take a second click after a review.  Answers are       *)
(* applied whenever they come: nothing tells a late one from a current one.*)
(*                                                                         *)
(* A draft is the text the panel's workflowKey is made of and the rest of  *)
(* what it publishes (content warning, language, kind), which is not.      *)
(***************************************************************************)
EXTENDS HoldService

CONSTANTS
    Texts, Warnings,    \* what a draft can consist of
    Bytes,              \* the size of each draft, which is also its price
    MaxMounts,          \* bound: times the page is opened
    WaitsForAnswers,    \* whether the user waits for one answer before going on
    NoDraft             \* nothing prepared

Draft == [text : Texts, warning : Warnings]

ASSUME PostPublishAssumption ==
    /\ Bytes \in [Draft -> Nat \ {0}] /\ MaxMounts \in Nat
    /\ WaitsForAnswers \in BOOLEAN /\ NoDraft \notin Draft

VARIABLES
    mount,          \* which opening of the page this is
    shown,          \* whether the page is open
    draft,          \* draftState.draft
    prepare,        \* prepareState: its status and the draft its answer is for
    hold,           \* holdState: its status and the key of the hold it proves
    publish,        \* publishState: its status and the key of the post it shows
    nonce,          \* holdNonce
    lastNonce,      \* the browser's stored hint: the nonce of the last hold, or 0
    holdReview, publishReview,  \* the two reviews, open or not
    published,      \* answered publications that await the wallet's balance
    opening         \* the openings of the page whose auto-open timer runs

reviews == <<holdReview, publishReview>>
afterwards == <<published, opening>>
page == <<mount, shown, draft, prepare, hold, publish, nonce, lastNonce,
          reviews, afterwards>>
postVars == <<service, page>>

Status == {"idle", "sending", "ok", "error"}

\* A key tells apart what the code writes into it.
Key == [bytes : Nat, amount : Nat, nonce : Nat, retry : Nat]
NoKey == [bytes |-> 0, amount |-> 0, nonce |-> 0, retry |-> 0]

\* A step's state, with the key of what it got; only a prepare that succeeded has a
\* draft.
StepStates == [status : Status, key : Key]
PrepareStates == [status : {"ok"}, draft : Draft]
                 \cup [status : Status \ {"ok"}, draft : {NoDraft}]

Request ==
    [id : Nat, op : {"prepare", "hold", "publish"}, mount : Nat,
     draft : Draft, nonce : Nat, key : Key, hold : Key]

PostTypeOK ==
    /\ sent \subseteq Request /\ waiting \subseteq Request
    /\ DOMAIN replies \subseteq {r.id : r \in waiting}
    /\ \A i \in DOMAIN replies : replies[i] \in Nat
    /\ ledger \subseteq [key : Key, nonce : Nat, draft : Draft]
    /\ posts \subseteq [key : Key, draft : Draft, hold : Key]
    /\ mount \in Nat \ {0} /\ shown \in BOOLEAN /\ draft \in Draft
    /\ prepare \in PrepareStates /\ hold \in StepStates /\ publish \in StepStates
    /\ nonce \in Nat \ {0} /\ lastNonce \in Nat /\ expected \in Nat \ {0}
    /\ holdReview \in BOOLEAN /\ publishReview \in BOOLEAN
    /\ published \subseteq Request /\ opening \subseteq 1..mount

IdlePrepare == [status |-> "idle", draft |-> NoDraft]
Idle == [status |-> "idle", key |-> NoKey]
Sending == [status |-> "sending", key |-> NoKey]
Error == [status |-> "error", key |-> NoKey]

ResetFlow ==
    /\ prepare' = IdlePrepare /\ hold' = Idle /\ publish' = Idle
    /\ holdReview' = FALSE /\ publishReview' = FALSE

PostInit ==
    /\ ServiceInit
    /\ mount = 1 /\ shown = TRUE /\ draft \in Draft
    /\ prepare = IdlePrepare /\ hold = Idle /\ publish = Idle
    /\ lastNonce = 0 /\ nonce = 1
    /\ holdReview = FALSE /\ publishReview = FALSE
    /\ published = {} /\ opening = {}

\* The user acts on the open page.
UserActs == shown /\ (WaitsForAnswers => waiting = {})

-----------------------------------------------------------------------------
(* The draft.                                                              *)

\* Only a change of the workflowKey resets the flow.
Edit(d) ==
    /\ UserActs /\ d # draft /\ draft' = d
    /\ IF d.text # draft.text
       THEN ResetFlow
       ELSE UNCHANGED <<prepare, hold, publish, reviews>>
    /\ UNCHANGED <<service, mount, shown, nonce, lastNonce, afterwards>>

-----------------------------------------------------------------------------
(* Step 1: prepare.                                                        *)

PrepareKey(d) == [NoKey EXCEPT !.bytes = Bytes[d]]

SendPrepare ==
    /\ UserActs /\ prepare.status # "sending"
    /\ Put([id |-> requests + 1, op |-> "prepare", mount |-> mount,
            draft |-> draft, nonce |-> 0, key |-> PrepareKey(draft),
            hold |-> NoKey], {})
    /\ prepare' = [status |-> "sending", draft |-> NoDraft]
    /\ hold' = Idle /\ publish' = Idle
    /\ holdReview' = FALSE /\ publishReview' = FALSE
    /\ UNCHANGED <<mount, shown, draft, nonce, lastNonce, afterwards>>

\* State set from an answer reaches the page only while it is still mounted.
Mounted(r) == shown /\ r.mount = mount

PrepareAnswered(r) ==
    /\ r.op = "prepare" /\ Answered(r) /\ End(r)
    /\ IF Mounted(r)
       THEN /\ prepare' = [status |-> "ok", draft |-> r.draft]
            /\ nonce' = IF replies[r.id] > 0 THEN replies[r.id] ELSE nonce
       ELSE UNCHANGED <<prepare, nonce>>
    /\ UNCHANGED <<mount, shown, draft, hold, publish, lastNonce, reviews, afterwards>>

PrepareFailed(r) ==
    /\ r.op = "prepare" /\ Lost(r)
    /\ prepare' = IF Mounted(r) THEN [status |-> "error", draft |-> NoDraft]
                  ELSE prepare
    /\ UNCHANGED <<mount, shown, draft, hold, publish, nonce, lastNonce,
                   reviews, afterwards>>

-----------------------------------------------------------------------------
(* Step 2: the hold.                                                       *)

CanHold == prepare.status = "ok" /\ hold.status # "sending"

\* The first click opens the review.
ReviewHold ==
    /\ UserActs /\ CanHold /\ ~holdReview
    /\ holdReview' = TRUE /\ publishReview' = FALSE
    /\ UNCHANGED <<service, mount, shown, draft, prepare, hold, publish, nonce,
                   lastNonce, afterwards>>

CancelHoldReview ==
    /\ UserActs /\ holdReview /\ hold.status # "sending" /\ holdReview' = FALSE
    /\ UNCHANGED <<service, mount, shown, draft, prepare, hold, publish, nonce,
                   lastNonce, publishReview, afterwards>>

\* buildHoldRequest: the amount is the prepared draft's, the rest of the key the
\* current one's.
HoldKey ==
    [bytes |-> Bytes[draft], amount |-> Bytes[prepare.draft],
     nonce |-> nonce, retry |-> 0]

\* The second click sends the hold.
SendHold ==
    /\ UserActs /\ CanHold /\ holdReview
    /\ Put([id |-> requests + 1, op |-> "hold", mount |-> mount,
            draft |-> prepare.draft, nonce |-> nonce, key |-> HoldKey,
            hold |-> NoKey], {})
    /\ hold' = Sending /\ publish' = Idle /\ publishReview' = FALSE
    /\ UNCHANGED <<mount, shown, draft, prepare, nonce, lastNonce, holdReview,
                   afterwards>>

\* The hold is made; its nonce is stored whether or not the page is still there.
HoldAnswered(r) ==
    /\ r.op = "hold" /\ Answered(r) /\ replies[r.id] = 0 /\ End(r)
    /\ lastNonce' = r.nonce
    /\ IF Mounted(r)
       THEN /\ hold' = [status |-> "ok", key |-> r.key]
            /\ holdReview' = FALSE /\ nonce' = r.nonce + 1
       ELSE UNCHANGED <<hold, holdReview, nonce>>
    /\ UNCHANGED <<mount, shown, draft, prepare, publish, publishReview, afterwards>>

\* WalletClient.hold tries again, once, when the refusal names another nonce.
HoldRetried(r) ==
    /\ r.op = "hold" /\ Answered(r) /\ r.key.retry = 0
    /\ LET n == replies[r.id] IN
       /\ n # 0 /\ n # r.nonce
       /\ Put([r EXCEPT !.id = requests + 1, !.nonce = n, !.key.retry = n], {r})
    /\ UNCHANGED page

\* A second refusal moves the nonce field to the nonce it names.
HoldRefused(r) ==
    /\ r.op = "hold" /\ Answered(r) /\ replies[r.id] # 0 /\ End(r)
    /\ r.key.retry # 0 \/ replies[r.id] = r.nonce
    /\ IF Mounted(r)
       THEN hold' = Error /\ nonce' = replies[r.id]
       ELSE UNCHANGED <<hold, nonce>>
    /\ UNCHANGED <<mount, shown, draft, prepare, publish, lastNonce, reviews,
                   afterwards>>

\* Faulty: an error moves the nonce on.
HoldFailedMovingOn(r) ==
    /\ r.op = "hold" /\ Lost(r)
    /\ IF Mounted(r) THEN hold' = Error /\ nonce' = r.nonce + 1
       ELSE UNCHANGED <<hold, nonce>>
    /\ UNCHANGED <<mount, shown, draft, prepare, publish, lastNonce,
                   reviews, afterwards>>

\* Faulty: an error leaves the page holding.
HoldFailedSilently(r) ==
    /\ r.op = "hold" /\ Lost(r)
    /\ UNCHANGED page

HoldFailed(r) ==
    /\ r.op = "hold" /\ Lost(r)
    /\ hold' = IF Mounted(r) THEN Error ELSE hold
    /\ UNCHANGED <<mount, shown, draft, prepare, publish, nonce, lastNonce,
                   reviews, afterwards>>

-----------------------------------------------------------------------------
(* Step 3: publish.                                                        *)

CanPublish == hold.status = "ok" /\ publish.status # "sending"

ReviewPublish ==
    /\ UserActs /\ CanPublish /\ ~publishReview
    /\ publishReview' = TRUE /\ holdReview' = FALSE
    /\ UNCHANGED <<service, mount, shown, draft, prepare, hold, publish, nonce,
                   lastNonce, afterwards>>

CancelPublishReview ==
    /\ UserActs /\ publishReview /\ publish.status # "sending"
    /\ publishReview' = FALSE
    /\ UNCHANGED <<service, mount, shown, draft, prepare, hold, publish, nonce,
                   lastNonce, holdReview, afterwards>>

\* Faulty: every click publishes under a key of its own.
PublishKeyFresh == [hold.key EXCEPT !.retry = 100 + requests]

\* Faulty: one key for all that one opening of the page publishes.
PublishKeyOfMount == [NoKey EXCEPT !.nonce = mount]

\* The key is the proof's, whatever is published with it.
PublishKey == hold.key

SendPublish ==
    /\ UserActs /\ CanPublish /\ publishReview
    /\ Put([id |-> requests + 1, op |-> "publish", mount |-> mount,
            draft |-> draft, nonce |-> 0, key |-> PublishKey,
            hold |-> hold.key], {})
    /\ publish' = Sending
    /\ UNCHANGED <<mount, shown, draft, prepare, hold, nonce, lastNonce, reviews,
                   afterwards>>

\* The post is shown; submitPublish goes on to await the wallet's balance.
PublishAnswered(r) ==
    /\ r.op = "publish" /\ Answered(r) /\ End(r)
    /\ published' = published \cup {r}
    /\ IF Mounted(r)
       THEN publish' = [status |-> "ok", key |-> r.key] /\ publishReview' = FALSE
       ELSE UNCHANGED <<publish, publishReview>>
    /\ UNCHANGED <<mount, shown, draft, prepare, hold, nonce, lastNonce, holdReview,
                   opening>>

\* The balance came, or did not: a timer is set that opens the post, in place of the
\* opening's earlier one, unless the post is a forum thread or has no URL.  Leaving
\* the page first does not prevent that.
BalanceRefreshed(r) ==
    /\ r \in published /\ published' = published \ {r}
    /\ opening' \in {opening, opening \cup {r.mount}}
    /\ UNCHANGED <<service, mount, shown, draft, prepare, hold, publish, nonce,
                   lastNonce, reviews>>

PublishFailed(r) ==
    /\ r.op = "publish" /\ Lost(r)
    /\ publish' = IF Mounted(r) THEN Error ELSE publish
    /\ UNCHANGED <<mount, shown, draft, prepare, hold, nonce, lastNonce, reviews,
                   afterwards>>

-----------------------------------------------------------------------------
(* The page.                                                               *)

\* Leaving clears the page's own timer, if it was set by then.
Unmount(timers) ==
    /\ shown' = FALSE /\ opening' = timers \ {mount}
    /\ ResetFlow
    /\ UNCHANGED <<service, mount, draft, nonce, lastNonce, published>>

Leave == UserActs /\ Unmount(opening)

AutoOpen ==
    \E m \in opening :
        IF shown THEN Unmount(opening \ {m})
        ELSE /\ opening' = opening \ {m}
             /\ UNCHANGED <<service, mount, shown, draft, prepare, hold, publish,
                            nonce, lastNonce, reviews, published>>

OpenPage ==
    /\ ~shown /\ mount < MaxMounts
    /\ shown' = TRUE /\ mount' = mount + 1 /\ draft' \in Draft
    /\ nonce' = lastNonce + 1
    /\ UNCHANGED <<service, prepare, hold, publish, lastNonce, reviews, afterwards>>

ServiceServes(r) == Serve(r) /\ UNCHANGED page

RequestEnds(r) ==
    \/ PrepareAnswered(r) \/ PrepareFailed(r)
    \/ HoldAnswered(r) \/ HoldRetried(r) \/ HoldRefused(r) \/ HoldFailed(r)
    \/ PublishAnswered(r) \/ PublishFailed(r)

PostNext ==
    \/ \E d \in Draft : Edit(d)
    \/ SendPrepare
    \/ ReviewHold \/ CancelHoldReview \/ SendHold
    \/ ReviewPublish \/ CancelPublishReview \/ SendPublish
    \/ Leave \/ AutoOpen \/ OpenPage
    \/ \E r \in sent : ServiceServes(r)
    \/ \E r \in waiting : RequestEnds(r)
    \/ \E r \in published : BalanceRefreshed(r)

PostSpec == PostInit /\ [][PostNext]_postVars

\* The native command and the fetch time out, so every request ends.
PostFairSpec == PostSpec /\ WF_postVars(\E r \in waiting : RequestEnds(r))

-----------------------------------------------------------------------------
(* What must hold, whatever the user does and whenever answers come.       *)

\* One hold pays for one post.
OnePostPerHold == \A p, q \in posts : p.hold = q.hold => p = q

\* A post is paid for with a hold that the wallet made.
PostsArePaid == \A p \in posts : \E h \in ledger : h.key = p.hold

\* The flow's state is well formed, and however often Publish is clicked after
\* answers were lost, edits and reopened pages, a hold pays one post and each post
\* is paid.
PostInv == PostTypeOK /\ OnePostPerHold /\ PostsArePaid

\* A publication that is answered has spent the hold it was sent with: the post it is
\* answered with was paid with that one, not with an earlier hold of the page.
AnswerIsPaidFor ==
    \A r \in waiting :
        r.op = "publish" /\ Answered(r) => PostUnder(r.key).hold = r.hold

\* No step stays "sending", also when the draft is edited, the page left or another
\* step taken meanwhile.
StepsEnd ==
    /\ prepare.status = "sending" ~> prepare.status # "sending"
    /\ hold.status = "sending" ~> hold.status # "sending"
    /\ publish.status = "sending" ~> publish.status # "sending"

-----------------------------------------------------------------------------
(* What holds under conditions the code does not enforce.                  *)

\* If the user waits for each answer, edits only what workflowKey is made of and leaves
\* the nonce and escrow fields alone (WaitsForAnswers, one warning), prepare answers
\* name no nonce (TemplateNonce = FALSE) and no nonce had to be recovered: content is
\* held for again only when the receipts of all its earlier holds have arrived.
\* Trying again after an error, after other content, or after leaving the page, never
\* holds a second time.
RetryHoldsOnce ==
    [][\A new \in ledger' \ ledger, h \in ledger :
           (h.draft = new.draft /\ \A g \in ledger : g.key.retry = 0)
               => h.nonce <= lastNonce]_postVars

-----------------------------------------------------------------------------
(* What the paid-action rules say and the code does not do.                *)

\* "A hold for one object/context must not be reusable for different bytes": a post is
\* paid for with a hold that was made for that very content.
HoldIsForContent ==
    \A p \in posts : \E h \in ledger : h.key = p.hold /\ h.draft = p.draft
=============================================================================
