---------------------------- MODULE HoldService ----------------------------
(***************************************************************************)
(* The wallet and the post route behind the gateway, and the requests a    *)
(* page has on their way to them.  A request is answered once, or ends in  *)
(* an error (network, timeout) that says nothing of what became of it: it  *)
(* may have been served, and may be served later.                          *)
(*                                                                         *)
(* The services are not part of the repository.  The clients rely on this  *)
(* of them: a key known to the wallet is answered with the hold made under *)
(* it, an unknown one makes a hold when its nonce is the one expected and  *)
(* is otherwise refused with the expected nonce; the post route publishes  *)
(* once for each key.                                                      *)
(***************************************************************************)
EXTENDS Integers, FiniteSets

CONSTANTS
    MaxRequests,    \* bound: requests one behaviour sends
    Unreliable,     \* whether requests time out, fail or get lost
    FirstNonce,     \* the nonce the wallet expects at the start
    TemplateNonce   \* whether a prepare answer names the expected nonce

ASSUME HoldServiceAssumption ==
    /\ MaxRequests \in Nat /\ FirstNonce \in Nat \ {0}
    /\ Unreliable \in BOOLEAN /\ TemplateNonce \in BOOLEAN

VARIABLES
    requests,   \* requests sent so far
    sent,       \* requests on their way
    waiting,    \* requests whose answer the client still awaits
    replies,    \* the reply on its way to each served one: 0, or a nonce it names
    expected,   \* the nonce the wallet expects
    ledger,     \* the holds made
    posts       \* the posts published

network == <<requests, sent, waiting, replies>>
service == <<network, expected, ledger, posts>>

ServiceInit ==
    /\ requests = 0 /\ sent = {} /\ waiting = {} /\ replies = << >>
    /\ expected = FirstNonce /\ ledger = {} /\ posts = {}

\* Sending r, in place of the answered requests done.
Put(r, done) ==
    /\ requests < MaxRequests /\ requests' = requests + 1
    /\ sent' = sent \cup {r}
    /\ waiting' = (waiting \ done) \cup {r}
    /\ replies' = [i \in DOMAIN replies \ {d.id : d \in done} |-> replies[i]]
    /\ UNCHANGED <<expected, ledger, posts>>

\* The client stops waiting for r: it has the answer, or an error.
End(r) ==
    /\ waiting' = waiting \ {r}
    /\ replies' = [i \in DOMAIN replies \ {r.id} |-> replies[i]]
    /\ UNCHANGED <<requests, sent, expected, ledger, posts>>

Answered(r) == r \in waiting /\ r.id \in DOMAIN replies

\* An error instead of the answer, served or not.
Lost(r) == Unreliable /\ r \in waiting /\ End(r)

\* r was carried out, the reply n goes to the client if it still waits.
Replied(r, n) ==
    /\ sent' = sent \ {r}
    /\ replies' = IF r \notin waiting THEN replies
                  ELSE [i \in DOMAIN replies \cup {r.id} |->
                            IF i = r.id THEN n ELSE replies[i]]
    /\ UNCHANGED <<requests, waiting>>

ServePrepare(r) ==
    /\ r \in sent /\ r.op = "prepare"
    /\ Replied(r, IF TemplateNonce THEN expected ELSE 0)
    /\ UNCHANGED <<expected, ledger, posts>>

HoldUnder(key) == CHOOSE h \in ledger : h.key = key

ServeHold(r) ==
    /\ r \in sent /\ r.op = "hold"
    /\ IF \E h \in ledger : h.key = r.key
       THEN Replied(r, 0) /\ UNCHANGED <<expected, ledger>>
       ELSE IF r.nonce # expected
       THEN Replied(r, expected) /\ UNCHANGED <<expected, ledger>>
       ELSE /\ Replied(r, 0)
            /\ expected' = expected + 1
            /\ ledger' = ledger \cup
                 {[key |-> r.key, nonce |-> r.nonce, draft |-> r.draft]}
    /\ UNCHANGED posts

PostUnder(key) == CHOOSE p \in posts : p.key = key

ServePublish(r) ==
    /\ r \in sent /\ r.op = "publish"
    /\ Replied(r, 0)
    /\ posts' = IF \E p \in posts : p.key = r.key THEN posts
                ELSE posts \cup {[key |-> r.key, draft |-> r.draft, hold |-> r.hold]}
    /\ UNCHANGED <<expected, ledger>>

Serve(r) == ServePrepare(r) \/ ServeHold(r) \/ ServePublish(r)
=============================================================================
