--------------------------- MODULE PaymentService ---------------------------
(***************************************************************************)
(* The paid routes as a page reaches them: GatewayClient.request sends one *)
(* HTTP request, directly or through the native gateway command, and       *)
(* answers once: with the response, or with an error after a network       *)
(* failure, an error status or the timeout.  The error says nothing of     *)
(* what the service did: a request that timed out may have been served, or *)
(* may be served later.                                                    *)
(*                                                                         *)
(* The service is not part of the repository.  The clients rely on this of *)
(* it: a quote charges nothing, and a payment is charged once for each     *)
(* idempotency key.                                                        *)
(***************************************************************************)
EXTENDS Integers, FiniteSets

CONSTANTS
    MaxRequests,    \* bound: requests one behaviour sends
    Unreliable,     \* whether requests time out, fail or get lost
    None            \* no quote, no wallet

ASSUME ServiceAssumption ==
    /\ MaxRequests \in Nat
    /\ Unreliable \in BOOLEAN
    /\ None \notin Nat

VARIABLES
    sent,       \* requests on their way to the service
    served,     \* requests the service has carried out
    waiting,    \* requests whose answer the page still awaits
    charges     \* the ledger: one record for each transfer made

service == <<sent, served, waiting, charges>>

\* A request: its number, the mounted page that sent it, the quote it asks for
\* (by its number) or pays, the paying account and the idempotency key.
Request == [id : Nat, op : {"quote", "pay"}, gate : Nat,
            quote : Nat, payer : STRING, key : Nat]

ServiceTypeOK ==
    /\ sent \subseteq Request /\ served \subseteq Request
    /\ waiting \subseteq Request /\ charges \subseteq Request

ServiceInit == sent = {} /\ served = {} /\ waiting = {} /\ charges = {}

\* Every request the page has sent, whatever became of it, keeps its number.
Made == sent \cup served \cup waiting
NextId == Cardinality(Made) + 1

Send(r) ==
    /\ r.id <= MaxRequests
    /\ sent' = sent \cup {r}
    /\ waiting' = waiting \cup {r}
    /\ UNCHANGED <<served, charges>>

\* The service carries a request out, the page still waiting for it or not.
Serve(r) ==
    /\ r \in sent
    /\ sent' = sent \ {r}
    /\ served' = served \cup {r}
    /\ charges' = IF r.op = "pay" /\ \A c \in charges : c.key # r.key
                  THEN charges \cup {r} ELSE charges
    /\ UNCHANGED waiting

\* The page receives the response.
Answer(r) ==
    /\ r \in waiting \cap served
    /\ waiting' = waiting \ {r}
    /\ UNCHANGED <<sent, served, charges>>

\* The page receives an error: the timeout, a lost connection, a refusal, or
\* (for a payment) a response without any proof of the transfer.
Fail(r) ==
    /\ Unreliable
    /\ r \in waiting
    /\ waiting' = waiting \ {r}
    /\ UNCHANGED <<sent, served, charges>>

-----------------------------------------------------------------------------
(* What the requests and the ledger of a paid page keep to.                *)

\* No request is lost without a trace, and no two have one number.
RequestsDiffer ==
    /\ IsFiniteSet(Made) /\ waiting \subseteq sent \cup served
    /\ \A r \in Made : r.id \in 1..MaxRequests /\ r.id <= Cardinality(Made)
    /\ \A r, s \in Made : r.id = s.id => r = s

AskedFor(q, gate, payer) ==
    \E s \in Made : s.op = "quote" /\ s.id = q /\ s.gate = gate /\ s.payer = payer

\* A payment goes by the key of its quote, which its own page has asked for, for
\* the wallet the payment bills: although the settings may change the wallet of a
\* mounted page, whose gate then quotes again.

PaysOwnQuote ==
    \A r \in Made : /\ r.op = "quote" => r.quote = r.id
                    /\ r.op = "pay" => r.key = r.quote /\ AskedFor(r.quote, r.gate, r.payer)

\* The ledger holds one transfer for each key that was served.
OneTransferPerKey ==
    /\ charges \subseteq served
    /\ \A c \in charges : c.op = "pay"
    /\ \A c, d \in charges : c.key = d.key => c = d
    /\ \A r \in served : r.op = "pay" => \E c \in charges : c.key = r.key

ServiceInv == ServiceTypeOK /\ RequestsDiffer /\ PaysOwnQuote /\ OneTransferPerKey

\* The ledger by quote: how often each was charged.
OfQuote(ledger, q) == {c \in ledger : c.quote = q}
Transfers == [q \in 1..MaxRequests |-> Cardinality(OfQuote(charges, q))]
=============================================================================
