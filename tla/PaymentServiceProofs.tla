------------------------ MODULE PaymentServiceProofs ------------------------
(***************************************************************************)
(* Lemmas about the paid routes and the requests on their way to them, for *)
(* the proofs about the pages that use them: what each of Send, Serve,     *)
(* Answer and Fail keeps, and what a served payment leaves in the ledger.  *)
(***************************************************************************)
EXTENDS PaymentService, FiniteSetTheorems, TLAPS

USE ServiceAssumption
USE DEF ServiceInv, ServiceTypeOK, RequestsDiffer, PaysOwnQuote, OneTransferPerKey,
        AskedFor

LEMMA InitService == ServiceInit => ServiceInv
  BY FS_EmptySet DEF ServiceInit, Made

(* The next number is one that no request has. *)
LEMMA NextIdIsNew ==
  ASSUME ServiceInv PROVE NextId \in Nat \ {0} /\ \A r \in Made : r.id # NextId
<1>1. Cardinality(Made) \in Nat
  BY FS_CardinalityType
<1> QED BY <1>1 DEF NextId, Request

(* A page sends a request under the next number, and pays only quotes it   *)
(* has asked for, for the wallet it bills.                                 *)
LEMMA SendKeeps ==
  ASSUME ServiceInv, NEW r \in Request, Send(r), r.id = NextId,
         r.op = "quote" => r.quote = r.id,
         r.op = "pay" => r.key = r.quote /\ AskedFor(r.quote, r.gate, r.payer)
  PROVE  ServiceInv' /\ Made' = Made \cup {r} /\ r \notin Made
<1>1. Made' = Made \cup {r}
  BY DEF Send, Made
<1>2. r \notin Made /\ Cardinality(Made) \in Nat
  BY NextIdIsNew, FS_CardinalityType
<1>3. IsFiniteSet(Made') /\ Cardinality(Made') = Cardinality(Made) + 1
  BY <1>1, <1>2, FS_AddElement
<1>4. ServiceTypeOK'
  BY DEF Send
<1>5. RequestsDiffer'
  <2>1. waiting' \subseteq sent' \cup served'
    BY DEF Send
  <2>2. \A s \in Made' : s.id \in 1..MaxRequests /\ s.id <= Cardinality(Made')
    BY <1>1, <1>2, <1>3, NextIdIsNew DEF Send, NextId
  <2>3. \A s, t \in Made' : s.id = t.id => s = t
    BY <1>1, NextIdIsNew
  <2> QED BY <1>3, <2>1, <2>2, <2>3
<1>6. PaysOwnQuote'
  BY <1>1
<1>7. OneTransferPerKey'
  BY DEF Send
<1> QED BY <1>1, <1>2, <1>4, <1>5, <1>6, <1>7

LEMMA ServeKeeps ==
  ASSUME ServiceInv, NEW r \in sent, Serve(r) PROVE ServiceInv' /\ Made' = Made
<1>1. Made' = Made
  BY DEF Serve, Made
<1>2. ServiceTypeOK' /\ RequestsDiffer' /\ PaysOwnQuote'
  BY <1>1 DEF Serve
<1>3. OneTransferPerKey'
  BY DEF Serve
<1> QED BY <1>1, <1>2, <1>3

LEMMA AnswerKeeps ==
  ASSUME ServiceInv, NEW r, Answer(r) PROVE ServiceInv' /\ Made' = Made
<1>1. Made' = Made
  BY DEF Answer, Made
<1> QED BY <1>1 DEF Answer

LEMMA FailKeeps ==
  ASSUME ServiceInv, NEW r, Fail(r) PROVE ServiceInv' /\ Made' = Made
<1>1. Made' = Made
  BY DEF Fail, Made
<1> QED BY <1>1 DEF Fail

LEMMA UnchangedKeeps ==
  ASSUME ServiceInv, UNCHANGED service PROVE ServiceInv' /\ Made' = Made
<1>1. Made' = Made
  BY DEF service, Made
<1> QED BY <1>1 DEF service

(* Payments of one quote were sent by one mount and bill one wallet.       *)
LEMMA QuoteIsOfOneGate ==
  ASSUME ServiceInv, NEW c \in Made, NEW d \in Made,
         c.op = "pay", d.op = "pay", c.quote = d.quote
  PROVE  c.gate = d.gate /\ c.payer = d.payer
  OBVIOUS

(* A served payment is charged, once, for its quote, its gate and its payer. *)
LEMMA ServedIsCharged ==
  ASSUME ServiceInv, NEW r \in served, r.op = "pay"
  PROVE  /\ r.quote \in 1..MaxRequests
         /\ \E c \in charges : /\ c.quote = r.quote /\ c.gate = r.gate
                               /\ c.payer = r.payer
<1>1. r \in Made /\ r.key = r.quote
  BY DEF Made
<1>2. PICK c \in charges : c.key = r.key
  OBVIOUS
<1>3. c \in Made /\ c.op = "pay" /\ c.key = c.quote
  BY DEF Made
<1> QED BY <1>1, <1>2, <1>3, QuoteIsOfOneGate

(* Where quotes are distinct, one of them counts to one at most. *)
LEMMA CountOfQuote ==
  ASSUME NEW C, NEW q, \A c, d \in C : c.quote = d.quote => c = d
  PROVE  Cardinality(OfQuote(C, q)) = IF \E c \in C : c.quote = q THEN 1 ELSE 0
<1>1. CASE \E c \in C : c.quote = q
  <2>1. PICK c \in C : c.quote = q
    BY <1>1
  <2>2. OfQuote(C, q) = {c}
    BY <2>1 DEF OfQuote
  <2> QED BY <1>1, <2>2, FS_Singleton
<1>2. CASE ~ \E c \in C : c.quote = q
  <2>1. OfQuote(C, q) = {}
    BY <1>2 DEF OfQuote
  <2> QED BY <1>2, <2>1, FS_EmptySet
<1> QED BY <1>1, <1>2

(* The ledger holds one transfer for each quote that was paid. *)
LEMMA QuotesAreCharged ==
  ServiceInv => \A c, d \in charges : c.quote = d.quote => c = d
  BY DEF Made

LEMMA TransfersOfQuote ==
  ASSUME ServiceInv, NEW q \in 1..MaxRequests
  PROVE  Transfers[q] = IF \E c \in charges : c.quote = q THEN 1 ELSE 0
<1>1. Cardinality(OfQuote(charges, q))
        = IF \E c \in charges : c.quote = q THEN 1 ELSE 0
  BY QuotesAreCharged, CountOfQuote
<1>2. Transfers[q] = Cardinality(OfQuote(charges, q))
  BY DEF Transfers
<1> QED BY <1>1, <1>2

(* Serving a request charges one quote that was not charged before, or     *)
(* leaves the ledger alone.                                                *)
LEMMA ServeCharges ==
  ASSUME ServiceInv, NEW r \in sent, Serve(r)
  PROVE  \/ Transfers' = Transfers
         \/ \E q \in 1..MaxRequests :
               Transfers[q] = 0 /\ Transfers' = [Transfers EXCEPT ![q] = 1]
<1>1. CASE r.op = "pay" /\ \A c \in charges : c.key # r.key
  <2>1. charges' = charges \cup {r}
    BY <1>1 DEF Serve
  <2>2. r \in Made /\ r.key = r.quote /\ r.quote \in 1..MaxRequests
    BY <1>1 DEF Made
  <2>3. ~ \E c \in charges : c.quote = r.quote
    BY <1>1, <2>2 DEF Made
  <2>4. \A c, d \in charges' : c.quote = d.quote => c = d
    BY <2>1, <2>3, QuotesAreCharged
  <2>5. ASSUME NEW q \in 1..MaxRequests
        PROVE  Transfers'[q] = [Transfers EXCEPT ![r.quote] = 1][q]
    <3>1. Cardinality(OfQuote(charges', q))
            = IF \E c \in charges' : c.quote = q THEN 1 ELSE 0
      BY <2>4, CountOfQuote
    <3>2. Transfers'[q] = Cardinality(OfQuote(charges', q))
      BY DEF Transfers
    <3> QED BY <2>1, <3>1, <3>2, TransfersOfQuote DEF Transfers
  <2>6. Transfers' = [Transfers EXCEPT ![r.quote] = 1]
    BY <2>5 DEF Transfers
  <2> QED BY <2>2, <2>3, <2>6, TransfersOfQuote
<1>2. CASE ~(r.op = "pay" /\ \A c \in charges : c.key # r.key)
  BY <1>2 DEF Serve, Transfers
<1> QED BY <1>1, <1>2
=============================================================================
