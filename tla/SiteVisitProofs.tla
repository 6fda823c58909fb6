-------------------------- MODULE SiteVisitProofs --------------------------
(***************************************************************************)
(* Proofs about the page of a named site, for any number of requests,      *)
(* mounts and wallets: SiteInv is inductive, the page keeps the promise of *)
(* PaidGate, and what a visit opened stays open until the page is mounted  *)
(* anew.                                                                   *)
(***************************************************************************)
EXTENDS SiteVisit, PaymentServiceProofs

USE SiteVisitAssumption
USE DEF TypeOK, RootAgrees, OpenUnderCharge

\* SiteInv, less what follows from the rest.
PageInv == TypeOK /\ ServiceInv /\ RootAgrees /\ GateAgrees /\ OpenUnderCharge

(* A paid site's document is under a charge because the page is.           *)
LEMMA OpenCoversDocument == PageInv => SiteInv
  BY DEF PageInv, SiteInv, DocumentUnderCharge, CanRender

LEMMA InitPage == Init => PageInv
<1> SUFFICES ASSUME Init PROVE PageInv
  OBVIOUS
<1>1. ServiceInv
  BY InitService DEF Init
<1>2. TypeOK
  BY <1>1 DEF Init, ServiceInv
<1>3. RootAgrees /\ OpenUnderCharge
  BY FS_EmptySet DEF Init
<1>4. GateAgrees
  BY DEF Init, GateAgrees, ServiceInit, Made
<1> QED BY <1>1, <1>2, <1>3, <1>4 DEF PageInv

-----------------------------------------------------------------------------
(* The view.                                                               *)

LEMMA NextFetchIsNew ==
  ASSUME fetches \subseteq Nat, IsFiniteSet(fetches)
  PROVE  NextFetch \in Nat \ {0} /\ NextFetch \notin fetches
<1> DEFINE n == Cardinality(fetches)
<1>1. n \in Nat
  BY FS_CardinalityType
<1>2. IsFiniteSet(1..(n + 1)) /\ Cardinality(1..(n + 1)) = n + 1
  BY <1>1, FS_Interval
<1>3. ~ (1..(n + 1) \subseteq fetches)
  BY <1>1, <1>2, FS_Subset
<1>4. \E m \in 1..(n + 1) : m \notin fetches
  BY <1>3
<1> QED BY <1>1, <1>4 DEF NextFetch

\* The view's part of the type invariant.
ViewTypes ==
    /\ access \in {"none", "locked", "open"}
    /\ root \in {"root_locked_until_paid_access", "loading_after_backend_access",
                 "ok", "error"}
    /\ live \in Nat /\ fetches \subseteq Nat

(* Whatever access the gate emits, the document follows it. *)
LEMMA ViewKeeps ==
  ASSUME TypeOK, RootAgrees, NEW paid \in BOOLEAN, NEW a \in {"locked", "open"},
         NEW mounting \in BOOLEAN, ViewUnder(paid, a, mounting),
         requiresPayment' = paid
  PROVE  RootAgrees' /\ ViewTypes' /\ access' = a
<1> DEFINE runs == ~(~mounting /\ CanRender(paid, a) = CanRender(requiresPayment, access))
<1>1. CASE ~runs
  BY <1>1 DEF ViewUnder, ViewTypes, CanRender
<1>2. CASE runs /\ CanRender(paid, a)
  <2>1. /\ access' = a /\ root' = "loading_after_backend_access"
        /\ live' = NextFetch /\ fetches' = fetches \cup {NextFetch}
    BY <1>2 DEF ViewUnder
  <2>2. IsFiniteSet(fetches')
    BY <2>1, FS_AddElement
  <2>3. NextFetch \in Nat \ {0}
    BY NextFetchIsNew
  <2> QED BY <1>2, <2>1, <2>2, <2>3 DEF ViewTypes
<1>3. CASE runs /\ ~CanRender(paid, a)
  <2>1. /\ access' = a /\ root' = "root_locked_until_paid_access"
        /\ live' = 0 /\ fetches' = fetches
    BY <1>3 DEF ViewUnder
  <2> QED BY <2>1 DEF ViewTypes
<1> QED BY <1>1, <1>2, <1>3

LEMMA EmitKeeps ==
  ASSUME PageInv, NEW a \in {"locked", "open"}, Emit(a), UNCHANGED requiresPayment
  PROVE  RootAgrees' /\ ViewTypes' /\ access' = a
  BY ViewKeeps DEF PageInv, Emit

LEMMA RootKeeps ==
  ASSUME PageInv, NEW f \in fetches, RootAnswered(f) PROVE PageInv'
<1>1. ServiceInv' /\ Made' = Made /\ UNCHANGED service
  BY UnchangedKeeps DEF PageInv, RootAnswered
<1>2. TypeOK'
  <2>1. ServiceTypeOK'
    BY <1>1 DEF ServiceInv
  <2>2. /\ UNCHANGED <<page, wallet, mount, requiresPayment, status, quote, asked, access,
                       receipts>>
        /\ fetches' \subseteq Nat /\ live' \in Nat
        /\ root' \in {"root_locked_until_paid_access", "loading_after_backend_access",
                      "ok", "error"}
    BY DEF PageInv, RootAnswered
  <2> QED BY <2>1, <2>2 DEF PageInv
<1>3. RootAgrees'
  BY FS_RemoveElement DEF PageInv, RootAnswered
<1>4. GateAgrees' /\ OpenUnderCharge'
  BY <1>1 DEF PageInv, RootAnswered, GateAgrees, AskedFor, service
<1> QED BY <1>1, <1>2, <1>3, <1>4 DEF PageInv

-----------------------------------------------------------------------------
(* The gate.                                                               *)

(* A gate with no payment under way asks for another quote.                *)
LEMMA QuoteVisitKeeps ==
  ASSUME PageInv, QuoteVisit, page' = "resolved", UNCHANGED <<mount, wallet>>,
         \A r \in waiting : r.gate = mount => r.op # "pay"
  PROVE  /\ ServiceInv' /\ GateAgrees' /\ UNCHANGED charges
         /\ quote' = None /\ asked' \in Nat /\ status' \in {"quoting", "quote_error"}
<1> USE DEF PageInv
<1>1. CASE wallet = None
  <2>1. UNCHANGED service /\ asked' = 0 /\ status' = "quote_error" /\ quote' = None
    BY <1>1 DEF QuoteVisit
  <2>2. ServiceInv' /\ Made' = Made
    BY <2>1, UnchangedKeeps
  <2>3. \A r \in waiting : r.id # 0
    BY DEF ServiceInv, RequestsDiffer, Made
  <2>4. GateAgrees'
    BY <2>1, <2>2, <2>3 DEF GateAgrees, service
  <2> QED BY <2>1, <2>2, <2>4 DEF service
<1>2. CASE wallet # None
  <2> DEFINE r == [id |-> NextId, op |-> "quote", gate |-> mount,
                   quote |-> NextId, payer |-> wallet, key |-> NextId]
  <2>1. Send(r) /\ asked' = NextId /\ status' = "quoting" /\ quote' = None
    BY <1>2 DEF QuoteVisit
  <2>2. NextId \in Nat \ {0} /\ \A s \in Made : s.id # NextId
    BY NextIdIsNew
  <2>3. /\ r \in Request /\ r.id = NextId /\ r.op = "quote" /\ r.quote = r.id
        /\ r.gate = mount /\ r.payer = wallet
    BY <1>2, <2>2 DEF Request
  <2> HIDE DEF r
  <2>5. ServiceInv' /\ Made' = Made \cup {r}
    BY <2>1, <2>3, SendKeeps
  <2>6. waiting' = waiting \cup {r} /\ UNCHANGED charges
    BY <2>1 DEF Send
  <2>7. GateAgrees'
    BY <2>1, <2>2, <2>3, <2>5, <2>6 DEF GateAgrees, Made
  <2> QED BY <2>1, <2>2, <2>5, <2>6, <2>7
<1> QED BY <1>1, <1>2

LEMMA RetryQuoteKeeps == PageInv /\ RetryQuote => PageInv'
<1> SUFFICES ASSUME PageInv, RetryQuote PROVE PageInv'
  OBVIOUS
<1>1. \A r \in waiting : r.gate = mount => r.op # "pay"
  BY DEF PageInv, RetryQuote, GateAgrees
<1>2. /\ ServiceInv' /\ GateAgrees' /\ UNCHANGED charges
      /\ quote' = None /\ asked' \in Nat /\ status' \in {"quoting", "quote_error"}
  BY <1>1, QuoteVisitKeeps DEF RetryQuote
<1>3. RootAgrees' /\ ViewTypes' /\ access' = "locked"
  BY EmitKeeps DEF RetryQuote
<1>4. TypeOK'
  BY <1>2, <1>3 DEF PageInv, RetryQuote, ViewTypes, ServiceInv
<1>5. OpenUnderCharge'
  BY <1>3 DEF PageInv, RetryQuote
<1> QED BY <1>2, <1>3, <1>4, <1>5 DEF PageInv

LEMMA PayVisitKeeps == PageInv /\ PayVisit => PageInv'
<1> SUFFICES ASSUME PageInv, PayVisit PROVE PageInv'
  OBVIOUS
<1> USE DEF PageInv
<1> DEFINE r == PayRequest(quote)
<1>1. PICK s \in Made : s.op = "quote" /\ s.id = quote /\ s.gate = mount /\ s.payer = wallet
  BY DEF PayVisit, GateAgrees, AskedFor
<1>2. s \in Request
  BY <1>1 DEF GateAgrees, ServiceInv, ServiceTypeOK, Made
<1>3. NextId \in Nat \ {0} /\ \A t \in Made : t.id # NextId
  BY NextIdIsNew
<1>4. /\ r \in Request /\ r.id = NextId /\ r.op = "pay" /\ r.key = r.quote
      /\ r.quote = quote /\ r.gate = mount /\ r.payer = wallet
  BY <1>1, <1>2, <1>3 DEF Request, PayRequest
<1>5. Send(r) /\ status' = "paying"
  BY DEF PayVisit
<1> HIDE DEF r
<1>7. ServiceInv' /\ Made' = Made \cup {r}
  BY <1>1, <1>4, <1>5, SendKeeps DEF AskedFor
<1>8. waiting' = waiting \cup {r} /\ UNCHANGED charges
  BY <1>5 DEF Send
<1>9. GateAgrees'
  BY <1>1, <1>4, <1>5, <1>7, <1>8 DEF GateAgrees, AskedFor, PayVisit
<1>10. RootAgrees' /\ ViewTypes' /\ access' = "locked"
  BY EmitKeeps DEF PayVisit
<1>11. TypeOK'
  BY <1>5, <1>7, <1>10 DEF PayVisit, ViewTypes, ServiceInv
<1>12. OpenUnderCharge'
  BY <1>10 DEF PayVisit
<1> QED BY <1>7, <1>9, <1>10, <1>11, <1>12

LEMMA BackToQuoteKeeps == PageInv /\ BackToQuote => PageInv'
<1> SUFFICES ASSUME PageInv, BackToQuote PROVE PageInv'
  OBVIOUS
<1>1. ServiceInv' /\ Made' = Made /\ UNCHANGED service
  BY UnchangedKeeps DEF PageInv, BackToQuote
<1>2. TypeOK' /\ RootAgrees'
  BY <1>1 DEF PageInv, BackToQuote, view, ServiceInv
<1>3. GateAgrees' /\ OpenUnderCharge'
  BY <1>1 DEF PageInv, BackToQuote, GateAgrees, AskedFor, service, view
<1> QED BY <1>1, <1>2, <1>3 DEF PageInv

(* A request ends and its page takes no notice: it is late.                *)
LEMMA LateKeeps ==
  ASSUME PageInv, NEW r \in waiting, Answer(r) \/ Fail(r),
         UNCHANGED <<page, wallet, mount, requiresPayment, status, quote, asked, view>>,
         receipts' \subseteq receipts \cup {r}
  PROVE  PageInv'
<1>1. ServiceInv' /\ Made' = Made /\ waiting' = waiting \ {r} /\ UNCHANGED charges
  BY AnswerKeeps, FailKeeps DEF PageInv, Answer, Fail
<1>2. TypeOK' /\ RootAgrees'
  BY <1>1 DEF PageInv, view, ServiceInv, ServiceTypeOK
<1>3. GateAgrees' /\ OpenUnderCharge'
  BY <1>1 DEF PageInv, GateAgrees, AskedFor, view
<1> QED BY <1>1, <1>2, <1>3 DEF PageInv

(* The request that the gate waits for ends: no other one is waited for,   *)
(* and the gate closes, or opens under the charge of the payment answered. *)
LEMMA ExpectedKeeps ==
  ASSUME PageInv, NEW r \in waiting, Answer(r) \/ Fail(r),
         page = "resolved", r.gate = mount, r.op = "quote" => asked = r.id,
         UNCHANGED <<page, wallet, mount, requiresPayment, asked>>,
         receipts' \subseteq receipts \cup {r},
         quote' \in {r.quote, None},
         status' \in {"quoted", "paid", "pay_error"} => quote' = r.quote,
         \/ /\ status' \in {"quoted", "pay_error", "quote_error",
                            "backend_pending_locked"}
            /\ Emit("locked")
         \/ /\ r.op = "pay" /\ Answer(r) /\ status' = "paid" /\ Emit("open")
  PROVE  PageInv'
<1> USE DEF PageInv
<1>1. ServiceInv' /\ Made' = Made /\ waiting' = waiting \ {r} /\ UNCHANGED charges
  BY AnswerKeeps, FailKeeps DEF Answer, Fail
<1>2. r \in Made /\ r \in Request /\ status = IF r.op = "pay" THEN "paying" ELSE "quoting"
  BY DEF GateAgrees, Made, ServiceTypeOK, Request
<1>3. requiresPayment
  BY <1>2
<1>4. RootAgrees' /\ ViewTypes'
      /\ access' = IF status' = "paid" THEN "open" ELSE "locked"
  BY EmitKeeps
<1>5. TypeOK'
  BY <1>1, <1>2, <1>4 DEF ViewTypes, ServiceInv, Request
<1>6. AskedFor(r.quote, mount, wallet)
  <2>1. r.gate = mount /\ r.payer = wallet
    BY <1>2 DEF GateAgrees
  <2> QED BY <1>2, <2>1 DEF AskedFor, ServiceInv, PaysOwnQuote, Request
<1>7. \A s \in waiting' : s.gate = mount => s.op # "pay" /\ s.id # asked
  BY <1>1, <1>2 DEF GateAgrees, ServiceInv, RequestsDiffer, Made, ServiceTypeOK, Request
<1>8. GateAgrees'
  BY <1>1, <1>2, <1>6, <1>7 DEF GateAgrees, AskedFor
<1>9. OpenUnderCharge'
  <2>1. CASE status' = "paid"
    <3>1. r \in served /\ r.op = "pay" /\ r.payer = wallet
      BY <1>2, <2>1 DEF Answer, GateAgrees
    <3>2. \E c \in charges : c.quote = r.quote /\ c.gate = mount /\ c.payer = wallet
      BY <3>1, ServedIsCharged
    <3> QED BY <1>1, <1>3, <1>4, <2>1, <3>2
  <2>2. CASE status' # "paid"
    BY <1>3, <1>4, <2>2
  <2> QED BY <2>1, <2>2
<1> QED BY <1>1, <1>4, <1>5, <1>8, <1>9

LEMMA AnswersKeep ==
  ASSUME PageInv, NEW r \in waiting,
         QuoteAnswered(r) \/ QuoteFailed(r) \/ PayAnswered(r) \/ PayFailed(r)
  PROVE  PageInv'
<1>1. CASE QuoteAnswered(r)
  BY <1>1, LateKeeps, ExpectedKeeps DEF QuoteAnswered, Current
<1>2. CASE QuoteFailed(r)
  BY <1>2, LateKeeps, ExpectedKeeps DEF QuoteFailed, Current
<1>3. CASE PayAnswered(r)
  BY <1>3, LateKeeps, ExpectedKeeps DEF PayAnswered, KeepReceipt, Mounted
<1>4. CASE PayFailed(r)
  BY <1>4, LateKeeps, ExpectedKeeps DEF PayFailed, Mounted
<1> QED BY <1>1, <1>2, <1>3, <1>4

-----------------------------------------------------------------------------
(* The page and the service.                                               *)

LEMMA ResolvedKeeps == PageInv /\ Resolved => PageInv'
<1> SUFFICES ASSUME PageInv, Resolved PROVE PageInv'
  OBVIOUS
<1> USE DEF PageInv
<1>1. \A r \in Made : r.gate # mount
  BY DEF Resolved, GateAgrees
<1>2. CASE requiresPayment'
  <2>1. /\ ServiceInv' /\ GateAgrees' /\ UNCHANGED charges
        /\ quote' = None /\ asked' \in Nat /\ status' \in {"quoting", "quote_error"}
    BY <1>1, <1>2, QuoteVisitKeeps DEF Resolved, Made
  <2>2. RootAgrees' /\ ViewTypes' /\ access' = "locked"
    BY <1>2, ViewKeeps DEF Resolved
  <2>3. TypeOK'
    BY <2>1, <2>2 DEF Resolved, ViewTypes, ServiceInv
  <2> QED BY <1>2, <2>1, <2>2, <2>3
<1>3. CASE ~requiresPayment'
  <2>1. ServiceInv' /\ Made' = Made /\ UNCHANGED service
    BY <1>3, UnchangedKeeps DEF Resolved
  <2>2. RootAgrees' /\ ViewTypes' /\ access' = "open"
    BY <1>3, ViewKeeps DEF Resolved
  <2>3. TypeOK'
    BY <1>3, <2>1, <2>2 DEF Resolved, ViewTypes, ServiceInv
  <2>4. GateAgrees'
    BY <1>1, <1>3, <2>1 DEF Resolved, GateAgrees, service, Made
  <2>5. OpenUnderCharge'
    BY <1>3, <2>2 DEF Resolved
  <2> QED BY <2>1, <2>2, <2>3, <2>4, <2>5
<1> QED BY <1>2, <1>3

LEMMA ResolveFailedKeeps == PageInv /\ ResolveFailed => PageInv'
<1> SUFFICES ASSUME PageInv, ResolveFailed PROVE PageInv'
  OBVIOUS
<1>1. ServiceInv' /\ Made' = Made /\ UNCHANGED service
  BY UnchangedKeeps DEF PageInv, ResolveFailed
<1>2. TypeOK' /\ RootAgrees'
  BY <1>1 DEF PageInv, ResolveFailed, view, ServiceInv
<1>3. GateAgrees' /\ OpenUnderCharge'
  BY <1>1 DEF PageInv, ResolveFailed, GateAgrees, AskedFor, service, view
<1> QED BY <1>1, <1>2, <1>3 DEF PageInv

(* The next mount has sent no request yet. *)
LEMMA RemountKeeps == PageInv /\ (Refresh \/ SettingsChanged) => PageInv'
<1> SUFFICES ASSUME PageInv, Refresh \/ SettingsChanged PROVE PageInv'
  OBVIOUS
<1> USE DEF PageInv, Refresh, SettingsChanged, Remount
<1>1. ServiceInv' /\ Made' = Made /\ UNCHANGED service
  BY UnchangedKeeps
<1>2. TypeOK' /\ RootAgrees' /\ OpenUnderCharge'
  <2>1. CASE Refresh
    BY <1>1, <2>1 DEF ServiceInv
  <2>2. CASE SettingsChanged
    <3>1. IsFiniteSet(fetches') /\ 0 \notin fetches' /\ fetches' \subseteq Nat
      BY <2>2, NextFetchIsNew, FS_AddElement
    <3> QED BY <1>1, <2>2, <3>1 DEF ServiceInv
  <2> QED BY <2>1, <2>2
<1>3. \A r \in Made : r.gate \in Nat /\ r.gate < mount'
  BY DEF GateAgrees, ServiceInv, ServiceTypeOK, Made, Request
<1>4. GateAgrees'
  BY <1>1, <1>3 DEF GateAgrees, service, Made
<1> QED BY <1>1, <1>2, <1>4

LEMMA ServesKeeps ==
  ASSUME PageInv, NEW r \in sent, ServiceServes(r) PROVE PageInv'
<1>1. ServiceInv' /\ Made' = Made
  BY ServeKeeps DEF PageInv, ServiceServes
<1>2. charges \subseteq charges' /\ UNCHANGED waiting
  BY DEF ServiceServes, Serve
<1>3. TypeOK' /\ RootAgrees'
  BY <1>1 DEF PageInv, ServiceServes, view, ServiceInv
<1>4. GateAgrees' /\ OpenUnderCharge'
  BY <1>1, <1>2 DEF PageInv, ServiceServes, GateAgrees, AskedFor, view
<1> QED BY <1>1, <1>3, <1>4 DEF PageInv

LEMMA StepPage == PageInv /\ [Next]_vars => PageInv'
<1> SUFFICES ASSUME PageInv, [Next]_vars PROVE PageInv'
  OBVIOUS
<1>1. CASE Resolved \/ ResolveFailed \/ Refresh \/ SettingsChanged
  BY <1>1, ResolvedKeeps, ResolveFailedKeeps, RemountKeeps
<1>2. CASE PayVisit \/ BackToQuote \/ RetryQuote
  BY <1>2, PayVisitKeeps, BackToQuoteKeeps, RetryQuoteKeeps
<1>3. CASE \E r \in sent : ServiceServes(r)
  BY <1>3, ServesKeeps
<1>4. CASE RequestsEnd
  BY <1>4, AnswersKeep DEF RequestsEnd
<1>5. CASE \E f \in fetches : RootAnswered(f)
  BY <1>5, RootKeeps
<1>6. CASE UNCHANGED vars
  <2>1. ServiceInv' /\ Made' = Made /\ UNCHANGED service
    BY <1>6, UnchangedKeeps DEF PageInv, vars
  <2>2. TypeOK' /\ RootAgrees'
    BY <1>6, <2>1 DEF PageInv, vars, view, ServiceInv
  <2>3. GateAgrees' /\ OpenUnderCharge'
    BY <1>6, <2>1 DEF PageInv, vars, GateAgrees, AskedFor, service, view
  <2> QED BY <2>1, <2>2, <2>3 DEF PageInv
<1> QED BY <1>1, <1>2, <1>3, <1>4, <1>5, <1>6 DEF Next, RequestsEnd

LEMMA PageIsSafe == Spec => []PageInv
  BY InitPage, StepPage, PTL DEF Spec

(* SiteVisitAccess and ResolvedSiteView: the root document of a paid site  *)
(* loads and shows only under a transfer that the ledger holds, of         *)
(* this mount's quote, billed to the wallet the page shows.                *)
THEOREM SiteIsSafe == Spec => []SiteInv
  BY OpenCoversDocument, PageIsSafe, PTL

-----------------------------------------------------------------------------
(* What the page promises.                                                 *)

(* While the page is mounted nothing that is still under way can close it: *)
(* no answer of its gate is awaited, and it offers no other quote.         *)
LEMMA OpenStays ==
  ASSUME PageInv, Next, access = "open" PROVE access' = "open" \/ mount' # mount
<1> USE DEF PageInv
<1>1. page = "resolved" /\ status \in {"paid", "free"}
  BY DEF OpenUnderCharge
<1>2. ASSUME NEW r \in waiting, r.gate = mount
      PROVE  r.op # "pay" /\ (r.op = "quote" => r.id # asked)
  BY <1>1, <1>2 DEF GateAgrees
<1>3. CASE Resolved \/ ResolveFailed \/ PayVisit \/ BackToQuote \/ RetryQuote
  BY <1>1, <1>3 DEF Resolved, ResolveFailed, PayVisit, BackToQuote, RetryQuote
<1>4. CASE Refresh \/ SettingsChanged
  BY <1>4 DEF Refresh, SettingsChanged, Remount
<1>5. CASE \E r \in sent : ServiceServes(r)
  BY <1>5 DEF ServiceServes, view
<1>6. ASSUME NEW r \in waiting, QuoteAnswered(r) \/ QuoteFailed(r)
      PROVE  access' = "open"
  BY <1>2, <1>6 DEF QuoteAnswered, QuoteFailed, Current, view
<1>7. ASSUME NEW r \in waiting, PayAnswered(r) \/ PayFailed(r)
      PROVE  access' = "open"
  BY <1>2, <1>7 DEF PayAnswered, PayFailed, Mounted, view
<1>8. CASE \E f \in fetches : RootAnswered(f)
  BY <1>8 DEF RootAnswered
<1> QED BY <1>3, <1>4, <1>5, <1>6, <1>7, <1>8 DEF Next

(* SiteVisitAccess.jsx: no late answer, quote or failure locks a visit     *)
(* that was opened; only mounting the page anew does.                      *)
THEOREM OpenStaysOpen == Spec => OpenUntilRemount
<1>1. PageInv /\ [Next]_vars => [access = "open" /\ access' # "open" => mount' # mount]_vars
  BY OpenStays
<1> QED BY <1>1, PageIsSafe, PTL DEF Spec, OpenUntilRemount

(* Every step charges one quote for the first time, opens the page under a *)
(* quote that is charged, closes it, or means nothing to the promise.      *)
LEMMA StepIsGate ==
  ASSUME PageInv, Next PROVE Gate!Next \/ UNCHANGED <<Transfers, OpenUnder>>
<1> USE DEF PageInv
<1>1. CASE \E r \in sent : ServiceServes(r)
  <2>1. UNCHANGED OpenUnder
    BY <1>1 DEF ServiceServes, view, OpenUnder
  <2>2. PICK r \in sent : Serve(r)
    BY <1>1 DEF ServiceServes
  <2> QED BY <2>1, <2>2, ServeCharges DEF Gate!Next, Gate!Charge
<1>2. ASSUME UNCHANGED charges PROVE UNCHANGED Transfers
  BY <1>2 DEF Transfers
<1>3. ASSUME UNCHANGED charges, access' # "open" \/ ~requiresPayment' PROVE Gate!Next
  BY <1>2, <1>3 DEF OpenUnder, Gate!Next, Gate!Close
<1>4. ASSUME UNCHANGED <<charges, requiresPayment, access, quote>>
      PROVE  UNCHANGED <<Transfers, OpenUnder>>
  BY <1>2, <1>4 DEF OpenUnder
<1>5. CASE Resolved
  <2>1. UNCHANGED charges
    BY <1>5 DEF Resolved, QuoteVisit, Send, service
  <2>2. access' # "open" \/ ~requiresPayment'
    BY <1>5 DEF Resolved, ViewUnder
  <2> QED BY <1>3, <2>1, <2>2
<1>6. CASE Refresh \/ SettingsChanged
  BY <1>3, <1>6 DEF Refresh, SettingsChanged, Remount, service
<1>7. CASE PayVisit \/ RetryQuote
  BY <1>3, <1>7 DEF PayVisit, RetryQuote, QuoteVisit, Send, service, Emit, ViewUnder
<1>8. CASE ResolveFailed \/ BackToQuote \/ \E f \in fetches : RootAnswered(f)
  BY <1>4, <1>8 DEF ResolveFailed, BackToQuote, RootAnswered, service, view
<1>9. ASSUME NEW r \in waiting, QuoteAnswered(r) \/ QuoteFailed(r) \/ PayFailed(r)
      PROVE  Gate!Next \/ UNCHANGED <<Transfers, OpenUnder>>
  BY <1>3, <1>4, <1>9 DEF QuoteAnswered, QuoteFailed, PayFailed, Answer, Fail, Emit,
     ViewUnder, view
<1>10. ASSUME NEW r \in waiting, PayAnswered(r)
       PROVE  Gate!Next \/ UNCHANGED <<Transfers, OpenUnder>>
  <2>1. CASE Mounted(r)
    <3>1. /\ r \in served /\ r.op = "pay" /\ UNCHANGED charges
          /\ quote' = r.quote /\ requiresPayment' = requiresPayment /\ access' = "open"
      BY <1>10, <2>1 DEF PayAnswered, Answer, Emit, ViewUnder
    <3>2. r.quote \in 1..MaxRequests /\ Transfers[r.quote] = 1
      BY <3>1, ServedIsCharged, TransfersOfQuote
    <3>3. OpenUnder' = r.quote \/ ~requiresPayment'
      BY <3>1, <3>2, ServiceAssumption DEF OpenUnder
    <3> QED BY <1>2, <1>3, <3>1, <3>2, <3>3 DEF Gate!Next, Gate!Open
  <2>2. CASE ~Mounted(r)
    BY <1>4, <1>10, <2>2 DEF PayAnswered, Answer, view
  <2> QED BY <2>1, <2>2
<1> QED BY <1>1, <1>5, <1>6, <1>7, <1>8, <1>9, <1>10 DEF Next

(* SiteVisitAccess pays through /sites/<name>/visit: one quote is charged  *)
(* once, however often and however late its payments are sent, and the     *)
(* site opens only under a transfer that the ledger holds.                 *)
THEOREM SiteKeepsPromise == Spec => KeepsPromise
<1>1. Init => Gate!Init
  BY FS_EmptySet DEF Init, ServiceInit, Gate!Init, Transfers, OfQuote, OpenUnder
<1>2. PageInv /\ [Next]_vars => [Gate!Next]_<<Transfers, OpenUnder>>
  <2>1. UNCHANGED vars => UNCHANGED <<Transfers, OpenUnder>>
    BY DEF vars, service, view, Transfers, OpenUnder
  <2> QED BY <2>1, StepIsGate
<1> QED BY <1>1, <1>2, PageIsSafe, PTL DEF Spec, KeepsPromise, Gate!Spec
=============================================================================
