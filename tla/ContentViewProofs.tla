------------------------- MODULE ContentViewProofs -------------------------
(***************************************************************************)
(* Proofs about a paid image page, for any number of requests, mounts,     *)
(* fetches and wallets: the view is open only under this gate's own charge,*)
(* bytes are shown only while it is open, and the page keeps the promise   *)
(* of PaidGate.                                                            *)
(***************************************************************************)
EXTENDS ContentView, PaymentServiceProofs

USE ContentViewAssumption
USE DEF TypeOK, FetchAgrees, OpenByOwnCharge, BytesOnlyWhileOpen

PageInv == ViewInv /\ BytesOnlyWhileOpen

USE DEF PageInv, ViewInv

LEMMA InitPage == Init => PageInv
<1> SUFFICES ASSUME Init PROVE PageInv
  OBVIOUS
<1>1. ServiceInv
  BY InitService DEF Init
<1>2. TypeOK
  BY <1>1 DEF Init, ServiceInv
<1>3. FetchAgrees /\ OpenByOwnCharge /\ BytesOnlyWhileOpen
  BY FS_EmptySet DEF Init
<1>4. GateAgrees
  BY DEF Init, GateAgrees, ServiceInit, Made
<1> QED BY <1>1, <1>2, <1>3, <1>4

-----------------------------------------------------------------------------
(* The byte fetch.                                                         *)

LEMMA NextFetchIsNew ==
  ASSUME fetches \subseteq Nat, IsFiniteSet(fetches)
  PROVE  NextFetch \in Nat \ {0} /\ NextFetch \notin fetches
<1> DEFINE n == Cardinality(fetches)
<1>1. n \in Nat
  BY FS_CardinalityType
<1>2. IsFiniteSet(1..(n + 1)) /\ Cardinality(1..(n + 1)) = n + 1
  BY <1>1, FS_Interval
<1>3. ~ (1..(n + 1) \subseteq fetches)
  BY <1>1, <1>2, FS_Subset
<1>4. \E m \in 1..(n + 1) : m \notin fetches
  BY <1>3
<1> QED BY <1>1, <1>4 DEF NextFetch

\* The view's part of the type invariant.
ViewTypes ==
    /\ canView \in BOOLEAN /\ bytes \in {"idle", "loading", "ready", "error"}
    /\ live \in Nat /\ fetches \subseteq Nat

LEMMA StartFetchKeeps ==
  ASSUME PageInv, StartFetch, canView', page' = "view"
  PROVE  FetchAgrees' /\ BytesOnlyWhileOpen' /\ bytes' = "loading"
         /\ live' \in Nat /\ fetches' \subseteq Nat
<1>1. IsFiniteSet(fetches')
  BY FS_AddElement DEF StartFetch
<1> QED BY <1>1, NextFetchIsNew DEF StartFetch

(* Whatever access the gate publishes, the bytes follow it. *)
LEMMA PublishKeeps ==
  ASSUME PageInv, page = "view", page' = "view", NEW open \in BOOLEAN, Publish(open)
  PROVE  FetchAgrees' /\ BytesOnlyWhileOpen' /\ ViewTypes' /\ canView' = open
<1>1. CASE open /\ ~canView
  BY <1>1, StartFetchKeeps DEF Publish, ViewTypes
<1>2. CASE ~open /\ canView
  <2>1. StopFetch /\ canView' = open
    BY <1>2 DEF Publish
  <2> QED BY <1>2, <2>1 DEF StopFetch, ViewTypes
<1>3. CASE open <=> canView
  <2>1. UNCHANGED <<bytes, live, fetches>> /\ canView' = open
    BY <1>3 DEF Publish
  <2>2. FetchAgrees' /\ ViewTypes'
    BY <2>1 DEF ViewTypes
  <2>3. BytesOnlyWhileOpen'
    BY <1>3, <2>1
  <2> QED BY <2>1, <2>2, <2>3
<1> QED BY <1>1, <1>2, <1>3

LEMMA FetchAnsweredKeeps ==
  ASSUME PageInv, NEW f \in fetches, FetchAnswered(f) PROVE PageInv'
<1>1. ServiceInv' /\ Made' = Made /\ UNCHANGED service
  BY UnchangedKeeps DEF FetchAnswered
<1>2. TypeOK'
  BY <1>1 DEF FetchAnswered, ServiceInv
<1>3. BytesOnlyWhileOpen'
  <2>1. live = f => bytes = "loading"
    BY DEF FetchAnswered
  <2> QED BY <2>1 DEF FetchAnswered
<1>4. FetchAgrees'
  BY FS_RemoveElement DEF FetchAnswered
<1>5. GateAgrees' /\ OpenByOwnCharge'
  BY <1>1 DEF FetchAnswered, GateAgrees, AskedFor, service
<1> QED BY <1>1, <1>2, <1>3, <1>4, <1>5

LEMMA ReloadKeeps == PageInv /\ ReloadPreview => PageInv'
<1> SUFFICES ASSUME PageInv, ReloadPreview PROVE PageInv'
  OBVIOUS
<1>1. ServiceInv' /\ Made' = Made /\ UNCHANGED service
  BY UnchangedKeeps DEF ReloadPreview
<1>2. FetchAgrees' /\ BytesOnlyWhileOpen' /\ bytes' = "loading"
         /\ live' \in Nat /\ fetches' \subseteq Nat
  BY StartFetchKeeps DEF ReloadPreview
<1>3. TypeOK'
  BY <1>1, <1>2 DEF ReloadPreview, ServiceInv
<1>4. GateAgrees' /\ OpenByOwnCharge'
  BY <1>1 DEF ReloadPreview, GateAgrees, AskedFor, service
<1> QED BY <1>1, <1>2, <1>3, <1>4

-----------------------------------------------------------------------------
(* The gate.                                                               *)

LEMMA QuoteKeeps ==
  ASSUME PageInv, QuoteContentView, page' = "view", UNCHANGED <<gate, wallet>>
  PROVE  /\ ServiceInv' /\ GateAgrees' /\ UNCHANGED charges
         /\ quote' \in {quote, None} /\ status' \in {"quoting", "error"}
<1>1. CASE wallet = None
  <2>1. UNCHANGED service /\ status' = "error" /\ quote' = None
    BY <1>1 DEF QuoteContentView
  <2>2. ServiceInv' /\ Made' = Made
    BY <2>1, UnchangedKeeps
  <2> QED BY <2>1, <2>2 DEF GateAgrees, service
<1>2. CASE wallet # None
  <2> DEFINE r == QuoteRequest(wallet)
  <2>1. Send(r) /\ status' = "quoting" /\ quote' = quote
    BY <1>2 DEF QuoteContentView
  <2>2. NextId \in Nat
    BY NextIdIsNew
  <2>3. /\ r \in Request /\ r.id = NextId /\ r.op = "quote" /\ r.quote = r.id
        /\ r.gate = gate /\ r.payer = wallet
    BY <1>2, <2>2 DEF Request, QuoteRequest
  <2> HIDE DEF r
  <2>5. ServiceInv' /\ Made' = Made \cup {r}
    BY <2>1, <2>3, SendKeeps
  <2>6. GateAgrees' /\ UNCHANGED charges
    BY <2>1, <2>3, <2>5 DEF GateAgrees, AskedFor, Send
  <2> QED BY <2>1, <2>5, <2>6
<1> QED BY <1>1, <1>2

(* Requote and SameAddress: another quote is asked for, and the view locked. *)
LEMMA RequoteKeeps == PageInv /\ (Requote \/ SameAddress) => PageInv'
<1> SUFFICES ASSUME PageInv, Requote \/ SameAddress PROVE PageInv'
  OBVIOUS
<1>1. /\ QuoteContentView /\ Publish(FALSE) /\ page = "view"
      /\ UNCHANGED <<page, wallet, gate, receipts>>
  BY DEF Requote, SameAddress
<1>2. /\ ServiceInv' /\ GateAgrees' /\ UNCHANGED charges
      /\ quote' \in {quote, None} /\ status' \in {"quoting", "error"}
  BY <1>1, QuoteKeeps
<1>3. FetchAgrees' /\ BytesOnlyWhileOpen' /\ ViewTypes' /\ ~canView'
  BY <1>1, PublishKeeps
<1>4. TypeOK' /\ OpenByOwnCharge'
  BY <1>1, <1>2, <1>3 DEF ViewTypes, ServiceInv
<1> QED BY <1>2, <1>3, <1>4

LEMMA PayKeeps == PageInv /\ PayContentView => PageInv'
<1> SUFFICES ASSUME PageInv, PayContentView PROVE PageInv'
  OBVIOUS
<1> DEFINE r == PayRequest(quote)
<1>1. PICK s \in Made : s.op = "quote" /\ s.id = quote /\ s.gate = gate /\ s.payer = wallet
  BY DEF PayContentView, GateAgrees, AskedFor
<1>2. s \in Request
  BY <1>1 DEF GateAgrees, ServiceInv, ServiceTypeOK, Made
<1>3. NextId \in Nat
  BY NextIdIsNew
<1>4. /\ r \in Request /\ r.id = NextId /\ r.op = "pay" /\ r.key = r.quote
      /\ r.quote = quote /\ r.gate = gate /\ r.payer = wallet
  BY <1>1, <1>2, <1>3 DEF Request, PayRequest
<1>5. Send(r) /\ status' = "paying"
  BY DEF PayContentView
<1> HIDE DEF r
<1>7. ServiceInv' /\ Made' = Made \cup {r}
  BY <1>1, <1>4, <1>5, SendKeeps DEF AskedFor
<1>8. GateAgrees' /\ UNCHANGED charges
  BY <1>4, <1>5, <1>7 DEF GateAgrees, AskedFor, PayContentView, Send
<1>9. FetchAgrees' /\ BytesOnlyWhileOpen' /\ ViewTypes' /\ ~canView'
  BY PublishKeeps DEF PayContentView
<1>10. TypeOK' /\ OpenByOwnCharge'
  BY <1>5, <1>7, <1>9 DEF PayContentView, ViewTypes, ServiceInv
<1> QED BY <1>7, <1>8, <1>9, <1>10

(* A request ends and its page takes no notice: it is late.                *)
LEMMA LateKeeps ==
  ASSUME PageInv, NEW r \in waiting, Answer(r) \/ Fail(r),
         UNCHANGED <<page, wallet, gate, status, quote, canView, bytes, live, fetches>>,
         receipts' \subseteq receipts \cup {r}
  PROVE  PageInv'
<1>1. ServiceInv' /\ Made' = Made /\ UNCHANGED charges
  BY AnswerKeeps, FailKeeps DEF Answer, Fail
<1>2. TypeOK' /\ FetchAgrees' /\ BytesOnlyWhileOpen'
  BY <1>1 DEF ServiceInv, ServiceTypeOK
<1>3. GateAgrees' /\ OpenByOwnCharge'
  BY <1>1 DEF GateAgrees, AskedFor
<1> QED BY <1>1, <1>2, <1>3

(* A request of the mounted gate ends: the view is locked, or opened under *)
(* the charge of the payment answered.                                     *)
LEMMA MountedKeeps ==
  ASSUME PageInv, NEW r \in waiting, Answer(r) \/ Fail(r), Mounted(r),
         UNCHANGED <<page, wallet, gate>>, receipts' \subseteq receipts \cup {r},
         quote' \in {r.quote, quote, None}, status' \in {"quoted", "paid", "error"},
         \/ Publish(FALSE)
         \/ Publish(TRUE) /\ r.op = "pay" /\ Answer(r) /\ quote' = r.quote
  PROVE  PageInv'
<1>1. ServiceInv' /\ Made' = Made /\ UNCHANGED charges
  BY AnswerKeeps, FailKeeps DEF Answer, Fail
<1>2. r \in Made /\ r \in Request /\ r.gate = gate /\ r.payer = wallet
  BY DEF GateAgrees, Made, ServiceTypeOK, Mounted
<1>3. FetchAgrees' /\ BytesOnlyWhileOpen' /\ ViewTypes'
  BY PublishKeeps DEF Mounted
<1>4. TypeOK'
  BY <1>1, <1>2, <1>3 DEF ViewTypes, ServiceInv, Request
<1>5. AskedFor(r.quote, gate, wallet)
  BY <1>2 DEF AskedFor, ServiceInv, PaysOwnQuote, Request
<1>6. GateAgrees'
  BY <1>1, <1>5 DEF GateAgrees, AskedFor
<1>7. OpenByOwnCharge'
  <2>1. CASE canView'
    <3>1. r \in served /\ r.op = "pay" /\ quote' = r.quote
      BY <2>1 DEF Answer, Publish
    <3> QED BY <1>1, <1>2, <3>1, ServedIsCharged
  <2>2. CASE ~canView'
    BY <2>2
  <2> QED BY <2>1, <2>2
<1> QED BY <1>1, <1>3, <1>4, <1>6, <1>7

LEMMA AnswersKeep ==
  ASSUME PageInv, NEW r \in waiting,
         QuoteAnswered(r) \/ QuoteFailed(r) \/ PayAnswered(r) \/ PayFailed(r)
  PROVE  PageInv'
<1>1. CASE QuoteAnswered(r)
  BY <1>1, LateKeeps, MountedKeeps DEF QuoteAnswered
<1>2. CASE QuoteFailed(r)
  BY <1>2, LateKeeps, MountedKeeps DEF QuoteFailed
<1>3. CASE PayAnswered(r)
  BY <1>3, LateKeeps, MountedKeeps DEF PayAnswered, KeepReceipt
<1>4. CASE PayFailed(r)
  BY <1>4, LateKeeps, MountedKeeps DEF PayFailed
<1> QED BY <1>1, <1>2, <1>3, <1>4

-----------------------------------------------------------------------------
(* The page and the service.                                               *)

LEMMA ResolvedKeeps == PageInv /\ Resolved => PageInv'
<1> SUFFICES ASSUME PageInv, Resolved PROVE PageInv'
  OBVIOUS
<1>1. /\ ServiceInv' /\ GateAgrees' /\ UNCHANGED charges
      /\ quote' \in {quote, None} /\ status' \in {"quoting", "error"}
  BY QuoteKeeps DEF Resolved
<1>2. IsFiniteSet(fetches')
  BY FS_AddElement DEF Resolved
<1>3. FetchAgrees' /\ ViewTypes' /\ BytesOnlyWhileOpen' /\ ~canView'
  BY <1>2, NextFetchIsNew DEF Resolved, ViewTypes
<1>4. TypeOK' /\ OpenByOwnCharge'
  BY <1>1, <1>3 DEF Resolved, ViewTypes, ServiceInv
<1> QED BY <1>1, <1>3, <1>4

LEMMA ResolveFailedKeeps == PageInv /\ ResolveFailed => PageInv'
<1> SUFFICES ASSUME PageInv, ResolveFailed PROVE PageInv'
  OBVIOUS
<1>1. ServiceInv' /\ Made' = Made /\ UNCHANGED service
  BY UnchangedKeeps DEF ResolveFailed
<1>2. TypeOK' /\ FetchAgrees' /\ BytesOnlyWhileOpen' /\ OpenByOwnCharge'
  BY <1>1 DEF ResolveFailed, ServiceInv
<1>3. GateAgrees'
  BY <1>1 DEF ResolveFailed, GateAgrees, AskedFor
<1> QED BY <1>1, <1>2, <1>3

(* What new settings make the page ask for before it is taken down. *)
LEMMA LeavingKeeps ==
  ASSUME PageInv, SettingsChanged
  PROVE  /\ ServiceInv' /\ UNCHANGED charges /\ \A r \in Made' : r.gate <= gate
         /\ IsFiniteSet(fetches') /\ 0 \notin fetches' /\ fetches' \subseteq Nat
<1>1. \A r \in Made : r.gate <= gate
  BY DEF GateAgrees
<1>2. ServiceInv' /\ UNCHANGED charges /\ \A r \in Made' : r.gate <= gate
  <2>1. CASE UNCHANGED service
    BY <1>1, <2>1, UnchangedKeeps DEF service
  <2>2. CASE wallet' # None /\ Send(QuoteRequest(wallet'))
    <3> DEFINE r == QuoteRequest(wallet')
    <3>1. NextId \in Nat
      BY NextIdIsNew
    <3>2. /\ r \in Request /\ r.id = NextId /\ r.op = "quote" /\ r.quote = r.id
          /\ r.gate = gate
      BY <2>2, <3>1 DEF SettingsChanged, Request, QuoteRequest
    <3>3. Send(r)
      BY <2>2
    <3> HIDE DEF r
    <3>4. ServiceInv' /\ Made' = Made \cup {r} /\ UNCHANGED charges
      BY <3>2, <3>3, SendKeeps DEF Send
    <3> QED BY <1>1, <3>2, <3>4
  <2> QED BY <2>1, <2>2 DEF SettingsChanged
<1>3. IsFiniteSet(fetches') /\ 0 \notin fetches' /\ fetches' \subseteq Nat
  BY NextFetchIsNew, FS_AddElement DEF SettingsChanged
<1> QED BY <1>2, <1>3

(* The next mount has sent no request yet. *)
LEMMA RemountKeeps == PageInv /\ (Refresh \/ SettingsChanged) => PageInv'
<1> SUFFICES ASSUME PageInv, Refresh \/ SettingsChanged PROVE PageInv'
  OBVIOUS
<1>1. Remount /\ wallet' \in Wallets \cup {None}
  BY DEF Refresh, SettingsChanged
<1>2. /\ ServiceInv' /\ UNCHANGED charges /\ \A r \in Made' : r.gate <= gate
      /\ IsFiniteSet(fetches') /\ 0 \notin fetches' /\ fetches' \subseteq Nat
  BY LeavingKeeps, UnchangedKeeps DEF Refresh, GateAgrees, service
<1>3. TypeOK' /\ FetchAgrees' /\ BytesOnlyWhileOpen' /\ OpenByOwnCharge'
  BY <1>1, <1>2 DEF ServiceInv, Remount
<1>4. \A r \in Made' : r.gate \in Nat /\ r.gate < gate'
  BY <1>1, <1>2 DEF Remount, ServiceInv, ServiceTypeOK, Made, Request
<1>5. GateAgrees'
  BY <1>1, <1>4 DEF GateAgrees, Remount
<1> QED BY <1>2, <1>3, <1>5

LEMMA ServesKeeps ==
  ASSUME PageInv, NEW r \in sent, ServiceServes(r) PROVE PageInv'
<1>1. ServiceInv' /\ Made' = Made
  BY ServeKeeps DEF ServiceServes
<1>2. charges \subseteq charges'
  BY DEF ServiceServes, Serve
<1>3. TypeOK' /\ FetchAgrees' /\ BytesOnlyWhileOpen'
  BY <1>1 DEF ServiceServes, ServiceInv
<1>4. GateAgrees' /\ OpenByOwnCharge'
  BY <1>1, <1>2 DEF ServiceServes, GateAgrees, AskedFor
<1> QED BY <1>1, <1>3, <1>4

LEMMA StepPage == PageInv /\ [Next]_vars => PageInv'
<1> SUFFICES ASSUME PageInv, [Next]_vars PROVE PageInv'
  OBVIOUS
<1>1. CASE Resolved \/ ResolveFailed \/ Refresh \/ SettingsChanged
  BY <1>1, ResolvedKeeps, ResolveFailedKeeps, RemountKeeps
<1>2. CASE SameAddress \/ Requote \/ PayContentView \/ ReloadPreview
  BY <1>2, RequoteKeeps, PayKeeps, ReloadKeeps
<1>3. CASE \E r \in sent : ServiceServes(r)
  BY <1>3, ServesKeeps
<1>4. CASE \E r \in waiting : QuoteAnswered(r) \/ QuoteFailed(r)
                              \/ PayAnswered(r) \/ PayFailed(r)
  BY <1>4, AnswersKeep
<1>5. CASE \E f \in fetches : FetchAnswered(f)
  BY <1>5, FetchAnsweredKeeps
<1>6. CASE UNCHANGED vars
  <2>1. ServiceInv' /\ Made' = Made /\ UNCHANGED service
    BY <1>6, UnchangedKeeps DEF vars
  <2>2. TypeOK' /\ FetchAgrees' /\ BytesOnlyWhileOpen' /\ OpenByOwnCharge'
    BY <1>6, <2>1 DEF vars, ServiceInv, service
  <2>3. GateAgrees'
    BY <1>6, <2>1 DEF vars, GateAgrees, AskedFor
  <2> QED BY <2>1, <2>2, <2>3
<1> QED BY <1>1, <1>2, <1>3, <1>4, <1>5, <1>6 DEF Next

LEMMA PageIsSafe == Spec => []PageInv
  BY InitPage, StepPage, PTL DEF Spec

(* AssetContentViewAccess.jsx: canView is set only by a payment of this    *)
(* mount's gate, of the quote it shows, for the wallet configured, that    *)
(* the ledger holds: never by a failure or an earlier mount's late answer. *)
THEOREM ViewIsSafe == Spec => []ViewInv
<1>1. PageInv => ViewInv
  OBVIOUS
<1> QED BY <1>1, PageIsSafe, PTL

(* AssetHydratedView.jsx's byte fetch: neither the fetch started at mount  *)
(* nor one cut short by a lock ever shows its bytes on a locked view.      *)
THEOREM BytesStayLocked == Spec => []BytesOnlyWhileOpen
<1>1. PageInv => BytesOnlyWhileOpen
  OBVIOUS
<1> QED BY <1>1, PageIsSafe, PTL

-----------------------------------------------------------------------------
(* What the page promises.                                                 *)

LEMMA StepIsGate ==
  ASSUME PageInv, Next PROVE Gate!Next \/ UNCHANGED <<Transfers, OpenUnder>>
<1>1. CASE \E r \in sent : ServiceServes(r)
  <2>1. UNCHANGED OpenUnder
    BY <1>1 DEF ServiceServes, OpenUnder
  <2>2. PICK r \in sent : Serve(r)
    BY <1>1 DEF ServiceServes
  <2> QED BY <2>1, <2>2, ServeCharges DEF Gate!Next, Gate!Charge
<1>2. ASSUME UNCHANGED charges PROVE UNCHANGED Transfers
  BY <1>2 DEF Transfers
<1>3. ASSUME UNCHANGED charges, ~(canView' /\ page' = "view") PROVE Gate!Next
  BY <1>2, <1>3 DEF OpenUnder, Gate!Next, Gate!Close
<1>4. ASSUME UNCHANGED <<charges, canView, page, quote>>
      PROVE  UNCHANGED <<Transfers, OpenUnder>>
  BY <1>2, <1>4 DEF OpenUnder
<1>5. CASE Resolved \/ Requote \/ SameAddress \/ PayContentView
  BY <1>3, <1>5 DEF Resolved, Requote, SameAddress, PayContentView, QuoteContentView,
     Send, service, Publish
<1>6. CASE Refresh \/ SettingsChanged
  <2>1. UNCHANGED charges /\ page' = "resolving"
    BY <1>6 DEF Refresh, SettingsChanged, Remount, Send, service
  <2> QED BY <1>3, <2>1
<1>7. CASE ResolveFailed
  BY <1>3, <1>7 DEF ResolveFailed, service
<1>8. CASE ReloadPreview \/ \E f \in fetches : FetchAnswered(f)
  BY <1>4, <1>8 DEF ReloadPreview, FetchAnswered, service
<1>9. ASSUME NEW r \in waiting, QuoteAnswered(r) \/ QuoteFailed(r) \/ PayFailed(r)
      PROVE  Gate!Next \/ UNCHANGED <<Transfers, OpenUnder>>
  BY <1>3, <1>4, <1>9 DEF QuoteAnswered, QuoteFailed, PayFailed, Answer, Fail, Publish
<1>10. ASSUME NEW r \in waiting, PayAnswered(r)
       PROVE  Gate!Next \/ UNCHANGED <<Transfers, OpenUnder>>
  <2>1. CASE Mounted(r)
    <3>1. /\ r \in served /\ r.op = "pay" /\ UNCHANGED charges
          /\ quote' = r.quote /\ page' = "view" /\ canView'
      BY <1>10, <2>1 DEF PayAnswered, Answer, Publish, Mounted
    <3>2. r.quote \in 1..MaxRequests /\ Transfers[r.quote] = 1
      BY <3>1, ServedIsCharged, TransfersOfQuote
    <3>3. OpenUnder' = r.quote
      BY <3>1, <3>2, ServiceAssumption DEF OpenUnder
    <3> QED BY <1>2, <3>1, <3>2, <3>3 DEF Gate!Next, Gate!Open
  <2>2. CASE ~Mounted(r)
    BY <1>4, <1>10, <2>2 DEF PayAnswered, Answer
  <2> QED BY <2>1, <2>2
<1> QED BY <1>1, <1>5, <1>6, <1>7, <1>8, <1>9, <1>10 DEF Next

(* AssetContentViewAccess pays through /content/view: one quote is charged *)
(* once, however often and however late its payments are sent, and the     *)
(* view opens only under a transfer that the ledger holds.                 *)
THEOREM ViewKeepsPromise == Spec => KeepsPromise
<1>1. Init => Gate!Init
  BY FS_EmptySet DEF Init, ServiceInit, Gate!Init, Transfers, OfQuote, OpenUnder
<1>2. PageInv /\ [Next]_vars => [Gate!Next]_<<Transfers, OpenUnder>>
  <2>1. UNCHANGED vars => UNCHANGED <<Transfers, OpenUnder>>
    BY DEF vars, service, Transfers, OpenUnder
  <2> QED BY <2>1, StepIsGate
<1> QED BY <1>1, <1>2, PageIsSafe, PTL DEF Spec, KeepsPromise, Gate!Spec
=============================================================================
