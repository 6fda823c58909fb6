---------------------------- MODULE ContentView ----------------------------
(***************************************************************************)
(* A paid image page: AssetResolver resolves the address, AssetHydratedView*)
(* shows the asset and fetches its bytes, and AssetContentViewAccess, the  *)
(* gate, quotes and pays through /content/view.  The gate publishes its    *)
(* access to the view, and the view fetches and shows bytes by it.         *)
(*                                                                         *)
(* One tab's page is modelled.  It is mounted anew by a refresh and by any *)
(* change of the settings (a new gateway client makes the resolver start   *)
(* again); entering the address it already shows keeps it mounted, but     *)
(* gives it a new route object, and with it a new quote.  React drops the  *)
(* state updates of an unmounted gate; what its handlers do elsewhere, the *)
(* receipts they keep, is still done.                                      *)
(***************************************************************************)
EXTENDS PaymentService

CONSTANTS
    Wallets,        \* wallet accounts the settings can name
    MaxMounts,      \* bound: times the page is mounted
    MaxFetches      \* bound: byte fetches started

ASSUME ContentViewAssumption ==
    /\ Wallets \subseteq STRING /\ None \notin Wallets
    /\ MaxMounts \in Nat /\ MaxFetches \in Nat

VARIABLES
    page,       \* the resolver's state
    wallet,     \* settings.walletAccount, None when not configured
    gate,       \* which mount of the page this is
    status,     \* the gate's state.status
    quote,      \* the gate's state.quote
    canView,    \* contentViewAccess.canView of the view
    bytes,      \* the view's fetch state
    live,       \* the fetch whose effect is still alive, or 0
    fetches,    \* fetches not yet answered
    receipts    \* recent receipts written

vars == <<service, page, wallet, gate, status, quote, canView, bytes, live,
          fetches, receipts>>

TypeOK ==
    /\ ServiceTypeOK
    /\ page \in {"resolving", "view", "problem"}
    /\ wallet \in Wallets \cup {None}
    /\ gate \in Nat
    /\ status \in {"idle", "quoting", "quoted", "paying", "paid", "error"}
    /\ quote \in Nat \cup {None}
    /\ canView \in BOOLEAN
    /\ bytes \in {"idle", "loading", "ready", "error"}
    /\ live \in Nat
    /\ fetches \subseteq Nat
    /\ receipts \subseteq Request

Init ==
    /\ ServiceInit
    /\ page = "resolving" /\ gate = 1 /\ wallet \in Wallets \cup {None}
    /\ status = "idle" /\ quote = None /\ canView = TRUE
    /\ bytes = "idle" /\ live = 0 /\ fetches = {} /\ receipts = {}

-----------------------------------------------------------------------------
(* The view's byte fetch: an effect that runs again when the access or the *)
(* preview revision changes and leaves its earlier run's answer unused.    *)

NextFetch == CHOOSE n \in 1..(Cardinality(fetches) + 1) :
                 n \notin fetches

StopFetch == bytes' = "idle" /\ live' = 0 /\ UNCHANGED fetches

StartFetch ==
    /\ Cardinality(fetches) < MaxFetches
    /\ bytes' = "loading" /\ live' = NextFetch
    /\ fetches' = fetches \cup {NextFetch}

\* The gate publishes an access; the view's effect follows.
Publish(open) ==
    /\ canView' = open
    /\ IF open /\ ~canView THEN StartFetch
       ELSE IF ~open /\ canView THEN StopFetch
       ELSE UNCHANGED <<bytes, live, fetches>>

\* Faulty: an answer is used though its effect was cleaned up.
FetchAnsweredAlways(f) ==
    /\ f \in fetches
    /\ fetches' = fetches \ {f}
    /\ bytes' \in {"ready", "error"} /\ live' = 0
    /\ UNCHANGED <<service, page, wallet, gate, status, quote, canView, receipts>>

FetchAnswered(f) ==
    /\ f \in fetches
    /\ fetches' = fetches \ {f}
    /\ IF live = f
       THEN bytes' \in {"ready", "error"} /\ live' = 0
       ELSE UNCHANGED <<bytes, live>>
    /\ UNCHANGED <<service, page, wallet, gate, status, quote, canView, receipts>>

\* "Reload preview", offered while the image may be shown.
ReloadPreview ==
    /\ page = "view" /\ canView
    /\ StartFetch
    /\ UNCHANGED <<service, page, wallet, gate, status, quote, canView, receipts>>

-----------------------------------------------------------------------------
(* The gate.                                                               *)

\* Faulty: every click pays under a new key.
PayRequestFresh(q) == [id |-> NextId, op |-> "pay", gate |-> gate, quote |-> q,
                       payer |-> wallet, key |-> NextId]

PayRequest(q) == [id |-> NextId, op |-> "pay", gate |-> gate, quote |-> q,
                  payer |-> wallet, key |-> q]

QuoteRequest(payer) == [id |-> NextId, op |-> "quote", gate |-> gate,
                        quote |-> NextId, payer |-> payer, key |-> NextId]

\* quoteContentView: without a wallet it fails at once, else asks for a quote.
QuoteContentView ==
    IF wallet = None
    THEN /\ status' = "error" /\ quote' = None
         /\ UNCHANGED service
    ELSE /\ status' = "quoting" /\ UNCHANGED quote
         /\ Send(QuoteRequest(wallet))

Busy == status \in {"quoting", "paying"}

Requote ==
    /\ page = "view" /\ ~Busy /\ status # "paid"
    /\ QuoteContentView /\ Publish(FALSE)
    /\ UNCHANGED <<page, wallet, gate, receipts>>

Mounted(r) == page = "view" /\ r.gate = gate

QuoteAnswered(r) ==
    /\ r.op = "quote" /\ Answer(r)
    /\ IF Mounted(r)
       THEN status' = "quoted" /\ quote' = r.quote /\ Publish(FALSE)
       ELSE UNCHANGED <<status, quote, canView, bytes, live, fetches>>
    /\ UNCHANGED <<page, wallet, gate, receipts>>

QuoteFailed(r) ==
    /\ r.op = "quote" /\ Fail(r)
    /\ IF Mounted(r)
       THEN status' = "error" /\ quote' = None /\ Publish(FALSE)
       ELSE UNCHANGED <<status, quote, canView, bytes, live, fetches>>
    /\ UNCHANGED <<page, wallet, gate, receipts>>

\* The pay button: a click, on the quote it shows.
PayContentView ==
    /\ page = "view" /\ ~Busy /\ status # "paid" /\ quote # None
    /\ Send(PayRequest(quote))
    /\ status' = "paying" /\ Publish(FALSE)
    /\ UNCHANGED <<page, wallet, gate, quote, receipts>>

\* A proved payment leaves a recent receipt, whether or not its page is still there.
KeepReceipt(r) == receipts' = receipts \cup {r}

\* The payment is proved: a receipt is kept and, if the gate is still mounted,
\* the view is opened.
PayAnswered(r) ==
    /\ r.op = "pay" /\ Answer(r)
    /\ KeepReceipt(r)
    /\ IF Mounted(r)
       THEN status' = "paid" /\ quote' = r.quote /\ Publish(TRUE)
       ELSE UNCHANGED <<status, quote, canView, bytes, live, fetches>>
    /\ UNCHANGED <<page, wallet, gate>>

\* Faulty: a failed payment opens the view.
PayFailedOpening(r) ==
    /\ r.op = "pay" /\ Fail(r)
    /\ IF Mounted(r)
       THEN status' = "error" /\ Publish(TRUE)
       ELSE UNCHANGED <<status, canView, bytes, live, fetches>>
    /\ UNCHANGED <<page, wallet, gate, quote, receipts>>

\* The gate keeps the quote, so paying again uses the same key.
PayFailed(r) ==
    /\ r.op = "pay" /\ Fail(r)
    /\ IF Mounted(r)
       THEN status' = "error" /\ Publish(FALSE)
       ELSE UNCHANGED <<status, canView, bytes, live, fetches>>
    /\ UNCHANGED <<page, wallet, gate, quote, receipts>>

-----------------------------------------------------------------------------
(* The page.                                                               *)

\* The first commit of a new view.  contentViewAccess starts with canView TRUE,
\* so the fetch effect starts one fetch before the gate's access takes effect;
\* the next commit leaves that fetch unused.
Resolved ==
    /\ page = "resolving" /\ page' = "view"
    /\ Cardinality(fetches) < MaxFetches
    /\ fetches' = fetches \cup {NextFetch}
    /\ bytes' = "idle" /\ live' = 0 /\ canView' = FALSE
    /\ QuoteContentView
    /\ UNCHANGED <<wallet, gate, receipts>>

ResolveFailed ==
    /\ Unreliable
    /\ page = "resolving" /\ page' = "problem"
    /\ UNCHANGED <<service, wallet, gate, status, quote, canView, bytes, live,
                   fetches, receipts>>

Remount ==
    /\ gate < MaxMounts /\ gate' = gate + 1
    /\ page' = "resolving"
    /\ status' = "idle" /\ quote' = None /\ canView' = TRUE
    /\ bytes' = "idle" /\ live' = 0
    /\ UNCHANGED receipts

Refresh == Remount /\ UNCHANGED <<service, wallet, fetches>>

\* New settings reach the page that is there first: its gate's effect quotes for
\* the new wallet, and an open view's effect fetches with the new client.  Then
\* the resolver's effect takes the page down, and nobody uses their answers.
SettingsChanged ==
    /\ wallet' \in Wallets \cup {None}
    /\ IF page = "view" /\ wallet' # None THEN Send(QuoteRequest(wallet')) ELSE UNCHANGED service
    /\ IF page = "view" /\ canView
       THEN Cardinality(fetches) < MaxFetches /\ fetches' = fetches \cup {NextFetch}
       ELSE UNCHANGED fetches
    /\ Remount

\* The same address is navigated to: the gate's target is a new object, so its
\* effect quotes again, whatever the gate was doing.
SameAddress ==
    /\ page = "view"
    /\ QuoteContentView /\ Publish(FALSE)
    /\ UNCHANGED <<page, wallet, gate, receipts>>

\* The service carries out a request it was sent.
ServiceServes(r) ==
    Serve(r) /\ UNCHANGED <<page, wallet, gate, status, quote, canView, bytes,
                            live, fetches, receipts>>

Next ==
    \/ Resolved \/ ResolveFailed \/ Refresh \/ SettingsChanged \/ SameAddress
    \/ Requote \/ PayContentView \/ ReloadPreview
    \/ \E r \in sent : ServiceServes(r)
    \/ \E r \in waiting : QuoteAnswered(r) \/ QuoteFailed(r)
                          \/ PayAnswered(r) \/ PayFailed(r)
    \/ \E f \in fetches : FetchAnswered(f)

Spec == Init /\ [][Next]_vars

-----------------------------------------------------------------------------
(* What must hold.                                                         *)

\* The view is open only under a charge of the wallet the page shows, made
\* from this very mount: neither a quote, a failure, a late answer of an
\* earlier mount nor another account's payment opens it.
OpenByOwnCharge ==
    canView /\ page = "view" =>
        \E c \in charges : c.payer = wallet /\ c.gate = gate /\ c.quote = quote

\* Protected bytes are shown only while the view is open: the fetch started at
\* mount and the one cut short by a lock come back unused.
BytesOnlyWhileOpen == bytes \in {"loading", "ready"} => canView /\ page = "view"

\* The requests of this mount bill the wallet it shows, and its quote is an answer
\* to one of them.
GateAgrees ==
    /\ \A r \in Made : /\ r.gate <= gate
                       /\ r.gate = gate => page = "view" /\ r.payer = wallet
    /\ quote # None => AskedFor(quote, gate, wallet)

\* A fetch whose answer will be used is the one the view shows as loading.
FetchAgrees ==
    /\ IsFiniteSet(fetches) /\ 0 \notin fetches
    /\ live # 0 => bytes = "loading"

\* The quote the page is open under, 0 when it has none.
OpenUnder ==
    IF ~(canView /\ page = "view")
    THEN None
    ELSE IF quote = None THEN 0 ELSE quote

\* The gate as the paid page's promise.
Gate == INSTANCE PaidGate
    WITH Quotes <- 1..MaxRequests,
         charges <- Transfers,
         open <- OpenUnder

\* However often a payment fails, is clicked again or is answered after its page
\* was left, the transfer of one quote is made once, and protected content opens
\* only under a transfer already made.
KeepsPromise == Gate!Spec

\* The page's state is well formed, and canView of a paid view is set only by a
\* payment of this mount's gate that the ledger holds, for the wallet configured.
ViewInv == TypeOK /\ ServiceInv /\ GateAgrees /\ FetchAgrees /\ OpenByOwnCharge
=============================================================================
