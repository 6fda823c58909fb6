----------------------------- MODULE SiteVisit -----------------------------
(***************************************************************************)
(* A named site's page: SiteRender resolves the site, SiteVisitAccess (the *)
(* gate) quotes and pays the visit of a paid one through                   *)
(* /sites/<name>/visit, and ResolvedSiteView fetches the root document     *)
(* once the gate's access allows it.                                       *)
(*                                                                         *)
(* The page is mounted anew by a refresh and by a change of the settings,  *)
(* whose new gateway client makes SiteRender resolve again; the site may   *)
(* then advertise another policy.                                          *)
(***************************************************************************)
EXTENDS PaymentService

CONSTANTS
    Wallets,        \* wallet accounts the settings can name
    MaxMounts,      \* bound: times the page is mounted
    MaxFetches      \* bound: root document fetches not yet answered

ASSUME SiteVisitAssumption ==
    /\ Wallets \subseteq STRING /\ None \notin Wallets
    /\ MaxMounts \in Nat /\ MaxFetches \in Nat

VARIABLES
    page,           \* SiteRender's state
    wallet,         \* settings.walletAccount, None when not configured
    mount,          \* which mount of the page this is
    requiresPayment,\* the policy of the resolved site
    status,         \* the gate's state.status
    quote,          \* the gate's state.quote
    asked,          \* the quote request that has quoteSeqRef's number, or 0
    access,         \* the view's visitAccess: "none", "locked" or "open"
    root,           \* the view's rootStatus
    live,           \* the root fetch whose effect is still alive, or 0
    fetches,        \* root fetches not yet answered
    receipts        \* recent receipts written

view == <<access, root, live, fetches>>
vars == <<service, page, wallet, mount, requiresPayment, status, quote,
          asked, view, receipts>>

TypeOK ==
    /\ ServiceTypeOK
    /\ page \in {"loading", "resolved", "error"}
    /\ wallet \in Wallets \cup {None}
    /\ mount \in Nat /\ asked \in Nat /\ live \in Nat
    /\ requiresPayment \in BOOLEAN
    /\ status \in {"free", "idle", "quoting", "quoted", "paying", "paid",
                   "pay_error", "quote_error", "backend_pending_locked"}
    /\ quote \in Nat \cup {None}
    /\ access \in {"none", "locked", "open"}
    /\ root \in {"root_locked_until_paid_access", "loading_after_backend_access",
                 "ok", "error"}
    /\ fetches \subseteq Nat
    /\ receipts \subseteq Request

Init ==
    /\ ServiceInit
    /\ page = "loading" /\ mount = 1 /\ wallet \in Wallets \cup {None}
    /\ requiresPayment = TRUE /\ status = "idle" /\ quote = None
    /\ asked = 0
    /\ access = "none" /\ root = "root_locked_until_paid_access"
    /\ live = 0 /\ fetches = {} /\ receipts = {}

-----------------------------------------------------------------------------
(* The view's root document.                                               *)

\* canRenderPreview: pendingPaidAccess keeps a paid site locked until the gate
\* has spoken; a free one is rendered at once.
CanRender(paid, a) == IF a = "none" THEN ~paid ELSE a = "open"

NextFetch == CHOOSE n \in 1..(Cardinality(fetches) + 1) :
                 n \notin fetches

\* The view's access becomes a: the fetch effect runs when the right to render
\* changes, or (mounting) for the first time.
ViewUnder(paid, a, mounting) ==
    /\ access' = a
    /\ IF ~mounting /\ CanRender(paid, a) = CanRender(requiresPayment, access)
       THEN UNCHANGED <<root, live, fetches>>
       ELSE IF CanRender(paid, a)
       THEN /\ Cardinality(fetches) < MaxFetches
            /\ root' = "loading_after_backend_access" /\ live' = NextFetch
            /\ fetches' = fetches \cup {NextFetch}
       ELSE /\ root' = "root_locked_until_paid_access" /\ live' = 0
            /\ UNCHANGED fetches

RootAnswered(f) ==
    /\ f \in fetches /\ fetches' = fetches \ {f}
    /\ IF live = f
       THEN root' \in {"ok", "error"} /\ live' = 0
       ELSE UNCHANGED <<root, live>>
    /\ UNCHANGED <<service, page, wallet, mount, requiresPayment, status,
                   quote, asked, access, receipts>>

-----------------------------------------------------------------------------
(* The gate.                                                               *)

\* Asking for a quote, as the effect of status "idle" does.  Without a wallet
\* the client refuses before it sends anything.
QuoteVisit ==
    /\ quote' = None
    /\ IF wallet = None
       THEN /\ status' = "quote_error" /\ asked' = 0 /\ UNCHANGED service
       ELSE /\ status' = "quoting" /\ asked' = NextId
            /\ Send([id |-> NextId, op |-> "quote", gate |-> mount,
                     quote |-> NextId, payer |-> wallet, key |-> NextId])

\* A late quote: the page was left, or a newer quote was asked for.
Current(r) == page = "resolved" /\ r.gate = mount /\ asked = r.id

Emit(a) == ViewUnder(requiresPayment, a, FALSE)

QuoteAnswered(r) ==
    /\ r.op = "quote" /\ Answer(r)
    /\ IF Current(r)
       THEN status' = "quoted" /\ quote' = r.quote /\ Emit("locked")
       ELSE UNCHANGED <<status, quote, view>>
    /\ UNCHANGED <<page, wallet, mount, requiresPayment, asked, receipts>>

\* Faulty: a failed quote opens the site.
QuoteFailedRendering(r) ==
    /\ r.op = "quote" /\ Fail(r)
    /\ IF Current(r)
       THEN /\ status' \in {"backend_pending_locked", "quote_error"}
            /\ quote' = None /\ Emit("open")
       ELSE UNCHANGED <<status, quote, view>>
    /\ UNCHANGED <<page, wallet, mount, requiresPayment, asked, receipts>>

\* A missing route locks the page for good; another failure offers a retry.
QuoteFailed(r) ==
    /\ r.op = "quote" /\ Fail(r)
    /\ IF Current(r)
       THEN /\ status' \in {"backend_pending_locked", "quote_error"}
            /\ quote' = None /\ Emit("locked")
       ELSE UNCHANGED <<status, quote, view>>
    /\ UNCHANGED <<page, wallet, mount, requiresPayment, asked, receipts>>

\* Faulty: every click pays under a new key.
PayRequestFresh(q) == [id |-> NextId, op |-> "pay", gate |-> mount, quote |-> q,
                       payer |-> wallet, key |-> NextId]

PayRequest(q) == [id |-> NextId, op |-> "pay", gate |-> mount, quote |-> q,
                  payer |-> wallet, key |-> q]

\* The click on "Pay ... and open site".
PayVisit ==
    /\ page = "resolved" /\ status = "quoted"
    /\ Send(PayRequest(quote))
    /\ status' = "paying" /\ Emit("locked")
    /\ UNCHANGED <<page, wallet, mount, requiresPayment, quote, asked, receipts>>

Mounted(r) == page = "resolved" /\ r.gate = mount

\* A proved payment leaves a recent receipt, whether or not its page is still there.
KeepReceipt(r) == receipts' = receipts \cup {r}

\* The payment is proved; the receipt is kept whether or not the page is still
\* there.
PayAnswered(r) ==
    /\ r.op = "pay" /\ Answer(r)
    /\ KeepReceipt(r)
    /\ IF Mounted(r)
       THEN status' = "paid" /\ quote' = r.quote /\ Emit("open")
       ELSE UNCHANGED <<status, quote, view>>
    /\ UNCHANGED <<page, wallet, mount, requiresPayment, asked>>

\* Faulty: a failed payment leaves the gate paying.
PayFailedSilently(r) ==
    /\ r.op = "pay" /\ Fail(r)
    /\ UNCHANGED <<page, wallet, mount, requiresPayment, status, quote, asked,
                   view, receipts>>

PayFailed(r) ==
    /\ r.op = "pay" /\ Fail(r)
    /\ IF Mounted(r)
       THEN status' = "pay_error" /\ quote' = r.quote /\ Emit("locked")
       ELSE UNCHANGED <<status, quote, view>>
    /\ UNCHANGED <<page, wallet, mount, requiresPayment, asked, receipts>>

\* "Back to quote": the same quote, so the same key, is offered again.
BackToQuote ==
    /\ page = "resolved" /\ status = "pay_error" /\ status' = "quoted"
    /\ UNCHANGED <<service, page, wallet, mount, requiresPayment, quote,
                   asked, view, receipts>>

\* Faulty: a paid visit may be quoted again.
RetryQuoteWhenPaid ==
    /\ page = "resolved"
    /\ status \in {"quote_error", "pay_error", "quoted", "paid"}
    /\ QuoteVisit /\ Emit("locked")
    /\ UNCHANGED <<page, wallet, mount, requiresPayment, receipts>>

\* retryQuote, behind "Retry quote", "New quote" and "Requote": the gate is idle
\* again, and its effect asks for another quote.
RetryQuote ==
    /\ page = "resolved" /\ status \in {"quote_error", "pay_error", "quoted"}
    /\ QuoteVisit /\ Emit("locked")
    /\ UNCHANGED <<page, wallet, mount, requiresPayment, receipts>>

-----------------------------------------------------------------------------
(* The page.                                                               *)

Resolved ==
    /\ page = "loading" /\ page' = "resolved"
    /\ requiresPayment' \in BOOLEAN
    /\ IF requiresPayment'
       THEN QuoteVisit /\ ViewUnder(TRUE, "locked", TRUE)
       ELSE /\ status' = "free" /\ quote' = None /\ ViewUnder(FALSE, "open", TRUE)
            /\ UNCHANGED <<service, asked>>
    /\ UNCHANGED <<wallet, mount, receipts>>

ResolveFailed ==
    /\ Unreliable
    /\ page = "loading" /\ page' = "error"
    /\ UNCHANGED <<service, wallet, mount, requiresPayment, status, quote,
                   asked, view, receipts>>

Remount ==
    /\ mount < MaxMounts /\ mount' = mount + 1
    /\ page' = "loading" /\ requiresPayment' = TRUE
    /\ status' = "idle" /\ quote' = None /\ asked' = 0
    /\ access' = "none" /\ root' = "root_locked_until_paid_access" /\ live' = 0
    /\ UNCHANGED <<service, receipts>>

Refresh == Remount /\ UNCHANGED <<wallet, fetches>>

\* New settings reach the page that is there first: a view that may render fetches
\* the root document with the new client, under the access it has.  The next
\* commit takes the page down, and the answer is not used.
SettingsChanged ==
    /\ wallet' \in Wallets \cup {None}
    /\ IF page = "resolved" /\ CanRender(requiresPayment, access)
       THEN Cardinality(fetches) < MaxFetches /\ fetches' = fetches \cup {NextFetch}
       ELSE UNCHANGED fetches
    /\ Remount

ServiceServes(r) ==
    Serve(r) /\ UNCHANGED <<page, wallet, mount, requiresPayment, status, quote,
                            asked, view, receipts>>

Next ==
    \/ Resolved \/ ResolveFailed \/ Refresh \/ SettingsChanged
    \/ PayVisit \/ BackToQuote \/ RetryQuote
    \/ \E r \in sent : ServiceServes(r)
    \/ \E r \in waiting : QuoteAnswered(r) \/ QuoteFailed(r)
                          \/ PayAnswered(r) \/ PayFailed(r)
    \/ \E f \in fetches : RootAnswered(f)

Spec == Init /\ [][Next]_vars

RequestsEnd == \E r \in waiting : QuoteAnswered(r) \/ QuoteFailed(r)
                                  \/ PayAnswered(r) \/ PayFailed(r)

FairSpec ==
    Spec /\ WF_vars(RequestsEnd) /\ WF_vars(\E f \in fetches : RootAnswered(f))

-----------------------------------------------------------------------------
(* What must hold.                                                         *)

\* The view of a paid site loads and shows the document only under a charge of the
\* wallet the page shows, made from this very mount of it.
DocumentUnderCharge ==
    requiresPayment /\ root # "root_locked_until_paid_access" =>
        \E c \in charges : c.payer = wallet /\ c.gate = mount /\ c.quote = quote

\* The view asks for the root document only while it may render it.
RootAgrees ==
    /\ IsFiniteSet(fetches) /\ 0 \notin fetches
    /\ root # "root_locked_until_paid_access" => CanRender(requiresPayment, access)
    /\ live # 0 => root = "loading_after_backend_access"

\* The requests of this mount bill the wallet it shows, and are answered to a gate
\* that waits for them: one payment at a time, and the quote asked for last.
GateAgrees ==
    /\ \A r \in Made : /\ r.gate <= mount
                       /\ r.gate = mount => page = "resolved" /\ r.payer = wallet
    /\ \A r, s \in waiting :
          r.op = "pay" /\ s.op = "pay" /\ r.gate = mount /\ s.gate = mount => r = s
    /\ \A r \in waiting : r.gate = mount =>
          /\ r.op = "pay" => status = "paying"
          /\ r.op = "quote" /\ r.id = asked => status = "quoting"
    /\ status \in {"quoted", "paying", "paid", "pay_error"} =>
          AskedFor(quote, mount, wallet)

\* A free site is open, a paid one only under a charge of this mount's wallet.
OpenUnderCharge ==
    /\ ~requiresPayment => access = "open"
    /\ access = "open" =>
        /\ page = "resolved" /\ status = IF requiresPayment THEN "paid" ELSE "free"
        /\ requiresPayment =>
              \E c \in charges : c.payer = wallet /\ c.gate = mount /\ c.quote = quote

\* A gate does not stay between states: a quote or payment under way ends.
GateSettles == status \in {"quoting", "paying"} ~> status \notin {"quoting", "paying"}

\* A visit once opened stays open until the page is mounted anew.
OpenUntilRemount ==
    [][access = "open" /\ access' # "open" => mount' # mount]_vars

\* The quote the page is open under, 0 when it has none.
OpenUnder ==
    IF ~(requiresPayment /\ access = "open")
    THEN None
    ELSE IF quote = None THEN 0 ELSE quote

\* The gate as the paid page's promise.
Gate == INSTANCE PaidGate
    WITH Quotes <- 1..MaxRequests,
         charges <- Transfers,
         open <- OpenUnder

\* However often a payment fails, is clicked again or is answered after its page
\* was left, the transfer of one quote is made once, and protected content opens
\* only under a transfer already made.
KeepsPromise == Gate!Spec

\* The page's state is well formed, and the view of a paid site loads and shows the
\* root document only under a charge of this mount's wallet.
SiteInv ==
    /\ TypeOK /\ ServiceInv /\ RootAgrees /\ GateAgrees /\ OpenUnderCharge
    /\ DocumentUnderCharge
=============================================================================
