--------------------------- MODULE WalletBalance ---------------------------
(***************************************************************************)
(* The balance the shell shows: AppContext.refreshWallet, its callers and  *)
(* the settings' wallet account.                                           *)
(*                                                                         *)
(* refreshWallet is a React callback: it carries the walletState of the    *)
(* render it was made in.  The balance chip calls the current one; a page  *)
(* that has paid calls, when its payment is answered, the one it had when  *)
(* the click came.  Answers are applied in whatever order they come.       *)
(***************************************************************************)
EXTENDS Integers, FiniteSets

CONSTANTS
    Accounts,           \* wallet accounts the settings can name
    NoWallet,           \* no account; no balance
    MaxTransfers,       \* bound: changes of each account's balance
    MaxRefreshes        \* bound: balance requests of one behaviour

ASSUME WalletBalanceAssumption ==
    /\ NoWallet \notin Accounts
    /\ NoWallet \notin [account : Accounts, asOf : 0..MaxTransfers, stale : BOOLEAN]
    /\ MaxTransfers \in Nat /\ MaxRefreshes \in Nat

VARIABLES
    truth,      \* the ledger: how often each account's balance has changed
    account,    \* settings.walletAccount
    wallet,     \* walletState
    refreshes,  \* balance requests not yet answered
    requested,  \* how many there were
    callers,    \* the refreshWallet callbacks pages hold for later
    newest,     \* history: the newest balance shown of each account
    mixed       \* history: a page refreshed, or a reset hid a refresh under way

balanceVars == <<truth, account, wallet, refreshes, requested, callers, newest, mixed>>

\* A balance: whose it is, as of which change, and whether it is marked stale.
Balance == [account : Accounts, asOf : 0..MaxTransfers, stale : BOOLEAN]
MaybeBalance == Balance \cup {NoWallet}

BalanceTypeOK ==
    /\ truth \in [Accounts -> 0..MaxTransfers]
    /\ account \in Accounts \cup {NoWallet}
    /\ wallet \in [status : {"idle", "checking", "ok", "error"},
                   account : Accounts \cup {NoWallet}, data : MaybeBalance]
    /\ refreshes \subseteq [id : 1..MaxRefreshes, account : Accounts,
                            seen : MaybeBalance, read : -1..MaxTransfers]
    /\ requested \in 0..MaxRefreshes
    /\ callers \subseteq [account : Accounts \cup {NoWallet}, seen : MaybeBalance]
    /\ newest \in [Accounts -> 0..MaxTransfers] /\ mixed \in BOOLEAN
    /\ wallet.status = "ok" => wallet.data # NoWallet /\ ~wallet.data.stale
    /\ wallet.status = "error" /\ wallet.data # NoWallet => wallet.data.stale

Idle == [status |-> "idle", account |-> NoWallet, data |-> NoWallet]

BalanceInit ==
    /\ truth = [a \in Accounts |-> 0] /\ newest = truth
    /\ account \in Accounts \cup {NoWallet}
    /\ wallet = Idle
    /\ refreshes = {} /\ requested = 0 /\ callers = {} /\ mixed = FALSE

-----------------------------------------------------------------------------
\* refreshWallet for an account, by a callback that saw the balance seen.
RefreshWallet(a, seen) ==
    IF a = NoWallet
    THEN /\ wallet' = [status |-> "error", account |-> NoWallet, data |-> NoWallet]
         /\ UNCHANGED <<refreshes, requested>>
    ELSE /\ requested < MaxRefreshes /\ requested' = requested + 1
         /\ wallet' = [status |-> "checking", account |-> a, data |-> seen]
         /\ refreshes' = refreshes \cup
              {[id |-> requested + 1, account |-> a, seen |-> seen, read |-> -1]}

\* Faulty: the chip asks again while it waits.
ClickChipAlways ==
    /\ RefreshWallet(account, wallet.data)
    /\ UNCHANGED <<truth, account, callers, newest, mixed>>

\* The chip refreshes unless a refresh is shown as under way.
ClickChip ==
    /\ wallet.status # "checking"
    /\ RefreshWallet(account, wallet.data)
    /\ UNCHANGED <<truth, account, callers, newest, mixed>>

\* A click on a page whose payment will refresh the balance when answered.
PagePays ==
    /\ callers' = callers \cup {[account |-> account, seen |-> wallet.data]}
    /\ UNCHANGED <<truth, account, wallet, refreshes, requested, newest, mixed>>

PageRefreshes(c) ==
    /\ c \in callers /\ callers' = callers \ {c}
    /\ RefreshWallet(c.account, c.seen)
    /\ mixed' = TRUE
    /\ UNCHANGED <<truth, account, newest>>

\* The wallet service reads the balance.
Read(r) ==
    /\ r \in refreshes /\ r.read = -1
    /\ refreshes' = (refreshes \ {r}) \cup {[r EXCEPT !.read = truth[r.account]]}
    /\ UNCHANGED <<truth, account, wallet, requested, callers, newest, mixed>>

Larger(m, n) == IF m < n THEN n ELSE m

RefreshAnswered(r) ==
    /\ r \in refreshes /\ r.read # -1 /\ refreshes' = refreshes \ {r}
    /\ wallet' = [status |-> "ok", account |-> r.account,
                  data |-> [account |-> r.account, asOf |-> r.read, stale |-> FALSE]]
    /\ newest' = [newest EXCEPT ![r.account] = Larger(@, r.read)]
    /\ UNCHANGED <<truth, account, requested, callers, mixed>>

\* Faulty: the stale balance is taken for the account that was asked for.
MarkStaleAsAsked(b, a) ==
    IF b = NoWallet THEN NoWallet ELSE [b EXCEPT !.stale = TRUE, !.account = a]

\* The balance a failed refresh leaves is the one its callback saw, marked stale.
MarkStale(b, a) == IF b = NoWallet THEN NoWallet ELSE [b EXCEPT !.stale = TRUE]

RefreshFailed(r) ==
    /\ r \in refreshes /\ refreshes' = refreshes \ {r}
    /\ wallet' = [status |-> "error", account |-> r.account,
                  data |-> MarkStale(r.seen, r.account)]
    /\ UNCHANGED <<truth, account, requested, callers, newest, mixed>>

-----------------------------------------------------------------------------
\* updateSettings names another account or none; the shown balance stays.
SwitchAccount ==
    /\ account' \in (Accounts \cup {NoWallet}) \ {account}
    /\ UNCHANGED <<truth, wallet, refreshes, requested, callers, newest, mixed>>

ResetSettings ==
    /\ account' = NoWallet /\ wallet' = Idle
    /\ mixed' = (mixed \/ refreshes # {})
    /\ UNCHANGED <<truth, refreshes, requested, callers, newest>>

\* A payment, here or elsewhere.
Transfer(a) ==
    /\ truth[a] < MaxTransfers /\ truth' = [truth EXCEPT ![a] = @ + 1]
    /\ UNCHANGED <<account, wallet, refreshes, requested, callers, newest, mixed>>

BalanceNext ==
    \/ ClickChip \/ PagePays \/ SwitchAccount \/ ResetSettings
    \/ \E a \in Accounts : Transfer(a)
    \/ \E c \in callers : PageRefreshes(c)
    \/ \E r \in refreshes : Read(r) \/ RefreshAnswered(r) \/ RefreshFailed(r)

BalanceSpec == BalanceInit /\ [][BalanceNext]_balanceVars

-----------------------------------------------------------------------------
(* What must hold.                                                         *)

\* Whatever fails and whichever account it is for, the balance shown is one the
\* ledger has had for the account it is attributed to, and was once answered.
BalancesAreReal ==
    wallet.data # NoWallet =>
        /\ wallet.data.asOf <= newest[wallet.data.account]
        /\ wallet.data.asOf <= truth[wallet.data.account]

\* So is every balance that a failure or a page's late refresh may still show.
PendingAreReal ==
    /\ \A a \in Accounts : newest[a] <= truth[a]
    /\ \A r \in refreshes : r.read <= truth[r.account]
    /\ \A s \in refreshes \cup callers :
          s.seen # NoWallet => s.seen.asOf <= newest[s.seen.account]

\* While only the chip has refreshed, and no reset has hidden its refresh, there
\* is one refresh at most, it is shown, and it was read since the newest balance
\* of its account was.
OneAtATime ==
    \A r \in refreshes :
        /\ refreshes = {r} /\ wallet.status = "checking" /\ r.seen = wallet.data
        /\ r.read # -1 => newest[r.account] <= r.read

\* Then the balance shown, fresh or stale, is the newest that was shown of its
\* account, also when the settings have named another one meanwhile.
ShownIsNewest ==
    (wallet.data # NoWallet /\ ~mixed) => wallet.data.asOf = newest[wallet.data.account]

\* The display is well formed, and the balance refreshWallet leaves in walletState
\* is one the ledger had for the account it is attributed to.
BalanceInv ==
    /\ BalanceTypeOK /\ BalancesAreReal /\ PendingAreReal
    /\ ~mixed => OneAtATime
=============================================================================
