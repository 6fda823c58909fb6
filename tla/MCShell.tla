------------------------------ MODULE MCShell ------------------------------
(* Model checking of the window's parts: the tabs, the wallet's balance    *)
(* and the Home page's feed.  No action of one reads or changes a variable *)
(* of another, so every property of one can be checked while the others    *)
(* rest: a behaviour moves only one of the three.                          *)
EXTENDS Tabs, WalletBalance, FollowingFeed

\* The first creator's page has a newer publication and a private one, the second's
\* an older publication.
Published(c, id, at, public) == [creator |-> c, id |-> id, at |-> at, public |-> public]

SomePages ==
  [c \in Creators |->
    IF c = 1 THEN {{Published(c, 2, 3, TRUE), Published(c, 3, 4, FALSE)}}
    ELSE {{Published(c, 1, 2, TRUE)}}]

Symmetry == Permutations(Accounts) \cup Permutations(Runs)

TabsRest == web.entries = <<Home>> /\ TabsInit /\ UNCHANGED tabsVars
BalanceRests == account = NoWallet /\ BalanceInit /\ UNCHANGED balanceVars
FeedRests == Init /\ UNCHANGED vars

ShellInit == TabsInit /\ BalanceInit /\ Init

ShellNext ==
    \/ BalanceRests /\ FeedRests /\ TabsNext
    \/ TabsRest /\ FeedRests /\ BalanceNext
    \/ TabsRest /\ BalanceRests /\ Next

ShellSpec == ShellInit /\ [][ShellNext]_<<tabsVars, balanceVars, vars>>
=============================================================================
