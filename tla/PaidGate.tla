------------------------------ MODULE PaidGate ------------------------------
(***************************************************************************)
(* What a paid page promises: protected content is open only under a       *)
(* payment the ledger holds, payments are never undone, and one quote is   *)
(* charged at most once.                                                   *)
(***************************************************************************)
EXTENDS Naturals

CONSTANTS Quotes, None

VARIABLES
    charges,    \* how often each quote was charged
    open        \* the charged quote the page is open under, or None

Init == charges = [q \in Quotes |-> 0] /\ open = None

Charge(q) ==
    /\ charges[q] = 0 /\ charges' = [charges EXCEPT ![q] = 1]
    /\ UNCHANGED open

Open(q) == charges[q] = 1 /\ open' = q /\ UNCHANGED charges

Close == open' = None /\ UNCHANGED charges

Next == (\E q \in Quotes : Charge(q) \/ Open(q)) \/ Close

Spec == Init /\ [][Next]_<<charges, open>>
=============================================================================
