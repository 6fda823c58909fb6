------------------------- MODULE MCLocalFollowing -------------------------
(* Model checking of LocalFollowing: creators, cursors and the slots of    *)
(* views and refreshes are interchangeable.                                *)
EXTENDS LocalFollowing, TLC

Symmetry == Permutations(Creators) \cup Permutations(Views) \cup Permutations(Runs)

(* What follows once a write has been lost is not explored further.        *)
NothingLost == ~lost

(* A view reads the record it keeps only when it is ready, so states that   *)
(* differ in what another one keeps are taken for one.                     *)
Read(v) == IF v.status = "ready" THEN v ELSE [v EXCEPT !.record = <<>>]
WhatIsRead == <<store, [v \in Views |-> Read(view[v])], run, asked, stale, lost>>
=============================================================================
