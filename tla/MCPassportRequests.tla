------------------------ MODULE MCPassportRequests ------------------------
(* Model checking of PassportRequests with a few passports and commands. *)
EXTENDS PassportRequests, TLC

(* Passports are interchangeable, and so are the commands' slots. *)
Symmetry == Permutations(Passports) \cup Permutations(Jobs)

(* No guard reads the history variables. *)
Seen == <<store, sealed, ack, public, vmk, pending, capability, main, arg, jobs>>
=============================================================================
