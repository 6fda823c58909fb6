------------------------- MODULE MCPassportCustody -------------------------
(* Model checking of PassportCustody with a few passports. *)
EXTENDS PassportCustody, TLC

(* Passports are interchangeable. *)
Symmetry == Permutations(Passports)
=============================================================================
