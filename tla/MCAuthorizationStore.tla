------------------------ MODULE MCAuthorizationStore ------------------------
(* Model checking of AuthorizationStore: two calls at once. *)
EXTENDS AuthorizationStore, TLC

(* Authorizations, files and calls are interchangeable. *)
Symmetry == Permutations(Values) \cup Permutations(Inodes) \cup Permutations(Persisters)

(* What an unused file was last written with makes no difference: the      *)
(* call that creates it overwrites it before anything reads it.            *)
Seen == <<dir, onDisk, [i \in Inodes \ Unused |-> file[i]],
          pc, mine, fd, clearing, removed, answers, late, alone>>
=============================================================================
