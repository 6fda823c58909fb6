---------------------------- MODULE MCVaultStore ----------------------------
(* Model checking of VaultStore on a few vaults and files. *)
EXTENDS VaultStore, TLC

(* Vaults are interchangeable, and so are files. *)
Symmetry == Permutations(Values) \cup Permutations(Inodes)

(* What an unused file was last written with makes no difference: the      *)
(* call that creates it overwrites it before anything reads it.            *)
Seen == <<dir, onDisk, [i \in InUse |-> file[i]], pc, arg, mayHold>>
=============================================================================
