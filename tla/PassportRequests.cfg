CONSTANTS
  Passports = {p1, p2}
  None = None
  Damaged = Damaged
  Jobs = {j1, j2}
SPECIFICATION RequestsSpec
SYMMETRY Symmetry
INVARIANT JobsTypeOK
PROPERTY ImplementsCustody ProofNamesSigner
VIEW Seen
