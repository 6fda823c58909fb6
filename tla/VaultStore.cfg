CONSTANTS
  Values = {v1, v2}
  Absent = Absent
  Torn = Torn
  Inodes = {i1, i2, i3}
  NoFile = NoFile
SPECIFICATION Spec
SYMMETRY Symmetry
INVARIANT VaultInv NeverStuck
PROPERTY IsDurableCell
VIEW Seen
