CONSTANTS
  Values = {a1, a2}
  Absent = Absent
  Torn = Torn
  Inodes = {i1, i2}
  NoFile = NoFile
  Persisters = {p1, p2}
SPECIFICATION AuthorizationSpec
SYMMETRY Symmetry
INVARIANT AuthorizationInv ConflictFailsClosed WrittenIsDurable NeverStuck
PROPERTY WholeRecordStays
VIEW Seen
