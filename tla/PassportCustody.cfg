CONSTANTS
  Passports = {p1, p2, p3}
  None = None
  Damaged = Damaged
SPECIFICATION Spec
SYMMETRY Symmetry
INVARIANT CustodyInv SessionIsOfVault PendingIsOfVault CreatedStaysUsable
PROPERTY PhraseShownOnce VaultGoesLast ClearedIsEmpty
