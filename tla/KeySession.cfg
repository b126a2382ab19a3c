CONSTANTS
  Files = {a, b}
  Keys = {k1, k2, k3}
  Passwords = {p, q}
  NoKey = NoKey
  NoSession = NoSession
  Absent = Absent
  Damaged = Damaged
  Unknown = Unknown
SYMMETRY Alike
SPECIFICATION SessionSpec
INVARIANTS OneStorage  ListedIsSaved SignerMatches NoDanglingKey
PROPERTIES WrittenReadable
