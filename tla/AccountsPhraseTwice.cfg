SPECIFICATION Spec
CONSTANTS
  Clients = {c1, c2}
  Names = {alice}
  Passwords = {Empty, p1, p2}
  Empty = Empty
  None = None
  MaxDraws = 3
  RegisterLoggedIn = {}
  MayFail = {}
SYMMETRY Symmetry
PROPERTY OneTimePhrase
