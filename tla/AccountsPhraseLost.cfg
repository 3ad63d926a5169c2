SPECIFICATION Spec
CONSTANTS
  Clients = {c1}
  Names = {alice, bob}
  Passwords = {Empty, p1}
  Empty = Empty
  None = None
  MaxDraws = 2
  RegisterLoggedIn = {alice, bob}
  MayFail = {}
INVARIANT PhraseShown
