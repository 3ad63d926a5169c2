SPECIFICATION Spec
CONSTANTS
  Clients = {c1, c2}
  Names = {alice, bob}
  Passwords = {Empty, p1, p2}
  Empty = Empty
  None = None
  MaxDraws = 4
  RegisterLoggedIn = {bob}
  MayFail = {bob}
SYMMETRY Symmetry
INVARIANT TypeOK
INVARIANT Coherent
INVARIANT SessionsHoldDek
INVARIANT RecoveryPossible
PROPERTY AccountsStay
PROPERTY ToldStopsWorking
PROPERTY ImplementsRegistry
