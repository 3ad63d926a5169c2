SPECIFICATION Spec
CONSTANTS
  alice = alice
  bob = bob
  mail = mail
  bank = bank
  Clients = {c1, c2}
  Users = {alice, bob}
  Services <- TwoServices
  Creds <- Creds2
  BadCreds <- EmptyPassword
  None = None
  Deleted = Deleted
  MaxDraws = 2
  SharedAccounts = FALSE
  RestoreAny = FALSE
SYMMETRY Symmetry
INVARIANT OneLivePerService
INVARIANT ReadersAgree
PROPERTY ImplementsStore
