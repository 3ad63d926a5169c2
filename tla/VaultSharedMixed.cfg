SPECIFICATION Spec
CONSTANTS
  alice = alice
  bob = bob
  mail = mail
  bank = bank
  Clients = {c1, c2}
  Users = {alice}
  Services <- OneService
  Creds <- Creds3
  BadCreds <- EmptyPassword
  None = None
  Deleted = Deleted
  MaxDraws = 3
  SharedAccounts = TRUE
  RestoreAny = FALSE
INVARIANT NoMixedCredential
