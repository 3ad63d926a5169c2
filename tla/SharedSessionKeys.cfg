SPECIFICATION Spec
CONSTANTS
  Threads = {t1, t2}
  Accounts = {alice, bob}
  Services = {mail}
  None = None
  MaxRows = 2
PROPERTY OwnKeyOnly
