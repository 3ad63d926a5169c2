SPECIFICATION Spec
CONSTANTS
  Threads = {t1, t2}
  Accounts = {alice}
  Services = {mail}
  None = None
  MaxRows = 2
INVARIANT TypeOK
INVARIANT NeverStuck
INVARIANT SteadyAnswers
