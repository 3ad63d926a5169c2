SPECIFICATION Spec
CONSTANTS
  Threads = {m1, w1}
  Managers = {m1}
  Urls = {u1, u2}
  None = None
  MaxInits = 3
SYMMETRY Symmetry
INVARIANT TypeOK
INVARIANT Settled
INVARIANT TablesReady
 
INVARIANT BlocksCurrent
INVARIANT ListenersCurrent
