\* Two workers, and reads of leases.yml that may fail.
SPECIFICATION Spec
SYMMETRY Symmetry
VIEW View
CONSTANTS
  Proc = {w1, w2}
  alice = alice
  bob = bob
  quota = 2
  Principal = {alice, bob}
  Runner = {r1, r2}
  Issue = {i1}
  LinearBot = linearbot
  Anyone = anyone
  Perm = perm
  MaxRunners <- MCMaxRunners
  Duration = {1}
  ReadFaults = TRUE
  MaxInode = 4
  MaxTime = 1
INVARIANTS
  StoreSound
PROPERTIES
  OnlyOwnEffects
