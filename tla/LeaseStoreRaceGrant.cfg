\* Two workers; only acquire, release and prune, no failing reads.
SPECIFICATION Spec
SYMMETRY Symmetry
CONSTANTS
  Proc = {w1, w2}
  alice = alice
  bob = bob
  quota = 2
  Principal = {alice, bob}
  Runner = {r1, r2}
  Issue = {}
  LinearBot = linearbot
  Anyone = anyone
  Perm = perm
  MaxRunners <- MCMaxRunners
  Duration = {1}
  ReadFaults = FALSE
  MaxInode = 4
  MaxTime = 1
INVARIANTS
  NoDoubleGrant
