SPECIFICATION Spec
CONSTANTS
  Workers <- MCWorkers
  Conns <- MCConns
  Upgrades <- MCUpgrades
  MaxConnections = 2
  Cors <- MCCors
  w1 = w1
  w2 = w2
  w3 = w3
  c1 = c1
  c2 = c2
  c3 = c3
  c4 = c4
  c5 = c5
  o1 = o1
  o2 = o2
  NoCors = NoCors
  NoOrigin = NoOrigin
  BadOrigin = BadOrigin
  None = None
SYMMETRY Symmetry
INVARIANTS
  SlotsAccounted
  ConnectionsBounded
