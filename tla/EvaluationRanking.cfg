CONSTANTS
  Sides <- MCSides
  Tuned <- MCTuned
  Scopes <- MCScopes
  Snapshots <- MCSnapshots
  Requests <- MCRequests
  All = all
  AnyPort = any
  None = none
  host = host
  half = half
  net = net
  fqdn = fqdn
  g1 = g1
  g2 = g2
  web = web
  wide = wide
  mixed = mixed
  port1 = port1
  port2 = port2
SPECIFICATION MCSpec
CHECK_DEADLOCK FALSE
INVARIANT
  CoveringRanksFirst
