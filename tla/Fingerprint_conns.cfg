SPECIFICATION CollectorSpec
CONSTANTS
  TLSConns = {c1, c2, c3}
  Addrs <- Peers
  Hellos <- AllHellos
  NoHolder = NoHolder
  NoPrint = NoPrint
SYMMETRY Symmetry
INVARIANTS StackNamed PendingOwned
CHECK_DEADLOCK FALSE
