SPECIFICATION ProxyFairSpec
CONSTANTS
  IPs = {x}
  Conns = {c1, c2}
  Streams <- ClientStreams
  Payloads <- Bodies
  Group = 3
  MaxVarInt = 2
  MaxPacket = 7
  MaxConns = 1
  BanOnAbuse = TRUE
  Allowed = {}
INVARIANTS UpstreamSeesClient SlotsHeld
PROPERTIES NobodyStuck
