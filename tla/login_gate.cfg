SPECIFICATION GateSpec
CONSTANTS
  c1 = c1  c2 = c2  nx = nx  px = px  ax = ax  s1 = s1  s2 = s2  NoAddr = NoAddr
  Addrs = {c1, c2, nx, px, ax}
  IPs = {c1, c2, nx, px, ax}
  Trusted = {nx, px, ax}
  Proxies = {nx, px, ax}
  Tunnels = {nx}
  Replacing = {px}
  Routes <- Ways
  Clients = {c1}
  SentHops <- Headers
  SentRealIPs = {c2}
  Observed = {c1, c2}
  PerIP = 2
  WindowSecs = 3
  Slots = {s1, s2}
  Lag = 1
  MaxTime = 6
INVARIANTS
  GateTypeOK
  ChargedToClient
  WindowBound
  NotLockedOut
SYMMETRY Swap
CHECK_DEADLOCK FALSE
