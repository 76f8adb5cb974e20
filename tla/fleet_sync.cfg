SPECIFICATION Spec
CONSTANTS
  d1 = d1  d2 = d2  t1 = t1  t2 = t2  r1 = r1  r2 = r2  b1 = b1  b2 = b2
  cam = cam  cam2 = cam2  ip1 = ip1  ip2 = ip2  ipv6 = ipv6
  Devices = {d1, d2}
  Names = {cam, cam2}
  V4 = {ip1, ip2}
  V6 = {ipv6}
  Tokens = {t1, t2}
  Requests = {r1, r2}
  Beats = {b1}
  Bases = {cam}
  Candidates <- Suffixes2
  MaxRecords = 6
  Faults = {"sign"}
INVARIANTS
  DnsFollowsCam
  GrantedKeepsRow
SYMMETRY Swaps
