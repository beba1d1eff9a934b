SPECIFICATION Spec
CONSTANTS
  Gens = {1, 2}
  Broken = Broken
  Addrs = {loopback, remote, noport}
  HostPort = {loopback, remote}
  Loopback = {loopback}
  None = None
INVARIANTS
  NoDowngrade
  PlaintextStaysLocal
  MutualTrust
  DialInv
