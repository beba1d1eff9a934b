SPECIFICATION Spec
CONSTANTS
  Gens = {1}
  Broken = Broken
  Addrs = {loopback, remote, noport}
  HostPort = {loopback, remote}
  Loopback = {loopback}
  None = None
INVARIANT NoPortRefused
