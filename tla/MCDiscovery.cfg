SPECIFICATION FairSpec
CONSTANTS
  p1 = p1
  p2 = p2
  w1 = w1
  w2 = w2
  k1 = k1
  k2 = k2
  weak = weak
  local = local
  remote = remote
  noport = noport
  memory = memory
  Blank = Blank
  Garbage = Garbage
  NoKey = NoKey
  NoJob = NoJob
  Secrets = {k1, k2, weak}
  WeakSecrets = {weak}
  Ids = {p1, p2, Blank}
  Categories = {memory, Blank}
  Addrs = {local, remote, noport}
  HostPort = {local, remote}
  AnnounceWindow = 1
  MaxDuration = 4
  Plugins = {p1, p2}
  AnnOf <- MCAnnOf
  BigManifest = {p2}
  SecretOf <- MCSecretOf
  Watchers = {w1, w2}
  WatchSecret <- MCWatchSecret
  Foreign <- MCForeign
  AllowLists = {{}, {local}, {local, remote}}
  MaxSkew = 1
  MaxWire = 2
INVARIANTS
  RegistryTruthful
  AllowlistSeesAuthentic
  DiscoveryInv
PROPERTIES
  ReplayBounded
  Discovered
