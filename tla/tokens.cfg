SPECIFICATION FairSpec
CONSTANTS
  c0 = c0
  c1 = c1
  d0 = d0
  r0 = r0
  r1 = r1
  a0 = a0
  a1 = a1
  Caches <- TwoCaches
  Directories = {d0}
  Roots = {r0, r1}
  Addrs = {a0, a1}
  Bytes = {1, 2}
  Values = {0}
  NoVal = NoVal
  InitValue = 0
  NodeBufferSize = 2
  NextNode <- TwoLevel
  Assoc = 1
  SetOf <- OneSet
  RequestBufferSize = 1
  Readers <- EvictC1
  Writers <- OnlyC0
  MaxUnacked = 1
  Writes <- FirstByte
  RootOf <- BothRoots
  OutputQueueSize = 1
  InputQueueSize = 2
  DDRDepth = 1
  Below <- AllInD0
INVARIANTS
  TypeOK
  TokenConservation
  OneRequestPerLoadingLine
  WritesAckedOnce
  CopiesHaveTokens
  SoleOwner
  AllLoaded
  DirectoryCountsRing
PROPERTIES
  LoadsProgress
