SPECIFICATION Spec
CONSTANTS
  c0 = c0
  c1 = c1
  d0 = d0
  r0 = r0
  r1 = r1
  a0 = a0
  a1 = a1
  Caches <- TwoCaches
  Directories = {}
  Roots = {r0}
  Addrs = {a0, a1}
  Bytes = {1}
  Values = {0, 1}
  NoVal = NoVal
  InitValue = 0
  NodeBufferSize = 2
  NextNode <- OneLevel
  Assoc = 1
  SetOf <- OneSet
  RequestBufferSize = 1
  Readers <- All
  Writers <- OnlyC0
  MaxUnacked = 1
  Writes <- WholeLine
  RootOf <- SingleRoot
  OutputQueueSize = 1
  InputQueueSize = 1
  DDRDepth = 1
  Below <- NoDirectory
INVARIANT CleanEvictionMatchesMemory
