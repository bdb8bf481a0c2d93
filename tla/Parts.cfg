CONSTANTS
  ByteBits = 2
  V4Bytes = 1
  V6Bytes = 2
  Values = {v1, v2}
  MaxInserts = 2
  UuidSize = 5
  Dashes = {2}
  Inputs <- MCInputs
  FieldValues = {1, 2}
  MaxAccesses = 5
  ConnIndexes = {0, 3, 255}
  RetryAfters <- MCRetryAfters
  MaxFails = 7
  NumClients = 2
  Ctxs = {d1}
  Streams = {s1}
  NextRange = 4
  Cidrs = {any, net}
  AnyCidr = any
  MaxLines = 3
  kNumHaConns = 4
  Addresses = {a1, a2}
  MaxAddresses = 2
  Argv <- MCArgv
  ProbeArgs <- MCProbeArgs
SPECIFICATION MCSpec
INVARIANTS
  LookupIsLongestMatch DestroyReachesAll
  DecodersExact FieldsIndependent RequestArrives AnswerReadAsMeant RetryDelay
  TransportInv ReclaimedOnce
  StartupInv ConfiguredMeansInstalled ZeroMeansDone
CHECK_DEADLOCK FALSE
