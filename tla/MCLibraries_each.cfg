SPECIFICATION LibSpec
CONSTANTS
  NULL = NULL
  Keys = {1, 2, 3, 4, 5}
  Values = {7, 8}
  Items <- MCItems
  Hash <- MCHash
  MinBuckets = 4
  LoadFactors = {95}
  GrowPowers = {2}
  IterBuckets = 4
  Messages <- MCMessages
  Cuts = {0, 8, 55, 60}
  WordSizes = {32, 1024}
  Sources <- MCSources
  Texts <- MCTexts
  SizeMod = 512
  Requests <- MCRequests
  KeyBytes <- MCKeyBytes
  KeyNames = {"Sec-WebSocket-Key"}
  magicString <- MCMagic
  Answers <- MCAnswers
  Elements = {1, 2}
  Junk = 0
  Capacities = {0, 1, 3}
  MaxLength = 4
  Base = 4
  BufferSize = 9
  HeapBase = 2
  Ptrs = {0, 1, 4}
  Types <- MCTypes
  Data <- MCData
  SetCalls <- MCSetCalls
  GetTypes <- MCGetTypes
  MaxSets = 1
  Formats <- MCFormats
INVARIANTS
  TableOrdered
  OutputFits
  DigestStandard
  AcceptKeyRight
  ArrayKept
  PrintfRight
PROPERTIES
  IterationComplete
  ImplementsKeyedItems
  ReadsBack
  SetThenGet
  CallsReturn
