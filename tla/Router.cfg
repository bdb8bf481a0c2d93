CONSTANTS
  ByteBits = 1
  V4Bytes = 1
  V6Bytes = 2
  MaxInserts = 2
SPECIFICATION LiveSpec
INVARIANTS TypeOK ReaderOutlived InjectsIntoLiveRouter RouterInv
PROPERTIES ForwardsExactly StopCompletes
