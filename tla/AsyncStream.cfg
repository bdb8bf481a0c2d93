CONSTANT AnswerLen = 3
SPECIFICATION LiveSpec
INVARIANTS TypeOK BytesInOrder NoSleepOnData AbortOnLiveStream StreamInv
PROPERTY RegisterReturns
