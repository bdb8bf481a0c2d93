\* One client, all threads, and the contract it implements.
SPECIFICATION FairSpec
INVARIANTS
  NoCallbackAfterExit
  FiresAtMostOnce
  HandshakeFresh
  RegistersOnLiveHandle
  ClientInv
PROPERTIES
  ImplementsContract
  DropNoticed
  CloseReturns
