\* The drop handler's notification against the wait it should wake.
SPECIFICATION FairSpec
CONSTANTS
  Conns <- OneConn
  ArgIndex = 3
PROPERTY DropWakes
