\* Two connections and their use of the client contract, up to the exit.
SPECIFICATION FairSpec
CONSTANTS
  Conns <- TwoConns
  ArgIndex = 3
INVARIANTS
  HealthExact
  KjNeverStrands
  ExitClean
  SupervisorInv
PROPERTIES
  UsesContract
  StopExits
  AnswerArrives
  DropRedialled
