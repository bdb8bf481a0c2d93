\* The conn_index two reconnect threads register.
SPECIFICATION Spec
CONSTANTS
  Conns <- TwoConns
  ArgIndex = 3
INVARIANT OwnsConnIndex
