------------------------- MODULE QuicClientProofs -------------------------
(***************************************************************************)
(* Proofs about QuicClient: the invariant ClientInv is inductive, the      *)
(* safety properties follow from it, and every step of the client is a     *)
(* step of its contract or a stutter.  The SMT backend does not relate     *)
(* x = FALSE to ~x for a variable x, so an action that clears a flag first *)
(* has that fact in a step of its own.                                     *)
(***************************************************************************)
EXTENDS QuicClient, TLAPS

USE DEF Closers, Pinners, InClose, Critical, Serving

\* The threads start in a state that satisfies the invariant.
LEMMA InitInv == Init => ClientInv
<1> SUFFICES ASSUME Init PROVE ClientInv
  OBVIOUS
<1>1. /\ g_stop \in BOOLEAN /\ disc_fired \in BOOLEAN
      /\ registration_ \in BOOLEAN /\ ~registration_
      /\ configuration_ \in BOOLEAN /\ ~configuration_
      /\ connection_ \in BOOLEAN /\ ~connection_
      /\ handshake_done_ \in BOOLEAN
      /\ handshake_ok_ \in BOOLEAN /\ ~handshake_ok_
      /\ disc_notified_ \in BOOLEAN /\ disconnect_handler_ \in BOOLEAN
  BY Zenon DEF Init
<1>2. TypeOK
  BY <1>1 DEF Init, TypeOK
<1>3. CloseInv
  BY <1>1 DEF Init, CloseInv
<1>4. HandleInv
  BY <1>1 DEF Init, HandleInv
<1>5. FlagsInv
  BY <1>1 DEF Init, FlagsInv
<1>6. RegisterInv
  BY <1>1 DEF Init, RegisterInv
<1>7. QED
  BY <1>2, <1>3, <1>4, <1>5, <1>6 DEF ClientInv

\* Every step of every thread preserves it.
LEMMA NextInv == ClientInv /\ [Next]_vars => ClientInv'
<1> SUFFICES ASSUME ClientInv, [Next]_vars PROVE ClientInv'
  OBVIOUS
<1> USE DEF ClientInv, TypeOK, CloseInv, HandleInv, FlagsInv, RegisterInv,
            loop, control, closing, handles, flags, calls
<1>1. ASSUME NEW t \in Closers, CloseLock(t) PROVE ClientInv'
  BY <1>1 DEF CloseLock, CloseMutexFree
<1>2. ASSUME NEW t \in Closers, CloseShutdown(t) PROVE ClientInv'
  BY <1>2 DEF CloseShutdown, ShutDown
<1>3. ASSUME NEW t \in Closers, CloseTake(t) PROVE ClientInv'
  <2>1. /\ connection_' \in BOOLEAN /\ ~connection_'
    BY <1>3, Zenon DEF CloseTake, ShutDown
  <2>2. QED
    BY <1>3, <2>1 DEF CloseTake, ShutDown
<1>4. ASSUME NEW t \in Closers, CloseDrain(t) PROVE ClientInv'
  BY <1>4 DEF CloseDrain
<1>5. ASSUME NEW t \in Closers, CloseConfiguration(t) PROVE ClientInv'
  <2>1. /\ configuration_' \in BOOLEAN /\ ~configuration_'
    BY <1>5, Zenon DEF CloseConfiguration
  <2>2. QED
    BY <1>5, <2>1 DEF CloseConfiguration
<1>6. ASSUME NEW t \in Closers, CloseRegistration(t) PROVE ClientInv'
  <2>1. /\ registration_' \in BOOLEAN /\ ~registration_'
    BY <1>6, Zenon DEF CloseRegistration, Unlock, AfterClose
  <2>2. QED
    BY <1>6, <2>1 DEF CloseRegistration, Unlock, AfterClose
<1>7. CASE LoopTop
  <2>1. disc_fired' \in BOOLEAN
    BY <1>7, Zenon DEF LoopTop, TypeOK
  <2>2. QED
    BY <1>7, <2>1 DEF LoopTop, EnterClose
<1>8. CASE ConnectReset
  <2>1. /\ handshake_done_' \in BOOLEAN /\ ~handshake_done_'
        /\ handshake_ok_' \in BOOLEAN /\ ~handshake_ok_'
        /\ disc_notified_' \in BOOLEAN /\ ~disc_notified_'
    BY <1>8, Zenon DEF ConnectReset, ResetFlags
  <2>2. QED
    BY <1>8, <2>1 DEF ConnectReset, ResetFlags
<1>9. CASE ConnectRegistration
  <2>1. registration_' \in BOOLEAN
    BY <1>9, Zenon DEF ConnectRegistration, TypeOK
  <2>2. QED
    BY <1>9, <2>1 DEF ConnectRegistration, ConnectFailed
<1>10. CASE ConnectConfiguration
  <2>1. configuration_' \in BOOLEAN
    BY <1>10, Zenon DEF ConnectConfiguration, ConnectFailed, TypeOK
  <2>2. QED
    BY <1>10, <2>1 DEF ConnectConfiguration, ConnectFailed
<1>11. CASE ConnectOpen
  <2>1. CASE pc' = "resolve" /\ connection_' = TRUE /\ hconn' = "open"
    <3>1. connection_' \in BOOLEAN /\ connection_'
      BY <2>1, Zenon
    <3>2. QED
      BY <1>11, <2>1, <3>1 DEF ConnectOpen
  <2>2. CASE ConnectFailed /\ UNCHANGED <<connection_, hconn>>
    BY <1>11, <2>2 DEF ConnectOpen, ConnectFailed
  <2>3. QED
    BY <1>11, <2>1, <2>2, Zenon DEF ConnectOpen
<1>12. CASE ConnectResolve
  BY <1>12 DEF ConnectResolve, ConnectFailed
<1>13. CASE ConnectStartArgs
  BY <1>13 DEF ConnectStartArgs, ConnectFailed
<1>14. CASE ConnectStart
  BY <1>14 DEF ConnectStart, ConnectFailed
<1>15. CASE ConnectWait
  BY <1>15 DEF ConnectWait, HandshakeSeen, ConnectFailed
<1>16. CASE Post
  BY <1>16 DEF Post
<1>17. CASE AwaitResult
  BY <1>17 DEF AwaitResult, Answered, EnterClose
<1>18. CASE ServeEnd
  BY <1>18 DEF ServeEnd
<1>38. CASE WaitCheck \/ WaitBlock \/ WaitSpurious
  BY <1>38 DEF WaitCheck, WaitBlock, WaitSpurious
<1>19. CASE SleepEnd
  BY <1>19 DEF SleepEnd
<1>20. CASE ClearHandler
  <2>1. /\ disconnect_handler_' \in BOOLEAN /\ ~disconnect_handler_'
    BY <1>20, Zenon DEF ClearHandler, EnterClose
  <2>2. QED
    BY <1>20, <2>1 DEF ClearHandler, EnterClose
<1>21. CASE KjGuard
  BY <1>21 DEF KjGuard, Usable
<1>22. CASE KjGet
  BY <1>22 DEF KjGet
<1>23. CASE KjReturn
  BY <1>23 DEF KjReturn
<1>24. CASE TxGuard
  BY <1>24 DEF TxGuard, Usable
<1>25. CASE TxGet
  BY <1>25 DEF TxGet
<1>26. CASE TxSend
  BY <1>26 DEF TxSend
<1>27. CASE EvConnected
  BY <1>27 DEF EvConnected
<1>28. CASE EvShutdownInitiated
  BY <1>28 DEF EvShutdownInitiated, FireDisconnect, FirstLoss
<1>29. CASE EvShutdownComplete
  BY <1>29 DEF EvShutdownComplete, FireDisconnect, FirstLoss
<1>30. CASE RunHandler
  BY <1>30 DEF RunHandler, Notified
<1>31. CASE EvDatagram
  BY <1>31 DEF EvDatagram
<1>32. CASE EndDatagram
  BY <1>32 DEF EndDatagram
<1>33. CASE Stop
  BY <1>33 DEF Stop, Notified
<1>34. CASE MainClose
  BY <1>34 DEF MainClose, Notified
<1>35. CASE MainJoin
  BY <1>35 DEF MainJoin
<1>36. CASE UNCHANGED vars
  BY <1>36 DEF vars
<1>37. QED
  BY <1>1, <1>2, <1>3, <1>4, <1>5, <1>6, <1>7, <1>8, <1>9, <1>10, <1>11,
     <1>12, <1>13, <1>14, <1>15, <1>16, <1>17, <1>18, <1>19, <1>20, <1>21,
     <1>22, <1>23, <1>24, <1>25, <1>26, <1>27, <1>28, <1>29, <1>30, <1>31,
     <1>32, <1>33, <1>34, <1>35, <1>36, <1>38 DEF Next, Close, Reconnect, Kj,
     Terminated

\* The invariant holds in every reachable state.
THEOREM ClientInvariant == Spec => []ClientInv
<1>1. QED
  BY InitInv, NextInv, PTL DEF Spec

\* close() and the reset of the handles leave no callback that could touch
\* the stack of a reconnect thread that has returned.
THEOREM CallbacksEnd == Spec => []NoCallbackAfterExit
<1>1. ClientInv => NoCallbackAfterExit
  BY DEF ClientInv, HandleInv, NoCallbackAfterExit
<1>2. QED
  BY <1>1, ClientInvariant, PTL

\* The disconnect handler runs at most once per connect() attempt.
THEOREM HandlerFiresOnce == Spec => []FiresAtMostOnce
<1>1. ClientInv => FiresAtMostOnce
  BY DEF ClientInv, TypeOK, FiresAtMostOnce
<1>2. QED
  BY <1>1, ClientInvariant, PTL

\* connect() succeeds only on a handshake of its own connection.
THEOREM HandshakeIsFresh == Spec => []HandshakeFresh
<1>1. ClientInv => HandshakeFresh
  BY DEF ClientInv, TypeOK, FlagsInv, HandshakeFresh
<1>2. QED
  BY <1>1, ClientInvariant, PTL

\* register_connection() keeps its handle until the process is stopping.
THEOREM RegistrationHandleLives == Spec => []RegistersOnLiveHandle
<1>1. ClientInv => RegistersOnLiveHandle
  BY DEF ClientInv, RegisterInv, RegistersOnLiveHandle
<1>2. QED
  BY <1>1, ClientInvariant, PTL

-----------------------------------------------------------------------------
(***************************************************************************)
(* The refinement.                                                         *)
(***************************************************************************)

\* A step that leaves the connection object, the handshake flag and the
\* count of handler calls alone is a stutter of the contract.
LEMMA InertStep ==
  ASSUME UNCHANGED <<hconn, handshake_ok_, fired>>
  PROVE  UNCHANGED <<link, fired > 0>>
  BY DEF link, Up

\* A step of the client is a step of the contract or a stutter.
LEMMA ContractStep ==
  ASSUME ClientInv, [Next]_vars
  PROVE  [Contract!Next]_<<link, fired > 0>>
<1> USE DEF ClientInv, TypeOK, HandleInv, FlagsInv, flags, control, closing,
            loop, handles, calls, link, Up, Contract!Next
<1>1. ASSUME NEW t \in Closers, CloseShutdown(t)
      PROVE  Contract!Fail \/ UNCHANGED <<link, fired > 0>>
  BY <1>1 DEF CloseShutdown, ShutDown, Contract!Fail
<1>2. ASSUME NEW t \in Closers, CloseTake(t)
      PROVE  Contract!Fail \/ UNCHANGED <<link, fired > 0>>
  BY <1>2 DEF CloseTake, ShutDown, Contract!Fail
<1>3. ASSUME NEW t \in Closers, CloseDrain(t) PROVE Contract!Close
  BY <1>3 DEF CloseDrain, Contract!Close
<1>4. ASSUME ConnectReset PROVE Contract!Renew
  BY <1>4 DEF ConnectReset, Contract!Renew
<1>5. ASSUME ConnectOpen
      PROVE  Contract!Dial \/ UNCHANGED <<link, fired > 0>>
  BY <1>5 DEF ConnectOpen, Contract!Dial
<1>6. ASSUME ConnectStart PROVE UNCHANGED <<link, fired > 0>>
  BY <1>6 DEF ConnectStart
<1>7. ASSUME EvConnected PROVE Contract!Establish
  <2>1. handshake_ok_' = TRUE /\ handshake_ok_'
    BY <1>7, Zenon DEF EvConnected
  <2>2. QED
    BY <1>7, <2>1 DEF EvConnected, Contract!Establish
<1>8. ASSUME EvShutdownInitiated PROVE Contract!Lose \/ Contract!Fail
  BY <1>8 DEF EvShutdownInitiated, FireDisconnect, Contract!Lose, Contract!Fail
<1>9. ASSUME EvShutdownComplete
      PROVE  Contract!Lose \/ Contract!Fail \/ UNCHANGED <<link, fired > 0>>
  BY <1>9 DEF EvShutdownComplete, FireDisconnect, Contract!Lose, Contract!Fail
<1>10. ASSUME RunHandler PROVE Contract!Tell
  BY <1>10 DEF RunHandler, Contract!Tell
<1>11. ASSUME \/ \E t \in Closers : CloseLock(t) \/ CloseConfiguration(t)
                                      \/ CloseRegistration(t)
              \/ LoopTop \/ ConnectRegistration \/ ConnectConfiguration
              \/ ConnectResolve \/ ConnectStartArgs \/ ConnectWait \/ Post
              \/ AwaitResult \/ WaitCheck \/ WaitBlock \/ WaitSpurious
              \/ ServeEnd \/ SleepEnd \/ ClearHandler
              \/ Kj \/ TxGuard \/ TxGet \/ TxSend \/ EvDatagram
              \/ EndDatagram \/ Stop \/ MainClose \/ MainJoin \/ Terminated
       PROVE  UNCHANGED <<link, fired > 0>>
  <2>1. UNCHANGED <<hconn, handshake_ok_, fired>>
    BY <1>11, Zenon DEF CloseLock, CloseConfiguration, CloseRegistration,
       LoopTop, ConnectRegistration, ConnectConfiguration, ConnectResolve,
       ConnectStartArgs, ConnectWait, Post, AwaitResult, WaitCheck, WaitBlock,
       WaitSpurious, ServeEnd, SleepEnd, ClearHandler, Kj, KjGuard, KjGet, KjReturn, TxGuard, TxGet, TxSend,
       EvDatagram, EndDatagram, Stop, MainClose, MainJoin, Terminated, vars
  <2>2. QED
    BY <2>1, InertStep
<1>12. ASSUME UNCHANGED vars PROVE UNCHANGED <<link, fired > 0>>
  BY <1>12, InertStep DEF vars
<1>13. QED
  BY <1>1, <1>2, <1>3, <1>4, <1>5, <1>6, <1>7, <1>8, <1>9, <1>10, <1>11,
     <1>12, Zenon DEF Next, Close, Reconnect

\* The code of QuicClient implements the contract its header states.
THEOREM ClientImplementsContract == Spec => ImplementsContract
<1>1. Init => Contract!Init
  BY DEF Init, link, Up, Contract!Init
<1>2. ClientInv /\ [Next]_vars => [Contract!Next]_<<link, fired > 0>>
  BY ContractStep
<1>3. QED
  BY <1>1, <1>2, ClientInvariant, PTL DEF Spec, ImplementsContract,
     Contract!Spec
=============================================================================
