------------------------ MODULE SupervisorProofs --------------------------
(***************************************************************************)
(* Proofs about Supervisor, for every finite set of connections: the       *)
(* invariant SupervisorInv is inductive, the safety properties follow from *)
(* it, and the threads use every client within its contract.               *)
(***************************************************************************)
EXTENDS Supervisor, FiniteSetTheorems, TLAPS

\* No thread is counted at first.
LEMMA InitInv == Init => SupervisorInv
<1> SUFFICES ASSUME Init PROVE SupervisorInv
  OBVIOUS
<1>1. Healthy = {}
  BY DEF Init, Healthy, Counted
<1>2. Cardinality({}) = 0 /\ Cardinality(Conns) \in Nat
  BY ConnsAssumption, FS_EmptySet, FS_CardinalityType
<1>3. TypeOK
  <2>1. /\ disc_fired \in [Conns -> BOOLEAN] /\ told \in [Conns -> BOOLEAN]
        /\ handler \in [Conns -> BOOLEAN]
        /\ kj_stop \in BOOLEAN /\ g_stop \in BOOLEAN
    BY Zenon DEF Init
  <2>2. QED
    BY <1>2, <2>1 DEF Init, TypeOK, Closing, Counted
<1>4. HealthExact
  BY <1>1, <1>2 DEF Init, HealthExact
<1>5. TeardownInv
  BY Zenon DEF Init, TeardownInv
<1>6. ClientsInv /\ MutexInv
  BY DEF Init, ClientsInv, MutexInv
<1>7. QED
  BY <1>3, <1>4, <1>5, <1>6 DEF SupervisorInv

\* Only a registration and the end of the wait change who is counted, and
\* each changes ok_count by the one thread it moves.
LEMMA HealthStep ==
  ASSUME SupervisorInv, [Next]_vars
  PROVE  HealthExact' /\ ok_count' \in 0..Cardinality(Conns)
<1> USE DEF SupervisorInv, TypeOK, Go, NotifyAll, Closing, Counted
<1>1. IsFiniteSet(Healthy) /\ Cardinality(Healthy) \in Nat
  BY ConnsAssumption, FS_Subset, FS_CardinalityType DEF Healthy
<1>2. ASSUME NEW c \in Conns, Registered(c) PROVE HealthExact'
  <2>1. Healthy' = Healthy \cup {c} /\ c \notin Healthy
    BY <1>2 DEF Registered, Healthy
  <2>2. Cardinality(Healthy') = Cardinality(Healthy) + 1
    BY <1>1, <2>1, FS_AddElement
  <2>3. QED
    BY <1>2, <2>2 DEF Registered, HealthExact
<1>3. ASSUME NEW c \in Conns, WaitEnd(c) PROVE HealthExact'
  <2>1. Healthy' = Healthy \ {c} /\ c \in Healthy
    BY <1>3 DEF WaitEnd, AfterWait, Healthy
  <2>2. Cardinality(Healthy') = Cardinality(Healthy) - 1
    BY <1>1, <2>1, FS_RemoveElement
  <2>3. QED
    BY <1>3, <2>2 DEF WaitEnd, Uncount, HealthExact
<1>4. ASSUME NEW c \in Conns,
             Established(c) \/ Failed(c) \/ Lost(c) \/ CloseBegin(c)
             \/ MainCloseBegin(c) \/ MainCloseAbort(c)
             \/ MainCloseDrained(c) \/ MainCloseEnd(c)
      PROVE  UNCHANGED <<ok_count, Healthy>>
  BY <1>4 DEF Healthy, Established, Failed, Lost, CloseBegin,
     MainCloseBegin, MainCloseAbort, MainCloseDrained, MainCloseEnd
<1>5. ASSUME NEW c \in Conns,
             LoopTop(c) \/ CloseEnd(c) \/ Connect(c) \/ Connected(c)
             \/ Post(c) \/ Rejected(c) \/ WaitCheck(c) \/ WaitBlock(c)
             \/ WaitSpurious(c) \/ SleepEnd(c) \/ ClearHandler(c)
      PROVE  UNCHANGED <<ok_count, Healthy>>
  <2> DEFINE Moves == /\ UNCHANGED ok_count
                      /\ pc[c] \in Counted <=> pc'[c] \in Counted
                      /\ pc' = [pc EXCEPT ![c] = pc'[c]]
  <2>1. ASSUME LoopTop(c) PROVE Moves
    BY <2>1 DEF LoopTop
  <2>2. ASSUME CloseEnd(c) PROVE Moves
    BY <2>2 DEF CloseEnd, AfterClose
  <2>3. ASSUME Connect(c) PROVE Moves
    BY <2>3 DEF Connect
  <2>4. ASSUME Connected(c) PROVE Moves
    BY <2>4 DEF Connected
  <2>5. ASSUME Post(c) \/ Rejected(c) \/ WaitCheck(c)
               \/ WaitBlock(c) \/ WaitSpurious(c) PROVE Moves
    BY <2>5 DEF Post, Rejected, WaitCheck, WaitBlock, WaitSpurious
  <2>6. ASSUME SleepEnd(c) \/ ClearHandler(c) PROVE Moves
    BY <2>6 DEF SleepEnd, ClearHandler
  <2>7. Moves
    BY <1>5, <2>1, <2>2, <2>3, <2>4, <2>5, <2>6
  <2>8. QED
    BY <2>7 DEF Healthy
<1>6. ASSUME NEW c \in Conns, Tell(c) PROVE UNCHANGED <<ok_count, Healthy>>
  BY <1>6 DEF Healthy, Tell
<1>7. ASSUME
             KjTake \/ KjAnswer \/ KjBreak \/ Signal \/ MainWaitEnd \/
             MainOkQ \/ MainPoll \/ MainShutdown \/
             MainJoin \/ MainKjStop \/ MainKjJoin \/ UNCHANGED vars
      PROVE  UNCHANGED <<ok_count, Healthy>>
  BY <1>7 DEF Healthy, vars, RaiseStop, KjTake, KjAnswer, KjBreak, Signal,
     MainWaitEnd, MainOkQ, MainPoll, MainShutdown, MainJoin,
     MainKjStop, MainKjJoin
<1>8. HealthExact'
  BY <1>2, <1>3, <1>4, <1>5, <1>6, <1>7
     DEF Next, Thread, Kj, Main, Terminated, HealthExact
<1>9. Healthy' \subseteq Conns
  BY DEF Healthy
<1>10. QED
  <2>1. /\ Cardinality(Healthy') \in Nat /\ Cardinality(Conns) \in Nat
        /\ Cardinality(Healthy') <= Cardinality(Conns)
    BY <1>9, ConnsAssumption, FS_Subset, FS_CardinalityType
  <2>2. QED
    BY <1>8, <2>1 DEF HealthExact

\* Every step of every thread preserves the invariant.
LEMMA NextInv == SupervisorInv /\ [Next]_vars => SupervisorInv'
<1> SUFFICES ASSUME SupervisorInv, [Next]_vars PROVE SupervisorInv'
  OBVIOUS
<1> DEFINE Rest == TypeOK /\ TeardownInv /\ ClientsInv /\ MutexInv
<1>0. HealthExact' /\ ok_count' \in 0..Cardinality(Conns)
  BY HealthStep
<1> USE ConnsAssumption, ArgIndexAssumption, <1>0
    DEF SupervisorInv, TypeOK, TeardownInv, ClientsInv, MutexInv, NextToClose,
        kj, main, Go, NotifyAll, Closing, Counted
<1>1. ASSUME NEW c \in Conns, Established(c) PROVE Rest'
  BY <1>1 DEF Established
<1>2. ASSUME NEW c \in Conns, Failed(c) PROVE Rest'
  BY <1>2 DEF Failed
<1>3. ASSUME NEW c \in Conns, Lost(c) PROVE Rest'
  BY <1>3 DEF Lost
<1>4. ASSUME NEW c \in Conns, Tell(c) PROVE Rest'
  BY <1>4 DEF Tell, Owed
<1>5. ASSUME NEW c \in Conns, LoopTop(c) PROVE Rest'
  <2>0. disc_fired' \in [Conns -> BOOLEAN]
    BY <1>5, Zenon DEF LoopTop
  <2>1. MutexInv'
    BY <1>5 DEF LoopTop
  <2>2. TypeOK'
    BY <1>5, <2>0 DEF LoopTop
  <2>3. TeardownInv' /\ ClientsInv'
    BY <1>5 DEF LoopTop
  <2>4. QED
    BY <2>1, <2>2, <2>3
<1>6. ASSUME NEW c \in Conns, CloseBegin(c) PROVE Rest'
  BY <1>6 DEF CloseBegin, Shut
<1>7. ASSUME NEW c \in Conns, CloseEnd(c) PROVE Rest'
  BY <1>7 DEF CloseEnd, Closed, AfterClose
<1>8. ASSUME NEW c \in Conns, Connect(c) PROVE Rest'
  <2>0. told' \in [Conns -> BOOLEAN]
    BY <1>8, Zenon DEF Connect
  <2>1. MutexInv'
    BY <1>8 DEF Connect
  <2>2. TypeOK'
    <3>1. pc' \in [Conns -> {"top", "connect", "dial", "post", "await", "sleep",
                              "unset", "done"} \cup Closing \cup Counted]
      BY <1>8 DEF Connect
    <3>2. link' \in [Conns -> {"closed", "dialing", "up", "failed", "lost"}]
      BY <1>8 DEF Connect
    <3>3. QED
      BY <1>8, <2>0, <3>1, <3>2 DEF Connect
  <2>3. TeardownInv' /\ ClientsInv'
    BY <1>8 DEF Connect
  <2>4. QED
    BY <2>1, <2>2, <2>3
<1>9. ASSUME NEW c \in Conns, Connected(c) PROVE Rest'
  BY <1>9 DEF Connected
<1>10. ASSUME NEW c \in Conns, Post(c) PROVE Rest'
  BY <1>10 DEF Post, ConnIndex, RegWork
<1>11. ASSUME NEW c \in Conns, Rejected(c) PROVE Rest'
  BY <1>11 DEF Rejected
<1>12. ASSUME NEW c \in Conns, Registered(c) PROVE Rest'
  BY <1>12 DEF Registered
<1>13. ASSUME NEW c \in Conns, WaitCheck(c) PROVE Rest'
  BY <1>13 DEF WaitCheck
<1>14. ASSUME NEW c \in Conns, WaitBlock(c) PROVE Rest'
  BY <1>14 DEF WaitBlock
<1>15. ASSUME NEW c \in Conns, WaitSpurious(c) PROVE Rest'
  BY <1>15 DEF WaitSpurious
<1>16. ASSUME NEW c \in Conns, WaitEnd(c) PROVE Rest'
  BY <1>16 DEF WaitEnd, Uncount, AfterWait
<1>17. ASSUME NEW c \in Conns, SleepEnd(c) PROVE Rest'
  BY <1>17 DEF SleepEnd
<1>18. ASSUME NEW c \in Conns, ClearHandler(c) PROVE Rest'
  BY <1>18 DEF ClearHandler
<1>19. ASSUME NEW c \in Conns, MainCloseBegin(c) PROVE Rest'
  BY <1>19 DEF MainCloseBegin, Shut
<1>20. ASSUME NEW c \in Conns, MainCloseEnd(c) PROVE Rest'
  BY <1>20 DEF MainCloseEnd
<1>21. ASSUME KjTake PROVE Rest'
  BY <1>21 DEF KjTake
<1>22. ASSUME KjAnswer PROVE Rest'
  BY <1>22 DEF KjAnswer, RegWork
<1>23. ASSUME KjBreak PROVE Rest'
  BY <1>23 DEF KjBreak
<1>24. ASSUME Signal PROVE Rest'
  BY <1>24 DEF Signal, RaiseStop
<1>25. ASSUME MainWaitEnd PROVE Rest'
  BY <1>25 DEF MainWaitEnd
<1>26. ASSUME MainOkQ PROVE Rest'
  BY <1>26 DEF MainOkQ
<1>27. ASSUME MainPoll PROVE Rest'
  BY <1>27 DEF MainPoll
<1>28. ASSUME MainShutdown PROVE Rest'
  BY <1>28 DEF MainShutdown, RaiseStop
<1>29. ASSUME MainJoin PROVE Rest'
  BY <1>29 DEF MainJoin, AllJoined
<1>30. ASSUME MainKjStop PROVE Rest'
  BY <1>30 DEF MainKjStop
<1>31. ASSUME MainKjJoin PROVE Rest'
  BY <1>31 DEF MainKjJoin, KjJoined
<1>32. ASSUME NEW c \in Conns, MainCloseAbort(c) PROVE Rest'
  BY <1>32 DEF MainCloseAbort, Shut
<1>33. ASSUME NEW c \in Conns, MainCloseDrained(c) PROVE Rest'
  BY <1>33 DEF MainCloseDrained, Closed
<1>34. ASSUME UNCHANGED vars PROVE Rest'
  BY <1>34 DEF vars
<1>35. Rest'
  BY <1>1, <1>2, <1>3, <1>4, <1>5, <1>6, <1>7, <1>8, <1>9, <1>10, <1>11,
     <1>12, <1>13, <1>14, <1>15, <1>16, <1>17, <1>18, <1>19, <1>20, <1>21,
     <1>22, <1>23, <1>24, <1>25, <1>26, <1>27, <1>28, <1>29, <1>30, <1>31,
     <1>32, <1>33, <1>34 DEF Next, Thread, Kj, Main, Terminated
<1>36. QED
  BY <1>0, <1>35

\* The invariant holds in every reachable state, whatever the number of
\* connections.
THEOREM SupervisorInvariant == Spec => []SupervisorInv
<1>1. QED
  BY InitInv, NextInv, PTL DEF Spec

\* ok_count is the number of healthy connections.
THEOREM HealthIsExact == Spec => []HealthExact
<1>1. SupervisorInv => HealthExact
  BY DEF SupervisorInv
<1>2. QED
  BY <1>1, SupervisorInvariant, PTL

\* No reconnect thread is left waiting for a KJ thread that has ended.
THEOREM KjStrandsNobody == Spec => []KjNeverStrands
<1>1. SupervisorInv => KjNeverStrands
  BY DEF SupervisorInv, TeardownInv, KjNeverStrands
<1>2. QED
  BY <1>1, SupervisorInvariant, PTL

\* main returns only when everything is closed and joined.
THEOREM ExitIsClean == Spec => []ExitClean
<1>1. SupervisorInv => ExitClean
  <2> SUFFICES ASSUME SupervisorInv, mpc = "exit"
               PROVE  /\ kpc = "done" /\ kj_queue = <<>> /\ ok_count = 0
                      /\ \A c \in Conns :
                           pc[c] = "done" /\ link[c] = "closed" /\ ~handler[c]
    BY DEF ExitClean
  <2>1. \A c \in Conns : pc[c] = "done"
    BY DEF SupervisorInv, TeardownInv
  <2>2. Healthy = {}
    BY <2>1 DEF Healthy, Counted
  <2>3. ok_count = 0
    BY <2>2, FS_EmptySet DEF SupervisorInv, HealthExact
  <2>4. QED
    BY <2>1, <2>3 DEF SupervisorInv, TeardownInv, ClientsInv
<1>2. QED
  BY <1>1, SupervisorInvariant, PTL

-----------------------------------------------------------------------------
(***************************************************************************)
(* The threads keep to the contract of each client.                        *)
(***************************************************************************)

\* A step changes at most one client, and as its contract allows.
LEMMA ContractStep ==
  ASSUME SupervisorInv, [Next]_vars, NEW d \in Conns
  PROVE  [Link(d)!Next]_<<link[d], told[d]>>
<1> DEFINE Keeps == [Link(d)!Next]_<<link[d], told[d]>>
<1> USE DEF SupervisorInv, TypeOK, ClientsInv, Link!Next, Link!Renew,
            Link!Dial, Link!Establish, Link!Fail, Link!Lose, Link!Tell,
            Link!Close
<1>1. ASSUME NEW c \in Conns, Established(c) PROVE Keeps
  BY <1>1 DEF Established
<1>2. ASSUME NEW c \in Conns, Failed(c) PROVE Keeps
  BY <1>2 DEF Failed
<1>3. ASSUME NEW c \in Conns, Lost(c) PROVE Keeps
  BY <1>3 DEF Lost
<1>4. ASSUME NEW c \in Conns, Tell(c) PROVE Keeps
  BY <1>4 DEF Tell, Owed
<1>5. ASSUME NEW c \in Conns, CloseBegin(c) PROVE Keeps
  BY <1>5 DEF CloseBegin, Shut
<1>6. ASSUME NEW c \in Conns, CloseEnd(c) PROVE Keeps
  BY <1>6 DEF CloseEnd, Closed
<1>7. ASSUME NEW c \in Conns, Connect(c) PROVE Keeps
  BY <1>7 DEF Connect
<1>8. ASSUME NEW c \in Conns, MainCloseBegin(c) \/ MainCloseAbort(c) PROVE Keeps
  BY <1>8 DEF MainCloseBegin, MainCloseAbort, Shut
<1>9. ASSUME NEW c \in Conns, MainCloseDrained(c) PROVE Keeps
  BY <1>9 DEF MainCloseDrained, Closed
<1>10. ASSUME NEW c \in Conns,
             LoopTop(c) \/ Connected(c) \/ Post(c) \/ Rejected(c) \/
             Registered(c) \/ WaitCheck(c) \/ WaitBlock(c) \/
             WaitSpurious(c) \/ WaitEnd(c) \/ SleepEnd(c) \/
             ClearHandler(c) \/ MainCloseEnd(c)
      PROVE  UNCHANGED <<link, told>>
  BY <1>10 DEF LoopTop, Connected, Post, Rejected, Registered, WaitCheck,
     WaitBlock, WaitSpurious, WaitEnd, SleepEnd, ClearHandler,
     MainCloseEnd
<1>11. ASSUME
             KjTake \/ KjAnswer \/ KjBreak \/ Signal \/ MainWaitEnd \/
             MainOkQ \/ MainPoll \/ MainShutdown \/
             MainJoin \/ MainKjStop \/ MainKjJoin \/ UNCHANGED vars
      PROVE  UNCHANGED <<link, told>>
  BY <1>11 DEF vars, KjTake, KjAnswer, KjBreak, Signal, MainWaitEnd,
     MainOkQ, MainPoll, MainShutdown, MainJoin, MainKjStop,
     MainKjJoin
<1>12. QED
  BY <1>1, <1>2, <1>3, <1>4, <1>5, <1>6, <1>7, <1>8, <1>9, <1>10, <1>11 DEF
     Next, Thread, Kj, Main, Terminated

\* Every client is used within its contract, by all threads together.
THEOREM ClientsUsedByContract == Spec => UsesContract
<1>1. Init => \A c \in Conns : Link(c)!Init
  BY DEF Init, Link!Init
<1>2. SupervisorInv /\ [Next]_vars =>
        [\A c \in Conns : [Link(c)!Next]_<<link[c], told[c]>>]_<<link, told>>
  BY ContractStep
<1>3. QED
  BY <1>1, <1>2, SupervisorInvariant, PTL DEF Spec, UsesContract
=============================================================================
