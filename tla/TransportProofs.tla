-------------------------- MODULE TransportProofs --------------------------
(***************************************************************************)
(* TransportInv and ReclaimedOnce hold for every number of clients,        *)
(* contexts and streams.                                                   *)
(***************************************************************************)
EXTENDS Transport, FiniteSetTheorems, TLAPS

\* The clients are finitely many, and so are those that hold the table.
LEMMA HoldersFinite ==
  ASSUME TransportTypeOK
  PROVE  /\ IsFiniteSet(Holders)
         /\ Cardinality(Holders) \in Nat
         /\ (Cardinality(Holders) = 0) <=> (Holders = {})
<1>1. IsFiniteSet(Clients)
  BY TransportAssumption, FS_Interval DEF Clients
<1>2. Holders \subseteq Clients
  BY DEF Holders
<1>3. IsFiniteSet(Holders)
  BY <1>1, <1>2, FS_Subset
<1> QED
  BY <1>3, FS_CardinalityType, FS_EmptySet

\* A client that takes the table is one holder more, one that gives it back
\* one holder less.
LEMMA HoldersStep ==
  ASSUME TransportTypeOK, NEW c \in Clients, NEW b \in BOOLEAN,
         api_held_' = [api_held_ EXCEPT ![c] = b]
  PROVE  /\ b /\ ~api_held_[c] => Cardinality(Holders') = Cardinality(Holders) + 1
         /\ ~b /\ api_held_[c] => Cardinality(Holders') = Cardinality(Holders) - 1
         /\ (b <=> api_held_[c]) => Holders' = Holders
<1> USE HoldersFinite
<1>1. ASSUME b, ~api_held_[c]
      PROVE  Cardinality(Holders') = Cardinality(Holders) + 1
  <2>1. Holders' = Holders \cup {c}
    BY <1>1 DEF TransportTypeOK, Holders
  <2>2. c \notin Holders
    BY <1>1 DEF Holders
  <2> QED
    BY <2>1, <2>2, FS_AddElement
<1>2. ASSUME ~b, api_held_[c]
      PROVE  Cardinality(Holders') = Cardinality(Holders) - 1
  <2>1. Holders' = Holders \ {c}
    BY <1>2 DEF TransportTypeOK, Holders
  <2>2. c \in Holders
    BY <1>2 DEF Holders
  <2> QED
    BY <2>1, <2>2, FS_RemoveElement
<1>3. ASSUME b <=> api_held_[c]
      PROVE  Holders' = Holders
  BY <1>3 DEF TransportTypeOK, Holders
<1> QED
  BY <1>1, <1>2, <1>3

\* The parts of TransportInv behind the types.
Counted == g_refcount = Cardinality(Holders) /\ (g_msquic <=> g_refcount # 0)
Lent == /\ \A k \in Ctxs : ctx[k].state = "lent" => "connection" \in handles[ctx[k].client]
        /\ \A s \in Streams : stream[s].state = "aborted"
                                => "connection" \in handles[stream[s].client]

\* A step of one context leaves the others and its client.
CtxRecords == [Ctxs -> [state : CtxStates, client : Clients, freed : Nat]]
Changed(k, s, n) ==
  /\ ctx' \in CtxRecords
  /\ \A j \in Ctxs : j # k => ctx'[j] = ctx[j]
  /\ ctx'[k].state = s /\ ctx'[k].client = ctx[k].client /\ ctx'[k].freed = n

\* An update of one context leaves the others alone.
LEMMA ContextStep ==
  ASSUME ctx \in CtxRecords, NEW k \in Ctxs, NEW s \in CtxStates, NEW n \in Nat,
         ctx' = [ctx EXCEPT ![k].state = s, ![k].freed = n]
  PROVE  Changed(k, s, n)
<1>1. /\ ctx' = [j \in Ctxs |-> ctx'[j]]
      /\ \A j \in Ctxs : j # k => ctx'[j] = ctx[j]
  BY DEF CtxRecords
<1>2. /\ ctx'[k].state = s /\ ctx'[k].client = ctx[k].client /\ ctx'[k].freed = n
      /\ ctx'[k] \in [state : CtxStates, client : Clients, freed : Nat]
  BY DEF CtxRecords
<1>3. ctx' \in CtxRecords
  BY <1>1, <1>2 DEF CtxRecords
<1> QED
  BY <1>1, <1>2, <1>3 DEF Changed

\* A packet changes no context, or lends or frees an unused one of a client
\* with a connection.
Takes(k, s) ==
  /\ ctx[k].state = "unused" /\ "connection" \in handles[ctx[k].client]
  /\ Changed(k, s, IF s = "failed" THEN 1 ELSE 0)

\* A packet takes at most one context, an unused one of an open connection.
LEMMA PacketEffect ==
  ASSUME ctx \in CtxRecords, on_packet
  PROVE  UNCHANGED ctx \/ \E k \in Ctxs : Takes(k, "lent") \/ Takes(k, "failed")
<1>1. Lend(next_ % NumClients) \/ UNCHANGED ctx
  BY DEF on_packet
<1>2. CASE Lend(next_ % NumClients)
  <2> DEFINE c == next_ % NumClients
  <2>1. PICK k \in Ctxs, s \in {"lent", "failed"} :
          /\ "connection" \in handles[c] /\ ctx[k].state = "unused" /\ ctx[k].client = c
          /\ ctx' = [ctx EXCEPT ![k].state = s,
                                ![k].freed = IF s = "failed" THEN 1 ELSE 0]
    BY <1>2, Zenon DEF Lend
  <2> HIDE DEF c
  <2>2. s \in CtxStates /\ (IF s = "failed" THEN 1 ELSE 0) \in Nat
    BY DEF CtxStates
  <2>3. Changed(k, s, IF s = "failed" THEN 1 ELSE 0)
    BY <2>1, <2>2, ContextStep
  <2>4. Takes(k, s)
    BY <2>1, <2>3, Zenon DEF Takes
  <2> QED
    BY <2>1, <2>4, Zenon
<1> QED
  BY <1>1, <1>2

\* A report of msquic changes one context, to a state that follows, and frees
\* it on the first.
LEMMA ReportEffect ==
  ASSUME ctx \in CtxRecords, NEW k \in Ctxs, SendStateChanged(k)
  PROVE  \E s \in After(ctx[k].state) :
           Changed(k, s, IF Frees(s) THEN ctx[k].freed + 1 ELSE ctx[k].freed)
<1>1. PICK s \in After(ctx[k].state) :
        ctx' = [ctx EXCEPT ![k].state = s,
                           ![k].freed = IF Frees(s) THEN @ + 1 ELSE @]
  BY Zenon DEF SendStateChanged
<1> DEFINE n == IF Frees(s) THEN ctx[k].freed + 1 ELSE ctx[k].freed
<1>2. s \in CtxStates /\ n \in Nat
  BY DEF After, CtxStates, CtxRecords
<1>3. ctx' = [ctx EXCEPT ![k].state = s, ![k].freed = n]
  BY <1>1 DEF CtxRecords
<1>4. Changed(k, s, n)
  <2> HIDE DEF n
  <2> QED
    BY <1>2, <1>3, ContextStep
<1> QED
  BY <1>4

LEMMA InitHolds == TransportInit => TransportInv
<1> SUFFICES ASSUME TransportInit PROVE TransportInv
  OBVIOUS
<1>1. TransportTypeOK
  <2>1. ctx \in [Ctxs -> [state : CtxStates, client : Clients, freed : Nat]]
    <3>1. \A c \in Clients : [state |-> "unused", client |-> c, freed |-> 0]
                               \in [state : CtxStates, client : Clients, freed : Nat]
      BY DEF CtxStates
    <3> QED
      BY <3>1 DEF TransportInit
  <2>2. stream \in [Streams -> [state : {"unused", "aborted", "closed"}, client : Clients]]
    BY DEF TransportInit
  <2>3. g_msquic \in BOOLEAN /\ ended \in BOOLEAN
    BY Zenon DEF TransportInit
  <2> QED
    BY <2>1, <2>2, <2>3 DEF TransportInit, TransportTypeOK, Stages
<1>2. g_refcount = Cardinality(Holders) /\ (g_msquic <=> g_refcount # 0)
  <2>1. Holders = {}
    BY DEF TransportInit, Holders
  <2> QED
    BY <2>1, FS_EmptySet DEF TransportInit
<1>3. \A c \in Clients : HandlesAt(c)
  BY DEF TransportInit, HandlesAt
<1>4. Lent
  BY DEF TransportInit, Lent
<1> QED
  BY <1>1, <1>2, <1>3, <1>4 DEF TransportInv, Lent

\* Types are kept by every action.
LEMMA TypeStep == TransportInv /\ [TransportNext]_transportVars => TransportTypeOK'
<1> SUFFICES ASSUME TransportInv, [TransportNext]_transportVars PROVE TransportTypeOK'
  OBVIOUS
<1> USE DEF TransportTypeOK, Enter, apiVars, Stages, CtxStates, Handle
<1>0. TransportTypeOK
  BY DEF TransportInv
<1>1. ASSUME NEW c \in Clients, connect(c) PROVE TransportTypeOK'
  BY <1>0, <1>1 DEF connect
<1>2. ASSUME NEW c \in Clients, ApiOpens(c) PROVE TransportTypeOK'
  BY <1>0, <1>2 DEF ApiOpens, api_table_init
<1>3. ASSUME NEW c \in Clients, ApiFails(c) PROVE TransportTypeOK'
  BY <1>0, <1>3 DEF ApiFails, api_table_init
<1>4. ASSUME NEW c \in Clients,
             HandshakeFails(c) \/ Connected(c) \/ LateConnected(c) \/ CloseShutdown(c)
      PROVE TransportTypeOK'
  BY <1>0, <1>4 DEF HandshakeFails, Connected, LateConnected, CloseShutdown
<1>5. ASSUME NEW c \in Clients, NEW h \in Handle, OpenHandle(c, h) PROVE TransportTypeOK'
  BY <1>0, <1>5 DEF OpenHandle, Then
<1>6. ASSUME NEW c \in Clients,
             CloseConnection(c) \/ CloseConfiguration(c) \/ CloseRegistration(c)
      PROVE TransportTypeOK'
  BY <1>0, <1>6 DEF CloseConnection, CloseConfiguration, CloseRegistration
<1>7. ASSUME NEW c \in Clients, Destroy(c) PROVE TransportTypeOK'
  <2>1. api_held_[c] => g_refcount # 0
    <3>1. api_held_[c] => Holders # {}
      BY DEF Holders
    <3> QED
      BY <1>0, <3>1, HoldersFinite DEF TransportInv
  <2>2. g_refcount' \in Nat
    BY <1>0, <1>7, <2>1 DEF Destroy, api_table_release
  <2>3. g_msquic' \in BOOLEAN
    <3>1. g_msquic' = (g_refcount # 1) \/ g_msquic' = g_msquic
      BY <1>7, Zenon DEF Destroy, api_table_release
    <3>2. (g_refcount # 1) \in BOOLEAN
      OBVIOUS
    <3> QED
      BY <1>0, <3>1, <3>2, Zenon
  <2> QED
    BY <1>0, <1>7, <2>2, <2>3 DEF Destroy
<1>8. CASE on_packet
  <2>1. next_' \in Nat
    BY <1>0, <1>8, TransportAssumption DEF on_packet
  <2>2. ctx' \in [Ctxs -> [state : CtxStates, client : Clients, freed : Nat]]
    BY <1>0, <1>8, PacketEffect DEF Takes, Changed, CtxRecords
  <2> QED
    BY <1>0, <1>8, <2>1, <2>2 DEF on_packet
<1>9. ASSUME NEW k \in Ctxs, SendStateChanged(k) PROVE TransportTypeOK'
  <2>1. ctx' \in [Ctxs -> [state : CtxStates, client : Clients, freed : Nat]]
    BY <1>0, <1>9, ReportEffect DEF Changed, CtxRecords
  <2> QED
    BY <1>0, <1>9, <2>1 DEF SendStateChanged
<1>10. ASSUME NEW s \in Streams, PeerStreamStarted(s) \/ StreamShutdownComplete(s)
       PROVE TransportTypeOK'
  <2>1. \E t \in {"aborted", "closed"} : stream' = [stream EXCEPT ![s].state = t]
    BY <1>10 DEF PeerStreamStarted, StreamShutdownComplete
  <2>2. UNCHANGED <<apiVars, handles, handshake_ok_, stage, next_, ctx, ended>>
    BY <1>10 DEF PeerStreamStarted, StreamShutdownComplete
  <2> QED
    BY <1>0, <2>1, <2>2 DEF apiVars
<1>11. CASE End
  BY <1>0, <1>11 DEF End
<1>12. CASE UNCHANGED transportVars
  BY <1>0, <1>12 DEF transportVars
<1> QED
  BY <1>1, <1>2, <1>3, <1>4, <1>5, <1>6, <1>7, <1>8, <1>9, <1>10, <1>11, <1>12 DEF TransportNext

\* The count stays the number of holders: only a first connect() and a
\* destructor change either.
LEMMA CountedStep == TransportInv /\ [TransportNext]_transportVars => Counted'
<1> SUFFICES ASSUME TransportInv, [TransportNext]_transportVars PROVE Counted'
  OBVIOUS
<1>0. TransportTypeOK /\ Counted /\ \A c \in Clients : HandlesAt(c)
  BY DEF TransportInv, Counted
<1>00. Cardinality(Holders) \in Nat
  BY <1>0, HoldersFinite
<1>1. ASSUME UNCHANGED apiVars PROVE Counted'
  <2>1. Holders' = Holders
    BY <1>1 DEF apiVars, Holders
  <2> QED
    BY <1>0, <1>1, <2>1 DEF Counted, apiVars
<1>2. ASSUME NEW c \in Clients, ApiOpens(c) PROVE Counted'
  <2>1. ~api_held_[c]
    BY <1>0, <1>2 DEF ApiOpens, HandlesAt
  <2>2. Cardinality(Holders') = Cardinality(Holders) + 1
    BY <1>0, <1>2, <2>1, HoldersStep DEF ApiOpens
  <2>3. g_refcount' = g_refcount + 1 /\ g_msquic' = TRUE
    BY <1>2 DEF ApiOpens, api_table_init
  <2>4. g_msquic'
    BY <2>3
  <2> QED
    BY <1>0, <1>00, <2>2, <2>3, <2>4 DEF Counted
<1>3. ASSUME NEW c \in Clients, ApiFails(c) PROVE Counted'
  BY <1>1, <1>3 DEF ApiFails, api_table_init, apiVars
<1>4. ASSUME NEW c \in Clients, Destroy(c) PROVE Counted'
  <2>1. CASE api_held_[c]
    <3>1. Cardinality(Holders') = Cardinality(Holders) - 1
      BY <1>0, <1>4, <2>1, HoldersStep DEF Destroy
    <3>2. g_refcount' = g_refcount - 1 /\ g_msquic' = (g_refcount # 1)
      BY <1>4, <2>1 DEF Destroy, api_table_release
    <3>3. g_msquic' <=> g_refcount # 1
      BY <3>2, Zenon
    <3> QED
      BY <1>0, <1>00, <3>1, <3>2, <3>3 DEF Counted
  <2>2. CASE ~api_held_[c]
    <3>1. Holders' = Holders
      BY <1>0, <1>4, <2>2, HoldersStep DEF Destroy
    <3> QED
      BY <1>0, <1>4, <2>2, <3>1 DEF Destroy, Counted
  <2> QED
    BY <2>1, <2>2
<1>5. ASSUME NEW c \in Clients,
             \/ connect(c) \/ HandshakeFails(c) \/ Connected(c) \/ LateConnected(c)
             \/ CloseShutdown(c)
             \/ CloseConnection(c) \/ CloseConfiguration(c) \/ CloseRegistration(c)
             \/ \E h \in Handle : OpenHandle(c, h)
      PROVE Counted'
  BY <1>1, <1>5 DEF connect, HandshakeFails, Connected, LateConnected, CloseShutdown, CloseConnection,
                    CloseConfiguration, CloseRegistration, OpenHandle
<1>6. CASE on_packet \/ End \/ UNCHANGED transportVars
  BY <1>1, <1>6 DEF on_packet, End, transportVars, apiVars
<1>7. ASSUME NEW k \in Ctxs, SendStateChanged(k) PROVE Counted'
  BY <1>1, <1>7 DEF SendStateChanged
<1>8. ASSUME NEW s \in Streams, PeerStreamStarted(s) \/ StreamShutdownComplete(s)
      PROVE Counted'
  BY <1>1, <1>8 DEF PeerStreamStarted, StreamShutdownComplete
<1> QED
  BY <1>2, <1>3, <1>4, <1>5, <1>6, <1>7, <1>8 DEF TransportNext

\* At every point a client has the handles its thread expects, and what is
\* lent to msquic belongs to an open connection.
LEMMA HandlesStep ==
  TransportInv /\ [TransportNext]_transportVars => (\A d \in Clients : HandlesAt(d)') /\ Lent'
<1> SUFFICES ASSUME TransportInv, [TransportNext]_transportVars
             PROVE  (\A d \in Clients : HandlesAt(d)') /\ Lent'
  OBVIOUS
<1> DEFINE Goal == (\A d \in Clients : HandlesAt(d)') /\ Lent'
<1>0. TransportTypeOK /\ Lent /\ \A c \in Clients : HandlesAt(c)
  BY DEF TransportInv, Lent
<1> USE DEF TransportTypeOK, Enter, apiVars, HandlesAt, Lent, Handle
<1>1. ASSUME NEW c \in Clients, connect(c) PROVE Goal
  BY <1>0, <1>1 DEF connect
<1>2. ASSUME NEW c \in Clients, ApiOpens(c) PROVE Goal
  BY <1>0, <1>2 DEF ApiOpens
<1>3. ASSUME NEW c \in Clients, ApiFails(c) PROVE Goal
  BY <1>0, <1>3 DEF ApiFails
<1>4. ASSUME NEW c \in Clients,
             HandshakeFails(c) \/ Connected(c) \/ LateConnected(c) \/ CloseShutdown(c)
      PROVE Goal
  BY <1>0, <1>4 DEF HandshakeFails, Connected, LateConnected, CloseShutdown
<1>5. ASSUME NEW c \in Clients, NEW h \in Handle, OpenHandle(c, h) PROVE Goal
  BY <1>0, <1>5 DEF OpenHandle, Then
<1>6. ASSUME NEW c \in Clients, CloseConnection(c) PROVE Goal
  BY <1>0, <1>6 DEF CloseConnection
<1>61. ASSUME NEW c \in Clients, CloseConfiguration(c) PROVE Goal
  BY <1>0, <1>61 DEF CloseConfiguration
<1>62. ASSUME NEW c \in Clients, CloseRegistration(c) PROVE Goal
  BY <1>0, <1>62 DEF CloseRegistration
<1>7. ASSUME NEW c \in Clients, Destroy(c) PROVE Goal
  BY <1>0, <1>7 DEF Destroy
<1>8. CASE on_packet
  <2>1. \A k \in Ctxs :
          ctx'[k].state = "lent" => "connection" \in handles[ctx'[k].client]
    <3>1. CASE UNCHANGED ctx
      BY <1>0, <3>1
    <3>2. ASSUME NEW j \in Ctxs, Takes(j, "lent") \/ Takes(j, "failed")
          PROVE  \A k \in Ctxs :
                   ctx'[k].state = "lent" => "connection" \in handles[ctx'[k].client]
      BY <1>0, <3>2 DEF Takes, Changed
    <3> QED
      BY <1>0, <1>8, <3>1, <3>2, PacketEffect DEF CtxRecords
  <2> QED
    BY <1>0, <1>8, <2>1 DEF on_packet
<1>9. ASSUME NEW k \in Ctxs, SendStateChanged(k) PROVE Goal
  BY <1>0, <1>9 DEF SendStateChanged, After
<1>10. ASSUME NEW s \in Streams, PeerStreamStarted(s) \/ StreamShutdownComplete(s)
       PROVE Goal
  <2>1. UNCHANGED <<apiVars, handles, stage, ctx>>
    BY <1>10 DEF PeerStreamStarted, StreamShutdownComplete
  <2>2. \A d \in Clients : HandlesAt(d)'
    BY <1>0, <2>1
  <2>3. ASSUME NEW t \in Streams, stream'[t].state = "aborted"
        PROVE  "connection" \in handles[stream'[t].client]
    <3>1. CASE t = s /\ PeerStreamStarted(s)
      <4>1. "connection" \in handles[stream[s].client]
        BY <1>0, <3>1 DEF PeerStreamStarted
      <4>2. stream'[s].client = stream[s].client
        BY <1>0, <3>1 DEF PeerStreamStarted
      <4> QED
        BY <1>0, <3>1, <4>1, <4>2
    <3>2. CASE t = s /\ StreamShutdownComplete(s)
      BY <1>0, <2>3, <3>2 DEF StreamShutdownComplete
    <3>3. CASE t # s
      <4>1. stream'[t] = stream[t]
        BY <1>0, <1>10, <3>3 DEF PeerStreamStarted, StreamShutdownComplete
      <4> QED
        BY <1>0, <2>3, <4>1
    <3> QED
      BY <1>10, <3>1, <3>2, <3>3
  <2>4. Lent'
    BY <1>0, <2>1, <2>3
  <2> QED
    BY <2>2, <2>4
<1>11. CASE End \/ UNCHANGED transportVars
  BY <1>0, <1>11 DEF End, transportVars
<1> QED
  BY <1>1, <1>2, <1>3, <1>4, <1>5, <1>6, <1>61, <1>62, <1>7, <1>8, <1>9, <1>10, <1>11 DEF TransportNext

\* For any number of clients: the reference count of the msquic table is the
\* number of clients that hold it, the table is open exactly while it is not
\* zero, and handles, lent datagrams and peer streams live under it.
THEOREM TransportSafe == TransportSpec => []TransportInv
<1>1. TransportInv /\ [TransportNext]_transportVars => TransportInv'
  BY TypeStep, CountedStep, HandlesStep DEF TransportInv, Counted, Lent
<1> QED
  BY <1>1, InitHolds, PTL DEF TransportSpec

\* Every datagram context is freed exactly once, for any number of them.
THEOREM ContextsReclaimed == TransportSpec => []ReclaimedOnce
<1>1. TransportInit => ReclaimedOnce
  BY DEF TransportInit, ReclaimedOnce
<1>2. TransportInv /\ ReclaimedOnce /\ [TransportNext]_transportVars => ReclaimedOnce'
  <2> SUFFICES ASSUME TransportInv, ReclaimedOnce, [TransportNext]_transportVars PROVE ReclaimedOnce'
    OBVIOUS
  <2>0. ctx \in [Ctxs -> [state : CtxStates, client : Clients, freed : Nat]]
    BY DEF TransportInv, TransportTypeOK
  <2>1. ASSUME UNCHANGED ctx PROVE ReclaimedOnce'
    BY <2>1 DEF ReclaimedOnce
  <2>2. CASE on_packet
    <3>1. ASSUME NEW j \in Ctxs, Takes(j, "lent") \/ Takes(j, "failed")
          PROVE  ReclaimedOnce'
      BY <3>1 DEF Takes, Changed, ReclaimedOnce
    <3> QED
      BY <2>0, <2>1, <2>2, <3>1, PacketEffect DEF CtxRecords
  <2>3. ASSUME NEW k \in Ctxs, SendStateChanged(k) PROVE ReclaimedOnce'
    BY <2>0, <2>3 DEF SendStateChanged, After, Frees, ReclaimedOnce
  <2>4. ASSUME NEW c \in Clients,
               \/ connect(c) \/ ApiOpens(c) \/ ApiFails(c) \/ HandshakeFails(c)
               \/ Connected(c) \/ LateConnected(c) \/ \E h \in Handle : OpenHandle(c, h)
               \/ CloseShutdown(c) \/ CloseConnection(c) \/ CloseConfiguration(c)
               \/ CloseRegistration(c) \/ Destroy(c)
        PROVE ReclaimedOnce'
    BY <2>1, <2>4 DEF connect, ApiOpens, ApiFails, HandshakeFails, Connected, LateConnected, OpenHandle,
                      CloseShutdown, CloseConnection, CloseConfiguration,
                      CloseRegistration, Destroy
  <2>5. ASSUME NEW s \in Streams, PeerStreamStarted(s) \/ StreamShutdownComplete(s)
        PROVE ReclaimedOnce'
    BY <2>1, <2>5 DEF PeerStreamStarted, StreamShutdownComplete
  <2>6. CASE End \/ UNCHANGED transportVars
    BY <2>1, <2>6 DEF End, transportVars
  <2> QED
    BY <2>2, <2>3, <2>4, <2>5, <2>6 DEF TransportNext
<1> QED
  BY <1>1, <1>2, TransportSafe, PTL DEF TransportSpec
=============================================================================
