--------------------------- MODULE RouterProofs ---------------------------
(***************************************************************************)
(* Proofs about Router, for all widths and any number of routes: the       *)
(* reader thread and the inbound callbacks end before what they use, and   *)
(* the reader forwards exactly the packets that a route is for.            *)
(***************************************************************************)
EXTENDS Router, TLAPS

\* Nothing runs before start().
LEMMA InitInv == Init => RouterInv
BY DEF Init, RouterInv, Gone

\* main's steps: start() sets running_ with the thread, stop() moves on only
\* behind the join, the router goes only behind the drain.
LEMMA MainStep ==
  ASSUME RouterInv, Main
  PROVE  RouterInv'
<1> USE DEF RouterInv, Gone, pump, tunnel
<1>1. CASE add_route
  BY <1>1 DEF add_route
<1>2. CASE SetupEnd
  BY <1>2 DEF SetupEnd
<1>3. CASE WaitEnd
  BY <1>3 DEF WaitEnd
<1>4. CASE start
  <2>1. running_' \in BOOLEAN
    BY <1>4, Zenon DEF start
  <2>2. QED
    BY <1>4, <2>1 DEF start
<1>5. CASE RunEnd
  BY <1>5 DEF RunEnd
<1>6. CASE StopExchange
  <2>1. running_' \in BOOLEAN /\ ~running_'
    BY <1>6, Zenon DEF StopExchange
  <2>2. QED
    BY <1>6, <2>1 DEF StopExchange, AfterStop
<1>7. CASE StopWake
  BY <1>7 DEF StopWake
<1>8. CASE StopJoin
  BY <1>8 DEF StopJoin, ReaderJoined
<1>9. CASE StopReset
  BY <1>9 DEF StopReset, AfterStop
<1>10. CASE CloseClients
  <2>1. ~links'
    BY <1>10, Zenon DEF CloseClients
  <2>2. QED
    BY <1>10, <2>1 DEF CloseClients
<1>11. CASE DrainClients
  BY <1>11 DEF DrainClients, ClientsDrained
<1>12. QED
  BY <1>1, <1>2, <1>3, <1>4, <1>5, <1>6, <1>7, <1>8, <1>9, <1>10, <1>11
     DEF Main, MainRuns

\* The reader's steps move the reader only, and never start one.
LEMMA ReaderStepInv ==
  ASSUME RouterInv, Reader
  PROVE  RouterInv'
<1>1. reader_ \notin Gone
  BY DEF Reader, ReaderStep, LoopTop, PollTimeout, PollError, PollWake, PollTun,
     ReadFails, ReadAgain, ReadPacket, Route, Deliver, Gone
<1>2. UNCHANGED <<running_, wake, mpc, g_stop, links, rx>>
  BY Zenon DEF Reader, ReaderStep, LoopTop, PollTimeout, PollError, PollWake,
     PollTun, ReadFails, ReadAgain, ReadPacket, Route, Deliver, ReaderOnly,
     tunnel
<1>3. QED
  BY <1>1, <1>2 DEF RouterInv, Gone

\* RouterInv is an inductive invariant.
LEMMA NextInv == RouterInv /\ [Next]_vars => RouterInv'
<1> SUFFICES ASSUME RouterInv, [Next]_vars
             PROVE  RouterInv'
  OBVIOUS
<1>1. CASE Main
  BY <1>1, MainStep
<1>2. CASE Reader
  BY <1>2, ReaderStepInv
<1>8. CASE ThreadReopens
  BY <1>8 DEF ThreadReopens, RouterInv, pump, Gone
<1>3. CASE EvInbound
  BY <1>3 DEF EvInbound, RouterInv, pump, Gone
<1>4. CASE inject_from_tunnel
  BY <1>4 DEF inject_from_tunnel, RouterInv, pump, Gone
<1>5. CASE Signal
  BY <1>5 DEF Signal, RouterInv, pump, tunnel, Gone
<1>6. CASE UNCHANGED vars
  BY <1>6 DEF RouterInv, vars, Gone
<1>7. QED
  BY <1>1, <1>2, <1>3, <1>4, <1>5, <1>6, <1>8 DEF Next, Terminated

\* RouterInv holds in every reachable state.
THEOREM Invariance == Spec => []RouterInv
BY InitInv, NextInv, PTL DEF Spec

\* A live reader thread finds the router, its pipe and the clients.
THEOREM ReaderOutlivedThm == Spec => []ReaderOutlived
<1>1. RouterInv => ReaderOutlived
  BY DEF RouterInv, ReaderOutlived
<1>2. QED
  BY <1>1, Invariance, PTL

\* A callback never reaches a destroyed router.
THEOREM InjectsIntoLiveRouterThm == Spec => []InjectsIntoLiveRouter
<1>1. RouterInv => InjectsIntoLiveRouter
  BY DEF RouterInv, InjectsIntoLiveRouter
<1>2. QED
  BY <1>1, Invariance, PTL

\* main leaves the reader's packet alone: when start() makes a reader, or the
\* join forgets one, there is none in its buffer.
LEMMA MainType ==
  ASSUME TypeOK, RouterInv, Main
  PROVE  TypeOK'
<1> USE DEF pump, tunnel, Gone
<1>1. running_' \in BOOLEAN /\ g_stop' \in BOOLEAN /\ links' \in BOOLEAN
  BY Zenon DEF TypeOK, Main, MainRuns, add_route, SetupEnd, WaitEnd, start, RunEnd,
     StopExchange, StopWake, StopJoin, StopReset, CloseClients, DrainClients
<1>2. UNCHANGED <<pkt, rx>>
  BY Zenon DEF Main, MainRuns, add_route, SetupEnd, WaitEnd, start, RunEnd, StopExchange,
     StopWake, StopJoin, StopReset, CloseClients, DrainClients
<1>3. /\ wake' \in {"closed", "empty", "byte"}
      /\ mpc' \in {"setup", "wait", "start", "run", "stop", "wake", "join",
                   "reset", "shut", "drain", "destroy", "exit"}
  BY DEF TypeOK, Main, MainRuns, add_route, SetupEnd, WaitEnd, start, RunEnd,
     StopExchange, StopWake, StopJoin, StopReset, CloseClients, DrainClients,
     AfterStop
<1>4. \/ UNCHANGED reader_
      \/ reader_ \in Gone /\ reader_' \in {"top", "none"}
  BY DEF RouterInv, Main, MainRuns, add_route, SetupEnd, WaitEnd, start, RunEnd,
     StopExchange, StopWake, StopJoin, StopReset, CloseClients, DrainClients,
     ReaderJoined
<1>5. QED
  BY <1>1, <1>2, <1>3, <1>4 DEF TypeOK

\* The reader has a packet from read() until it is dropped or delivered.
LEMMA ReaderType ==
  ASSUME TypeOK, Reader
  PROVE  TypeOK'
<1>1. UNCHANGED <<running_, wake, mpc, g_stop, links, rx>>
  BY Zenon DEF Reader, ReaderStep, LoopTop, PollTimeout, PollError, PollWake,
     PollTun, ReadFails, ReadAgain, ReadPacket, Route, Deliver, ReaderOnly,
     tunnel
<1>2. \/ reader_' \in {"top", "poll", "read"} \cup Gone /\ pkt' = NoPacket
      \/ reader_' = "route" /\ pkt' \in Packet
      \/ reader_ = "route" /\ reader_' = "deliver" /\ pkt' = pkt
  BY DEF Reader, ReaderStep, LoopTop, PollTimeout, PollError, PollWake,
     PollTun, ReadFails, ReadAgain, ReadPacket, Route, Deliver, ReaderGoes, Gone
<1>3. QED
  BY <1>1, <1>2, Zenon DEF TypeOK, Gone

\* Every variable keeps to its values, and the reader's buffer holds a packet
\* exactly while the reader routes or delivers one.
THEOREM TypeCorrect == Spec => []TypeOK
<1>1. Init => TypeOK
  BY DEF Init, TypeOK, Gone
<1>2. TypeOK /\ RouterInv /\ [Next]_vars => TypeOK'
  <2> SUFFICES ASSUME TypeOK, RouterInv, [Next]_vars
               PROVE  TypeOK'
    OBVIOUS
  <2>1. CASE Main
    BY <2>1, MainType
  <2>2. CASE Reader
    BY <2>2, ReaderType
  <2>7. CASE ThreadReopens
    BY <2>7, Zenon DEF ThreadReopens, TypeOK, pump
  <2>3. CASE EvInbound \/ inject_from_tunnel
    BY <2>3, Zenon DEF EvInbound, inject_from_tunnel, TypeOK, pump
  <2>4. CASE Signal
    BY <2>4, Zenon DEF Signal, TypeOK, pump, tunnel
  <2>5. CASE UNCHANGED vars
    BY <2>5, Zenon DEF TypeOK, vars
  <2>6. QED
    BY <2>1, <2>2, <2>3, <2>4, <2>5, <2>7 DEF Next, Terminated
<1>3. QED
  BY <1>1, <1>2, Invariance, PTL DEF Spec

(***************************************************************************)
(* What the reader forwards, from what LpmTrie's lookup() finds.           *)
(***************************************************************************)

Table == INSTANCE LpmTrieProofs WITH root_ <- routes_, log <- added, Values <- Action

\* The proofs about LpmTrie are about the router's table.
LEMMA SameTrie ==
  /\ Trie!Init => Table!Init
  /\ Trie!Byte = Table!Byte
  /\ Trie!Cidr = Table!Cidr
  /\ \A c, v : Trie!insert(c, v) <=> Table!insert(c, v)
  /\ \A c, a : Trie!contains(c, a) <=> Table!contains(c, a)
  /\ \A a : Trie!lookup(a) = Table!lookup(a)
<1> USE DEF Trie!Pow2, Table!Pow2, Trie!Byte, Table!Byte, Trie!Family, Table!Family,
      Trie!Bytes, Table!Bytes, Trie!Bits, Table!Bits, Trie!bit_of, Table!bit_of,
      Trie!PathOf, Table!PathOf
<1>1. Trie!Init => Table!Init
  BY Zenon DEF Trie!Init, Table!Init, Trie!Empty, Table!Empty
<1>2. Trie!Byte = Table!Byte
  BY Zenon
<1>3. Trie!Cidr = Table!Cidr
  BY Zenon DEF Trie!Cidr, Table!Cidr, Trie!IpAddr, Table!IpAddr
<1>4. ASSUME NEW c, NEW v PROVE Trie!insert(c, v) <=> Table!insert(c, v)
  BY Zenon DEF Trie!insert, Table!insert, Trie!Inserted, Table!Inserted, Trie!Depths,
     Table!Depths, Trie!root_for, Table!root_for, Trie!Absent, Table!Absent
<1>5. ASSUME NEW c, NEW a PROVE Trie!contains(c, a) <=> Table!contains(c, a)
  BY Zenon DEF Trie!contains, Table!contains, Trie!Masked, Table!Masked
<1>6. ASSUME NEW a PROVE Trie!lookup(a) = Table!lookup(a)
  BY Zenon DEF Trie!lookup, Table!lookup
<1> QED
  BY <1>1, <1>2, <1>3, <1>4, <1>5, <1>6, Zenon

\* The table holds the configured routes, all of them to the tunnel.
RoutesInv ==
  /\ Table!TableInv
  /\ \A i \in DOMAIN added : added[i].value = "ToTunnel"

\* Only add_route changes the table.
LEMMA RoutesStep == RoutesInv /\ [Next]_vars => RoutesInv'
<1> SUFFICES ASSUME RoutesInv, [Next]_vars PROVE RoutesInv'
  OBVIOUS
<1>1. CASE add_route
  <2>1. PICK c \in Table!Cidr : Table!insert(c, "ToTunnel")
    BY <1>1, SameTrie, Zenon DEF add_route
  <2>2. Table!TableInv'
    <3>1. "ToTunnel" \in Action
      BY DEF Action
    <3>2. Table!WidthAssumption
      BY RouteAssumption DEF Table!WidthAssumption
    <3> QED
      BY <2>1, <3>1, <3>2, Table!TableInsert DEF RoutesInv
  <2> DEFINE e == [cidr |-> c, value |-> "ToTunnel"]
  <2>3. added' = Append(added, e)
    BY <2>1 DEF Table!insert
  <2>4. added \in Seq(Table!Entry) /\ e \in Table!Entry
    BY DEF RoutesInv, Table!TableInv, Table!Entry, Action
  <2>5. e.value = "ToTunnel"
    OBVIOUS
  <2> HIDE DEF e
  <2>6. \A i \in DOMAIN added' : added'[i] = e \/ (i \in DOMAIN added /\ added'[i] = added[i])
    BY <2>3, <2>4
  <2> QED
    BY <2>2, <2>5, <2>6 DEF RoutesInv
<1>2. CASE UNCHANGED table
  BY <1>2 DEF table, RoutesInv, Table!TableInv
<1>3. add_route \/ UNCHANGED table
  BY DEF Next, Main, MainRuns, ThreadReopens, Reader, ReaderStep, SetupEnd, WaitEnd, start, RunEnd,
     StopExchange, StopWake, StopJoin, StopReset, CloseClients, DrainClients,
     LoopTop, PollTimeout, PollWake, ReadPacket, Route, Deliver, PollError,
     PollTun, ReadFails, ReadAgain, ReaderOnly, EvInbound, inject_from_tunnel,
     Signal, Terminated, vars, table
<1> QED
  BY <1>1, <1>2, <1>3

\* The address dst_from_packet() finds in a whole packet is its destination.
LEMMA FoundDestination ==
  ASSUME NEW p \in Packet
  PROVE  /\ p.version \in {4, 6} /\ p.whole =>
              dst_from_packet(p) = {Destination(p)} /\ Destination(p) \in Table!IpAddr
         /\ ~(p.version \in {4, 6} /\ p.whole) => dst_from_packet(p) = {}
<1>1. /\ p.version \in {0, 4, 6} /\ p.dst \in [0..V6Bytes - 1 -> Table!Byte]
  BY SameTrie DEF Packet
<1>2. 0 \in Table!Byte
  <2>1. Table!WidthAssumption
    BY RouteAssumption DEF Table!WidthAssumption
  <2>2. Table!Pow2[ByteBits] \in Nat \ {0}
    BY <2>1, RouteAssumption, Table!Pow2s
  <2> QED
    BY <2>2 DEF Table!Byte
<1>3. ~(p.version \in {4, 6} /\ p.whole) => dst_from_packet(p) = {}
  BY <1>1 DEF dst_from_packet
<1>4. ASSUME p.version = 4, p.whole
      PROVE  dst_from_packet(p) = {Destination(p)} /\ Destination(p) \in Table!IpAddr
  <2> DEFINE V4 == [i \in 0..V6Bytes - 1 |-> IF i < V4Bytes THEN p.dst[i] ELSE 0]
             d == [family |-> "V4", bytes |-> V4]
  <2>1. dst_from_packet(p) = {d}
    BY <1>4 DEF dst_from_packet
  <2>2. Destination(p) = d
    <3>1. \A i \in 0..V6Bytes - 1 : (IF p.version = 4 /\ i >= V4Bytes THEN 0 ELSE p.dst[i])
            = IF i < V4Bytes THEN p.dst[i] ELSE 0
      BY <1>4, RouteAssumption
    <3> QED
      BY <1>4, <3>1 DEF Destination
  <2>3. V4 \in [0..V6Bytes - 1 -> Table!Byte]
    BY <1>1, <1>2
  <2>4. \A i \in V4Bytes..V6Bytes - 1 : V4[i] = 0
    BY RouteAssumption
  <2> HIDE DEF V4
  <2>5. d \in Table!IpAddr
    BY <2>3, <2>4 DEF Table!IpAddr, Table!Family, Table!Bytes
  <2> QED
    BY <2>1, <2>2, <2>5
<1>5. ASSUME p.version = 6, p.whole
      PROVE  dst_from_packet(p) = {Destination(p)} /\ Destination(p) \in Table!IpAddr
  <2> DEFINE d == [family |-> "V6", bytes |-> p.dst]
  <2>1. dst_from_packet(p) = {d}
    BY <1>5 DEF dst_from_packet
  <2>2. Destination(p) = d
    <3>1. [i \in 0..V6Bytes - 1 |-> p.dst[i]] = p.dst
      BY <1>1
    <3>2. Destination(p) = [family |-> "V6", bytes |-> [i \in 0..V6Bytes - 1 |-> p.dst[i]]]
      BY <1>5 DEF Destination
    <3> QED
      BY <3>1, <3>2
  <2>3. d \in Table!IpAddr
    BY <1>1, RouteAssumption DEF Table!IpAddr, Table!Family, Table!Bytes
  <2> QED
    BY <2>1, <2>2, <2>3
<1> QED
  BY <1>3, <1>4, <1>5

\* Of the packets it reads, the reader hands to the tunnel exactly the whole
\* ones whose destination lies in a configured route: for addresses of any
\* width and any number of routes.
THEOREM ForwardsExactlyThm == Spec => ForwardsExactly
<1> DEFINE A == reader_ = "route" /\ reader_' # "route" =>
                  (reader_' = "deliver" <=> Routed(pkt))
<1>1. Init => RoutesInv
  <2> SUFFICES ASSUME Init PROVE RoutesInv
    OBVIOUS
  <2>1. Trie!Init /\ added = <<>>
    BY DEF Init, Trie!Init
  <2>2. Table!TableInv
    <3>1. Table!WidthAssumption
      BY RouteAssumption DEF Table!WidthAssumption
    <3> QED
      BY <2>1, <3>1, SameTrie, Table!TableInit
  <2> QED
    BY <2>1, <2>2 DEF RoutesInv
<1>2. RoutesInv /\ [Next]_vars => RoutesInv'
  BY RoutesStep
<1>3. RoutesInv /\ TypeOK /\ RouterInv /\ [Next]_vars => [A]_vars
  <2> SUFFICES ASSUME RoutesInv, TypeOK, RouterInv, Next, reader_ = "route", reader_' # "route"
               PROVE  reader_' = "deliver" <=> Routed(pkt)
    BY DEF vars
  <2>1. Route
    <3>1. CASE Main
      <4>1. UNCHANGED reader_
        BY <3>1 DEF Main, MainRuns, add_route, SetupEnd, WaitEnd, start, RunEnd, StopExchange,
           StopWake, StopJoin, StopReset, CloseClients, DrainClients, ReaderJoined,
           Gone, pump, RouterInv
      <4> QED
        BY <4>1
    <3>2. CASE Reader
      BY <3>2 DEF Reader, ReaderStep, LoopTop, PollTimeout, PollWake, ReadPacket,
         Deliver, PollError, PollTun, ReadFails, ReadAgain
    <3>3. CASE ThreadReopens \/ EvInbound \/ inject_from_tunnel \/ Signal \/ Terminated
      BY <3>3 DEF ThreadReopens, EvInbound, inject_from_tunnel, Signal, Terminated, pump, vars
    <3> QED
      BY <3>1, <3>2, <3>3 DEF Next
  <2>2. pkt \in Packet
    BY DEF TypeOK
  <2>3. reader_' = "deliver" <=> "ToTunnel" \in Actions(pkt)
    BY <2>1 DEF Route, ReaderGoes
  <2> DEFINE a == Destination(pkt)
  <2>4. CASE pkt.version \in {4, 6} /\ pkt.whole
    <3>1. dst_from_packet(pkt) = {a} /\ a \in Table!IpAddr
      BY <2>2, <2>4, FoundDestination
    <3> HIDE DEF a
    <3>2. Actions(pkt) = Table!lookup(a)
      BY <3>1, SameTrie DEF Actions
    <3>3. /\ Table!lookup(a) = {} <=> Table!Matching(a) = {}
          /\ \A v \in Table!lookup(a) : \E i \in DOMAIN added : v = added[i].value
      <4>1. Table!WidthAssumption
        BY RouteAssumption DEF Table!WidthAssumption
      <4> QED
        BY <3>1, <4>1, Table!LookupFinds DEF RoutesInv
    <3>4. "ToTunnel" \in Table!lookup(a) <=> Table!lookup(a) # {}
      BY <3>3 DEF RoutesInv
    <3>5. Routed(pkt) <=> Table!Matching(a) # {}
      BY <2>4, SameTrie DEF Routed, Table!Matching, a
    <3> QED
      BY <2>3, <3>2, <3>3, <3>4, <3>5
  <2>5. CASE ~(pkt.version \in {4, 6} /\ pkt.whole)
    <3>1. dst_from_packet(pkt) = {}
      BY <2>2, <2>5, FoundDestination
    <3>2. Actions(pkt) = {}
      BY <3>1 DEF Actions
    <3> QED
      BY <2>3, <2>5, <3>2 DEF Routed
  <2> QED
    BY <2>4, <2>5
<1> QED
  BY <1>1, <1>2, <1>3, TypeCorrect, Invariance, PTL DEF Spec, ForwardsExactly
=============================================================================
