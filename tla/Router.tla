------------------------------- MODULE Router -------------------------------
(***************************************************************************)
(* The Router (src/router/router.cpp) and the threads that use it:         *)
(*   - main, which adds the routes, calls start() and stop(), closes the   *)
(*     clients and destroys the router;                                    *)
(*   - the reader thread, tun_reader_loop();                               *)
(*   - an msquic worker that hands a packet of the tunnel to               *)
(*     inject_from_tunnel() through the raw pointer main captured.         *)
(* The routes are an LpmTrie; the clients appear as one set of links that  *)
(* shutdown_all() closes, waiting for the worker's callback, and that a    *)
(* reconnect thread may open again until it is joined.                     *)
(***************************************************************************)
EXTENDS Naturals, Sequences

CONSTANTS
  ByteBits, V4Bytes, V6Bytes,   \* the widths of LpmTrie
  MaxInserts                    \* bound: number of configured routes

ASSUME RouteAssumption ==
  /\ ByteBits \in Nat \ {0} /\ V4Bytes \in Nat \ {0} /\ V6Bytes \in Nat
  /\ V4Bytes <= V6Bytes /\ MaxInserts \in Nat

VARIABLES
  routes_, added,   \* the trie, and the routes that went into it
  running_,
  reader_,          \* where the reader thread is; "none" when not joinable
  pkt,              \* the packet in the reader's buffer
  wake,             \* the wake pipe: "closed", "empty" or "byte"
  mpc,              \* main
  g_stop,
  links,            \* the clients are open
  rx                \* the worker inside the inbound handler

table  == <<routes_, added>>
pump   == <<reader_, pkt>>
tunnel == <<links, rx>>
vars   == <<routes_, added, running_, reader_, pkt, wake, mpc, g_stop, links,
            rx>>

Action == {"Drop", "ToTunnel", "ToTun"}
Trie == INSTANCE LpmTrie WITH root_ <- routes_, log <- added, Values <- Action

\* What dst_from_packet looks at: the version nibble, whether the packet is
\* as long as the header of its version, and the bytes at the place of the
\* destination.  A short packet leaves older bytes there.
Packet == [version : {0, 4, 6}, whole : BOOLEAN,
           dst : [0..V6Bytes - 1 -> Trie!Byte]]
NoPacket == [version |-> 0]

Gone == {"none", "ended"}

TypeOK ==
  /\ running_ \in BOOLEAN
  /\ reader_ \in {"top", "poll", "read", "route", "deliver"} \cup Gone
  /\ pkt \in IF reader_ \in {"route", "deliver"} THEN Packet ELSE {NoPacket}
  /\ wake \in {"closed", "empty", "byte"}
  /\ mpc \in {"setup", "wait", "start", "run", "stop", "wake", "join", "reset",
              "shut", "drain", "destroy", "exit"}
  /\ g_stop \in BOOLEAN /\ links \in BOOLEAN
  /\ rx \in {"idle", "inject"}

Init ==
  /\ Trie!Init
  /\ running_ = FALSE /\ reader_ = "none" /\ pkt = NoPacket
  /\ wake = "closed" /\ mpc = "setup" /\ g_stop = FALSE
  /\ links = TRUE /\ rx = "idle"

-----------------------------------------------------------------------------
(***************************************************************************)
(* main                                                                    *)
(***************************************************************************)

add_route ==
  /\ mpc = "setup"
  /\ \E c \in Trie!Cidr : Trie!insert(c, "ToTunnel")
  /\ UNCHANGED <<running_, pump, wake, mpc, g_stop, tunnel>>

SetupEnd ==
  /\ mpc = "setup" /\ mpc' = "wait"
  /\ UNCHANGED <<table, running_, pump, wake, g_stop, tunnel>>

\* A connection is healthy, or g_stop is set, or 60 seconds have passed.
WaitEnd ==
  /\ mpc = "wait"
  /\ \/ ~g_stop /\ mpc' = "start" /\ UNCHANGED g_stop
     \/ mpc' = "shut" /\ g_stop' = TRUE
  /\ UNCHANGED <<table, running_, pump, wake, tunnel>>

\* pipe2 may fail; main is not told.
start ==
  /\ mpc = "start" /\ mpc' = "run"
  /\ \/ running_' = TRUE /\ wake' = "empty" /\ reader_' = "top"
     \/ running_' = FALSE /\ UNCHANGED <<wake, reader_>>
  /\ UNCHANGED <<table, pkt, g_stop, tunnel>>

RunEnd ==
  /\ mpc = "run" /\ g_stop /\ mpc' = "stop"
  /\ UNCHANGED <<table, running_, pump, wake, g_stop, tunnel>>

\* main calls stop() before it closes the clients, ~Router after.
AfterStop == IF links THEN "shut" ELSE "exit"

StopExchange ==
  /\ mpc \in {"stop", "destroy"}
  /\ running_' = FALSE
  /\ mpc' = IF running_ THEN "wake" ELSE AfterStop
  /\ UNCHANGED <<table, pump, wake, g_stop, tunnel>>

\* The write is best effort.
StopWake ==
  /\ mpc = "wake" /\ mpc' = "join"
  /\ \/ wake' = IF wake = "closed" THEN wake ELSE "byte"
     \/ UNCHANGED wake
  /\ UNCHANGED <<table, running_, pump, g_stop, tunnel>>

ReaderJoined_NoWait == TRUE
ReaderJoined == reader_ \in Gone

StopJoin ==
  /\ mpc = "join" /\ ReaderJoined
  /\ mpc' = "reset"
  /\ reader_' = IF reader_ = "ended" THEN "none" ELSE reader_
  /\ UNCHANGED <<table, running_, pkt, wake, g_stop, tunnel>>

StopReset ==
  /\ mpc = "reset" /\ wake' = "closed"
  /\ mpc' = AfterStop
  /\ UNCHANGED <<table, running_, pump, g_stop, tunnel>>

\* shutdown_all() closes the clients, then joins their threads.
CloseClients ==
  /\ mpc = "shut"
  /\ g_stop' = TRUE /\ links' = FALSE /\ mpc' = "drain"
  /\ UNCHANGED <<table, running_, pump, wake, rx>>

\* A thread that was inside connect() opens its client once more, and closes
\* it before it ends.
ThreadReopens ==
  /\ mpc = "drain" /\ links' = ~links
  /\ UNCHANGED <<table, running_, pump, wake, mpc, g_stop, rx>>

\* All is closed and joined: no callback begins after that, and close() waits
\* for one that has.
ClientsDrained_NoWait == ~links
ClientsDrained == ~links /\ rx = "idle"

DrainClients ==
  /\ mpc = "drain" /\ ClientsDrained
  /\ mpc' = "destroy"
  /\ UNCHANGED <<table, running_, pump, wake, g_stop, tunnel>>

\* main up to shutdown_all(), and from there on.
MainRuns == \/ add_route \/ SetupEnd \/ WaitEnd \/ start \/ RunEnd
            \/ StopExchange \/ StopWake \/ StopJoin \/ StopReset
Main == MainRuns \/ CloseClients \/ DrainClients

-----------------------------------------------------------------------------
(***************************************************************************)
(* The reader thread.                                                      *)
(***************************************************************************)

ReaderGoes(p) == reader_' = p /\ pkt' = NoPacket
ReaderOnly == UNCHANGED <<table, running_, wake, mpc, g_stop, tunnel>>

LoopTop ==
  /\ reader_ = "top"
  /\ ReaderGoes(IF running_ THEN "poll" ELSE "ended")
  /\ ReaderOnly

\* Nothing for a second, or EINTR.
PollTimeout_Infinite == FALSE /\ UNCHANGED vars
PollTimeout == reader_ = "poll" /\ ReaderGoes("top") /\ ReaderOnly

PollError == reader_ = "poll" /\ ReaderGoes("ended") /\ ReaderOnly

PollWake ==
  /\ reader_ = "poll" /\ wake = "byte"
  /\ ReaderGoes("ended")
  /\ ReaderOnly

\* The device is readable or in error; the wake pipe is looked at first.
PollTun == reader_ = "poll" /\ wake # "byte" /\ ReaderGoes("read") /\ ReaderOnly

ReadFails == reader_ = "read" /\ ReaderGoes("ended") /\ ReaderOnly

\* EINTR or EAGAIN.
ReadAgain == reader_ = "read" /\ ReaderGoes("top") /\ ReaderOnly

ReadPacket_Unchecked ==
  /\ reader_ = "read"
  /\ reader_' = "route" /\ pkt' \in Packet \cup {NoPacket}
  /\ ReaderOnly
ReadPacket ==
  /\ reader_ = "read"
  /\ reader_' = "route" /\ pkt' \in Packet
  /\ ReaderOnly

\* The optional is a set.
dst_from_packet_AnyLength(p) ==
  LET V4 == [i \in 0..V6Bytes - 1 |-> IF i < V4Bytes THEN p.dst[i] ELSE 0]
  IN IF p.version = 4 THEN {[family |-> "V4", bytes |-> V4]}
     ELSE IF p.version = 6 THEN {[family |-> "V6", bytes |-> p.dst]}
     ELSE {}
dst_from_packet(p) ==
  LET V4 == [i \in 0..V6Bytes - 1 |-> IF i < V4Bytes THEN p.dst[i] ELSE 0]
  IN IF p.version = 4 /\ p.whole THEN {[family |-> "V4", bytes |-> V4]}
     ELSE IF p.version = 6 /\ p.whole THEN {[family |-> "V6", bytes |-> p.dst]}
     ELSE {}

Actions(p) == UNION {Trie!lookup(dst) : dst \in dst_from_packet(p)}

Route ==
  /\ reader_ = "route"
  /\ IF "ToTunnel" \in Actions(pkt)
       THEN reader_' = "deliver" /\ UNCHANGED pkt
       ELSE ReaderGoes("top")
  /\ ReaderOnly

\* tunnel_->on_packet(): one of the clients, in turn.
Deliver == reader_ = "deliver" /\ ReaderGoes("top") /\ ReaderOnly

\* What the reader does by itself, and what depends on the device.
ReaderStep == LoopTop \/ PollTimeout \/ PollWake \/ ReadPacket \/ Route \/ Deliver
Reader == ReaderStep \/ PollError \/ PollTun \/ ReadFails \/ ReadAgain

-----------------------------------------------------------------------------
(***************************************************************************)
(* The worker and the signal.  Handlers are set once the routes are in.    *)
(***************************************************************************)

EvInbound ==
  /\ links /\ mpc # "setup" /\ rx = "idle"
  /\ rx' = "inject"
  /\ UNCHANGED <<table, running_, pump, wake, mpc, g_stop, links>>

inject_from_tunnel ==
  /\ rx = "inject" /\ rx' = "idle"
  /\ UNCHANGED <<table, running_, pump, wake, mpc, g_stop, links>>

Signal ==
  /\ ~g_stop /\ g_stop' = TRUE
  /\ UNCHANGED <<table, running_, pump, wake, mpc, tunnel>>

\* main has returned.
Terminated == mpc = "exit" /\ UNCHANGED vars

Next == \/ Main \/ ThreadReopens \/ Reader \/ EvInbound \/ inject_from_tunnel \/ Signal
        \/ Terminated

Spec == Init /\ [][Next]_vars

\* main and the reader run.  Nothing is assumed of the device, the network or
\* signals, nor that the closes and joins of shutdown_all() come to an end:
\* that is Supervisor's subject.
Fairness == WF_vars(MainRuns) /\ WF_vars(ReaderStep)
LiveSpec == Spec /\ Fairness

-----------------------------------------------------------------------------
\* A reader thread that has not ended finds the router, its wake pipe and
\* the clients it sends to: stop() closes the pipe, and main goes on to close
\* the clients, only when the thread is joined.
ReaderOutlived ==
  reader_ \notin Gone => links /\ wake # "closed" /\ mpc # "exit"

\* The inbound handler's raw pointer to the router is good whenever a worker
\* is inside it: the router is destroyed after the clients are closed.
InjectsIntoLiveRouter == rx = "inject" => mpc # "exit"

\* The packets the configured routes are for.
Destination(p) ==
  [family |-> IF p.version = 4 THEN "V4" ELSE "V6",
   bytes  |-> [i \in 0..V6Bytes - 1 |->
                 IF p.version = 4 /\ i >= V4Bytes THEN 0 ELSE p.dst[i]]]
Routed(p) ==
  /\ p.version \in {4, 6} /\ p.whole
  /\ \E i \in DOMAIN added : Trie!contains(added[i].cidr, Destination(p))

\* Of the packets it reads, the reader hands to the tunnel exactly the whole
\* ones whose destination lies in a configured route.
ForwardsExactly ==
  [][reader_ = "route" /\ reader_' # "route" =>
       (reader_' = "deliver" <=> Routed(pkt))]_vars

\* Once asked to stop, main gets through stop() to shutdown_all(), whatever
\* the reader is doing and even if the wake byte cannot be written.
StopCompletes == g_stop ~> mpc \in {"shut", "drain", "destroy", "exit"}

\* Why: the reader runs only from start() to the join, with running_ set until
\* stop() clears it, and the clients are open until the drain.
RouterInv ==
  /\ running_ \in BOOLEAN
  /\ mpc \in {"setup", "wait", "start"} => reader_ = "none"
  /\ running_ => mpc \in {"run", "stop"}
  /\ mpc \notin {"drain", "destroy", "exit"} => links
  /\ mpc \in {"destroy", "exit"} => ~links
  /\ reader_ \notin Gone =>
       /\ wake # "closed"
       /\ mpc \in {"run", "stop", "wake", "join"}
       /\ mpc \in {"run", "stop"} => running_
  /\ rx = "inject" => mpc \notin {"destroy", "exit"}
=============================================================================
