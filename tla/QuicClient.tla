---------------------------- MODULE QuicClient ----------------------------
(***************************************************************************)
(* One QuicClient (src/tunnel/quic_client.cpp) and every thread that       *)
(* touches it:                                                             *)
(*   - its reconnect thread (src/main.cpp), which runs close(), connect(), *)
(*     waits for the registration and then for the connection to drop;     *)
(*   - the KJ thread, inside register_connection();                        *)
(*   - the router's reader thread, inside send_packet();                   *)
(*   - msquic's worker thread, inside on_conn_event(): msquic delivers the *)
(*     events of one connection one at a time;                             *)
(*   - the main thread, whose shutdown_all() calls close() once g_stop is  *)
(*     set, whatever the reconnect thread is doing.                        *)
(* connect() does not take close_mu_; only close() does.                   *)
(***************************************************************************)
EXTENDS Naturals

VARIABLES
  pc,             \* reconnect thread
  mpc,            \* main thread
  g_stop,         \* process-wide stop flag
  disc_fired,     \* local of the reconnect thread, set by the handler
  cl,             \* where each of the two closing threads is inside close()
  close_mu_,      \* holder of the mutex, "none" when free
  registration_, configuration_, connection_,   \* UniqueHandle is non-null
  hconn,          \* the msquic connection object behind connection_
  cb,             \* the worker thread inside on_conn_event()
  handshake_done_, handshake_ok_, disc_notified_,
  disconnect_handler_,   \* the std::function is set
  fired,          \* calls of the disconnect handler since connect() began
  reg,            \* the registration posted to the KJ thread
  tx,             \* the reader thread inside send_packet()
  pin             \* the raw connection handle a thread got from .get()

handles  == <<registration_, configuration_, connection_>>
flags    == <<handshake_done_, handshake_ok_, disc_notified_>>
loop     == <<pc, disc_fired>>
closing  == <<cl, close_mu_>>
control  == <<mpc, g_stop>>
calls    == <<reg, tx, pin>>
vars == <<pc, mpc, g_stop, disc_fired, cl, close_mu_, registration_,
          configuration_, connection_, hconn, cb, handshake_done_,
          handshake_ok_, disc_notified_, disconnect_handler_, fired, reg,
          tx, pin>>

Closers == {"conn", "main"}
Pinners == {"conn", "kj", "tx"}
InClose == {"close1", "close2", "close3"}
Serving == {"check", "enter", "blocked"}
Critical == {"shut", "take", "drain", "conf", "reg"}

TypeOK ==
  /\ pc \in {"top", "flags", "registration", "configuration", "connection",
             "resolve", "start", "starting", "wait", "post", "await",
             "sleep", "unset", "done"} \cup InClose \cup Serving
  /\ mpc \in {"run", "close", "join", "exit"}
  /\ cl \in [Closers -> {"idle", "lock"} \cup Critical]
  /\ close_mu_ \in Closers \cup {"none"}
  /\ g_stop \in BOOLEAN /\ disc_fired \in BOOLEAN
  /\ registration_ \in BOOLEAN /\ configuration_ \in BOOLEAN
  /\ connection_ \in BOOLEAN
  /\ hconn \in {"none", "open", "started", "connected", "shutting", "dead",
                "complete"}
  /\ cb \in {"idle", "armed", "inbound"}
  /\ handshake_done_ \in BOOLEAN /\ handshake_ok_ \in BOOLEAN
  /\ disc_notified_ \in BOOLEAN /\ disconnect_handler_ \in BOOLEAN
  /\ fired \in 0..1
  /\ reg \in {"none", "queued", "guarded", "rpc", "ok", "fail"}
  /\ tx \in {"idle", "guarded", "send"}
  /\ pin \in [Pinners -> {"none", "live", "stale"}]

\* Threads start with set_disconnect_handler() already called.
Init ==
  /\ pc = "top" /\ mpc = "run" /\ g_stop = FALSE /\ disc_fired = FALSE
  /\ cl = [t \in Closers |-> "idle"] /\ close_mu_ = "none"
  /\ registration_ = FALSE /\ configuration_ = FALSE /\ connection_ = FALSE
  /\ hconn = "none" /\ cb = "idle"
  /\ handshake_done_ = FALSE /\ handshake_ok_ = FALSE
  /\ disc_notified_ = FALSE /\ disconnect_handler_ = TRUE /\ fired = 0
  /\ reg = "none" /\ tx = "idle" /\ pin = [t \in Pinners |-> "none"]

-----------------------------------------------------------------------------
(***************************************************************************)
(* close(), by the reconnect thread or by main: ConnectionShutdown, then   *)
(* the three resets in order, all under close_mu_.  unique_ptr::reset()    *)
(* stores null before it calls the deleter.                                *)
(***************************************************************************)

CloseMutexFree_Unlocked(t) == TRUE
CloseMutexFree(t) == close_mu_ = "none"

CloseLock(t) ==
  /\ cl[t] = "lock" /\ CloseMutexFree(t)
  /\ close_mu_' = t
  /\ cl' = [cl EXCEPT ![t] = "shut"]
  /\ UNCHANGED <<loop, control, handles, hconn, cb, flags,
                 disconnect_handler_, fired, calls>>

\* msquic: a connection that was never started ends without an event, one
\* that is running ends with SHUTDOWN_COMPLETE, one that ended stays so.
ShutDown(h) == CASE h = "open" -> "complete"
                 [] h \in {"started", "connected"} -> "shutting"
                 [] OTHER -> h

CloseShutdown(t) ==
  /\ cl[t] = "shut"
  /\ hconn' = IF connection_ THEN ShutDown(hconn) ELSE hconn
  /\ cl' = [cl EXCEPT ![t] = "take"]
  /\ UNCHANGED <<loop, control, close_mu_, handles, cb, flags,
                 disconnect_handler_, fired, calls>>

CloseTake(t) ==
  /\ cl[t] = "take"
  /\ connection_' = FALSE
  /\ hconn' = IF connection_ THEN ShutDown(hconn) ELSE hconn
  /\ cl' = [cl EXCEPT ![t] = IF connection_ THEN "drain" ELSE "conf"]
  /\ UNCHANGED <<loop, control, close_mu_, registration_, configuration_,
                 cb, flags, disconnect_handler_, fired, calls>>

\* ConnectionClose returns when the last event is over, and frees the object.
CloseDrain(t) ==
  /\ cl[t] = "drain" /\ hconn = "complete" /\ cb = "idle"
  /\ hconn' = "none"
  /\ pin' = [p \in Pinners |-> IF pin[p] = "live" THEN "stale" ELSE pin[p]]
  /\ cl' = [cl EXCEPT ![t] = "conf"]
  /\ UNCHANGED <<loop, control, close_mu_, handles, cb, flags,
                 disconnect_handler_, fired, reg, tx>>

CloseConfiguration(t) ==
  /\ cl[t] = "conf"
  /\ configuration_' = FALSE
  /\ cl' = [cl EXCEPT ![t] = "reg"]
  /\ UNCHANGED <<loop, control, close_mu_, registration_, connection_,
                 hconn, cb, flags, disconnect_handler_, fired, calls>>

\* Where the caller goes when close() returns.
AfterClose == [close1 |-> "flags", close2 |-> "sleep", close3 |-> "done"]

Unlock_Missing == UNCHANGED close_mu_
Unlock == close_mu_' = "none"

CloseRegistration(t) ==
  /\ cl[t] = "reg"
  /\ registration_' = FALSE
  /\ Unlock
  /\ cl' = [cl EXCEPT ![t] = "idle"]
  /\ pc'  = IF t = "conn" THEN AfterClose[pc] ELSE pc
  /\ mpc' = IF t = "main" THEN "join" ELSE mpc
  /\ UNCHANGED <<g_stop, disc_fired, configuration_, connection_, hconn, cb,
                 flags, disconnect_handler_, fired, calls>>

Close(t) ==
  \/ CloseLock(t) \/ CloseShutdown(t) \/ CloseTake(t) \/ CloseDrain(t)
  \/ CloseConfiguration(t) \/ CloseRegistration(t)

-----------------------------------------------------------------------------
(***************************************************************************)
(* The reconnect thread.                                                   *)
(***************************************************************************)

EnterClose(p) ==
  /\ pc' = p
  /\ cl' = [cl EXCEPT !["conn"] = "lock"]

LoopTop_NoClose ==
  /\ pc = "top"
  /\ pc' = IF g_stop THEN "unset" ELSE "flags"
  /\ disc_fired' = (g_stop /\ disc_fired)
  /\ UNCHANGED <<control, closing, handles, hconn, cb, flags,
                 disconnect_handler_, fired, calls>>

LoopTop ==
  /\ pc = "top"
  /\ IF g_stop
       THEN pc' = "unset" /\ UNCHANGED <<disc_fired, cl>>
       ELSE disc_fired' = FALSE /\ EnterClose("close1")
  /\ UNCHANGED <<control, close_mu_, handles, hconn, cb, flags,
                 disconnect_handler_, fired, calls>>

\* connect() returned an error: back off and try again.
ConnectFailed == pc' = "sleep"

ResetFlags_KeepOk ==
  handshake_done_' = FALSE /\ disc_notified_' = FALSE /\ UNCHANGED handshake_ok_
ResetFlags ==
  handshake_done_' = FALSE /\ disc_notified_' = FALSE /\ handshake_ok_' = FALSE

ConnectReset ==
  /\ pc = "flags"
  /\ ResetFlags
  /\ fired' = 0
  /\ pc' = "registration"
  /\ UNCHANGED <<disc_fired, control, closing, handles, hconn, cb,
                 disconnect_handler_, calls>>

\* api_table_init and RegistrationOpen; either may fail.
ConnectRegistration ==
  /\ pc = "registration"
  /\ \/ registration_' = TRUE /\ pc' = "configuration"
     \/ ConnectFailed /\ UNCHANGED registration_
  /\ UNCHANGED <<disc_fired, control, closing, configuration_, connection_,
                 hconn, cb, flags, disconnect_handler_, fired, calls>>

\* ConfigurationOpen; LoadCredential may fail after the handle is stored.
ConnectConfiguration ==
  /\ pc = "configuration"
  /\ \/ /\ registration_
        /\ configuration_' = TRUE
        /\ pc' = "connection" \/ ConnectFailed
     \/ ConnectFailed /\ UNCHANGED configuration_
  /\ UNCHANGED <<disc_fired, control, closing, registration_, connection_,
                 hconn, cb, flags, disconnect_handler_, fired, calls>>

\* ConnectionOpen fails on a null registration.
ConnectOpen ==
  /\ pc = "connection"
  /\ \/ registration_ /\ connection_' = TRUE /\ hconn' = "open"
        /\ pc' = "resolve"
     \/ ConnectFailed /\ UNCHANGED <<connection_, hconn>>
  /\ UNCHANGED <<disc_fired, control, closing, registration_,
                 configuration_, cb, flags, disconnect_handler_, fired, calls>>

\* getaddrinfo; the result of SetParam is ignored.
ConnectResolve ==
  /\ pc = "resolve"
  /\ pc' = "start" \/ ConnectFailed
  /\ UNCHANGED <<disc_fired, control, closing, handles, hconn, cb, flags,
                 disconnect_handler_, fired, calls>>

\* The arguments of ConnectionStart: a null one makes the call fail.
ConnectStartArgs ==
  /\ pc = "start"
  /\ IF connection_ /\ configuration_
       THEN pc' = "starting" /\ pin' = [pin EXCEPT !["conn"] = "live"]
       ELSE ConnectFailed /\ UNCHANGED pin
  /\ UNCHANGED <<disc_fired, control, closing, handles, hconn, cb, flags,
                 disconnect_handler_, fired, reg, tx>>

ConnectStart ==
  /\ pc = "starting"
  /\ pin' = [pin EXCEPT !["conn"] = "none"]
  /\ \/ hconn = "open" /\ hconn' = "started" /\ pc' = "wait"
     \/ ConnectFailed /\ UNCHANGED hconn
  /\ UNCHANGED <<disc_fired, control, closing, handles, cb, flags,
                 disconnect_handler_, fired, reg, tx>>

HandshakeSeen_AnyOutcome == handshake_done_
HandshakeSeen == handshake_ok_

\* wait_for(handshake_done_) ends by notification or by its timeout; what
\* connect() returns is handshake_ok_ either way.
ConnectWait ==
  /\ pc = "wait"
  /\ IF HandshakeSeen THEN pc' = "post" ELSE ConnectFailed
  /\ UNCHANGED <<disc_fired, control, closing, handles, hconn, cb, flags,
                 disconnect_handler_, fired, calls>>

Post_ClearsDrop ==
  /\ pc = "post" /\ pc' = "await" /\ reg' = "queued" /\ disc_fired' = FALSE
  /\ UNCHANGED <<control, closing, handles, hconn, cb, flags,
                 disconnect_handler_, fired, tx, pin>>

Post ==
  /\ pc = "post"
  /\ pc' = "await" /\ reg' = "queued"
  /\ UNCHANGED <<disc_fired, control, closing, handles, hconn, cb, flags,
                 disconnect_handler_, fired, tx, pin>>

\* fut.get(): an answer, or a failure after which the client is closed.
Answered_OrImpatient == TRUE
Answered == reg \in {"ok", "fail"}

AwaitResult ==
  /\ pc = "await" /\ Answered
  /\ reg' = "none"
  /\ IF reg = "ok" THEN pc' = "check" /\ UNCHANGED cl
                   ELSE EnterClose("close2")
  /\ UNCHANGED <<disc_fired, control, close_mu_, handles, hconn, cb, flags,
                 disconnect_handler_, fired, tx, pin>>

\* g_wakeup_cv.wait(): the predicate, then the block, in two steps.
\* notify_all, which is called without g_wakeup_mu, wakes a blocked thread.
WaitOver == disc_fired \/ g_stop
Notified == IF pc = "blocked" THEN "check" ELSE pc

WaitCheck ==
  /\ pc = "check" /\ ~WaitOver /\ pc' = "enter"
  /\ UNCHANGED <<disc_fired, control, closing, handles, hconn, cb, flags,
                 disconnect_handler_, fired, calls>>

WaitBlock ==
  /\ pc = "enter" /\ pc' = "blocked"
  /\ UNCHANGED <<disc_fired, control, closing, handles, hconn, cb, flags,
                 disconnect_handler_, fired, calls>>

\* Another connection's notification, or none at all.
WaitSpurious ==
  /\ pc = "blocked" /\ pc' = "check"
  /\ UNCHANGED <<disc_fired, control, closing, handles, hconn, cb, flags,
                 disconnect_handler_, fired, calls>>

ServeEnd ==
  /\ pc = "check" /\ WaitOver
  /\ pc' = IF g_stop THEN "top" ELSE "sleep"
  /\ UNCHANGED <<disc_fired, control, closing, handles, hconn, cb, flags,
                 disconnect_handler_, fired, calls>>

SleepEnd ==
  /\ pc = "sleep" /\ pc' = "top"
  /\ UNCHANGED <<disc_fired, control, closing, handles, hconn, cb, flags,
                 disconnect_handler_, fired, calls>>

ClearHandler ==
  /\ pc = "unset"
  /\ disconnect_handler_' = FALSE
  /\ EnterClose("close3")
  /\ UNCHANGED <<disc_fired, control, close_mu_, handles, hconn, cb, flags,
                 fired, calls>>

Reconnect ==
  \/ LoopTop \/ ConnectReset \/ ConnectRegistration \/ ConnectConfiguration
  \/ ConnectOpen \/ ConnectResolve \/ ConnectStartArgs \/ ConnectStart
  \/ ConnectWait \/ Post \/ AwaitResult \/ WaitCheck \/ WaitBlock
  \/ ServeEnd \/ SleepEnd \/ ClearHandler

-----------------------------------------------------------------------------
(***************************************************************************)
(* register_connection() on the KJ thread and send_packet() on the reader  *)
(* thread: a guard on the two members, later connection_.get(), then calls *)
(* on the raw handle.                                                      *)
(***************************************************************************)

Usable == connection_ /\ handshake_ok_

KjGuard ==
  /\ reg = "queued"
  /\ reg' = IF Usable THEN "guarded" ELSE "fail"
  /\ UNCHANGED <<loop, control, closing, handles, hconn, cb, flags,
                 disconnect_handler_, fired, tx, pin>>

KjGet ==
  /\ reg = "guarded"
  /\ IF connection_ THEN reg' = "rpc" /\ pin' = [pin EXCEPT !["kj"] = "live"]
                    ELSE reg' = "fail" /\ UNCHANGED pin
  /\ UNCHANGED <<loop, control, closing, handles, hconn, cb, flags,
                 disconnect_handler_, fired, tx>>

\* The answer of the edge, an RPC error, or the watchdog's abort.
KjReturn ==
  /\ reg = "rpc"
  /\ pin' = [pin EXCEPT !["kj"] = "none"]
  /\ reg' = "fail" \/ (pin["kj"] = "live" /\ reg' = "ok")
  /\ UNCHANGED <<loop, control, closing, handles, hconn, cb, flags,
                 disconnect_handler_, fired, tx>>

Kj == KjGuard \/ KjGet \/ KjReturn

\* The router is stopped, and its thread joined, before main closes.
TxGuard ==
  /\ tx = "idle" /\ mpc = "run" /\ Usable
  /\ tx' = "guarded"
  /\ UNCHANGED <<loop, control, closing, handles, hconn, cb, flags,
                 disconnect_handler_, fired, reg, pin>>

TxGet ==
  /\ tx = "guarded"
  /\ tx' = "send"
  /\ pin' = IF connection_ THEN [pin EXCEPT !["tx"] = "live"] ELSE pin
  /\ UNCHANGED <<loop, control, closing, handles, hconn, cb, flags,
                 disconnect_handler_, fired, reg>>

TxSend ==
  /\ tx = "send"
  /\ tx' = "idle" /\ pin' = [pin EXCEPT !["tx"] = "none"]
  /\ UNCHANGED <<loop, control, closing, handles, hconn, cb, flags,
                 disconnect_handler_, fired, reg>>

-----------------------------------------------------------------------------
(***************************************************************************)
(* on_conn_event() on msquic's worker thread.                              *)
(***************************************************************************)

\* A connection that is being shut down may still finish its handshake.
EvConnected ==
  /\ cb = "idle"
  /\ \/ hconn = "started" /\ hconn' = "connected"
     \/ hconn = "shutting" /\ ~handshake_ok_ /\ UNCHANGED hconn
  /\ handshake_ok_' = TRUE /\ handshake_done_' = TRUE
  /\ UNCHANGED <<loop, control, closing, handles, cb, disc_notified_,
                 disconnect_handler_, fired, calls>>

FirstLoss_EveryTime == handshake_ok_
FirstLoss == handshake_ok_ /\ ~disc_notified_

\* fire_disconnect_locked_(): the handler is copied under state_mu_ and
\* called after the unlock.
FireDisconnect ==
  /\ handshake_done_' = TRUE
  /\ disc_notified_' = (disc_notified_ \/ FirstLoss)
  /\ cb' = IF FirstLoss /\ disconnect_handler_ THEN "armed" ELSE "idle"
  /\ UNCHANGED handshake_ok_

\* SHUTDOWN_INITIATED_BY_TRANSPORT or _BY_PEER.
EvShutdownInitiated ==
  /\ cb = "idle" /\ hconn \in {"started", "connected", "shutting"}
  /\ hconn' = "dead"
  /\ FireDisconnect
  /\ UNCHANGED <<loop, control, closing, handles, disconnect_handler_,
                 fired, calls>>

EvShutdownComplete ==
  /\ cb = "idle" /\ hconn \in {"shutting", "dead"}
  /\ hconn' = "complete"
  /\ FireDisconnect
  /\ UNCHANGED <<loop, control, closing, handles, disconnect_handler_,
                 fired, calls>>

\* The handler main installs: disc_fired.store(true), notify_all.
RunHandler ==
  /\ cb = "armed" /\ cb' = "idle"
  /\ disc_fired' = TRUE /\ fired' = fired + 1
  /\ pc' = Notified
  /\ UNCHANGED <<control, closing, handles, hconn, flags,
                 disconnect_handler_, calls>>

\* DATAGRAM_RECEIVED: deliver_inbound() runs the router's handler.
EvDatagram ==
  /\ cb = "idle" /\ hconn = "connected" /\ cb' = "inbound"
  /\ UNCHANGED <<loop, control, closing, handles, hconn, flags,
                 disconnect_handler_, fired, calls>>

EndDatagram ==
  /\ cb = "inbound" /\ cb' = "idle"
  /\ UNCHANGED <<loop, control, closing, handles, hconn, flags,
                 disconnect_handler_, fired, calls>>

-----------------------------------------------------------------------------
(***************************************************************************)
(* The process around the client.                                          *)
(***************************************************************************)

\* on_signal, or shutdown_all after the first 60 seconds.
Stop ==
  /\ ~g_stop /\ g_stop' = TRUE /\ pc' = Notified
  /\ UNCHANGED <<disc_fired, mpc, closing, handles, hconn, cb, flags,
                 disconnect_handler_, fired, calls>>

\* router->stop() joins the reader thread, then shutdown_all() notifies again
\* and closes.
MainClose ==
  /\ mpc = "run" /\ g_stop /\ tx = "idle"
  /\ mpc' = "close" /\ pc' = Notified
  /\ cl' = [cl EXCEPT !["main"] = "lock"]
  /\ UNCHANGED <<disc_fired, g_stop, close_mu_, handles, hconn, cb, flags,
                 disconnect_handler_, fired, calls>>

MainJoin ==
  /\ mpc = "join" /\ pc = "done"
  /\ mpc' = "exit"
  /\ UNCHANGED <<loop, g_stop, closing, handles, hconn, cb, flags,
                 disconnect_handler_, fired, calls>>

Terminated == mpc = "exit" /\ UNCHANGED vars

Next ==
  \/ \E t \in Closers : Close(t)
  \/ Reconnect \/ WaitSpurious \/ Kj \/ TxGuard \/ TxGet \/ TxSend
  \/ EvConnected \/ EvShutdownInitiated \/ EvShutdownComplete \/ RunHandler
  \/ EvDatagram \/ EndDatagram
  \/ Stop \/ MainClose \/ MainJoin \/ Terminated

\* Threads keep running, and every wait of the reconnect thread but the one
\* on g_wakeup_cv has a timeout; msquic finishes a shutdown it has begun.
\* Nothing is promised about the peer or spurious wake-ups, and
\* RegistrationClose is promised to return only when no connection of the
\* registration is left.
Fairness ==
  /\ WF_vars(Reconnect) /\ WF_vars(Kj) /\ WF_vars(TxGet) /\ WF_vars(TxSend)
  /\ WF_vars(EvShutdownComplete) /\ WF_vars(RunHandler)
  /\ WF_vars(EndDatagram) /\ WF_vars(MainClose) /\ WF_vars(MainJoin)
  /\ \A t \in Closers :
       WF_vars(Close(t) /\ (cl[t] = "reg" => hconn = "none"))

Spec == Init /\ [][Next]_vars
FairSpec == Spec /\ Fairness

-----------------------------------------------------------------------------
(***************************************************************************)
(* What must hold.                                                         *)
(***************************************************************************)

\* The handler copied by fire_disconnect_locked_() refers to disc_fired on
\* the reconnect thread's stack, and the inbound handler to the router: once
\* the thread has returned no callback runs or can still run, although main
\* may have taken the connection from under its close(); and every handle
\* has been closed.
NoCallbackAfterExit ==
  pc = "done" => /\ cb = "idle" /\ hconn = "none"
                 /\ ~connection_ /\ ~configuration_ /\ ~registration_

\* quic_client.hpp: the disconnect handler "fires at most once per connect()
\* attempt", although both the start and the end of a shutdown call
\* fire_disconnect_locked_().
FiresAtMostOnce == fired <= 1

\* A connection that connect() reported as up has really finished its own
\* handshake: the flags of an earlier attempt, whose late events may race
\* with the next connect(), never stand in for it.
HandshakeFresh ==
  pc \in {"post", "await"} \cup Serving =>
    handshake_ok_ /\ hconn \notin {"open", "started"}

\* The stream of register_connection() is opened on the raw handle: no close()
\* frees that handle under the KJ thread before the process is stopping.
RegistersOnLiveHandle == pin["kj"] = "stale" => g_stop

\* A thread whose wake-up was lost: it sleeps although its wait is over.
Missed == pc = "blocked" /\ WaitOver

\* A drop is never forgotten: when the connection being served is gone, also
\* when it went between the handshake and the wait, the reconnect thread
\* leaves its wait, or it sleeps for ever with disc_fired set because the one
\* notification fell between its predicate and its block.
DropNoticed ==
  (pc \in Serving /\ hconn \in {"dead", "complete"})
    ~> (pc \notin Serving \/ []Missed)

\* close() returns, in both threads, except that main's may stay in
\* RegistrationClose while connect() has opened a connection behind it.
CloseReturns ==
  \A t \in Closers :
    cl[t] # "idle" ~> (cl[t] = "idle" \/ (cl["main"] = "reg" /\ hconn # "none"))

\* Why the above holds, as an inductive invariant.  close() is exclusive
\* and only its caller is inside it.
CloseInv ==
  /\ \A t \in Closers : cl[t] \in Critical <=> close_mu_ = t
  /\ cl["conn"] # "idle" <=> pc \in InClose
  /\ cl["main"] # "idle" <=> mpc = "close"
  /\ mpc # "run" => g_stop

\* Somebody who holds close_mu_ answers for a connection object that is no
\* longer in connection_; connect() starts from a clean slate.
HandleInv ==
  /\ hconn = "none" => cb = "idle" /\ ~connection_
  /\ (hconn # "none" /\ ~connection_) => \E t \in Closers : cl[t] = "drain"
  /\ \A t \in Closers : cl[t] = "drain" =>
       ~connection_ /\ hconn \in {"shutting", "dead", "complete"}
  /\ (cl["conn"] \in {"conf", "reg"}
       \/ pc \in {"flags", "registration", "configuration", "connection", "done"})
       => hconn = "none"
  /\ cl["conn"] = "reg" => ~configuration_
  /\ pc = "done" => ~configuration_ /\ ~registration_

\* The flags describe the attempt that connection_ belongs to.
FlagsInv ==
  /\ hconn \in {"open", "started"} => ~handshake_ok_
  /\ hconn = "connected" => handshake_ok_
  /\ pc \in {"registration", "configuration", "connection"} =>
       ~handshake_ok_ /\ fired = 0
  /\ pc \in {"post", "await"} \cup Serving => handshake_ok_
  /\ cb = "armed" => /\ handshake_ok_ /\ disc_notified_ /\ fired = 0
                     /\ hconn \in {"dead", "complete"}
  /\ ~disc_notified_ => fired = 0

\* The KJ thread works only while the reconnect thread waits for it.
RegisterInv ==
  /\ reg # "none" => pc = "await"
  /\ pin["kj"] # "none" => reg = "rpc"
  /\ pin["kj"] = "stale" => g_stop

ClientInv == TypeOK /\ CloseInv /\ HandleInv /\ FlagsInv /\ RegisterInv

\* The client implements the contract of its header, LinkContract.
Up == hconn = "connected" \/ (hconn = "shutting" /\ handshake_ok_)
link ==
  IF hconn = "none" THEN "closed"
  ELSE IF Up THEN "up"
  ELSE IF hconn \in {"open", "started", "shutting"} THEN "dialing"
  ELSE IF handshake_ok_ THEN "lost" ELSE "failed"

Contract == INSTANCE LinkContract WITH told <- fired > 0
ImplementsContract == Contract!Spec

-----------------------------------------------------------------------------
(***************************************************************************)
(* What the code's comments say and the code does not do.                  *)
(***************************************************************************)

\* main.cpp, MultiSink: "Closed/failed QuicClients drop packets silently in
\* their on_packet() guard": send_packet() never hands DatagramSend a
\* connection that close() has freed.
SendsOnLiveHandle == pin["tx"] # "stale"

\* main.cpp: "Block until the connection drops or shutdown is requested":
\* the wait does not end while the connection is up and no stop was asked.
WaitEndsOnDrop ==
  pc = "check" /\ disc_fired /\ ~g_stop => hconn # "connected"

\* quic_client.cpp: close_mu_ is there to "serialise concurrent close() calls
\* (e.g. reconnect thread + main teardown)": the two callers never wait for
\* one another, main in RegistrationClose for a connection that connect()
\* opened meanwhile, and the thread that owns it, in its last close(), for the
\* mutex main holds.
CloseSerialised ==
  ~(cl["main"] = "reg" /\ hconn # "none" /\ pc = "close3")
=============================================================================
