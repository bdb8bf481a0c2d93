---------------------------- MODULE Supervisor ----------------------------
(***************************************************************************)
(* The process of src/main.cpp: one reconnect thread per connection, the   *)
(* single KJ thread that serves their registrations from a queue, and the  *)
(* main thread that waits for the first healthy connection, runs the       *)
(* packet pump and tears everything down.  A QuicClient is its contract    *)
(* here (LinkContract; QuicClient.tla shows that the code implements it),  *)
(* with the mutex its close() holds, by the reconnect thread or by main.   *)
(*                                                                         *)
(* g_wakeup_cv is modelled as it works: a waiter evaluates its predicate   *)
(* and then blocks, in two steps; notify_all wakes the threads blocked at  *)
(* that moment and no others.  Notifiers in this program do not hold       *)
(* g_wakeup_mu, so a notification may fall between the two steps.          *)
(***************************************************************************)
EXTENDS Integers, Sequences, FiniteSets

CONSTANTS
  Conns,      \* conn_idx of the kNumHaConns clients
  ArgIndex    \* main's variable i once the command line has been parsed

ASSUME ConnsAssumption == Conns \subseteq Nat /\ IsFiniteSet(Conns)
ASSUME ArgIndexAssumption == ArgIndex \in Nat

VARIABLES
  pc,          \* reconnect threads
  disc_fired,  \* the flag each reconnect thread's handler sets
  handler,     \* the disconnect handler is set
  link, told,  \* the contract of each client
  close_mu_,   \* who is inside each client's close()
  ok_count,    \* healthy connections
  kj_queue,    \* RegWork items waiting for the KJ thread
  kpc, work,   \* the KJ thread and the item it serves
  kj_stop,
  result,      \* the future of each reconnect thread
  g_stop,
  mpc,         \* main thread
  closed       \* clients that shutdown_all has closed

kj   == <<kj_queue, kpc, work, kj_stop>>
main == <<mpc, closed>>
vars == <<pc, disc_fired, handler, link, told, close_mu_, ok_count, kj_queue,
          kpc, work, kj_stop, result, g_stop, mpc, closed>>

Closing == {"close1", "close2", "close3"}
Counted == {"check", "enter", "blocked"}
RegWork == [cl : Conns, conn_index : Nat]

TypeOK ==
  /\ pc \in [Conns -> {"top", "connect", "dial", "post", "await", "sleep",
                       "unset", "done"} \cup Closing \cup Counted]
  /\ disc_fired \in [Conns -> BOOLEAN] /\ handler \in [Conns -> BOOLEAN]
  /\ link \in [Conns -> {"closed", "dialing", "up", "failed", "lost"}]
  /\ told \in [Conns -> BOOLEAN]
  /\ close_mu_ \in [Conns -> {"none", "conn", "main"}]
  /\ ok_count \in 0..Cardinality(Conns)
  /\ kj_queue \in Seq(RegWork) /\ work \in RegWork \cup {<<>>}
  /\ kpc \in {"wait", "work", "done"} /\ kj_stop \in BOOLEAN
  /\ result \in [Conns -> {"none", "ok", "fail"}]
  /\ g_stop \in BOOLEAN
  /\ mpc \in {"wait", "okq", "poll", "flag", "close",
              "drain", "regclose", "join", "kjstop", "kjjoin", "exit"}
  /\ closed \subseteq Conns

Init ==
  /\ pc = [c \in Conns |-> "top"]
  /\ disc_fired = [c \in Conns |-> FALSE] /\ handler = [c \in Conns |-> TRUE]
  /\ link = [c \in Conns |-> "closed"] /\ told = [c \in Conns |-> FALSE]
  /\ close_mu_ = [c \in Conns |-> "none"]
  /\ ok_count = 0
  /\ kj_queue = <<>> /\ kpc = "wait" /\ work = <<>> /\ kj_stop = FALSE
  /\ result = [c \in Conns |-> "none"]
  /\ g_stop = FALSE /\ mpc = "wait" /\ closed = {}

-----------------------------------------------------------------------------
(***************************************************************************)
(* The client, by its contract.                                            *)
(***************************************************************************)

Go(c, p) == pc' = [pc EXCEPT ![c] = p]

\* notify_all on g_wakeup_cv, from the state of the threads p.
NotifyAll(p) == [c \in Conns |-> IF p[c] = "blocked" THEN "check" ELSE p[c]]

Established(c) ==
  /\ link[c] = "dialing" /\ link' = [link EXCEPT ![c] = "up"]
  /\ UNCHANGED <<pc, disc_fired, handler, told, close_mu_, ok_count, kj,
                 result, g_stop, main>>

Failed(c) ==
  /\ link[c] = "dialing" /\ link' = [link EXCEPT ![c] = "failed"]
  /\ UNCHANGED <<pc, disc_fired, handler, told, close_mu_, ok_count, kj,
                 result, g_stop, main>>

Lost(c) ==
  /\ link[c] = "up" /\ link' = [link EXCEPT ![c] = "lost"]
  /\ UNCHANGED <<pc, disc_fired, handler, told, close_mu_, ok_count, kj,
                 result, g_stop, main>>

\* A client owes its handler the news of a loss.
Owed(c) == link[c] = "lost" /\ ~told[c] /\ handler[c]

\* The handler: disc_fired.store(true), g_wakeup_cv.notify_all().
Tell(c) ==
  /\ Owed(c)
  /\ told' = [told EXCEPT ![c] = TRUE]
  /\ disc_fired' = [disc_fired EXCEPT ![c] = TRUE]
  /\ pc' = NotifyAll(pc)
  /\ UNCHANGED <<handler, link, close_mu_, ok_count, kj, result, g_stop,
                 main>>

\* close() shuts the connection down, if there is one, and returns when its
\* events are over.  What it does to the link, with the caller's continuation
\* left open.
Shut(c) ==
  link' = [link EXCEPT ![c] = CASE @ = "up" -> "lost"
                                [] @ = "dialing" -> "failed"
                                [] OTHER -> @]
Closed_Undrained(c) == link' = [link EXCEPT ![c] = "closed"]
Closed(c) ==
  /\ link[c] \in {"closed", "failed", "lost"} /\ ~Owed(c)
  /\ link' = [link EXCEPT ![c] = "closed"]

-----------------------------------------------------------------------------
(***************************************************************************)
(* Reconnect thread c.                                                     *)
(***************************************************************************)

LoopTop(c) ==
  /\ pc[c] = "top"
  /\ IF g_stop
       THEN Go(c, "unset") /\ UNCHANGED disc_fired
       ELSE Go(c, "close1") /\ disc_fired' = [disc_fired EXCEPT ![c] = FALSE]
  /\ UNCHANGED <<handler, link, told, close_mu_, ok_count, kj, result,
                 g_stop, main>>

\* close_mu_ is taken for the whole of close().
CloseBegin(c) ==
  /\ pc[c] \in Closing /\ close_mu_[c] = "none"
  /\ close_mu_' = [close_mu_ EXCEPT ![c] = "conn"]
  /\ Shut(c)
  /\ UNCHANGED <<pc, disc_fired, handler, told, ok_count, kj, result, g_stop,
                 main>>

AfterClose == [close1 |-> "connect", close2 |-> "sleep", close3 |-> "done"]

CloseEnd(c) ==
  /\ pc[c] \in Closing /\ close_mu_[c] = "conn"
  /\ Closed(c)
  /\ close_mu_' = [close_mu_ EXCEPT ![c] = "none"]
  /\ Go(c, AfterClose[pc[c]])
  /\ UNCHANGED <<disc_fired, handler, told, ok_count, kj, result, g_stop,
                 main>>

\* connect() may fail before the connection exists.
Connect(c) ==
  /\ pc[c] = "connect"
  /\ told' = [told EXCEPT ![c] = FALSE]
  /\ \/ Go(c, "dial") /\ link' = [link EXCEPT ![c] = "dialing"]
     \/ Go(c, "sleep") /\ UNCHANGED link
  /\ UNCHANGED <<disc_fired, handler, close_mu_, ok_count, kj, result,
                 g_stop, main>>

\* connect() returns handshake_ok_: the handshake was seen, or it failed or
\* timed out.  Of a connection that main has closed meanwhile, either.
Connected(c) ==
  /\ pc[c] = "dial"
  /\ \/ link[c] \in {"up", "lost", "closed"} /\ Go(c, "post")
     \/ link[c] \notin {"up", "lost"} /\ Go(c, "sleep")
  /\ UNCHANGED <<disc_fired, handler, link, told, close_mu_, ok_count, kj,
                 result, g_stop, main>>

\* rreq.conn_index = static_cast<std::uint8_t>(i)
ConnIndex(c) == ArgIndex % 256

Post(c) ==
  /\ pc[c] = "post"
  /\ kj_queue' = Append(kj_queue, [cl |-> c, conn_index |-> ConnIndex(c)])
  /\ Go(c, "await")
  /\ UNCHANGED <<disc_fired, handler, link, told, close_mu_, ok_count, kpc,
                 work, kj_stop, result, g_stop, main>>

Rejected(c) ==
  /\ pc[c] = "await" /\ result[c] = "fail"
  /\ result' = [result EXCEPT ![c] = "none"]
  /\ Go(c, "close2")
  /\ UNCHANGED <<disc_fired, handler, link, told, close_mu_, ok_count, kj,
                 g_stop, main>>

\* ok_count.fetch_add(1), notify_all.
Registered(c) ==
  /\ pc[c] = "await" /\ result[c] = "ok"
  /\ result' = [result EXCEPT ![c] = "none"]
  /\ ok_count' = ok_count + 1
  /\ pc' = [NotifyAll(pc) EXCEPT ![c] = "check"]
  /\ UNCHANGED <<disc_fired, handler, link, told, close_mu_, kj, g_stop,
                 main>>

WaitOver(c) == disc_fired[c] \/ g_stop

\* The wait of a healthy thread: predicate, then block.
WaitCheck(c) ==
  /\ pc[c] = "check" /\ ~WaitOver(c)
  /\ Go(c, "enter")
  /\ UNCHANGED <<disc_fired, handler, link, told, close_mu_, ok_count, kj,
                 result, g_stop, main>>

WaitBlock(c) ==
  /\ pc[c] = "enter"
  /\ Go(c, "blocked")
  /\ UNCHANGED <<disc_fired, handler, link, told, close_mu_, ok_count, kj,
                 result, g_stop, main>>

\* A wake-up nobody asked for, as condition variables allow.
WaitSpurious(c) ==
  /\ pc[c] = "blocked"
  /\ Go(c, "check")
  /\ UNCHANGED <<disc_fired, handler, link, told, close_mu_, ok_count, kj,
                 result, g_stop, main>>

\* ok_count.fetch_sub(1)
Uncount_DropOnly(c) == IF disc_fired[c] THEN ok_count - 1 ELSE ok_count
Uncount(c) == ok_count - 1

\* Back off after a drop, go round at once when stopping.
AfterWait_GiveUp(c) == IF g_stop THEN "top" ELSE "unset"
AfterWait(c) == IF g_stop THEN "top" ELSE "sleep"

WaitEnd(c) ==
  /\ pc[c] = "check" /\ WaitOver(c)
  /\ ok_count' = Uncount(c)
  /\ Go(c, AfterWait(c))
  /\ UNCHANGED <<disc_fired, handler, link, told, close_mu_, kj, result,
                 g_stop, main>>

\* interruptible_sleep: it has a timeout, so it always ends.
SleepEnd(c) ==
  /\ pc[c] = "sleep"
  /\ Go(c, "top")
  /\ UNCHANGED <<disc_fired, handler, link, told, close_mu_, ok_count, kj,
                 result, g_stop, main>>

ClearHandler_Skipped(c) ==
  /\ pc[c] = "unset"
  /\ Go(c, "close3")
  /\ UNCHANGED <<disc_fired, handler, link, told, close_mu_, ok_count, kj,
                 result, g_stop, main>>

ClearHandler(c) ==
  /\ pc[c] = "unset"
  /\ handler' = [handler EXCEPT ![c] = FALSE]
  /\ Go(c, "close3")
  /\ UNCHANGED <<disc_fired, link, told, close_mu_, ok_count, kj, result,
                 g_stop, main>>

\* What thread c does by itself.
Thread(c) ==
  \/ LoopTop(c) \/ CloseBegin(c) \/ CloseEnd(c)
  \/ Connect(c) \/ Connected(c) \/ Post(c) \/ Rejected(c) \/ Registered(c)
  \/ WaitCheck(c) \/ WaitBlock(c) \/ WaitEnd(c) \/ SleepEnd(c) \/ ClearHandler(c)

-----------------------------------------------------------------------------
(***************************************************************************)
(* The KJ thread.  kj_stop and the queue change under kj_mu, so its wait   *)
(* misses no notification.  The loop that answers what is left in the      *)
(* queue after the break finds it empty.                                   *)
(***************************************************************************)

KjTake_Newest ==
  /\ kpc = "wait" /\ kj_queue # <<>>
  /\ work' = kj_queue[Len(kj_queue)]
  /\ kj_queue' = SubSeq(kj_queue, 1, Len(kj_queue) - 1)
  /\ kpc' = "work"
  /\ UNCHANGED <<pc, disc_fired, handler, link, told, close_mu_, ok_count,
                 kj_stop, result, g_stop, main>>

KjTake ==
  /\ kpc = "wait" /\ kj_queue # <<>>
  /\ work' = Head(kj_queue) /\ kj_queue' = Tail(kj_queue)
  /\ kpc' = "work"
  /\ UNCHANGED <<pc, disc_fired, handler, link, told, close_mu_, ok_count,
                 kj_stop, result, g_stop, main>>

\* register_connection() returns and the promise is fulfilled.
KjAnswer ==
  /\ kpc = "work"
  /\ \E r \in {"fail"} \cup (IF link[work.cl] \in {"up", "lost"}
                              THEN {"ok"} ELSE {}) :
       result' = [result EXCEPT ![work.cl] = r]
  /\ work' = <<>> /\ kpc' = "wait"
  /\ UNCHANGED <<pc, disc_fired, handler, link, told, close_mu_, ok_count,
                 kj_queue, kj_stop, g_stop, main>>

KjBreak ==
  /\ kpc = "wait" /\ kj_queue = <<>> /\ kj_stop
  /\ kpc' = "done"
  /\ UNCHANGED <<pc, disc_fired, handler, link, told, close_mu_, ok_count,
                 kj_queue, work, kj_stop, result, g_stop, main>>

Kj == KjTake \/ KjAnswer \/ KjBreak

-----------------------------------------------------------------------------
(***************************************************************************)
(* The main thread and the signal handler.                                 *)
(***************************************************************************)

\* g_stop.store(true), notify_all: on_signal, and the start of shutdown_all.
RaiseStop == g_stop' = TRUE /\ pc' = NotifyAll(pc)

Signal ==
  /\ ~g_stop /\ RaiseStop
  /\ UNCHANGED <<disc_fired, handler, link, told, close_mu_, ok_count, kj,
                 result, main>>

\* wait_for(60 s) ends by its predicate or at any time by its timeout; then
\* g_stop is read.
MainWaitEnd ==
  /\ mpc = "wait" /\ mpc' = IF g_stop THEN "flag" ELSE "okq"
  /\ UNCHANGED <<pc, disc_fired, handler, link, told, close_mu_, ok_count,
                 kj, result, g_stop, closed>>

\* ok_count is read again; router->start() when it is not 0.
MainOkQ ==
  /\ mpc = "okq" /\ mpc' = IF ok_count = 0 THEN "flag" ELSE "poll"
  /\ UNCHANGED <<pc, disc_fired, handler, link, told, close_mu_, ok_count,
                 kj, result, g_stop, closed>>

\* The 200 ms poll sees g_stop; router->stop().
MainPoll ==
  /\ mpc = "poll" /\ g_stop /\ mpc' = "flag"
  /\ UNCHANGED <<pc, disc_fired, handler, link, told, close_mu_, ok_count,
                 kj, result, g_stop, closed>>

MainShutdown ==
  /\ mpc = "flag" /\ mpc' = "close" /\ RaiseStop
  /\ UNCHANGED <<disc_fired, handler, link, told, close_mu_, ok_count, kj,
                 result, closed>>

\* for (auto& cl : clients) cl->close();
NextToClose(c) == c \in Conns \ closed /\ \A d \in Conns \ closed : c <= d

MainCloseBegin(c) ==
  /\ mpc = "close" /\ NextToClose(c) /\ close_mu_[c] = "none"
  /\ close_mu_' = [close_mu_ EXCEPT ![c] = "main"]
  /\ Shut(c)
  /\ mpc' = "drain"
  /\ UNCHANGED <<pc, disc_fired, handler, told, ok_count, kj, result, g_stop,
                 closed>>

\* connect() takes no lock: ConnectionClose ends what it opened since.
MainCloseAbort(c) ==
  /\ mpc = "drain" /\ NextToClose(c) /\ link[c] \in {"dialing", "up"}
  /\ Shut(c)
  /\ UNCHANGED <<pc, disc_fired, handler, told, close_mu_, ok_count, kj,
                 result, g_stop, main>>

MainCloseDrained(c) ==
  /\ mpc = "drain" /\ NextToClose(c)
  /\ Closed(c)
  /\ mpc' = "regclose"
  /\ UNCHANGED <<pc, disc_fired, handler, told, close_mu_, ok_count, kj,
                 result, g_stop, closed>>

\* The last reset, RegistrationClose.  connect() may have opened a connection
\* since the drain: then the call need not return.
MainCloseEnd(c) ==
  /\ mpc = "regclose" /\ NextToClose(c)
  /\ close_mu_' = [close_mu_ EXCEPT ![c] = "none"]
  /\ closed' = closed \cup {c}
  /\ mpc' = IF closed' = Conns THEN "join" ELSE "close"
  /\ UNCHANGED <<pc, disc_fired, handler, link, told, ok_count, kj, result,
                 g_stop>>

Behind(c) == mpc = "regclose" /\ NextToClose(c) /\ link[c] # "closed"

AllJoined_NoWait == TRUE
AllJoined == \A c \in Conns : pc[c] = "done"

MainJoin ==
  /\ mpc = "join" /\ AllJoined /\ mpc' = "kjstop"
  /\ UNCHANGED <<pc, disc_fired, handler, link, told, close_mu_, ok_count,
                 kj, result, g_stop, closed>>

MainKjStop_NoFlag ==
  /\ mpc = "kjstop" /\ mpc' = "kjjoin"
  /\ UNCHANGED <<pc, disc_fired, handler, link, told, close_mu_, ok_count,
                 kj, result, g_stop, closed>>

MainKjStop ==
  /\ mpc = "kjstop" /\ kj_stop' = TRUE /\ mpc' = "kjjoin"
  /\ UNCHANGED <<pc, disc_fired, handler, link, told, close_mu_, ok_count,
                 kj_queue, kpc, work, result, g_stop, closed>>

KjJoined_NoWait == TRUE
KjJoined == kpc = "done"

MainKjJoin ==
  /\ mpc = "kjjoin" /\ KjJoined /\ mpc' = "exit"
  /\ UNCHANGED <<pc, disc_fired, handler, link, told, close_mu_, ok_count,
                 kj, result, g_stop, closed>>

Terminated == mpc = "exit" /\ UNCHANGED vars

Main ==
  \/ MainWaitEnd \/ MainOkQ \/ MainPoll \/ MainShutdown
  \/ (\E c \in Conns : \/ MainCloseBegin(c) \/ MainCloseAbort(c)
                        \/ MainCloseDrained(c) \/ MainCloseEnd(c))
  \/ MainJoin \/ MainKjStop \/ MainKjJoin

Next ==
  \/ \E c \in Conns :
       \/ Thread(c) \/ WaitSpurious(c)
       \/ Established(c) \/ Failed(c) \/ Lost(c) \/ Tell(c)
  \/ Kj \/ Main \/ Signal \/ Terminated

\* Every thread keeps running, register_connection() returns (its watchdog
\* aborts it) and msquic calls the handler it owes.  Nothing is assumed of
\* the edge, of signals, or of spurious wake-ups, and RegistrationClose is
\* promised to return only when no connection is left behind it.
Fairness ==
  /\ \A c \in Conns : WF_vars(Thread(c)) /\ WF_vars(Tell(c))
  /\ WF_vars(Kj)
  /\ WF_vars(Main /\ \A c \in Conns : ~Behind(c))

Spec == Init /\ [][Next]_vars
FairSpec == Spec /\ Fairness

-----------------------------------------------------------------------------
(***************************************************************************)
(* What must hold.                                                         *)
(***************************************************************************)

\* ok_count, changed by four threads without a lock, is at every moment the
\* number of threads between a successful registration and the end of the
\* wait that follows it.
Healthy == {c \in Conns : pc[c] \in Counted}
HealthExact == ok_count = Cardinality(Healthy)

\* The KJ thread never ends while a reconnect thread may still wait for its
\* future: nobody is left in fut.get() and no work item is dropped.
KjNeverStrands ==
  kpc = "done" => kj_queue = <<>> /\ \A c \in Conns : pc[c] = "done"

\* When main returns, every thread has ended, every client is closed and has
\* no handler, and no health is advertised.
ExitClean ==
  mpc = "exit" =>
    /\ kpc = "done" /\ kj_queue = <<>> /\ ok_count = 0
    /\ \A c \in Conns :
         pc[c] = "done" /\ link[c] = "closed" /\ ~handler[c]

\* Main and the reconnect threads together use each client within its
\* contract: a link is dialled only when closed, its handler told once.
Link(c) == INSTANCE LinkContract WITH link <- link[c], told <- told[c]
UsesContract ==
  /\ \A c \in Conns : Link(c)!Init
  /\ [][\A c \in Conns : [Link(c)!Next]_<<link[c], told[c]>>]_<<link, told>>

\* Why the above holds, as an inductive invariant: the order of teardown,
\* the item the KJ thread holds, the state of a client at the points where
\* its thread dials or has ended, and the holder of its mutex.
TeardownInv ==
  /\ mpc \in {"kjstop", "kjjoin", "exit"} => \A c \in Conns : pc[c] = "done"
  /\ kj_stop => mpc \in {"kjjoin", "exit"}
  /\ kpc = "done" => kj_stop /\ kj_queue = <<>>
  /\ mpc = "exit" => kpc = "done"
  /\ kpc = "work" => work \in RegWork
ClientsInv ==
  \A c \in Conns :
    /\ pc[c] \in {"connect", "done"} => link[c] = "closed"
    /\ pc[c] \in {"close3", "done"} => ~handler[c]
MutexInv ==
  \A c \in Conns :
    /\ close_mu_[c] = "conn" => pc[c] \in Closing
    /\ close_mu_[c] = "main" <=>
         mpc \in {"drain", "regclose"} /\ NextToClose(c)
SupervisorInv ==
  TypeOK /\ HealthExact /\ TeardownInv /\ ClientsInv /\ MutexInv

\* A thread whose wake-up was lost: it sleeps although its wait is over.
Missed(c) == pc[c] = "blocked" /\ (disc_fired[c] \/ g_stop)

\* Every registration is answered, however the threads compete for the one
\* KJ thread.
AnswerArrives == \A c \in Conns : pc[c] = "await" ~> pc[c] # "await"

\* A drop told to a healthy thread leads it to dial again, unless the
\* process is stopping or the wake-up was lost.
DropRedialled ==
  \A c \in Conns : (pc[c] \in Counted /\ disc_fired[c])
                     ~> (pc[c] = "connect" \/ g_stop \/ []Missed(c))

\* A stop request ends the process, but for two ways to hang: a thread that
\* missed its wake-up, which main joins in vain, and main in RegistrationClose
\* with close_mu_ held, behind a connection that its thread cannot close.
Stuck == \E c \in Conns : Missed(c) \/ Behind(c)
StopExits == g_stop ~> (mpc = "exit" \/ []Stuck)

-----------------------------------------------------------------------------
(***************************************************************************)
(* What the code's comments say and the code does not do.                  *)
(***************************************************************************)

\* main.cpp: "disc_fired is set from the msquic worker thread via the
\* callback; g_wakeup_cv wakes the wait() below."
DropWakes ==
  \A c \in Conns :
    (pc[c] = "blocked" /\ disc_fired[c]) ~> (pc[c] # "blocked" \/ g_stop)

\* main.cpp: "Each thread owns one conn_index": no two requests waiting for
\* the KJ thread carry the same one.
OwnsConnIndex ==
  \A m, n \in DOMAIN kj_queue :
    m # n => kj_queue[m].conn_index # kj_queue[n].conn_index
=============================================================================
