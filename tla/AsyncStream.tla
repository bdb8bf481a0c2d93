---------------------------- MODULE AsyncStream ----------------------------
(***************************************************************************)
(* The registration RPC (QuicClientImpl::register_connection) over a       *)
(* MsquicAsyncStream (src/tunnel/quic_client.cpp):                         *)
(*   - the KJ thread opens the stream, writes the request, reads the       *)
(*     answer with tryRead() and tears everything down;                    *)
(*   - msquic's worker calls onEvent(), one event at a time;               *)
(*   - the watchdog sleeps and, unless done, aborts the stream.            *)
(* Bytes of the answer are numbered 1, 2, ... in the order the peer sends. *)
(***************************************************************************)
EXTENDS Naturals, Sequences, SequencesExt

CONSTANT AnswerLen   \* bytes in the peer's answer

ASSUME AnswerLenAssumption == AnswerLen \in Nat \ {0}

VARIABLES
  kpc,            \* the KJ thread in register_connection()
  rd,             \* its read: where tryRead() is
  want,           \* minBytes and maxBytes of that read
  got,            \* the bytes read so far
  ctx,            \* the write: its RpcSendCtx
  members,        \* mu_, recv_queue_, eof_ and read_wakeup_ exist
  recv_queue_, eof_, read_wakeup_,
  stream,         \* the msquic stream
  delivered,      \* bytes handed to onEvent()
  sending,        \* the peer has neither finished nor aborted its answer
  taking,         \* the peer has not refused the request
  cb,             \* the worker inside onEvent()
  watchdog, done

shared == <<recv_queue_, eof_, read_wakeup_>>
reads  == <<rd, want, got>>
peer   == <<stream, delivered, sending, taking>>
timer  == <<watchdog, done>>
vars == <<kpc, rd, want, got, ctx, members, recv_queue_, eof_,
          read_wakeup_, stream, delivered, sending, taking, cb, watchdog, done>>

Bytes(a, b) == [i \in 1..(b - a) |-> a + i]     \* the bytes a+1, ..., b

TypeOK ==
  /\ kpc \in {"open", "rpc", "answered", "failed", "join", "members", "close",
              "returned"}
  /\ rd \in {"idle", "check", "recheck", "parked", "woken"}
  /\ want \in [min : 0..AnswerLen, max : 0..AnswerLen]
  /\ got \in Seq(1..AnswerLen)
  /\ ctx \in {"none", "msquic", "freed"}
  /\ members \in BOOLEAN /\ eof_ \in BOOLEAN /\ read_wakeup_ \in BOOLEAN
  /\ recv_queue_ \in Seq(Seq(1..AnswerLen))
  /\ stream \in {"none", "open", "aborted", "complete", "closed"}
  /\ delivered \in 0..AnswerLen /\ sending \in BOOLEAN /\ taking \in BOOLEAN
  /\ cb \in {"idle", "receive", "fin", "end", "fulfill"}
  /\ watchdog \in {"none", "sleep", "check", "abort", "ended"}
  /\ done \in BOOLEAN

Init ==
  /\ kpc = "open" /\ rd = "idle" /\ want = [min |-> 0, max |-> 0]
  /\ got = <<>> /\ ctx = "none"
  /\ members = TRUE /\ recv_queue_ = <<>> /\ eof_ = FALSE
  /\ read_wakeup_ = FALSE /\ stream = "none" /\ delivered = 0
  /\ sending = TRUE /\ taking = TRUE
  /\ cb = "idle" /\ watchdog = "none" /\ done = FALSE

-----------------------------------------------------------------------------
(***************************************************************************)
(* The KJ thread.  StreamOpen or StreamStart may fail: nothing is left.    *)
(***************************************************************************)

Open ==
  /\ kpc = "open"
  /\ \/ kpc' = "rpc" /\ stream' = "open" /\ watchdog' = "sleep"
     \/ kpc' = "returned" /\ UNCHANGED <<stream, watchdog>>
  /\ UNCHANGED <<reads, ctx, members, shared, delivered, sending, taking, cb,
                 done>>

\* tryRead() runs to its end or to its promise before the loop does anything
\* else.
Looping == kpc = "rpc" /\ rd \notin {"check", "recheck"}

\* The context goes to msquic with the send; a failed send takes it back and
\* throws.
Reclaimed_Leak == "leaked"
Reclaimed == "freed"

write ==
  /\ Looping /\ ctx = "none"
  /\ \/ ctx' = "msquic" /\ UNCHANGED kpc
     \/ ctx' = Reclaimed /\ kpc' = "failed"
  /\ UNCHANGED <<reads, members, shared, peer, cb, timer>>

\* The RPC layer asks for the bytes it still needs, at least minBytes.
ReadBegin ==
  /\ Looping /\ rd = "idle"
  /\ \E max \in 1..(AnswerLen - Len(got)) : \E min \in 1..max :
       want' = [min |-> min, max |-> max]
  /\ rd' = "check"
  /\ UNCHANGED <<kpc, got, ctx, members, shared, peer, cb, timer>>

\* drainLocked(): whole chunks from the front, and a part of the next one
\* when the destination is full.
Drained_DropsRest(q, max) ==
  LET flat  == FlattenSeq(q)
      n     == IF Len(flat) < max THEN Len(flat) ELSE max
      ends  == [i \in 0..Len(q) |-> Len(FlattenSeq(SubSeq(q, 1, i)))]
      whole == CHOOSE i \in 0..Len(q) :
                 ends[i] >= n /\ \A j \in 0..Len(q) : ends[j] >= n => i <= j
  IN [out |-> SubSeq(flat, 1, n), left |-> SubSeq(q, whole + 1, Len(q))]
Drained(q, max) ==
  LET flat  == FlattenSeq(q)
      n     == IF Len(flat) < max THEN Len(flat) ELSE max
      ends  == [i \in 0..Len(q) |-> Len(FlattenSeq(SubSeq(q, 1, i)))]
      whole == CHOOSE i \in 0..Len(q) :
                 ends[i] <= n /\ \A j \in 0..Len(q) : ends[j] <= n => j <= i
      next  == q[whole + 1]
      taken == n - ends[whole]
  IN [out  |-> SubSeq(flat, 1, n),
      left |-> IF whole = Len(q) THEN <<>>
               ELSE <<SubSeq(next, taken + 1, Len(next))>>
                      \o SubSeq(q, whole + 2, Len(q))]

\* What the RPC layer makes of a result: fewer bytes than it asked for are a
\* broken stream, the whole answer completes the call.
Verdict(bytes) ==
  IF Len(bytes) < want.min THEN "failed"
  ELSE IF Len(got) + Len(bytes) = AnswerLen THEN "answered" ELSE "rpc"

Return ==
  LET d == Drained(recv_queue_, want.max)
  IN /\ recv_queue_' = d.left
     /\ got' = got \o d.out
     /\ kpc' = Verdict(d.out)
     /\ rd' = "idle"

ReadCheck ==
  /\ kpc = "rpc" /\ rd = "check"
  /\ IF recv_queue_ # <<>> \/ eof_
       THEN Return
       ELSE rd' = "recheck" /\ UNCHANGED <<kpc, got, recv_queue_>>
  /\ UNCHANGED <<want, ctx, members, eof_, read_wakeup_, peer, cb, timer>>

\* The second look, in the critical section that parks the fulfiller.
DataThere_NoRecheck == FALSE
DataThere == recv_queue_ # <<>> \/ eof_

ReadPark ==
  /\ kpc = "rpc" /\ rd = "recheck"
  /\ IF DataThere
       THEN Return /\ UNCHANGED read_wakeup_
       ELSE /\ read_wakeup_' = TRUE /\ rd' = "parked"
            /\ UNCHANGED <<kpc, got, recv_queue_>>
  /\ UNCHANGED <<want, ctx, members, eof_, peer, cb, timer>>

ReadResume ==
  /\ kpc = "rpc" /\ rd = "woken"
  /\ rd' = "check"
  /\ UNCHANGED <<kpc, want, got, ctx, members, shared, peer, cb, timer>>

\* The call returned, which sets done, or threw; then KJ_DEFER.
Unwind ==
  /\ kpc \in {"answered", "failed"}
  /\ done' = TRUE /\ kpc' = "join"
  /\ UNCHANGED <<reads, ctx, members, shared, peer, cb, watchdog>>

WatchdogJoined_Detached == TRUE
WatchdogJoined == watchdog = "ended"

\* join(), then rpc is destroyed and drops its promises.
Join ==
  /\ kpc = "join" /\ WatchdogJoined
  /\ kpc' = "members" /\ rd' = "idle"
  /\ UNCHANGED <<want, got, ctx, members, shared, peer, cb, timer>>

\* ~MsquicAsyncStream: the members go in reverse order of declaration, the
\* stream handle last.
DestroyMembers ==
  /\ kpc = "members"
  /\ members' = FALSE /\ recv_queue_' = <<>> /\ read_wakeup_' = FALSE
  /\ kpc' = "close"
  /\ UNCHANGED <<reads, ctx, eof_, peer, cb, timer>>

\* StreamClose waits for the event in progress; pending sends are completed.
StreamClose ==
  /\ kpc = "close" /\ cb = "idle"
  /\ stream' = "closed" /\ kpc' = "returned"
  /\ ctx' = IF ctx = "msquic" THEN "freed" ELSE ctx
  /\ UNCHANGED <<reads, members, shared, delivered, sending, taking, cb, timer>>

Kj == \/ Open \/ write \/ ReadBegin \/ ReadCheck \/ ReadPark \/ ReadResume
      \/ Unwind \/ Join \/ DestroyMembers \/ StreamClose

-----------------------------------------------------------------------------
(***************************************************************************)
(* msquic's worker.  An event begins (Ev...), and onEvent() then takes the *)
(* lock.  Once the members are gone the lock and what it guards are not    *)
(* there; such a step is undefined, and the model lets it drop the bytes   *)
(* and takes no more from the peer.                                        *)
(***************************************************************************)

WorkerOnly == UNCHANGED <<kpc, reads, ctx, members, timer>>

\* RECEIVE, with or without the FIN flag.
EvReceive ==
  /\ stream = "open" /\ cb = "idle" /\ sending
  /\ \/ cb' = "receive" /\ delivered < AnswerLen
     \/ cb' = "fin"
  /\ WorkerOnly /\ UNCHANGED <<shared, peer>>

\* PEER_SEND_ABORTED or PEER_RECEIVE_ABORTED.
EvPeerAborted ==
  /\ stream = "open" /\ cb = "idle"
  /\ \/ sending /\ sending' = FALSE /\ UNCHANGED taking
     \/ taking /\ taking' = FALSE /\ UNCHANGED sending
  /\ cb' = "end"
  /\ WorkerOnly /\ UNCHANGED <<shared, stream, delivered>>

\* The connection is lost, or an abort() takes effect.  Sends come first.
EvShutdownComplete ==
  /\ stream \in {"open", "aborted"} /\ cb = "idle" /\ ctx # "msquic"
  /\ cb' = "end" /\ stream' = "complete"
  /\ WorkerOnly /\ UNCHANGED <<shared, delivered, sending, taking>>

EvSendComplete ==
  /\ stream \in {"open", "aborted"} /\ cb = "idle" /\ ctx = "msquic"
  /\ ctx' = "freed"
  /\ UNCHANGED <<kpc, reads, members, shared, peer, cb, timer>>

TakeWakeup_Leaves == UNCHANGED read_wakeup_ /\ cb' = "idle"
TakeWakeup ==
  /\ read_wakeup_' = FALSE
  /\ cb' = IF read_wakeup_ THEN "fulfill" ELSE "idle"

\* A buffer becomes a chunk of the queue; empty ones are skipped.
Chunk(buf) == IF buf = <<>> THEN <<>> ELSE <<buf>>

\* One or two buffers; FIN ends the stream.
OnReceive ==
  /\ cb \in {"receive", "fin"} /\ members
  /\ \E to \in delivered..AnswerLen : \E mid \in delivered..to :
       /\ cb = "receive" => to > delivered
       /\ delivered' = to
       /\ recv_queue_' = recv_queue_ \o (Chunk(Bytes(delivered, mid))
                                            \o Chunk(Bytes(mid, to)))
  /\ eof_' = (eof_ \/ cb = "fin")
  /\ sending' = (cb # "fin")
  /\ TakeWakeup
  /\ WorkerOnly /\ UNCHANGED <<stream, taking>>

OnEnd ==
  /\ cb = "end" /\ members
  /\ eof_' = TRUE
  /\ TakeWakeup
  /\ WorkerOnly /\ UNCHANGED <<recv_queue_, peer>>

\* The fulfiller is called outside the lock.
Fulfill ==
  /\ cb = "fulfill" /\ cb' = "idle"
  /\ rd' = IF rd = "parked" THEN "woken" ELSE rd
  /\ UNCHANGED <<kpc, want, got, ctx, members, shared, peer, timer>>

OnDeadMembers ==
  /\ cb \in {"receive", "fin", "end"} /\ ~members
  /\ cb' = "idle" /\ sending' = FALSE
  /\ WorkerOnly /\ UNCHANGED <<shared, stream, delivered, taking>>

OnEvent == OnReceive \/ OnEnd \/ Fulfill \/ OnDeadMembers

-----------------------------------------------------------------------------
(***************************************************************************)
(* The watchdog: sleep_for(timeout_ms), look at done, abort().             *)
(***************************************************************************)

TimerExpires ==
  /\ watchdog = "sleep" /\ watchdog' = "check"
  /\ UNCHANGED <<kpc, reads, ctx, members, shared, peer, cb, done>>

WatchdogCheck ==
  /\ watchdog = "check"
  /\ watchdog' = IF done THEN "ended" ELSE "abort"
  /\ UNCHANGED <<kpc, reads, ctx, members, shared, peer, cb, done>>

Aborted_Ignored == stream
Aborted == IF stream = "open" THEN "aborted" ELSE stream

WatchdogAbort ==
  /\ watchdog = "abort" /\ watchdog' = "ended"
  /\ stream' = Aborted
  /\ UNCHANGED <<kpc, reads, ctx, members, shared, delivered, sending, taking,
                 cb, done>>

Watchdog == TimerExpires \/ WatchdogCheck \/ WatchdogAbort

Terminated == kpc = "returned" /\ UNCHANGED vars

Next == \/ Kj \/ Watchdog \/ OnEvent
        \/ EvReceive \/ EvPeerAborted \/ EvShutdownComplete \/ EvSendComplete
        \/ Terminated

Spec == Init /\ [][Next]_vars

\* Threads run, the sleep ends, and msquic completes what an abort() began.
\* Nothing is assumed of the peer.
Fairness ==
  /\ WF_vars(Kj) /\ WF_vars(OnEvent) /\ WF_vars(Watchdog)
  /\ WF_vars(stream = "aborted" /\ (EvSendComplete \/ EvShutdownComplete))
LiveSpec == Spec /\ Fairness

-----------------------------------------------------------------------------
\* What the RPC layer has read, followed by what is queued, is what the peer
\* sent, in order: no byte is lost, repeated or moved by a read that ends
\* inside a chunk or by an event that comes in the middle of a read.
BytesInOrder == members => got \o FlattenSeq(recv_queue_) = Bytes(0, delivered)

\* No lost wake-up: a fulfiller is parked only while there is nothing to read,
\* and a reader without one that is not awake is being woken by the worker.
NoSleepOnData ==
  /\ read_wakeup_ => recv_queue_ = <<>> /\ ~eof_ /\ rd \in {"parked", "idle"}
  /\ kpc = "rpc" /\ rd = "parked" => read_wakeup_ \/ cb = "fulfill"

\* The watchdog's abort() finds the stream: KJ_DEFER joins it before stream
\* and rpc are destroyed.
AbortOnLiveStream ==
  watchdog = "abort" => members /\ stream \in {"open", "aborted", "complete"}

\* Why: until the join the stream and its members exist, the watchdog ends
\* before it, and a worker that holds the fulfiller has a sleeping reader.
StreamInv ==
  /\ kpc = "open" => stream = "none" /\ watchdog = "none" /\ rd = "idle"
                      /\ ~read_wakeup_ /\ cb = "idle" /\ members
  /\ kpc \in {"rpc", "answered", "failed", "join"} =>
       members /\ stream \in {"open", "aborted", "complete"}
  /\ watchdog \in {"sleep", "check", "abort"} =>
       kpc \in {"rpc", "answered", "failed", "join"}
  /\ kpc = "rpc" /\ read_wakeup_ => rd = "parked"
  /\ cb = "fulfill" => ~read_wakeup_ /\ (kpc = "rpc" => rd = "parked")
  /\ NoSleepOnData

\* register_connection() returns whatever the peer does, an answer that never
\* comes included.
RegisterReturns == (kpc = "rpc") ~> (kpc = "returned")

\* Callbacks are drained before the members they use are destroyed.
CallbackOnLiveMembers == cb \in {"receive", "fin", "end"} => members
=============================================================================
