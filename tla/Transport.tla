----------------------------- MODULE Transport -----------------------------
(***************************************************************************)
(* What the clients hold of msquic (tunnel/quic_client.cpp,                *)
(* msquic_raii.hpp): the API table behind one reference count for all of   *)
(* them, the three handles of each, the contexts of datagrams lent to      *)
(* msquic, and the streams a peer opens; with MultiSink (main.cpp), which  *)
(* hands the packets to the clients in turn.  A client is driven by its    *)
(* connection thread and, at the end of main(), destroyed by the main      *)
(* thread.  The races of close() with its other callers are QuicClient's   *)
(* subject: here a send finds the connection it has checked.               *)
(***************************************************************************)
EXTENDS Integers, FiniteSets

CONSTANTS
  NumClients,
  Ctxs,           \* bound: datagram contexts
  Streams,        \* bound: streams of peers
  NextRange       \* next_ wraps here (size_t in the code)

ASSUME TransportAssumption ==
  NumClients \in Nat \ {0} /\ NextRange \in Nat \ {0}

\* The clients, and their order in MultiSink's sinks_.
Clients == 0..NumClients - 1

VARIABLES
  g_refcount, g_msquic,   \* the count, and whether the table is open
  api_held_, handles,     \* per client
  handshake_ok_,
  stage,                  \* per client, where its thread is
  next_,
  ctx,                    \* per context, its state, its client, times freed
  stream,                 \* per peer stream, its state, its client
  ended                   \* all threads are joined; main() returns

apiVars == <<g_refcount, g_msquic, api_held_>>
transportVars == <<g_refcount, g_msquic, api_held_, handles, handshake_ok_, stage,
                   next_, ctx, stream, ended>>

Handle == {"registration", "configuration", "connection"}

\* QUIC_DATAGRAM_SEND_STATE: a context is lent to msquic, and the states that
\* follow one another are msquic's (external).
After(s) ==
  IF s = "lent" THEN {"SENT", "CANCELED"}
  ELSE IF s = "SENT" THEN {"ACKNOWLEDGED", "LOST_SUSPECT", "LOST_DISCARDED"}
  ELSE IF s = "LOST_SUSPECT" THEN {"ACKNOWLEDGED_SPURIOUS", "LOST_DISCARDED"}
  ELSE {}

CtxStates == {"unused", "lent", "failed", "SENT", "CANCELED", "ACKNOWLEDGED",
              "LOST_SUSPECT", "LOST_DISCARDED", "ACKNOWLEDGED_SPURIOUS"}

Stages == {"idle", "api", "registration", "configuration", "connection", "wait",
           "up", "failed", "shutdown", "close_configuration", "close_registration",
           "destroyed"}

TransportInit ==
  /\ g_refcount = 0 /\ g_msquic = FALSE
  /\ api_held_ = [c \in Clients |-> FALSE]
  /\ handles = [c \in Clients |-> {}]
  /\ handshake_ok_ = [c \in Clients |-> FALSE]
  /\ stage = [c \in Clients |-> "idle"]
  /\ next_ = 0
  /\ ctx \in [Ctxs -> {[state |-> "unused", client |-> c, freed |-> 0] : c \in Clients}]
  /\ stream \in [Streams -> {[state |-> "unused", client |-> c] : c \in Clients}]
  /\ ended = FALSE

Enter(c, label) == stage' = [stage EXCEPT ![c] = label]

-----------------------------------------------------------------------------
(* connect() *)

connect(c) ==
  /\ stage[c] = "idle" /\ ~ended
  /\ handshake_ok_' = [handshake_ok_ EXCEPT ![c] = FALSE]
  /\ Enter(c, IF api_held_[c] THEN "registration" ELSE "api")
  /\ UNCHANGED <<apiVars, handles, next_, ctx, stream, ended>>

\* api_table_init(), under g_init_mu: the first to count opens the table, and
\* takes its count back when that fails.
api_table_init_KeepsCount(ok) ==
  IF g_refcount = 0 /\ ~ok THEN g_refcount' = 1 /\ UNCHANGED g_msquic
                           ELSE g_refcount' = g_refcount + 1 /\ g_msquic' = TRUE
api_table_init(ok) ==
  IF g_refcount = 0 /\ ~ok THEN UNCHANGED <<g_refcount, g_msquic>>
                           ELSE g_refcount' = g_refcount + 1 /\ g_msquic' = TRUE

ApiOpens(c) ==
  /\ stage[c] = "api"
  /\ api_table_init(TRUE)
  /\ api_held_' = [api_held_ EXCEPT ![c] = TRUE]
  /\ Enter(c, "registration")
  /\ UNCHANGED <<handles, handshake_ok_, next_, ctx, stream, ended>>

ApiFails(c) ==
  /\ stage[c] = "api" /\ g_refcount = 0
  /\ api_table_init(FALSE)
  /\ Enter(c, "failed")
  /\ UNCHANGED <<api_held_, handles, handshake_ok_, next_, ctx, stream, ended>>

\* RegistrationOpen, ConfigurationOpen, ConnectionOpen; each may fail and leave
\* the handles before it.
Then(h) == IF h = "registration" THEN "configuration"
           ELSE IF h = "configuration" THEN "connection" ELSE "wait"

OpenHandle(c, h) ==
  /\ stage[c] = h
  /\ \/ handles' = [handles EXCEPT ![c] = @ \cup {h}] /\ Enter(c, Then(h))
     \/ UNCHANGED handles /\ Enter(c, "failed")
  /\ UNCHANGED <<apiVars, handshake_ok_, next_, ctx, stream, ended>>

\* Credentials, address and start behind the handles, or no handshake in time.
HandshakeFails(c) ==
  /\ stage[c] \in {"connection", "wait"}
  /\ Enter(c, "failed")
  /\ UNCHANGED <<apiVars, handles, handshake_ok_, next_, ctx, stream, ended>>

Connected(c) ==
  /\ stage[c] = "wait"
  /\ handshake_ok_' = [handshake_ok_ EXCEPT ![c] = TRUE]
  /\ Enter(c, "up")
  /\ UNCHANGED <<apiVars, handles, next_, ctx, stream, ended>>

\* CONNECTED comes after connect() has given up, until close() is over.
LateConnected(c) ==
  /\ stage[c] \in {"failed", "shutdown"} /\ "connection" \in handles[c]
  /\ ~handshake_ok_[c]
  /\ handshake_ok_' = [handshake_ok_ EXCEPT ![c] = TRUE]
  /\ UNCHANGED <<apiVars, handles, stage, next_, ctx, stream, ended>>

-----------------------------------------------------------------------------
(* Packets *)

\* MultiSink::on_packet() takes the next client whatever its state.  Its
\* send_packet() drops the packet when it cannot send (or is out of memory),
\* and frees the context itself when DatagramSend refuses it.
Lend(c) == \E k \in Ctxs, s \in {"lent", "failed"} :
  /\ "connection" \in handles[c] /\ handshake_ok_[c]
  /\ ctx[k].state = "unused" /\ ctx[k].client = c
  /\ ctx' = [ctx EXCEPT ![k].state = s,
                        ![k].freed = IF s = "failed" THEN 1 ELSE 0]

on_packet ==
  /\ ~ended
  /\ next_' = (next_ + 1) % NextRange
  /\ Lend(next_ % NumClients) \/ UNCHANGED ctx
  /\ UNCHANGED <<apiVars, handles, handshake_ok_, stage, stream, ended>>

\* DATAGRAM_SEND_STATE_CHANGED: the context is freed when it was sent or will
\* never be, and left alone in the states that follow.
Frees_AnyFinal(s) == s \in {"SENT", "CANCELED", "LOST_DISCARDED"}
Frees(s) == s \in {"SENT", "CANCELED"}

SendStateChanged(k) == \E s \in After(ctx[k].state) :
  /\ "connection" \in handles[ctx[k].client]
  /\ ctx' = [ctx EXCEPT ![k].state = s,
                        ![k].freed = IF Frees(s) THEN @ + 1 ELSE @]
  /\ UNCHANGED <<apiVars, handles, handshake_ok_, stage, next_, stream, ended>>

\* PEER_STREAM_STARTED sets the callback and aborts; the stream's own
\* SHUTDOWN_COMPLETE closes it.
PeerStreamStarted(s) ==
  /\ stream[s].state = "unused" /\ handshake_ok_[stream[s].client]
  /\ "connection" \in handles[stream[s].client]
  /\ stream' = [stream EXCEPT ![s].state = "aborted"]
  /\ UNCHANGED <<apiVars, handles, handshake_ok_, stage, next_, ctx, ended>>

StreamShutdownComplete(s) ==
  /\ stream[s].state = "aborted" /\ "connection" \in handles[stream[s].client]
  /\ stream' = [stream EXCEPT ![s].state = "closed"]
  /\ UNCHANGED <<apiVars, handles, handshake_ok_, stage, next_, ctx, ended>>

-----------------------------------------------------------------------------
(* close() and destruction *)

CloseShutdown(c) ==
  /\ stage[c] \in {"up", "failed"}
  /\ Enter(c, "shutdown")
  /\ UNCHANGED <<apiVars, handles, handshake_ok_, next_, ctx, stream, ended>>

\* ConnectionClose returns when the last callback has.
CloseConnection(c) ==
  /\ stage[c] = "shutdown"
  /\ \A k \in Ctxs : ctx[k].client = c => ctx[k].state # "lent"
  /\ \A s \in Streams : stream[s].client = c => stream[s].state # "aborted"
  /\ handles' = [handles EXCEPT ![c] = @ \ {"connection"}]
  /\ Enter(c, "close_configuration")
  /\ UNCHANGED <<apiVars, handshake_ok_, next_, ctx, stream, ended>>

CloseConfiguration(c) ==
  /\ stage[c] = "close_configuration"
  /\ handles' = [handles EXCEPT ![c] = @ \ {"configuration"}]
  /\ Enter(c, "close_registration")
  /\ UNCHANGED <<apiVars, handshake_ok_, next_, ctx, stream, ended>>

CloseRegistration(c) ==
  /\ stage[c] = "close_registration"
  /\ handles' = [handles EXCEPT ![c] = @ \ {"registration"}]
  /\ Enter(c, "idle")
  /\ UNCHANGED <<apiVars, handshake_ok_, next_, ctx, stream, ended>>

\* The threads leave their loops after a close(), and are joined.
End ==
  /\ ~ended /\ \A c \in Clients : stage[c] = "idle"
  /\ ended' = TRUE
  /\ UNCHANGED <<apiVars, handles, handshake_ok_, stage, next_, ctx, stream>>

api_table_release ==
  /\ g_refcount' = g_refcount - 1
  /\ g_msquic' = (g_refcount # 1)

\* ~QuicClientImpl(): close() finds nothing, and the count is given back.
Destroy(c) ==
  /\ ended /\ stage[c] = "idle"
  /\ IF api_held_[c] THEN api_table_release ELSE UNCHANGED <<g_refcount, g_msquic>>
  /\ api_held_' = [api_held_ EXCEPT ![c] = FALSE]
  /\ Enter(c, "destroyed")
  /\ UNCHANGED <<handles, handshake_ok_, next_, ctx, stream, ended>>

TransportNext ==
  \/ \E c \in Clients :
       \/ connect(c) \/ ApiOpens(c) \/ ApiFails(c) \/ HandshakeFails(c)
       \/ Connected(c) \/ LateConnected(c)
       \/ \E h \in Handle : OpenHandle(c, h)
       \/ CloseShutdown(c) \/ CloseConnection(c) \/ CloseConfiguration(c)
       \/ CloseRegistration(c) \/ Destroy(c)
  \/ on_packet
  \/ \E k \in Ctxs : SendStateChanged(k)
  \/ \E s \in Streams : PeerStreamStarted(s) \/ StreamShutdownComplete(s)
  \/ End

TransportSpec == TransportInit /\ [][TransportNext]_transportVars

-----------------------------------------------------------------------------
TransportTypeOK ==
  /\ g_refcount \in Nat /\ g_msquic \in BOOLEAN
  /\ api_held_ \in [Clients -> BOOLEAN]
  /\ handles \in [Clients -> SUBSET Handle]
  /\ handshake_ok_ \in [Clients -> BOOLEAN]
  /\ stage \in [Clients -> Stages]
  /\ next_ \in Nat
  /\ ctx \in [Ctxs -> [state : CtxStates, client : Clients, freed : Nat]]
  /\ stream \in [Streams -> [state : {"unused", "aborted", "closed"}, client : Clients]]
  /\ ended \in BOOLEAN

Holders == {c \in Clients : api_held_[c]}

\* The handles a client may have at each point.
HandlesAt(c) ==
  /\ handles[c] # {} => api_held_[c]
  /\ stage[c] \in {"idle", "api", "registration", "destroyed"} => handles[c] = {}
  /\ stage[c] \in {"registration", "configuration", "connection", "wait", "up"}
       => api_held_[c]
  /\ stage[c] \in {"api", "destroyed"} => ~api_held_[c]
  /\ stage[c] \in {"wait", "up"} => "connection" \in handles[c]
  /\ stage[c] \in {"close_configuration", "close_registration"}
       => "connection" \notin handles[c]
  /\ stage[c] = "close_registration" => "configuration" \notin handles[c]

\* The count is the number of clients that hold the table, the table is open
\* exactly while it is not zero, and so every handle, every datagram lent and
\* every peer stream aborted lives under an open table and an open connection,
\* whatever openings failed on the way.
TransportInv ==
  /\ TransportTypeOK
  /\ g_refcount = Cardinality(Holders)
  /\ g_msquic <=> g_refcount # 0
  /\ \A c \in Clients : HandlesAt(c)
  /\ \A k \in Ctxs : ctx[k].state = "lent" => "connection" \in handles[ctx[k].client]
  /\ \A s \in Streams :
       stream[s].state = "aborted" => "connection" \in handles[stream[s].client]

\* A datagram context is freed exactly once: not while msquic has it, when it
\* was sent, canceled or refused, and not again in the states that follow.
ReclaimedOnce ==
  \A k \in Ctxs : ctx[k].freed = IF ctx[k].state \in {"unused", "lent"} THEN 0 ELSE 1
=============================================================================
