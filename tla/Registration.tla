---------------------------- MODULE Registration ----------------------------
(***************************************************************************)
(* One connection's registrations: the call that register_connection()     *)
(* builds, the answer it decodes (tunnel/quic_client.cpp), and the delay   *)
(* the connection's loop in main() keeps before it dials again.  Texts are *)
(* numbers (0 is the empty text), a Data field is its size and contents.   *)
(***************************************************************************)
EXTENDS TunnelRpc

CONSTANTS
  ConnIndexes,     \* conn_index of the request
  RetryAfters,     \* what a server may ask for, in seconds
  MaxFails         \* bound: failures in a row

ASSUME RetryAssumption ==
  /\ ConnIndexes \subseteq 0..255 /\ RetryAfters \subseteq Int /\ MaxFails \in Nat

VARIABLES
  backoff_ms, wait_ms,   \* as in main(); wait_ms is 0 when it does not sleep
  up,                    \* the loop waits for the connection to drop
  fails,                 \* failures since the last success
  served,                \* the request as the server reads it, and as meant
  answer,                \* what the server meant by its answer
  resp, ec               \* RegisterResponse and the code returned with it

kInitBackoffMs == 1000
kMaxBackoffMs == 32000
Smaller(a, b) == IF a < b THEN a ELSE b

-----------------------------------------------------------------------------
(* The request *)

\* RegisterRequest: main() fills it from the configuration.
RegisterRequest ==
  [account_tag : {1}, tunnel_secret : {[size |-> 3, bytes |-> 2]},
   tunnel_uuid : {[size |-> 16, bytes |-> 3]}, conn_index : ConnIndexes,
   version : {4}, arch : {5}, features : {<<6>>}]

\* A new struct whose pointer fields were set; the order of the calls does
\* not matter (FieldsIndependent).
Filled(l, fields) ==
  [New(l) EXCEPT !.ptr =
     [n \in DOMAIN @ |-> IF \E f \in DOMAIN fields : l.ptr[f] = n
                         THEN <<fields[CHOOSE f \in DOMAIN fields : l.ptr[f] = n]>>
                         ELSE None]]

\* The client info of the options; the other options stay at their defaults.
options_NoFeatures(req) ==
  Filled(ConnectionOptions,
    [client |-> Filled(ClientInfo,
       [clientId |-> req.tunnel_uuid, version |-> req.version,
        arch |-> req.arch])])
options(req) ==
  Filled(ConnectionOptions,
    [client |-> Filled(ClientInfo,
       [clientId |-> req.tunnel_uuid, version |-> req.version,
        arch |-> req.arch, features |-> req.features])])

req_msg(req) ==
  setDataField(
    Filled(RegisterConnectionParams,
      [auth     |-> Filled(TunnelAuth, [accountTag   |-> req.account_tag,
                                        tunnelSecret |-> req.tunnel_secret]),
       tunnelId |-> req.tunnel_uuid,
       options  |-> options(req)]),
    RegisterConnectionParams.data.connIndex, req.conn_index)

\* A get accessor: what the pointer points to, or the default given.
Get(s, l, f, default) ==
  IF getPointer(s, l, f) = None THEN default ELSE getPointer(s, l, f)[1]

NoData == [size |-> 0, bytes |-> 0]

\* What a server (not in this repository) reads with the same accessors.
ServerReads(m) ==
  LET auth == Get(m, RegisterConnectionParams, "auth", New(TunnelAuth))
      opts == Get(m, RegisterConnectionParams, "options", New(ConnectionOptions))
      ci   == Get(opts, ConnectionOptions, "client", New(ClientInfo))
  IN [account_tag   |-> Get(auth, TunnelAuth, "accountTag", 0),
      tunnel_secret |-> Get(auth, TunnelAuth, "tunnelSecret", NoData),
      tunnel_uuid   |-> Get(m, RegisterConnectionParams, "tunnelId", NoData),
      conn_index    |-> getDataField(m, RegisterConnectionParams.data.connIndex),
      version       |-> Get(ci, ClientInfo, "version", 0),
      arch          |-> Get(ci, ClientInfo, "arch", 0),
      features      |-> Get(ci, ClientInfo, "features", <<>>)]

-----------------------------------------------------------------------------
(* The answer *)

\* What a server may mean: the two arms of the schema, an arm of a later
\* schema, or results it left empty.
Answers ==
  [arm : {"connectionDetails"},
   uuid : {[size |-> 16, bytes |-> 7], [size |-> 8, bytes |-> 7], NoData},
   locationName : {0, 8}]
  \cup [arm : {"error"}, cause : {0, 9}, retryAfter : RetryAfters, shouldRetry : {0, 1}]
  \cup [arm : {"later"}, word : RetryAfters]
  \cup {[arm |-> "empty"]}

\* The results a server builds for it.  A later arm is a pointer to a struct
\* this schema does not know, here with one word of data.
ServerBuilds(a) ==
  LET R == ConnectionResponse
      response ==
        IF a.arm = "connectionDetails"
        THEN setPointer(New(R), R, a.arm,
               Filled(ConnectionDetails, [uuid |-> a.uuid, locationName |-> a.locationName]))
        ELSE IF a.arm = "error"
        THEN LET E == ConnectionError.data
                 e == Filled(ConnectionError, [cause |-> a.cause])
             IN setPointer(New(R), R, a.arm,
                  setDataField(setDataField(e, E.retryAfter, a.retryAfter),
                               E.shouldRetry, a.shouldRetry))
        ELSE [setDataField(New(R), which, 2) EXCEPT !.ptr[0] =
                <<[words |-> 1, data |-> {[field |-> Elt(64, 0), val |-> a.word]},
                   ptr |-> <<>>]>>]
  IN IF a.arm = "empty" THEN New(RegisterConnectionResults)
     ELSE Filled(RegisterConnectionResults, [result |-> response])

RegisterResponse ==
  [ok |-> FALSE, assigned_uuid |-> 0, location_name |-> 0, error_cause |-> 0,
   retry_after_seconds |-> 0, should_retry |-> 0]

ReadDetails(d) ==
  LET uid == Get(d, ConnectionDetails, "uuid", NoData)
  IN [RegisterResponse EXCEPT
        !.assigned_uuid = IF uid.size = 16 THEN uid.bytes ELSE @,
        !.location_name = Get(d, ConnectionDetails, "locationName", 0),
        !.ok = TRUE]

\* e is what pointer 0 of the response points to.
ReadError(e) ==
  [RegisterResponse EXCEPT
     !.error_cause = IF 0 \in DOMAIN e.ptr /\ e.ptr[0] # None THEN e.ptr[0][1] ELSE 0,
     !.retry_after_seconds = getDataField(e, ConnectionError.data.retryAfter),
     !.should_retry = getDataField(e, ConnectionError.data.shouldRetry)]

Threw == [ec |-> "protocol_error", resp |-> RegisterResponse]
Returned(r) == [ec |-> IF r.ok THEN "none" ELSE "permission_denied", resp |-> r]

\* The decoding of the response, and what is returned.  getError() requires
\* which() = ERROR only in builds with assertions: there a later arm throws,
\* elsewhere its pointer is read as an error.
Decoded_ErrorFirst(m) ==
  LET R == ConnectionResponse
      result == Get(m, RegisterConnectionResults, "result", New(R))
      to(l) == IF result.ptr[0] = None THEN New(l) ELSE result.ptr[0][1]
  IN IF isArm(result, R, "error")
     THEN {Returned(ReadError(to(ConnectionError)))}
     ELSE {Returned([RegisterResponse EXCEPT !.ok = TRUE])}
Decoded(m) ==
  LET R == ConnectionResponse
      result == Get(m, RegisterConnectionResults, "result", New(R))
      to(l) == IF result.ptr[0] = None THEN New(l) ELSE result.ptr[0][1]
  IN IF isArm(result, R, "connectionDetails")
     THEN {Returned(ReadDetails(to(ConnectionDetails)))}
     ELSE {Returned(ReadError(to(ConnectionError)))}
          \cup IF isArm(result, R, "error") THEN {} ELSE {Threw}

-----------------------------------------------------------------------------
(* The loop of a connection in main(), as far as delays are concerned. *)

Silent == [arm |-> "silent"]

RegInit ==
  /\ backoff_ms = kInitBackoffMs /\ wait_ms = 0 /\ up = FALSE /\ fails = 0
  /\ served = None /\ answer = Silent
  /\ resp = RegisterResponse /\ ec = "none"

\* A failure sleeps for delay and doubles the back-off up to its cap.
Fail_NoCap(delay) ==
  /\ fails < MaxFails
  /\ wait_ms' = delay
  /\ backoff_ms' = backoff_ms * 2
  /\ fails' = fails + 1
  /\ up' = FALSE
Fail(delay) ==
  /\ fails < MaxFails
  /\ wait_ms' = delay
  /\ backoff_ms' = Smaller(backoff_ms * 2, kMaxBackoffMs)
  /\ fails' = fails + 1
  /\ up' = FALSE

ConnectFails ==
  /\ ~up
  /\ Fail(backoff_ms)
  /\ served' = None /\ answer' = Silent /\ resp' = RegisterResponse /\ ec' = "connect"

\* The answer of register_connection() reaches the loop.
Registered ==
  /\ up' = TRUE
  /\ backoff_ms' = kInitBackoffMs
  /\ wait_ms' = 0
  /\ fails' = 0

Rejected ==
  Fail(IF resp'.retry_after_seconds > 0
       THEN Smaller(resp'.retry_after_seconds, kMaxBackoffMs \div 1000) * 1000
       ELSE backoff_ms)

Called(method, impl) == dispatchCall(InterfaceId, Method[method], impl)

\* The server implements registerConnection and answers.
Answered == \E req \in RegisterRequest, a \in Answers :
  /\ ~up
  /\ Called("registerConnection", DOMAIN Method) = "registerConnection"
  /\ served' = <<ServerReads(req_msg(req)), req>>
  /\ answer' = a
  /\ \E d \in Decoded(ServerBuilds(a)) : resp' = d.resp /\ ec' = d.ec
  /\ IF ec' = "none" THEN Registered ELSE Rejected

\* No answer: the method is not implemented or the call fails or is aborted
\* (both throw), the connection is gone before the call, or the registration
\* thread has stopped.
Unanswered ==
  /\ ~up
  /\ ec' \in {"not_connected", "connection_aborted"}
             \cup {e \in {"protocol_error"} :
                     \E impl \in SUBSET DOMAIN Method :
                       Called("registerConnection", impl) = "unimplemented"}
  /\ served' = None /\ answer' = Silent /\ resp' = RegisterResponse
  /\ Rejected

Drops ==
  /\ up
  /\ Fail(backoff_ms)
  /\ served' = None /\ answer' = Silent /\ resp' = RegisterResponse /\ ec' = "none"

regVars == <<backoff_ms, wait_ms, up, fails, served, answer, resp, ec>>
RegNext == ConnectFails \/ Answered \/ Unanswered \/ Drops
RegSpec == RegInit /\ RpcInit /\ [][RegNext /\ UNCHANGED rpcVars]_<<regVars, rpcVars>>

-----------------------------------------------------------------------------
\* The server reads in every request exactly what main() put into it: every
\* set accessor of register_connection() reaches the field the server's get
\* accessor reads, through the structs nested in one another.
RequestArrives == served # None => served[1] = served[2]

\* register_connection() reads an answer as it was meant: success exactly for
\* connection details, an identifier of 16 bytes and no other taken over, the
\* three fields of an error as sent, empty results as a rejection without a
\* delay, and an arm it does not know never as a success.
AnswerReadAsMeant ==
  /\ ec = "none" /\ answer # Silent
       <=> up /\ answer.arm = "connectionDetails" /\ resp.ok
  /\ answer.arm = "connectionDetails" =>
       /\ up /\ resp.location_name = answer.locationName
       /\ resp.assigned_uuid = IF answer.uuid.size = 16 THEN answer.uuid.bytes ELSE 0
  /\ answer.arm = "error" =>
       /\ ec = "permission_denied" /\ ~resp.ok
       /\ resp.error_cause = answer.cause
       /\ resp.retry_after_seconds = answer.retryAfter
       /\ resp.should_retry = answer.shouldRetry
  /\ answer.arm = "empty" => ec = "permission_denied" /\ resp.retry_after_seconds = 0
  /\ answer.arm = "later" => ec \in {"permission_denied", "protocol_error"}

\* The back-off after k failures in a row.
Rung(k) ==
  IF k = 0 THEN 1000 ELSE IF k = 1 THEN 2000 ELSE IF k = 2 THEN 4000
  ELSE IF k = 3 THEN 8000 ELSE IF k = 4 THEN 16000 ELSE 32000

\* A connection that fails never dials again at once, and never sleeps longer
\* than the cap: it waits for what the server asked, up to 32 s, or else twice
\* as long with each failure since the last success, from 1 s to 32 s.
RetryDelay ==
  /\ backoff_ms = Rung(fails)
  /\ ~up /\ fails > 0 =>
       /\ 1000 <= wait_ms /\ wait_ms <= 32000
       /\ wait_ms = IF resp.retry_after_seconds > 0
                    THEN Smaller(resp.retry_after_seconds, 32) * 1000
                    ELSE Rung(fails - 1)
=============================================================================
