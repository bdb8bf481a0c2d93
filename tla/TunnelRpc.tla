----------------------------- MODULE TunnelRpc -----------------------------
(***************************************************************************)
(* The messages of tunnelrpc (tunnelrpc.capnp.h, tunnelrpc.capnp.c++): a   *)
(* struct is a data section of bits and a row of pointers, and every       *)
(* accessor of the generated code is one of the operators below at a fixed *)
(* position.  A layout lists the positions; the sections themselves belong *)
(* to the capnp library.  The bits of a field are not spelled out: a data  *)
(* section is the set of the values written, each with the bits it covers, *)
(* and Mixed is what a field reads whose bits came from other fields.      *)
(***************************************************************************)
EXTENDS Integers, Sequences

CONSTANTS
  FieldValues,     \* what the accessor machine writes, positive integers
  MaxAccesses      \* bound: number of accessor calls explored

ASSUME AccessAssumption ==
  FieldValues \subseteq Nat \ {0} /\ MaxAccesses \in Nat

VARIABLES
  msg,             \* the struct under construction
  last,            \* per field, what its accessor wrote last
  orphan,          \* a disowned pointer, or nothing
  accesses         \* accessor calls so far

Mixed == -1
None  == <<>>                      \* the null pointer; <<v>> points to v

\* getDataField<T>(n): the n-th element of that size.
Elt(size, n) == [at |-> size * n, size |-> size]

\* CAPNP_DECLARE_STRUCT_HEADER(id, words, pointers) of the structs, and of
\* the parameters and results of the interface's methods.
Size(words, ptrs) == [words |-> words, ptrs |-> ptrs]
StructSize ==
  [ClientInfo |-> Size(0, 4), ConnectionOptions |-> Size(1, 2),
   ConnectionDetails |-> Size(1, 2), ConnectionError |-> Size(2, 1),
   ConnectionResponse |-> Size(1, 1), TunnelAuth |-> Size(0, 2)]
MethodSize ==
  [RegisterConnectionParams |-> Size(1, 3), RegisterConnectionResults |-> Size(0, 1),
   UnregisterConnectionParams |-> Size(0, 0), UnregisterConnectionResults |-> Size(0, 0),
   UpdateLocalConfigurationParams |-> Size(0, 1),
   UpdateLocalConfigurationResults |-> Size(0, 0)]

\* A layout: the size, the data fields, the pointer fields, and the
\* discriminants of the pointer fields that are arms of a union.
Plain(size, data, ptr) == [size |-> size, data |-> data, ptr |-> ptr, arm |-> <<>>]

ClientInfo ==
  Plain(StructSize.ClientInfo, <<>>,
        [clientId |-> 0, features |-> 1, version |-> 2, arch |-> 3])

ConnectionOptions ==
  Plain(StructSize.ConnectionOptions,
        [replaceExisting |-> Elt(1, 0), compressionQuality |-> Elt(8, 1),
         numPreviousAttempts |-> Elt(8, 2)],
        [client |-> 0, originLocalIp |-> 1])

ConnectionDetails ==
  Plain(StructSize.ConnectionDetails, [tunnelIsRemotelyManaged |-> Elt(1, 0)],
        [uuid |-> 0, locationName |-> 1])

ConnectionError ==
  Plain(StructSize.ConnectionError,
        [retryAfter |-> Elt(64, 0), shouldRetry |-> Elt(1, 64)],
        [cause |-> 0])

\* Both arms of the union use pointer 0; which() is the first 16 bits.
which == Elt(16, 0)
ConnectionResponse ==
  [size |-> StructSize.ConnectionResponse, data |-> <<>>,
   ptr |-> [error |-> 0, connectionDetails |-> 0],
   arm |-> [error |-> 0, connectionDetails |-> 1]]

TunnelAuth == Plain(StructSize.TunnelAuth, <<>>, [accountTag |-> 0, tunnelSecret |-> 1])

RegisterConnectionParams ==
  Plain(MethodSize.RegisterConnectionParams, [connIndex |-> Elt(8, 0)],
        [auth |-> 0, tunnelId |-> 1, options |-> 2])

RegisterConnectionResults ==
  Plain(MethodSize.RegisterConnectionResults, <<>>, [result |-> 0])

UpdateLocalConfigurationParams ==
  Plain(MethodSize.UpdateLocalConfigurationParams, <<>>, [config |-> 0])

Layouts == {ClientInfo, ConnectionOptions, ConnectionDetails, ConnectionError,
            ConnectionResponse, TunnelAuth, RegisterConnectionParams,
            RegisterConnectionResults, UpdateLocalConfigurationParams}

-----------------------------------------------------------------------------
(* Sections, as the accessors use them. *)

Overlap(d, e) == d.at < e.at + e.size /\ e.at < d.at + d.size

\* A new struct has the size of its header and is all zero.
New(l) ==
  [words |-> l.size.words, data |-> {},
   ptr |-> [n \in 0..l.size.ptrs - 1 |-> None]]

setDataField(s, d, v) ==
  [s EXCEPT !.data =
     {IF Overlap(w.field, d) THEN [w EXCEPT !.val = Mixed] ELSE w :
        w \in {u \in s.data : u.field # d}} \cup {[field |-> d, val |-> v]}]

\* A field behind the end of a shorter, older struct reads its default.
getDataField(s, d) ==
  LET same    == {w \in s.data : w.field = d}
      touched == {w \in s.data : Overlap(w.field, d)}
  IN IF d.at + d.size > 64 * s.words THEN 0
     ELSE IF same # {} THEN (CHOOSE w \in same : TRUE).val
     ELSE IF touched # {} THEN Mixed ELSE 0

\* set, init and adopt of a pointer field; on an arm they set which() first.
setPointer_NoWhich(s, l, f, v) == [s EXCEPT !.ptr[l.ptr[f]] = <<v>>]
setPointer(s, l, f, v) ==
  LET t == IF f \in DOMAIN l.arm THEN setDataField(s, which, l.arm[f]) ELSE s
  IN [t EXCEPT !.ptr[l.ptr[f]] = <<v>>]

\* disown leaves the pointer null and which() alone.
disown(s, l, f) == [s EXCEPT !.ptr[l.ptr[f]] = None]

isArm(s, l, f) == f \in DOMAIN l.arm => getDataField(s, which) = l.arm[f]

\* get of a pointer field, None where the field has (has...() false): the
\* caller of get sees the default there.
getPointer(s, l, f) ==
  IF isArm(s, l, f) /\ l.ptr[f] \in DOMAIN s.ptr THEN s.ptr[l.ptr[f]] ELSE None

\* ConnectionResponse::Builder::initResult(): which() 0 and no pointer.
initResult(s) == [setDataField(s, which, 0) EXCEPT !.ptr[0] = None]

-----------------------------------------------------------------------------
(* RegistrationServer: the methods and what a server that implements the   *)
(* set impl of them does with a call.                                      *)

InterfaceId == "f71695ec7fe85497"
Method == [registerConnection |-> 0, unregisterConnection |-> 1,
           updateLocalConfiguration |-> 2]

dispatchCall(interface, method, impl) ==
  IF interface = InterfaceId /\ \E m \in impl : Method[m] = method
  THEN CHOOSE m \in impl : Method[m] = method
  ELSE "unimplemented"

-----------------------------------------------------------------------------
(* Any sequence of accessor calls on one struct. *)

RpcInit ==
  /\ msg \in {[layout |-> l, body |-> New(l)] : l \in Layouts}
  /\ last = [data |-> [f \in DOMAIN msg.layout.data |-> 0],
             ptr  |-> [f \in DOMAIN msg.layout.ptr |-> None]]
  /\ orphan = None
  /\ accesses = 0

Access == accesses < MaxAccesses /\ accesses' = accesses + 1

\* A pointer field is given c; the other arms of its union lose theirs.
Given(ptrs, f, c) ==
  LET arms == DOMAIN msg.layout.arm
  IN [g \in DOMAIN ptrs |->
        IF g = f THEN c ELSE IF f \in arms /\ g \in arms THEN None ELSE ptrs[g]]

SetData == \E f \in DOMAIN msg.layout.data, v \in FieldValues :
  /\ Access
  /\ msg' = [msg EXCEPT !.body = setDataField(@, msg.layout.data[f], v)]
  /\ last' = [last EXCEPT !.data[f] = v]
  /\ UNCHANGED orphan

SetPointer == \E f \in DOMAIN msg.layout.ptr, v \in FieldValues :
  /\ Access
  /\ msg' = [msg EXCEPT !.body = setPointer(@, msg.layout, f, v)]
  /\ last' = [last EXCEPT !.ptr = Given(@, f, <<v>>)]
  /\ UNCHANGED orphan

Disown == \E f \in DOMAIN msg.layout.ptr :
  /\ Access
  /\ isArm(msg.body, msg.layout, f)
  /\ orphan' = getPointer(msg.body, msg.layout, f)
  /\ msg' = [msg EXCEPT !.body = disown(@, msg.layout, f)]
  /\ last' = [last EXCEPT !.ptr[f] = None]

Adopt == \E f \in DOMAIN msg.layout.ptr :
  /\ Access
  /\ orphan # None
  /\ msg' = [msg EXCEPT !.body = setPointer(@, msg.layout, f, orphan[1])]
  /\ last' = [last EXCEPT !.ptr = Given(@, f, orphan)]
  /\ orphan' = None

InitResult ==
  /\ Access
  /\ msg.layout = ConnectionResponse
  /\ msg' = [msg EXCEPT !.body = initResult(@)]
  /\ last' = [last EXCEPT !.ptr = [g \in DOMAIN @ |-> None]]
  /\ UNCHANGED orphan

rpcVars == <<msg, last, orphan, accesses>>
RpcNext == SetData \/ SetPointer \/ Disown \/ Adopt \/ InitResult
RpcSpec == RpcInit /\ [][RpcNext]_rpcVars

\* Whatever accessors were called and in whatever order, every field of the
\* struct reads what its own accessor wrote last (or its default): no two
\* fields of a struct share a bit or a pointer, no field lies outside the
\* sections its header declares, and of the arms of a union only the one
\* written last is there.
FieldsIndependent ==
  /\ \A f \in DOMAIN msg.layout.data :
       getDataField(msg.body, msg.layout.data[f]) = last.data[f]
  /\ \A f \in DOMAIN msg.layout.ptr :
       getPointer(msg.body, msg.layout, f) = last.ptr[f]
=============================================================================
