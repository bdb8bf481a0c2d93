------------------------ MODULE RegistrationProofs ------------------------
(***************************************************************************)
(* Proofs about Registration, TunnelRpc and Codec: the delays of a         *)
(* connection, what a server reads in a request and a client in an answer, *)
(* that the fields of a struct are independent of one another, and that    *)
(* every decoder computes its reference.                                   *)
(***************************************************************************)
EXTENDS Registration, Codec, WellFoundedInduction, FiniteSetTheorems, SequenceTheorems, TLAPS

\* A data section whose fields hold integers is read as integers.
IntData(s) == \A w \in s.data : w = [field |-> w.field, val |-> w.val] /\ w.val \in Int

\* A get accessor of such a section gives an integer.
LEMMA FieldInt ==
  ASSUME NEW s, NEW d, IntData(s)
  PROVE  getDataField(s, d) \in Int
<1> DEFINE same == {w \in s.data : w.field = d}
<1>1. CASE same # {}
  <2>1. (CHOOSE w \in same : TRUE) \in same
    BY <1>1
  <2>2. (CHOOSE w \in same : TRUE).val \in Int
    BY <2>1 DEF IntData
  <2> QED
    BY <1>1, <2>2 DEF getDataField, Mixed
<1>2. CASE same = {}
  BY <1>2 DEF getDataField, Mixed
<1> QED
  BY <1>1, <1>2

\* A set accessor with an integer keeps the section so.
LEMMA SetInt ==
  ASSUME NEW W, NEW D, NEW P, NEW d, NEW v \in Int,
         IntData([words |-> W, data |-> D, ptr |-> P])
  PROVE  LET r == setDataField([words |-> W, data |-> D, ptr |-> P], d, v)
         IN IntData(r) /\ r = [words |-> W, data |-> r.data, ptr |-> P]
<1> DEFINE s == [words |-> W, data |-> D, ptr |-> P]
           kept == {u \in s.data : u.field # d}
           x(w) == IF Overlap(w.field, d) THEN [w EXCEPT !.val = Mixed] ELSE w
           Fine(w) == w = [field |-> w.field, val |-> w.val] /\ w.val \in Int
           E == {x(w) : w \in kept} \cup {[field |-> d, val |-> v]}
<1>1. setDataField(s, d, v) = [words |-> W, data |-> E, ptr |-> P]
  BY DEF setDataField
<1>2. ASSUME NEW w \in kept PROVE Fine(x(w))
  <2>1. Fine(w)
    BY DEF IntData
  <2>2. [w EXCEPT !.val = Mixed] = [field |-> w.field, val |-> Mixed]
    BY <2>1
  <2> QED
    BY <2>1, <2>2 DEF Mixed
<1>3. \A w \in E : Fine(w)
  <2>1. Fine([field |-> d, val |-> v])
    OBVIOUS
  <2> HIDE DEF x, kept, Fine
  <2> QED
    BY <1>2, <2>1
<1> QED
  BY <1>1, <1>3 DEF IntData

\* The delay read from an error is an integer.
LEMMA ReadErrorInt ==
  ASSUME NEW e, IntData(e)
  PROVE  ReadError(e).retry_after_seconds \in Int
<1>1. ReadError(e).retry_after_seconds = getDataField(e, ConnectionError.data.retryAfter)
  BY DEF ReadError, RegisterResponse
<1> QED
  BY <1>1, FieldInt

\* A new struct holds no other values.
LEMMA NewInt == ASSUME NEW l PROVE IntData(New(l))
  BY DEF IntData, New

\* A pointer of the response leads to what was put there.
LEMMA ResponsePointer ==
  ASSUME NEW f \in {"error", "connectionDetails"}, NEW v
  PROVE  setPointer(New(ConnectionResponse), ConnectionResponse, f, v).ptr[0] = <<v>>
<1> DEFINE s == New(ConnectionResponse)
           t == IF f \in DOMAIN ConnectionResponse.arm
                THEN setDataField(s, which, ConnectionResponse.arm[f]) ELSE s
<1>1. s = [words |-> s.words, data |-> {}, ptr |-> [n \in {0} |-> None]]
  <2>1. ConnectionResponse.size = [words |-> 1, ptrs |-> 1]
    BY DEF ConnectionResponse, StructSize, Size
  <2>2. 0..1 - 1 = {0}
    OBVIOUS
  <2> QED
    BY <2>1, <2>2 DEF New
<1>2. t.ptr = [k \in {0} |-> None] /\ t = [words |-> t.words, data |-> t.data, ptr |-> t.ptr]
  BY <1>1 DEF setDataField
<1>3. ConnectionResponse.ptr[f] = 0
  BY DEF ConnectionResponse
<1>4. setPointer(s, ConnectionResponse, f, v) = [t EXCEPT !.ptr[0] = <<v>>]
  BY <1>3 DEF setPointer
<1> HIDE DEF t
<1> QED
  BY <1>2, <1>4

\* The results lead to the response that was put there.
LEMMA ResultPointer ==
  ASSUME NEW r
  PROVE  Get(Filled(RegisterConnectionResults, [result |-> r]),
             RegisterConnectionResults, "result", New(ConnectionResponse)) = r
<1> DEFINE L == RegisterConnectionResults
           m == Filled(L, [result |-> r])
<1>1. New(L).ptr = [n \in {0} |-> None]
  BY DEF New, RegisterConnectionResults, MethodSize, Size, Plain
<1>2. L.ptr = [result |-> 0] /\ L.arm = <<>>
  BY DEF RegisterConnectionResults, Plain
<1>3. m.ptr = [n \in {0} |-> <<r>>]
  BY <1>1, <1>2 DEF Filled
<1>4. getPointer(m, L, "result") = <<r>>
  BY <1>2, <1>3 DEF getPointer, isArm
<1> QED
  BY <1>4 DEF Get, None

\* What a filled struct has in its data section: nothing yet.
LEMMA FilledInt ==
  ASSUME NEW l, NEW fields
  PROVE  /\ IntData(Filled(l, fields))
         /\ Filled(l, fields) = [words |-> Filled(l, fields).words, data |-> {},
                                 ptr |-> Filled(l, fields).ptr]
<1>1. New(l) = [words |-> New(l).words, data |-> {}, ptr |-> New(l).ptr]
  BY DEF New
<1> DEFINE p == [n \in DOMAIN New(l).ptr |->
                   IF \E f \in DOMAIN fields : l.ptr[f] = n
                   THEN <<fields[CHOOSE f \in DOMAIN fields : l.ptr[f] = n]>>
                   ELSE None]
<1>2. Filled(l, fields) = [New(l) EXCEPT !.ptr = p]
  BY DEF Filled
<1> HIDE DEF p
<1>3. Filled(l, fields) = [words |-> New(l).words, data |-> {}, ptr |-> p]
  BY <1>1, <1>2
<1> QED
  BY <1>3 DEF IntData

\* The numbers of an answer are integers.
LEMMA AnswerInt ==
  ASSUME NEW a \in Answers
  PROVE  /\ a.arm \in {"empty", "connectionDetails", "error", "later"}
         /\ a.arm = "error" => a.retryAfter \in Int /\ a.shouldRetry \in Int
         /\ a.arm = "later" => a.word \in Int
<1> DEFINE U == {[size |-> 16, bytes |-> 7], [size |-> 8, bytes |-> 7], NoData}
           N == {0, 8}
           C == {0, 9}
           Y == {0, 1}
<1>1. \/ a \in [arm : {"connectionDetails"}, uuid : U, locationName : N]
      \/ a \in [arm : {"error"}, cause : C, retryAfter : RetryAfters, shouldRetry : Y]
      \/ a \in [arm : {"later"}, word : RetryAfters]
      \/ a \in {[arm |-> "empty"]}
  BY DEF Answers
<1>2. Y \subseteq Int /\ RetryAfters \subseteq Int
  BY RetryAssumption
<1> HIDE DEF U, N, C, Y
<1>3. CASE a \in [arm : {"connectionDetails"}, uuid : U, locationName : N]
  <2>1. a.arm = "connectionDetails"
    BY <1>3
  <2> QED
    BY <2>1
<1>4. CASE a \in [arm : {"error"}, cause : C, retryAfter : RetryAfters, shouldRetry : Y]
  <2>1. a.arm = "error" /\ a.retryAfter \in RetryAfters /\ a.shouldRetry \in Y
    BY <1>4
  <2> QED
    BY <1>2, <2>1
<1>5. CASE a \in [arm : {"later"}, word : RetryAfters]
  <2>1. a.arm = "later" /\ a.word \in RetryAfters
    BY <1>5
  <2> QED
    BY <1>2, <2>1
<1>6. CASE a \in {[arm |-> "empty"]}
  <2>1. a.arm = "empty"
    BY <1>6
  <2> QED
    BY <2>1
<1> QED
  BY <1>1, <1>3, <1>4, <1>5, <1>6, Zenon

\* The struct behind the response's pointer, whatever its arm, holds integers.
LEMMA BuiltInt ==
  ASSUME NEW a \in Answers
  PROVE  LET result == Get(ServerBuilds(a), RegisterConnectionResults, "result",
                           New(ConnectionResponse))
         IN result.ptr[0] = None \/ IntData(result.ptr[0][1])
<1> DEFINE R == ConnectionResponse
           L == RegisterConnectionResults
           result == Get(ServerBuilds(a), L, "result", New(R))
<1>0. New(R).ptr[0] = None
  <2>1. R.size = [words |-> 1, ptrs |-> 1]
    BY DEF ConnectionResponse, StructSize, Size
  <2> QED
    BY <2>1 DEF New
<1>1. CASE a.arm = "empty"
  <2>1. New(L).ptr = [n \in {0} |-> None]
    BY DEF New, RegisterConnectionResults, MethodSize, Size, Plain
  <2>2. L.ptr = [result |-> 0] /\ L.arm = <<>>
    BY DEF RegisterConnectionResults, Plain
  <2>3. getPointer(New(L), L, "result") = None
    BY <2>1, <2>2 DEF getPointer, isArm
  <2>4. ServerBuilds(a) = New(L)
    BY <1>1 DEF ServerBuilds
  <2>5. result = New(R)
    BY <2>3, <2>4 DEF Get
  <2> QED
    BY <1>0, <2>5
<1>2. CASE a.arm = "connectionDetails"
  <2> DEFINE d == Filled(ConnectionDetails,
                         [uuid |-> a.uuid, locationName |-> a.locationName])
             r == setPointer(New(R), R, a.arm, d)
  <2>1. ServerBuilds(a) = Filled(L, [result |-> r])
    BY <1>2 DEF ServerBuilds
  <2>2. IntData(d)
    BY FilledInt
  <2> HIDE DEF d
  <2>3. r.ptr[0] = <<d>>
    BY <1>2, ResponsePointer
  <2> HIDE DEF r
  <2>4. result = r
    BY <2>1, ResultPointer
  <2> QED
    BY <2>2, <2>3, <2>4
<1>3. CASE a.arm = "error"
  <2> DEFINE E == ConnectionError.data
             e0 == Filled(ConnectionError, [cause |-> a.cause])
             e1 == setDataField(e0, E.retryAfter, a.retryAfter)
             e2 == setDataField(e1, E.shouldRetry, a.shouldRetry)
             r == setPointer(New(R), R, a.arm, e2)
  <2>1. ServerBuilds(a) = Filled(L, [result |-> r])
    BY <1>3 DEF ServerBuilds
  <2>2. a.retryAfter \in Int /\ a.shouldRetry \in Int
    BY <1>3, AnswerInt
  <2>3. IntData(e0) /\ e0 = [words |-> e0.words, data |-> {}, ptr |-> e0.ptr]
    BY FilledInt
  <2> HIDE DEF e0
  <2>4. IntData(e1) /\ e1 = [words |-> e0.words, data |-> e1.data, ptr |-> e0.ptr]
    BY <2>2, <2>3, SetInt
  <2> HIDE DEF e1
  <2>5. IntData(e2)
    BY <2>2, <2>4, SetInt
  <2> HIDE DEF e2
  <2>6. r.ptr[0] = <<e2>>
    BY <1>3, ResponsePointer
  <2> HIDE DEF r
  <2>7. result = r
    BY <2>1, ResultPointer
  <2> QED
    BY <2>5, <2>6, <2>7
<1>4. CASE a.arm = "later"
  <2> DEFINE e == [words |-> 1, data |-> {[field |-> Elt(64, 0), val |-> a.word]},
                   ptr |-> <<>>]
             s == setDataField(New(R), which, 2)
             r == [s EXCEPT !.ptr[0] = <<e>>]
  <2>1. ServerBuilds(a) = Filled(L, [result |-> r])
    BY <1>4 DEF ServerBuilds
  <2>2. a.word \in Int
    BY <1>4, AnswerInt
  <2>3. IntData(e)
    BY <2>2 DEF IntData
  <2>4. s = [words |-> s.words, data |-> s.data, ptr |-> [n \in {0} |-> None]]
    <3>1. R.size = [words |-> 1, ptrs |-> 1]
      BY DEF ConnectionResponse, StructSize, Size
    <3>2. 0..1 - 1 = {0}
      OBVIOUS
    <3>3. New(R) = [words |-> 1, data |-> {}, ptr |-> [n \in {0} |-> None]]
      BY <3>1, <3>2 DEF New
    <3> QED
      BY <3>3 DEF setDataField
  <2> HIDE DEF s, e
  <2>5. r.ptr[0] = <<e>>
    BY <2>4
  <2> HIDE DEF r
  <2>6. result = r
    BY <2>1, ResultPointer
  <2> QED
    BY <2>3, <2>5, <2>6
<1> QED
  BY <1>1, <1>2, <1>3, <1>4, AnswerInt

\* Whatever a server answers, the delay register_connection() reports is an
\* integer.
LEMMA DecodedInt ==
  ASSUME NEW a \in Answers, NEW d \in Decoded(ServerBuilds(a))
  PROVE  d.resp.retry_after_seconds \in Int
<1> DEFINE R == ConnectionResponse
           result == Get(ServerBuilds(a), RegisterConnectionResults, "result", New(R))
           to(l) == IF result.ptr[0] = None THEN New(l) ELSE result.ptr[0][1]
<1>1. \/ d = Returned(ReadDetails(to(ConnectionDetails)))
      \/ d = Returned(ReadError(to(ConnectionError)))
      \/ d = Threw
  BY DEF Decoded
<1>2. IntData(to(ConnectionError))
  BY BuiltInt, NewInt
<1> HIDE DEF to
<1>3. \A e : ReadDetails(e).retry_after_seconds = 0
  BY DEF ReadDetails, RegisterResponse
<1>4. \A r : Returned(r).resp = r
  BY DEF Returned
<1>5. Threw.resp.retry_after_seconds = 0
  BY DEF Threw, RegisterResponse
<1>6. ReadError(to(ConnectionError)).retry_after_seconds \in Int
  BY <1>2, ReadErrorInt
<1> QED
  BY <1>1, <1>3, <1>4, <1>5, <1>6

-----------------------------------------------------------------------------
\* RetryDelay with the types it needs.
DelayInv ==
  /\ fails \in 0..MaxFails
  /\ up \in BOOLEAN
  /\ backoff_ms = Rung(fails)
  /\ ~up /\ fails > 0 =>
       wait_ms = IF resp.retry_after_seconds > 0
                 THEN Smaller(resp.retry_after_seconds, 32) * 1000
                 ELSE Rung(fails - 1)
  /\ ~up /\ fails > 0 => resp.retry_after_seconds \in Int

\* The rungs of the ladder: each doubles the one before, up to the cap.
LEMMA Rungs ==
  ASSUME NEW k \in Nat
  PROVE  /\ Rung(k) \in Int /\ 1000 <= Rung(k) /\ Rung(k) <= 32000
         /\ Rung(k + 1) = Smaller(Rung(k) * 2, kMaxBackoffMs)
  BY DEF Rung, Smaller, kMaxBackoffMs

\* A failure that sleeps for what was asked, or for the back-off.
LEMMA FailStep ==
  ASSUME DelayInv, NEW delay, Fail(delay), resp'.retry_after_seconds \in Int,
         delay = IF resp'.retry_after_seconds > 0
                 THEN Smaller(resp'.retry_after_seconds, 32) * 1000
                 ELSE backoff_ms
  PROVE  DelayInv'
<1>1. /\ fails \in Nat /\ fails' = fails + 1 /\ fails' \in 0..MaxFails /\ wait_ms' = delay
      /\ backoff_ms' = Smaller(backoff_ms * 2, kMaxBackoffMs) /\ fails' - 1 = fails
  <2>1. /\ fails < MaxFails /\ wait_ms' = delay /\ fails' = fails + 1
        /\ backoff_ms' = Smaller(backoff_ms * 2, kMaxBackoffMs)
    BY Zenon DEF Fail
  <2>2. fails \in 0..MaxFails /\ MaxFails \in Nat
    BY RetryAssumption DEF DelayInv
  <2> QED
    BY <2>1, <2>2
<1>2. up' \in BOOLEAN /\ ~up'
  BY Zenon DEF Fail
<1>3. backoff_ms = Rung(fails)
  BY DEF DelayInv
<1>4. backoff_ms' = Rung(fails')
  BY <1>1, <1>3, Rungs
<1> QED
  BY <1>1, <1>2, <1>3, <1>4 DEF DelayInv

\* The delays of a connection, for every answer a server may give and any
\* number of failures: never none, never above the cap, what the server asked
\* up to the cap, and otherwise the ladder from 1 s to 32 s.
THEOREM DelaysBounded == RegSpec => []RetryDelay
<1> DEFINE N == [RegNext /\ UNCHANGED rpcVars]_<<regVars, rpcVars>>
<1>1. RegInit => DelayInv
  <2> SUFFICES ASSUME RegInit PROVE DelayInv
    OBVIOUS
  <2>1. fails = 0 /\ backoff_ms = kInitBackoffMs
    BY Zenon DEF RegInit
  <2>2. up \in BOOLEAN
    BY Zenon DEF RegInit
  <2> QED
    BY <2>1, <2>2, RetryAssumption DEF DelayInv, kInitBackoffMs, Rung
<1>2. DelayInv /\ N => DelayInv'
  <2> SUFFICES ASSUME DelayInv, N PROVE DelayInv'
    OBVIOUS
  <2>0. RegisterResponse.retry_after_seconds = 0
    BY DEF RegisterResponse
  <2>1. CASE ConnectFails
    <3>1. Fail(backoff_ms) /\ resp' = RegisterResponse
      BY <2>1, Zenon DEF ConnectFails
    <3> QED
      BY <2>0, <3>1, FailStep
  <2>2. CASE Drops
    <3>1. Fail(backoff_ms) /\ resp' = RegisterResponse
      BY <2>2, Zenon DEF Drops
    <3> QED
      BY <2>0, <3>1, FailStep
  <2>3. ASSUME Rejected, resp'.retry_after_seconds \in Int PROVE DelayInv'
    <3>1. kMaxBackoffMs \div 1000 = 32
      BY DEF kMaxBackoffMs
    <3> QED
      BY <2>3, <3>1, FailStep DEF Rejected
  <2>4. CASE Unanswered
    <3>1. Rejected /\ resp' = RegisterResponse
      BY <2>4, Zenon DEF Unanswered
    <3> QED
      BY <2>0, <2>3, <3>1
  <2>5. CASE Answered
    <3>1. PICK a \in Answers : \E d \in Decoded(ServerBuilds(a)) : resp' = d.resp
      BY <2>5 DEF Answered
    <3>2. resp'.retry_after_seconds \in Int
      BY <3>1, DecodedInt
    <3>3. Registered \/ Rejected
      BY <2>5, Zenon DEF Answered
    <3>4. CASE Registered
      <4>1. fails' = 0 /\ backoff_ms' = kInitBackoffMs
        BY <3>4, Zenon DEF Registered
      <4>2. up' \in BOOLEAN
        BY <3>4, Zenon DEF Registered
      <4> QED
        BY <4>1, <4>2, RetryAssumption DEF DelayInv, kInitBackoffMs, Rung
    <3> QED
      BY <2>3, <3>2, <3>3, <3>4
  <2>6. CASE UNCHANGED <<regVars, rpcVars>>
    BY <2>6 DEF DelayInv, regVars
  <2> QED
    BY <2>1, <2>2, <2>4, <2>5, <2>6 DEF RegNext
<1>3. DelayInv => RetryDelay
  <2> SUFFICES ASSUME DelayInv PROVE RetryDelay
    OBVIOUS
  <2>1. fails \in Nat
    BY RetryAssumption DEF DelayInv
  <2>2. fails > 0 => 1000 <= Rung(fails - 1) /\ Rung(fails - 1) <= 32000
    BY <2>1, Rungs
  <2>3. ASSUME ~up, fails > 0 PROVE 1000 <= wait_ms /\ wait_ms <= 32000
    <3> DEFINE r == resp.retry_after_seconds
    <3>1. r \in Int /\ wait_ms = IF r > 0 THEN Smaller(r, 32) * 1000 ELSE Rung(fails - 1)
      BY <2>3 DEF DelayInv
    <3> HIDE DEF r
    <3> QED
      BY <2>2, <2>3, <3>1 DEF Smaller
  <2> QED
    BY <2>3 DEF DelayInv, RetryDelay
<1> QED
  BY <1>1, <1>2, <1>3, PTL DEF RegSpec

(***************************************************************************)
(* Sections: what the accessors of the generated code leave in them.       *)
(***************************************************************************)

\* A struct as the accessors make it.
Section(s) ==
  /\ s = [words |-> s.words, data |-> s.data, ptr |-> s.ptr]
  /\ \A w \in s.data : w = [field |-> w.field, val |-> w.val]

Inside(d, words) == ~(d.at + d.size > 64 * words)

\* A set accessor changes the data section only.
LEMMA SetDataShape ==
  ASSUME NEW s, Section(s), NEW d, NEW v
  PROVE  /\ Section(setDataField(s, d, v))
         /\ setDataField(s, d, v).words = s.words
         /\ setDataField(s, d, v).ptr = s.ptr
<1> DEFINE kept == {u \in s.data : u.field # d}
           x(w) == IF Overlap(w.field, d) THEN [w EXCEPT !.val = Mixed] ELSE w
           E == {x(w) : w \in kept} \cup {[field |-> d, val |-> v]}
           Fine(w) == w = [field |-> w.field, val |-> w.val]
           r == [words |-> s.words, data |-> E, ptr |-> s.ptr]
<1>1. setDataField(s, d, v) = r
  BY DEF setDataField, Section
<1>2. ASSUME NEW w \in kept PROVE Fine(x(w))
  BY DEF Section
<1>3. \A w \in E : Fine(w)
  <2>1. Fine([field |-> d, val |-> v])
    OBVIOUS
  <2> HIDE DEF x, kept, Fine
  <2> QED
    BY <1>2, <2>1
<1>4. r.words = s.words /\ r.data = E /\ r.ptr = s.ptr
  OBVIOUS
<1> HIDE DEF E, r
<1> QED
  BY <1>1, <1>3, <1>4 DEF Section, r

\* A field reads what its accessor wrote, and a field that shares no bit with
\* it reads what it read before.
LEMMA SetDataGet ==
  ASSUME NEW s, Section(s), NEW d, NEW v, NEW e
  PROVE  LET t == setDataField(s, d, v)
         IN /\ Inside(d, s.words) => getDataField(t, d) = v
            /\ d # e /\ ~Overlap(d, e) /\ ~Overlap(e, d) =>
                 getDataField(t, e) = getDataField(s, e)
<1> DEFINE t == setDataField(s, d, v)
           kept == {u \in s.data : u.field # d}
           x(w) == IF Overlap(w.field, d) THEN [w EXCEPT !.val = Mixed] ELSE w
           new == [field |-> d, val |-> v]
           E == {x(w) : w \in kept} \cup {new}
<1>1. t.data = E /\ t.words = s.words
  BY DEF setDataField, Section
<1>2. \A w \in kept : x(w).field = w.field /\ w.field # d
  BY DEF Section
<1>3. new.field = d /\ new.val = v
  OBVIOUS
<1>4. ASSUME Inside(d, s.words)
      PROVE  getDataField(t, d) = v
  <2>1. {w \in t.data : w.field = d} = {new}
    <3> HIDE DEF x, kept, new
    <3> QED
      BY <1>1, <1>2, <1>3
  <2>2. (CHOOSE w \in {new} : TRUE) = new
    OBVIOUS
  <2> DEFINE same == {w \in t.data : w.field = d}
             touched == {w \in t.data : Overlap(w.field, d)}
  <2>3. getDataField(t, d) = IF d.at + d.size > 64 * t.words THEN 0
          ELSE IF same # {} THEN (CHOOSE w \in same : TRUE).val
          ELSE IF touched # {} THEN Mixed ELSE 0
    BY Zenon DEF getDataField
  <2>4. same = {new}
    BY <2>1
  <2> HIDE DEF t, new, same, touched, E
  <2> QED
    BY <1>1, <1>3, <1>4, <2>2, <2>3, <2>4, Zenon DEF Inside
<1>5. ASSUME d # e, ~Overlap(d, e), ~Overlap(e, d)
      PROVE  getDataField(t, e) = getDataField(s, e)
  <2>1. {w \in t.data : w.field = e} = {w \in s.data : w.field = e}
    <3>1. \A w \in kept : w.field = e => x(w) = w
      BY <1>5
    <3>2. \A w \in s.data : w.field = e => w \in kept
      BY <1>5
    <3>3. \A w \in kept : w \in s.data
      OBVIOUS
    <3> HIDE DEF x, kept, new, t
    <3> QED
      BY <1>1, <1>2, <1>3, <1>5, <3>1, <3>2, <3>3
  <2>2. {w \in t.data : Overlap(w.field, e)} # {}
          <=> {w \in s.data : Overlap(w.field, e)} # {}
    <3>1. \A w \in s.data : Overlap(w.field, e) => w \in kept
      BY <1>5
    <3>2. \A w \in kept : w \in s.data
      OBVIOUS
    <3>3. ~Overlap(new.field, e)
      BY <1>3, <1>5
    <3> HIDE DEF x, kept, new, t
    <3>4. \A w \in s.data : Overlap(w.field, e) => x(w) \in t.data /\ x(w).field = w.field
      BY <1>1, <1>2, <3>1
    <3>5. \A u \in t.data : Overlap(u.field, e) =>
             \E w \in kept : u.field = w.field
      BY <1>1, <1>2, <3>3
    <3> QED
      BY <3>2, <3>4, <3>5
  <2> DEFINE A(u) == {w \in u.data : w.field = e}
             B(u) == {w \in u.data : Overlap(w.field, e)}
  <2>3. \A u : getDataField(u, e) = IF e.at + e.size > 64 * u.words THEN 0
          ELSE IF A(u) # {} THEN (CHOOSE w \in A(u) : TRUE).val
          ELSE IF B(u) # {} THEN Mixed ELSE 0
    BY Zenon DEF getDataField
  <2>4. A(t) = A(s) /\ (B(t) # {} <=> B(s) # {})
    BY <2>1, <2>2
  <2> HIDE DEF t, A, B, E
  <2> QED
    BY <1>1, <2>3, <2>4, Zenon
<1> QED
  BY <1>4, <1>5

\* The positions of a layout: every data field lies inside the data section
\* its header declares and every pointer field inside the pointers, no two
\* data fields share a bit, and only the arms of a union share a pointer, told
\* apart by a discriminant that lies outside the data fields.
Apart(d, e) == d # e /\ ~Overlap(d, e) /\ ~Overlap(e, d)
DataApart(l) ==
  /\ \A f \in DOMAIN l.data : Inside(l.data[f], l.size.words)
  /\ \A f, g \in DOMAIN l.data : f # g => Apart(l.data[f], l.data[g])
PointersApart(l) ==
  /\ \A f \in DOMAIN l.ptr : l.ptr[f] \in 0..l.size.ptrs - 1
  /\ \A f, g \in DOMAIN l.ptr : f # g /\ l.ptr[f] = l.ptr[g] =>
       f \in DOMAIN l.arm /\ g \in DOMAIN l.arm
ArmsApart(l) ==
  /\ \A f \in DOMAIN l.arm : f \in DOMAIN l.ptr /\ Inside(which, l.size.words)
  /\ \A f \in DOMAIN l.arm, g \in DOMAIN l.data : Apart(which, l.data[g])
  /\ \A f, g \in DOMAIN l.arm : f # g => l.arm[f] # l.arm[g]
GoodLayout(l) == DataApart(l) /\ PointersApart(l) /\ ArmsApart(l)

\* The layouts of the generated code have those positions.
LEMMA LayoutsGood ==
  ASSUME NEW l \in Layouts
  PROVE  GoodLayout(l)
<1> USE DEF GoodLayout, DataApart, PointersApart, ArmsApart, Apart, Inside,
    Overlap, Elt, Plain, Size, StructSize, MethodSize, which
<1>1. GoodLayout(ClientInfo)
  BY DEF ClientInfo
<1>2. GoodLayout(ConnectionOptions)
  BY DEF ConnectionOptions
<1>3. GoodLayout(ConnectionDetails)
  BY DEF ConnectionDetails
<1>4. GoodLayout(ConnectionError)
  BY DEF ConnectionError
<1>5. GoodLayout(ConnectionResponse)
  BY DEF ConnectionResponse
<1>6. GoodLayout(TunnelAuth)
  BY DEF TunnelAuth
<1>7. GoodLayout(RegisterConnectionParams)
  BY DEF RegisterConnectionParams
<1>8. GoodLayout(RegisterConnectionResults)
  BY DEF RegisterConnectionResults
<1>9. GoodLayout(UpdateLocalConfigurationParams)
  BY DEF UpdateLocalConfigurationParams
<1> HIDE DEF GoodLayout
<1> QED
  BY <1>1, <1>2, <1>3, <1>4, <1>5, <1>6, <1>7, <1>8, <1>9, Zenon DEF Layouts

\* The get accessors read in a filled struct what was put into it.
LEMMA FilledGet ==
  ASSUME NEW l, PointersApart(l), l.arm = <<>>, NEW fields,
         DOMAIN fields \subseteq DOMAIN l.ptr,
         NEW f \in DOMAIN fields, NEW s, s.ptr = Filled(l, fields).ptr, NEW default
  PROVE  Get(s, l, f, default) = fields[f]
<1> DEFINE m == Filled(l, fields)
           P(n) == IF \E g \in DOMAIN fields : l.ptr[g] = n
                   THEN <<fields[CHOOSE g \in DOMAIN fields : l.ptr[g] = n]>>
                   ELSE None
           D == 0..l.size.ptrs - 1
<1>1. m.ptr = [n \in D |-> P(n)]
  BY DEF Filled, New
<1>2. l.ptr[f] \in D
  BY DEF PointersApart
<1>3. \A g \in DOMAIN fields : l.ptr[g] = l.ptr[f] => g = f
  BY DEF PointersApart
<1>4. (CHOOSE g \in DOMAIN fields : l.ptr[g] = l.ptr[f]) = f
  BY <1>3
<1>5. P(l.ptr[f]) = <<fields[f]>>
  BY <1>4, Zenon
<1> HIDE DEF P, D
<1>6. s.ptr = [n \in D |-> P(n)]
  BY <1>1
<1>7. getPointer(s, l, f) = <<fields[f]>>
  BY <1>2, <1>5, <1>6 DEF getPointer, isArm
<1> QED
  BY <1>7 DEF Get, None

\* The request: what every set accessor wrote, the server's get accessor reads.
LEMMA RequestRead ==
  ASSUME NEW req \in RegisterRequest
  PROVE  ServerReads(req_msg(req)) = req
<1> DEFINE Auth  == [accountTag |-> req.account_tag, tunnelSecret |-> req.tunnel_secret]
           Info  == [clientId |-> req.tunnel_uuid, version |-> req.version,
                     arch |-> req.arch, features |-> req.features]
           auth  == Filled(TunnelAuth, Auth)
           ci    == Filled(ClientInfo, Info)
           Opts  == [client |-> ci]
           opts  == Filled(ConnectionOptions, Opts)
           Parms == [auth |-> auth, tunnelId |-> req.tunnel_uuid, options |-> opts]
           m0    == Filled(RegisterConnectionParams, Parms)
           idx   == RegisterConnectionParams.data.connIndex
           m     == req_msg(req)
<1> USE DEF Layouts
<1>1. m = setDataField(m0, idx, req.conn_index)
  BY DEF req_msg, options
<1>2. /\ PointersApart(TunnelAuth) /\ PointersApart(ClientInfo)
      /\ PointersApart(ConnectionOptions) /\ PointersApart(RegisterConnectionParams)
      /\ DataApart(RegisterConnectionParams)
  BY LayoutsGood, Zenon DEF GoodLayout
<1>3. /\ TunnelAuth.arm = <<>> /\ DOMAIN TunnelAuth.ptr = {"accountTag", "tunnelSecret"}
      /\ ClientInfo.arm = <<>>
      /\ DOMAIN ClientInfo.ptr = {"clientId", "features", "version", "arch"}
      /\ ConnectionOptions.arm = <<>>
      /\ DOMAIN ConnectionOptions.ptr = {"client", "originLocalIp"}
      /\ RegisterConnectionParams.arm = <<>>
      /\ DOMAIN RegisterConnectionParams.ptr = {"auth", "tunnelId", "options"}
  BY DEF TunnelAuth, ClientInfo, ConnectionOptions, RegisterConnectionParams, Plain
<1>4. \A x : /\ Get(auth, TunnelAuth, "accountTag", x) = req.account_tag
             /\ Get(auth, TunnelAuth, "tunnelSecret", x) = req.tunnel_secret
  <2>1. /\ DOMAIN Auth = {"accountTag", "tunnelSecret"}
        /\ Auth["accountTag"] = req.account_tag
        /\ Auth["tunnelSecret"] = req.tunnel_secret
    OBVIOUS
  <2> HIDE DEF Auth
  <2> QED
    BY <1>2, <1>3, <2>1, FilledGet
<1>5. \A x : /\ Get(ci, ClientInfo, "version", x) = req.version
             /\ Get(ci, ClientInfo, "arch", x) = req.arch
             /\ Get(ci, ClientInfo, "features", x) = req.features
  <2>1. /\ DOMAIN Info = {"clientId", "version", "arch", "features"}
        /\ Info["version"] = req.version /\ Info["arch"] = req.arch
        /\ Info["features"] = req.features
    OBVIOUS
  <2> HIDE DEF Info
  <2> QED
    BY <1>2, <1>3, <2>1, FilledGet
<1> HIDE DEF auth, ci
<1>6. \A x : Get(opts, ConnectionOptions, "client", x) = ci
  <2>1. DOMAIN Opts = {"client"} /\ Opts["client"] = ci
    OBVIOUS
  <2> HIDE DEF Opts
  <2> QED
    BY <1>2, <1>3, <2>1, FilledGet
<1> HIDE DEF opts
<1>7. Section(m0) /\ m0.words = 1
  <2>1. m0 = [words |-> m0.words, data |-> {}, ptr |-> m0.ptr]
    BY FilledInt
  <2>2. m0.words = 1
    BY DEF Filled, New, RegisterConnectionParams, Plain, MethodSize, Size
  <2> QED
    BY <2>1, <2>2 DEF Section
<1>8. \A x : /\ Get(m, RegisterConnectionParams, "auth", x) = auth
             /\ Get(m, RegisterConnectionParams, "tunnelId", x) = req.tunnel_uuid
             /\ Get(m, RegisterConnectionParams, "options", x) = opts
  <2>1. /\ DOMAIN Parms = {"auth", "tunnelId", "options"}
        /\ Parms["auth"] = auth /\ Parms["tunnelId"] = req.tunnel_uuid
        /\ Parms["options"] = opts
    OBVIOUS
  <2>2. m.ptr = m0.ptr
    BY <1>1, <1>7, SetDataShape
  <2> HIDE DEF Parms, m
  <2> QED
    BY <1>2, <1>3, <2>1, <2>2, FilledGet
<1>9. getDataField(m, idx) = req.conn_index
  <2>1. Inside(idx, 1)
    BY DEF RegisterConnectionParams, Plain, Elt, Inside
  <2> HIDE DEF idx, m0
  <2> QED
    BY <1>1, <1>7, <2>1, SetDataGet
<1> HIDE DEF m
<1>10. ServerReads(m) =
         [account_tag |-> req.account_tag, tunnel_secret |-> req.tunnel_secret,
          tunnel_uuid |-> req.tunnel_uuid, conn_index |-> req.conn_index,
          version |-> req.version, arch |-> req.arch, features |-> req.features]
  BY <1>4, <1>5, <1>6, <1>8, <1>9 DEF ServerReads
<1>11. req = [account_tag |-> req.account_tag, tunnel_secret |-> req.tunnel_secret,
              tunnel_uuid |-> req.tunnel_uuid, conn_index |-> req.conn_index,
              version |-> req.version, arch |-> req.arch, features |-> req.features]
  BY DEF RegisterRequest
<1> QED
  BY <1>10, <1>11 DEF m

\* A new struct has the size its header declares.
LEMMA NewSection ==
  ASSUME NEW l
  PROVE  Section(New(l)) /\ New(l).words = l.size.words
  BY DEF Section, New

\* which() of the response is the arm that was set.
LEMMA ResponseArm ==
  ASSUME NEW f \in {"error", "connectionDetails"}, NEW v
  PROVE  getDataField(setPointer(New(ConnectionResponse), ConnectionResponse, f, v), which)
           = ConnectionResponse.arm[f]
<1> DEFINE R == ConnectionResponse
           s == New(R)
           t == setDataField(s, which, R.arm[f])
           p == setPointer(s, R, f, v)
<1>1. Section(s) /\ s.words = 1
  <2>1. R.size.words = 1
    BY DEF ConnectionResponse, StructSize, Size
  <2> QED
    BY <2>1, NewSection
<1>2. Inside(which, 1)
  BY DEF Inside, which, Elt
<1> HIDE DEF s
<1>3. getDataField(t, which) = R.arm[f]
  BY <1>1, <1>2, SetDataGet
<1>4. Section(t)
  BY <1>1, SetDataShape
<1>5. f \in DOMAIN R.arm
  BY DEF ConnectionResponse
<1>6. p = [t EXCEPT !.ptr[R.ptr[f]] = <<v>>]
  BY <1>5 DEF setPointer
<1> HIDE DEF t
<1>7. p.data = t.data /\ p.words = t.words
  BY <1>4, <1>6 DEF Section
<1> HIDE DEF p
<1>8. getDataField(p, which) = getDataField(t, which)
  BY <1>7 DEF getDataField
<1> QED
  BY <1>3, <1>8 DEF p, s

\* What register_connection() makes of an answer, as the server meant it.
AsMeant(a, r, e) ==
  /\ e = "none" <=> a.arm = "connectionDetails"
  /\ r.ok <=> a.arm = "connectionDetails"
  /\ a.arm = "connectionDetails" =>
       /\ r.location_name = a.locationName
       /\ r.assigned_uuid = IF a.uuid.size = 16 THEN a.uuid.bytes ELSE 0
  /\ a.arm = "error" =>
       /\ e = "permission_denied"
       /\ r.error_cause = a.cause
       /\ r.retry_after_seconds = a.retryAfter
       /\ r.should_retry = a.shouldRetry
  /\ a.arm = "empty" => e = "permission_denied" /\ r.retry_after_seconds = 0
  /\ a.arm = "later" => e \in {"permission_denied", "protocol_error"}

\* The results returned: ok decides the code.
LEMMA ReturnedEc ==
  ASSUME NEW r
  PROVE  /\ Returned(r).resp = r
         /\ r.ok => Returned(r).ec = "none"
         /\ ~r.ok => Returned(r).ec = "permission_denied"
  BY DEF Returned

\* Only details set ok.
LEMMA OkFlags ==
  /\ ~RegisterResponse.ok
  /\ \A e : ~ReadError(e).ok
  /\ \A e : ReadDetails(e).ok
<1>1. RegisterResponse.ok = FALSE
  BY DEF RegisterResponse
<1>2. \A e : ReadError(e).ok = FALSE
  BY DEF ReadError, RegisterResponse
<1>3. \A e : ReadDetails(e).ok = TRUE
  BY DEF ReadDetails, RegisterResponse
<1> QED
  BY <1>1, <1>2, <1>3, Zenon

\* Connection details.
LEMMA DetailsRead ==
  ASSUME NEW a \in Answers, a.arm = "connectionDetails",
         NEW d \in Decoded(ServerBuilds(a))
  PROVE  AsMeant(a, d.resp, d.ec)
<1> DEFINE R == ConnectionResponse
           L == RegisterConnectionResults
           Det == [uuid |-> a.uuid, locationName |-> a.locationName]
           det == Filled(ConnectionDetails, Det)
           r == setPointer(New(R), R, a.arm, det)
           m == ServerBuilds(a)
<1>1. m = Filled(L, [result |-> r])
  BY DEF ServerBuilds
<1>2. \A x : /\ Get(det, ConnectionDetails, "uuid", x) = a.uuid
             /\ Get(det, ConnectionDetails, "locationName", x) = a.locationName
  <2>1. ConnectionDetails.arm = <<>> /\ DOMAIN ConnectionDetails.ptr = {"uuid", "locationName"}
    BY DEF ConnectionDetails, Plain
  <2>2. PointersApart(ConnectionDetails)
    BY LayoutsGood, Zenon DEF GoodLayout, Layouts
  <2>3. /\ DOMAIN Det = {"uuid", "locationName"}
        /\ Det["uuid"] = a.uuid /\ Det["locationName"] = a.locationName
    OBVIOUS
  <2> HIDE DEF Det
  <2> QED
    BY <2>1, <2>2, <2>3, FilledGet
<1> HIDE DEF det
<1>3. r.ptr[0] = <<det>> /\ getDataField(r, which) = R.arm[a.arm]
  BY ResponsePointer, ResponseArm
<1>4. isArm(r, R, "connectionDetails")
  BY <1>3 DEF isArm
<1> HIDE DEF r, m
<1>5. Get(m, L, "result", New(R)) = r
  BY <1>1, ResultPointer
<1>6. Decoded(m) = {Returned(ReadDetails(det))}
  <2>1. <<det>> # None /\ <<det>>[1] = det
    BY DEF None
  <2> QED
    BY <1>3, <1>4, <1>5, <2>1 DEF Decoded
<1>7. d = Returned(ReadDetails(det))
  BY <1>6 DEF m
<1>8. /\ ReadDetails(det).location_name = a.locationName
      /\ ReadDetails(det).assigned_uuid = IF a.uuid.size = 16 THEN a.uuid.bytes ELSE 0
  BY <1>2 DEF ReadDetails, RegisterResponse
<1>9. d.ec = "none" /\ d.resp = ReadDetails(det) /\ d.resp.ok
  BY <1>7, ReturnedEc, OkFlags
<1> QED
  BY <1>8, <1>9 DEF AsMeant

\* An error.
LEMMA ErrorRead ==
  ASSUME NEW a \in Answers, a.arm = "error", NEW d \in Decoded(ServerBuilds(a))
  PROVE  AsMeant(a, d.resp, d.ec)
<1> DEFINE R == ConnectionResponse
           L == RegisterConnectionResults
           retry == ConnectionError.data.retryAfter
           should == ConnectionError.data.shouldRetry
           C == [cause |-> a.cause]
           e0 == Filled(ConnectionError, C)
           e1 == setDataField(e0, retry, a.retryAfter)
           e2 == setDataField(e1, should, a.shouldRetry)
           r == setPointer(New(R), R, a.arm, e2)
           m == ServerBuilds(a)
<1>1. m = Filled(L, [result |-> r])
  BY DEF ServerBuilds
<1>2. Section(e0) /\ e0.words = 2
  <2>1. e0 = [words |-> e0.words, data |-> {}, ptr |-> e0.ptr]
    BY FilledInt
  <2>2. e0.words = 2
    BY DEF Filled, New, ConnectionError, Plain, StructSize, Size
  <2> QED
    BY <2>1, <2>2 DEF Section
<1>3. e0.ptr = [n \in {0} |-> <<a.cause>>]
  <2>1. New(ConnectionError).ptr = [n \in {0} |-> None]
    <3>1. ConnectionError.size = [words |-> 2, ptrs |-> 1]
      BY DEF ConnectionError, Plain, StructSize, Size
    <3>2. 0..1 - 1 = {0}
      OBVIOUS
    <3> QED
      BY <3>1, <3>2 DEF New
  <2>2. ConnectionError.ptr = [cause |-> 0]
    BY DEF ConnectionError, Plain
  <2> QED
    BY <2>1, <2>2 DEF Filled
<1>4. Apart(should, retry) /\ Inside(retry, 2) /\ Inside(should, 2)
  BY DEF ConnectionError, Plain, Elt, Apart, Inside, Overlap
<1> HIDE DEF e0, retry, should
<1>5. /\ Section(e1) /\ e1.words = 2 /\ e1.ptr = e0.ptr
      /\ getDataField(e1, retry) = a.retryAfter
  BY <1>2, <1>4, SetDataShape, SetDataGet
<1> HIDE DEF e1
<1>6. /\ e2.ptr = e0.ptr
      /\ getDataField(e2, retry) = a.retryAfter
      /\ getDataField(e2, should) = a.shouldRetry
  <2>1. getDataField(e2, retry) = getDataField(e1, retry)
    BY <1>4, <1>5, SetDataGet DEF Apart
  <2>2. getDataField(e2, should) = a.shouldRetry
    BY <1>4, <1>5, SetDataGet
  <2> QED
    BY <1>5, <2>1, <2>2, SetDataShape
<1> HIDE DEF e2
<1>7. r.ptr[0] = <<e2>> /\ getDataField(r, which) = R.arm[a.arm]
  BY ResponsePointer, ResponseArm
<1>8. isArm(r, R, "error") /\ ~isArm(r, R, "connectionDetails")
  BY <1>7 DEF isArm, ConnectionResponse
<1> HIDE DEF r, m
<1>9. Get(m, L, "result", New(R)) = r
  BY <1>1, ResultPointer
<1>10. Decoded(m) = {Returned(ReadError(e2))}
  <2>1. <<e2>> # None /\ <<e2>>[1] = e2
    BY DEF None
  <2> QED
    BY <1>7, <1>8, <1>9, <2>1 DEF Decoded
<1>11. d = Returned(ReadError(e2))
  BY <1>10 DEF m
<1>12. 0 \in DOMAIN e2.ptr /\ e2.ptr[0] # None /\ e2.ptr[0][1] = a.cause
  BY <1>3, <1>6 DEF None
<1>13. /\ ReadError(e2).error_cause = a.cause
       /\ ReadError(e2).retry_after_seconds = a.retryAfter
       /\ ReadError(e2).should_retry = a.shouldRetry
  BY <1>6, <1>12 DEF ReadError, RegisterResponse, retry, should
<1>14. d.ec = "permission_denied" /\ d.resp = ReadError(e2) /\ ~d.resp.ok
  BY <1>11, ReturnedEc, OkFlags
<1> QED
  BY <1>13, <1>14 DEF AsMeant

\* Results left empty, and an arm of a later schema, are never a success.
LEMMA OtherRead ==
  ASSUME NEW a \in Answers, a.arm \in {"empty", "later"},
         NEW d \in Decoded(ServerBuilds(a))
  PROVE  AsMeant(a, d.resp, d.ec)
<1> DEFINE R == ConnectionResponse
           L == RegisterConnectionResults
           m == ServerBuilds(a)
           result == Get(m, L, "result", New(R))
           to(l) == IF result.ptr[0] = None THEN New(l) ELSE result.ptr[0][1]
<1>1. Section(New(R)) /\ New(R).words = 1 /\ New(R).ptr = [n \in {0} |-> None]
  <2>1. R.size = [words |-> 1, ptrs |-> 1]
    BY DEF ConnectionResponse, StructSize, Size
  <2>2. 0..1 - 1 = {0}
    OBVIOUS
  <2>3. New(R).ptr = [n \in {0} |-> None]
    BY <2>1, <2>2 DEF New
  <2> QED
    BY <2>1, <2>3, NewSection
<1>2. CASE a.arm = "empty"
  <2>1. New(L).ptr = [n \in {0} |-> None] /\ L.ptr = [result |-> 0] /\ L.arm = <<>>
    BY DEF New, RegisterConnectionResults, MethodSize, Size, Plain
  <2>2. getPointer(New(L), L, "result") = None
    BY <2>1 DEF getPointer, isArm
  <2>3. m = New(L)
    BY <1>2 DEF ServerBuilds
  <2>4. result = New(R)
    BY <2>2, <2>3 DEF Get
  <2>5. getDataField(New(R), which) = 0
    BY <1>1 DEF New, getDataField
  <2>6. ~isArm(New(R), R, "connectionDetails") /\ isArm(New(R), R, "error")
    BY <2>5 DEF isArm, ConnectionResponse
  <2>7. to(ConnectionError) = New(ConnectionError)
    BY <1>1, <2>4
  <2>8. Decoded(m) = {Returned(ReadError(to(ConnectionError)))}
    <3> HIDE DEF m
    <3> QED
      BY <2>4, <2>6 DEF Decoded
  <2> HIDE DEF to, m, result
  <2>9. d = Returned(ReadError(New(ConnectionError)))
    BY <2>7, <2>8 DEF m
  <2>10. getDataField(New(ConnectionError), ConnectionError.data.retryAfter) = 0
    BY DEF New, getDataField
  <2>11. ReadError(New(ConnectionError)).retry_after_seconds = 0
    BY <2>10 DEF ReadError, RegisterResponse
  <2>12. /\ d.ec = "permission_denied" /\ d.resp = ReadError(New(ConnectionError))
         /\ ~d.resp.ok
    BY <2>9, ReturnedEc, OkFlags
  <2> QED
    BY <1>2, <2>11, <2>12 DEF AsMeant
<1>3. CASE a.arm = "later"
  <2> DEFINE e == [words |-> 1, data |-> {[field |-> Elt(64, 0), val |-> a.word]},
                   ptr |-> <<>>]
             s == setDataField(New(R), which, 2)
             r == [s EXCEPT !.ptr[0] = <<e>>]
  <2>1. m = Filled(L, [result |-> r])
    BY <1>3 DEF ServerBuilds
  <2>2. Inside(which, 1)
    BY DEF Inside, which, Elt
  <2>3. getDataField(s, which) = 2 /\ Section(s)
    BY <1>1, <2>2, SetDataGet, SetDataShape
  <2> HIDE DEF s, e
  <2>4. r.data = s.data /\ r.words = s.words
    BY <2>3 DEF Section
  <2> HIDE DEF r, m
  <2>5. getDataField(r, which) = 2
    BY <2>3, <2>4 DEF getDataField
  <2>6. result = r
    BY <2>1, ResultPointer
  <2>7. ~isArm(result, R, "connectionDetails")
    BY <2>5, <2>6 DEF isArm, ConnectionResponse
  <2>8. d \in Decoded(m)
    BY DEF m
  <2>9. \/ d = Returned(ReadError(to(ConnectionError)))
        \/ d = Threw
    BY <2>7, <2>8 DEF Decoded
  <2>10. Threw.ec = "protocol_error" /\ ~Threw.resp.ok
    <3>1. Threw.resp = RegisterResponse /\ Threw.ec = "protocol_error"
      BY DEF Threw
    <3> QED
      BY <3>1, OkFlags
  <2> HIDE DEF to
  <2>11. d.ec \in {"permission_denied", "protocol_error"} /\ ~d.resp.ok
    BY <2>9, <2>10, ReturnedEc, OkFlags
  <2> QED
    BY <1>3, <2>11 DEF AsMeant
<1> QED
  BY <1>2, <1>3

\* Every step but Answered leaves no request and no answer behind.
LEMMA NoAnswerSteps ==
  ASSUME RegNext
  PROVE  Answered \/ (served' = None /\ answer' = Silent)
  BY Zenon DEF RegNext, ConnectFails, Unanswered, Drops

\* Whatever is configured arrives at the server in the field it is meant for.
THEOREM RequestArrivesThm == RegSpec => []RequestArrives
<1> DEFINE N == [RegNext /\ UNCHANGED rpcVars]_<<regVars, rpcVars>>
<1>1. RegInit => RequestArrives
  BY DEF RegInit, RequestArrives
<1>2. RequestArrives /\ N => RequestArrives'
  <2> SUFFICES ASSUME RequestArrives, N PROVE RequestArrives'
    OBVIOUS
  <2>1. CASE Answered
    <3>1. PICK req \in RegisterRequest : served' = <<ServerReads(req_msg(req)), req>>
      BY <2>1 DEF Answered
    <3>2. served' = <<req, req>>
      BY <3>1, RequestRead
    <3> QED
      BY <3>2 DEF RequestArrives
  <2>2. CASE served' = None
    BY <2>2 DEF RequestArrives
  <2>3. CASE UNCHANGED <<regVars, rpcVars>>
    BY <2>3 DEF RequestArrives, regVars
  <2> QED
    BY <2>1, <2>2, <2>3, NoAnswerSteps
<1> QED
  BY <1>1, <1>2, PTL DEF RegSpec

\* The answer the loop acts on: none, or one that was read as it was meant and
\* that put the connection up exactly if it was a success.
AnswerInv ==
  \/ answer = Silent
  \/ /\ answer \in Answers /\ AsMeant(answer, resp, ec)
     /\ ec = "none" => up
     /\ ec # "none" => ~up

\* No answer of any server is misread: no rejection, empty result or unknown
\* arm puts a connection up, and no success leaves it down.
THEOREM AnswerReadAsMeantThm == RegSpec => []AnswerReadAsMeant
<1> DEFINE N == [RegNext /\ UNCHANGED rpcVars]_<<regVars, rpcVars>>
<1>1. RegInit => AnswerInv
  BY DEF RegInit, AnswerInv
<1>2. AnswerInv /\ N => AnswerInv'
  <2> SUFFICES ASSUME AnswerInv, N PROVE AnswerInv'
    OBVIOUS
  <2>1. CASE Answered
    <3>1. PICK a \in Answers : /\ answer' = a
                               /\ \E d \in Decoded(ServerBuilds(a)) : resp' = d.resp /\ ec' = d.ec
      BY <2>1 DEF Answered
    <3>2. PICK d \in Decoded(ServerBuilds(a)) : resp' = d.resp /\ ec' = d.ec
      BY <3>1
    <3>3. AsMeant(a, d.resp, d.ec)
      BY AnswerInt, DetailsRead, ErrorRead, OtherRead
    <3>4. /\ ec' = "none" => up'
          /\ ec' # "none" => ~up'
      BY <2>1, Zenon DEF Answered, Registered, Rejected, Fail
    <3> QED
      BY <3>1, <3>2, <3>3, <3>4, Zenon DEF AnswerInv
  <2>2. CASE answer' = Silent
    BY <2>2 DEF AnswerInv
  <2>3. CASE UNCHANGED <<regVars, rpcVars>>
    BY <2>3, Zenon DEF AnswerInv, regVars
  <2> QED
    BY <2>1, <2>2, <2>3, NoAnswerSteps
<1>3. AnswerInv => AnswerReadAsMeant
  <2> SUFFICES ASSUME AnswerInv PROVE AnswerReadAsMeant
    OBVIOUS
  <2>1. Silent.arm = "silent"
    BY DEF Silent
  <2>2. CASE answer = Silent
    BY <2>1, <2>2 DEF AnswerReadAsMeant
  <2>3. CASE /\ answer \in Answers /\ AsMeant(answer, resp, ec)
             /\ ec = "none" => up
             /\ ec # "none" => ~up
    <3>1. answer.arm # "silent"
      BY <2>3, AnswerInt
    <3>2. answer # Silent
      BY <2>1, <3>1
    <3> QED
      BY <2>3, <3>2 DEF AsMeant, AnswerReadAsMeant
  <2> QED
    BY <2>2, <2>3 DEF AnswerInv
<1> QED
  BY <1>1, <1>2, <1>3, PTL DEF RegSpec

(***************************************************************************)
(* Any sequence of accessor calls on one struct.                           *)
(***************************************************************************)

Pointers == {None} \cup {<<v>> : v \in FieldValues}

\* A struct of the layout l.
Body(s, l) ==
  /\ Section(s) /\ s.words = l.size.words
  /\ s.ptr \in [0..l.size.ptrs - 1 -> Pointers]

\* r is t with the pointer n set to c.
Puts(t, n, c, r) == r = [t EXCEPT !.ptr[n] = c]
OnlyPointer(t, n, c, r) ==
  /\ Section(r) /\ r.words = t.words /\ r.ptr = [t.ptr EXCEPT ![n] = c]
  /\ \A d : getDataField(r, d) = getDataField(t, d)

\* Putting a pointer changes that pointer only.
LEMMA PutPointer ==
  ASSUME NEW t, Section(t), NEW n, NEW c, NEW r, Puts(t, n, c, r)
  PROVE  OnlyPointer(t, n, c, r)
<1>1. /\ r.words = t.words /\ r.data = t.data /\ r.ptr = [t.ptr EXCEPT ![n] = c]
      /\ r = [words |-> r.words, data |-> r.data, ptr |-> r.ptr]
  BY DEF Section, Puts
<1>2. Section(r)
  BY <1>1 DEF Section
<1>3. \A d : getDataField(r, d) = getDataField(t, d)
  BY <1>1 DEF getDataField
<1> QED
  BY <1>1, <1>2, <1>3 DEF OnlyPointer

\* The set accessor of a data field.
OnlyData(s, l, f, v, r) ==
  /\ Body(r, l)
  /\ \A g \in DOMAIN l.data : getDataField(r, l.data[g])
       = IF g = f THEN v ELSE getDataField(s, l.data[g])
  /\ \A g \in DOMAIN l.ptr : getPointer(r, l, g) = getPointer(s, l, g)

\* It changes what that field reads and no other.
LEMMA SetDataReads ==
  ASSUME NEW l, GoodLayout(l), NEW s, Body(s, l), NEW f \in DOMAIN l.data, NEW v
  PROVE  OnlyData(s, l, f, v, setDataField(s, l.data[f], v))
<1> DEFINE r == setDataField(s, l.data[f], v)
<1>1. Section(s) /\ s.words = l.size.words
  BY DEF Body
<1>2. Section(r) /\ r.words = s.words /\ r.ptr = s.ptr
  BY <1>1, SetDataShape
<1>3. getDataField(r, l.data[f]) = v
  <2>1. Inside(l.data[f], s.words)
    BY <1>1 DEF GoodLayout, DataApart
  <2> QED
    BY <1>1, <2>1, SetDataGet
<1>4. ASSUME NEW g \in DOMAIN l.data, g # f
      PROVE  getDataField(r, l.data[g]) = getDataField(s, l.data[g])
  <2>1. Apart(l.data[f], l.data[g])
    BY <1>4 DEF GoodLayout, DataApart
  <2> QED
    BY <1>1, <2>1, SetDataGet DEF Apart
<1>5. ASSUME NEW g \in DOMAIN l.arm
      PROVE  getDataField(r, which) = getDataField(s, which)
  <2>1. Apart(which, l.data[f])
    BY DEF GoodLayout, ArmsApart
  <2> QED
    BY <1>1, <2>1, SetDataGet DEF Apart
<1> HIDE DEF r
<1>6. \A g : getPointer(r, l, g) = getPointer(s, l, g)
  BY <1>2, <1>5 DEF getPointer, isArm
<1>7. Body(r, l)
  BY <1>2 DEF Body
<1> QED
  BY <1>3, <1>4, <1>6, <1>7, Zenon DEF r, OnlyData

\* set, init and adopt of a pointer field.
LEMMA SetPointerReads ==
  ASSUME NEW l, GoodLayout(l), NEW s, Body(s, l), NEW f \in DOMAIN l.ptr,
         NEW v \in FieldValues
  PROVE  LET r == setPointer(s, l, f, v)
         IN /\ Body(r, l)
            /\ \A g \in DOMAIN l.data :
                 getDataField(r, l.data[g]) = getDataField(s, l.data[g])
            /\ \A g \in DOMAIN l.ptr : getPointer(r, l, g)
                 = IF g = f THEN <<v>>
                   ELSE IF f \in DOMAIN l.arm /\ g \in DOMAIN l.arm THEN None
                   ELSE getPointer(s, l, g)
<1> DEFINE t == IF f \in DOMAIN l.arm THEN setDataField(s, which, l.arm[f]) ELSE s
           r == setPointer(s, l, f, v)
           D == 0..l.size.ptrs - 1
<1>1. Section(s) /\ s.words = l.size.words /\ s.ptr \in [D -> Pointers]
  BY DEF Body
<1>2. Puts(t, l.ptr[f], <<v>>, r)
  BY DEF setPointer, Puts
<1>3. Section(t) /\ t.words = s.words /\ t.ptr = s.ptr
  BY <1>1, SetDataShape
<1>4. f \in DOMAIN l.arm => getDataField(t, which) = l.arm[f]
  <2> SUFFICES ASSUME f \in DOMAIN l.arm PROVE getDataField(t, which) = l.arm[f]
    OBVIOUS
  <2>1. Inside(which, s.words)
    BY <1>1 DEF GoodLayout, ArmsApart
  <2> QED
    BY <1>1, <2>1, SetDataGet
<1>5. f \notin DOMAIN l.arm => t = s
  OBVIOUS
<1>6. \A g \in DOMAIN l.data : getDataField(t, l.data[g]) = getDataField(s, l.data[g])
  <2> SUFFICES ASSUME NEW g \in DOMAIN l.data, f \in DOMAIN l.arm
               PROVE  getDataField(t, l.data[g]) = getDataField(s, l.data[g])
    BY <1>5
  <2>1. Apart(which, l.data[g])
    BY DEF GoodLayout, ArmsApart
  <2> QED
    BY <1>1, <2>1, SetDataGet DEF Apart
<1>7. l.ptr[f] \in D /\ <<v>> \in Pointers
  BY DEF GoodLayout, PointersApart, Pointers
<1> HIDE DEF t, r, D
<1>8. /\ Section(r) /\ r.words = s.words /\ r.ptr = [s.ptr EXCEPT ![l.ptr[f]] = <<v>>]
      /\ \A d : getDataField(r, d) = getDataField(t, d)
  <2>1. OnlyPointer(t, l.ptr[f], <<v>>, r)
    BY <1>2, <1>3, PutPointer, Zenon
  <2> QED
    BY <1>3, <2>1, Zenon DEF OnlyPointer
<1>9. Body(r, l)
  BY <1>1, <1>8, <1>7 DEF Body, D
<1>10. getPointer(r, l, f) = <<v>>
  BY <1>1, <1>4, <1>8, <1>7 DEF getPointer, isArm
<1>11. ASSUME NEW g \in DOMAIN l.ptr, g # f, f \in DOMAIN l.arm, g \in DOMAIN l.arm
       PROVE  getPointer(r, l, g) = None
  <2>1. l.arm[f] # l.arm[g]
    BY <1>11 DEF GoodLayout, ArmsApart
  <2> QED
    BY <1>4, <1>8, <1>11, <2>1 DEF getPointer, isArm
<1>12. ASSUME NEW g \in DOMAIN l.ptr, g # f, ~(f \in DOMAIN l.arm /\ g \in DOMAIN l.arm)
       PROVE  getPointer(r, l, g) = getPointer(s, l, g)
  <2>1. l.ptr[g] # l.ptr[f] /\ l.ptr[g] \in D
    BY <1>12 DEF GoodLayout, PointersApart, D
  <2>2. r.ptr[l.ptr[g]] = s.ptr[l.ptr[g]] /\ l.ptr[g] \in DOMAIN r.ptr
        /\ l.ptr[g] \in DOMAIN s.ptr
    BY <1>1, <1>8, <2>1
  <2>3. isArm(r, l, g) <=> isArm(s, l, g)
    BY <1>5, <1>8, <1>12 DEF isArm
  <2> QED
    BY <2>2, <2>3 DEF getPointer
<1> QED
  BY <1>6, <1>8, <1>9, <1>10, <1>11, <1>12, Zenon DEF r

\* disown of the field that is there.
LEMMA DisownReads ==
  ASSUME NEW l, GoodLayout(l), NEW s, Body(s, l), NEW f \in DOMAIN l.ptr,
         isArm(s, l, f)
  PROVE  LET r == disown(s, l, f)
         IN /\ Body(r, l)
            /\ \A g \in DOMAIN l.data :
                 getDataField(r, l.data[g]) = getDataField(s, l.data[g])
            /\ \A g \in DOMAIN l.ptr :
                 getPointer(r, l, g) = IF g = f THEN None ELSE getPointer(s, l, g)
<1> DEFINE r == disown(s, l, f)
           D == 0..l.size.ptrs - 1
<1>1. Section(s) /\ s.words = l.size.words /\ s.ptr \in [D -> Pointers]
  BY DEF Body
<1>2. Puts(s, l.ptr[f], None, r)
  BY DEF disown, Puts
<1>3. l.ptr[f] \in D /\ None \in Pointers
  BY DEF GoodLayout, PointersApart, Pointers
<1> HIDE DEF r, D
<1>4. /\ Section(r) /\ r.words = s.words /\ r.ptr = [s.ptr EXCEPT ![l.ptr[f]] = None]
      /\ \A d : getDataField(r, d) = getDataField(s, d)
  <2>1. OnlyPointer(s, l.ptr[f], None, r)
    BY <1>1, <1>2, PutPointer, Zenon
  <2> QED
    BY <2>1, Zenon DEF OnlyPointer
<1>5. Body(r, l)
  BY <1>1, <1>4, <1>3 DEF Body, D
<1>6. \A g : isArm(r, l, g) <=> isArm(s, l, g)
  BY <1>4 DEF isArm
<1>7. getPointer(r, l, f) = None
  BY <1>1, <1>4, <1>3 DEF getPointer
<1>8. ASSUME NEW g \in DOMAIN l.ptr, g # f
      PROVE  getPointer(r, l, g) = getPointer(s, l, g)
  <2>1. CASE l.ptr[g] = l.ptr[f]
    <3>1. f \in DOMAIN l.arm /\ g \in DOMAIN l.arm /\ l.arm[f] # l.arm[g]
      BY <1>8, <2>1 DEF GoodLayout, PointersApart, ArmsApart
    <3>2. ~isArm(s, l, g)
      BY <3>1 DEF isArm
    <3> QED
      BY <1>6, <3>2 DEF getPointer
  <2>2. CASE l.ptr[g] # l.ptr[f]
    <3>1. l.ptr[g] \in D
      BY DEF GoodLayout, PointersApart, D
    <3>2. r.ptr[l.ptr[g]] = s.ptr[l.ptr[g]] /\ l.ptr[g] \in DOMAIN r.ptr
          /\ l.ptr[g] \in DOMAIN s.ptr
      BY <1>1, <1>4, <2>2, <3>1
    <3> QED
      BY <1>6, <3>2 DEF getPointer
  <2> QED
    BY <2>1, <2>2
<1> QED
  BY <1>4, <1>5, <1>7, <1>8, Zenon DEF r

\* A new struct reads all zero.
LEMMA NewReads ==
  ASSUME NEW l, GoodLayout(l)
  PROVE  /\ Body(New(l), l)
         /\ \A f \in DOMAIN l.data : getDataField(New(l), l.data[f]) = 0
         /\ \A f \in DOMAIN l.ptr : getPointer(New(l), l, f) = None
<1>1. /\ New(l).words = l.size.words /\ New(l).data = {}
      /\ New(l).ptr = [n \in 0..l.size.ptrs - 1 |-> None]
      /\ None \in Pointers
  BY DEF New, Pointers
<1>2. Body(New(l), l)
  BY <1>1, NewSection DEF Body
<1>3. \A d : getDataField(New(l), d) = 0
  BY <1>1 DEF getDataField
<1>4. \A f : getPointer(New(l), l, f) = None
  BY <1>1 DEF getPointer
<1> QED
  BY <1>2, <1>3, <1>4

\* initResult() leaves no arm of the union behind.
LEMMA InitResultReads ==
  ASSUME NEW s, Body(s, ConnectionResponse)
  PROVE  LET r == initResult(s)
         IN /\ Body(r, ConnectionResponse)
            /\ \A f \in DOMAIN ConnectionResponse.ptr :
                 getPointer(r, ConnectionResponse, f) = None
<1> DEFINE l == ConnectionResponse
           t == setDataField(s, which, 0)
           r == initResult(s)
<1>1. Section(s) /\ s.words = l.size.words /\ s.ptr \in [0..l.size.ptrs - 1 -> Pointers]
  BY DEF Body
<1>2. Section(t) /\ t.words = s.words /\ t.ptr = s.ptr
  BY <1>1, SetDataShape
<1>3. Puts(t, 0, None, r)
  BY DEF initResult, Puts
<1>4. /\ l.size.ptrs = 1 /\ \A f \in DOMAIN l.ptr : l.ptr[f] = 0
      /\ None \in Pointers
  BY DEF ConnectionResponse, StructSize, Size, Pointers
<1> HIDE DEF t, r, l
<1>5. Section(r) /\ r.words = s.words /\ r.ptr = [s.ptr EXCEPT ![0] = None]
  <2>1. OnlyPointer(t, 0, None, r)
    BY <1>2, <1>3, PutPointer, Zenon
  <2> QED
    BY <1>2, <2>1, Zenon DEF OnlyPointer
<1>6. Body(r, l)
  BY <1>1, <1>4, <1>5 DEF Body
<1>7. \A f \in DOMAIN l.ptr : getPointer(r, l, f) = None
  BY <1>1, <1>4, <1>5 DEF getPointer
<1> QED
  BY <1>6, <1>7 DEF r, l

\* What the accessor machine keeps: the struct has the shape of its layout,
\* and every field reads what was written to it last.
Written(b, l, w) ==
  /\ Body(b, l)
  /\ w = [data |-> w.data, ptr |-> w.ptr]
  /\ w.data \in [DOMAIN l.data -> Nat] /\ w.ptr \in [DOMAIN l.ptr -> Pointers]
  /\ \A f \in DOMAIN l.data : getDataField(b, l.data[f]) = w.data[f]
  /\ \A f \in DOMAIN l.ptr : getPointer(b, l, f) = w.ptr[f]
RpcInv ==
  /\ msg = [layout |-> msg.layout, body |-> msg.body] /\ msg.layout \in Layouts
  /\ Written(msg.body, msg.layout, last)
  /\ orphan \in Pointers

\* A pointer given to a field, by set, init or adopt.
LEMMA GivenWritten ==
  ASSUME RpcInv, NEW f \in DOMAIN msg.layout.ptr, NEW v \in FieldValues
  PROVE  Written(setPointer(msg.body, msg.layout, f, v), msg.layout,
                 [last EXCEPT !.ptr = Given(@, f, <<v>>)])
<1> DEFINE l == msg.layout
           r == setPointer(msg.body, l, f, v)
           w == [last EXCEPT !.ptr = Given(@, f, <<v>>)]
           p == Given(last.ptr, f, <<v>>)
<1>1. /\ l \in Layouts /\ Body(msg.body, l)
      /\ last = [data |-> last.data, ptr |-> last.ptr]
      /\ last.data \in [DOMAIN l.data -> Nat] /\ last.ptr \in [DOMAIN l.ptr -> Pointers]
      /\ \A g \in DOMAIN l.data : getDataField(msg.body, l.data[g]) = last.data[g]
      /\ \A g \in DOMAIN l.ptr : getPointer(msg.body, l, g) = last.ptr[g]
  BY DEF RpcInv, Written
<1>2. w = [data |-> last.data, ptr |-> p]
  BY <1>1
<1>3. p = [g \in DOMAIN l.ptr |-> IF g = f THEN <<v>>
             ELSE IF f \in DOMAIN l.arm /\ g \in DOMAIN l.arm THEN None ELSE last.ptr[g]]
  BY <1>1 DEF Given
<1>4. <<v>> \in Pointers /\ None \in Pointers
  BY DEF Pointers
<1>5. GoodLayout(l)
  BY <1>1, LayoutsGood
<1> HIDE DEF l
<1>6. /\ Body(r, l)
      /\ \A g \in DOMAIN l.data :
           getDataField(r, l.data[g]) = getDataField(msg.body, l.data[g])
      /\ \A g \in DOMAIN l.ptr : getPointer(r, l, g)
           = IF g = f THEN <<v>>
             ELSE IF f \in DOMAIN l.arm /\ g \in DOMAIN l.arm THEN None
             ELSE getPointer(msg.body, l, g)
  BY <1>1, <1>5, SetPointerReads DEF l
<1> HIDE DEF r, p, w
<1>7. w.data = last.data /\ w.ptr = p
  BY <1>2
<1>8. p \in [DOMAIN l.ptr -> Pointers]
  BY <1>1, <1>3, <1>4
<1>9. \A g \in DOMAIN l.ptr : getPointer(r, l, g) = p[g]
  BY <1>1, <1>3, <1>6
<1>10. w = [data |-> w.data, ptr |-> w.ptr]
  BY <1>2, <1>7
<1>11. Written(r, l, w)
  BY <1>1, <1>6, <1>7, <1>8, <1>9, <1>10 DEF Written
<1> QED
  BY <1>11 DEF r, l, w

\* Every field of a struct reads what its own accessor wrote last, for every
\* layout of tunnelrpc.capnp.h and any number of accessor calls on values of
\* any set.
THEOREM FieldsIndependentThm == RpcSpec => []FieldsIndependent
<1>1. RpcInit => RpcInv
  <2> SUFFICES ASSUME RpcInit PROVE RpcInv
    OBVIOUS
  <2>1. PICK l \in Layouts : msg = [layout |-> l, body |-> New(l)]
    BY DEF RpcInit
  <2>2. msg.layout = l /\ msg.body = New(l)
    BY <2>1
  <2>3. last = [data |-> [f \in DOMAIN l.data |-> 0], ptr |-> [f \in DOMAIN l.ptr |-> None]]
    BY <2>2 DEF RpcInit
  <2>4. /\ last.data = [f \in DOMAIN l.data |-> 0] /\ last.ptr = [f \in DOMAIN l.ptr |-> None]
        /\ last = [data |-> last.data, ptr |-> last.ptr]
    BY <2>3
  <2>5. None \in Pointers
    BY DEF Pointers
  <2>6. Written(New(l), l, last)
    BY <2>4, <2>5, LayoutsGood, NewReads DEF Written
  <2> QED
    BY <2>1, <2>2, <2>5, <2>6 DEF RpcInv, RpcInit
<1>2. RpcInv /\ [RpcNext]_rpcVars => RpcInv'
  <2> SUFFICES ASSUME RpcInv, [RpcNext]_rpcVars PROVE RpcInv'
    OBVIOUS
  <2> DEFINE l == msg.layout
  <2>1. /\ msg = [layout |-> l, body |-> msg.body] /\ l \in Layouts
        /\ Body(msg.body, l) /\ GoodLayout(l)
        /\ last = [data |-> last.data, ptr |-> last.ptr]
        /\ last.data \in [DOMAIN l.data -> Nat] /\ last.ptr \in [DOMAIN l.ptr -> Pointers]
        /\ \A g \in DOMAIN l.data : getDataField(msg.body, l.data[g]) = last.data[g]
        /\ \A g \in DOMAIN l.ptr : getPointer(msg.body, l, g) = last.ptr[g]
        /\ orphan \in Pointers
    BY LayoutsGood DEF RpcInv, Written
  \* A call that leaves the struct r behind.
  <2>2. ASSUME NEW r, NEW w, msg' = [msg EXCEPT !.body = r], last' = w, Written(r, l, w),
               orphan' \in Pointers
        PROVE  RpcInv'
    <3>1. msg' = [layout |-> l, body |-> r] /\ msg'.layout = l /\ msg'.body = r
      BY <2>1, <2>2
    <3> QED
      BY <2>1, <2>2, <3>1 DEF RpcInv
  <2>3. CASE SetData
    <3>1. PICK f \in DOMAIN l.data, v \in FieldValues :
            /\ msg' = [msg EXCEPT !.body = setDataField(msg.body, l.data[f], v)]
            /\ last' = [last EXCEPT !.data[f] = v]
            /\ orphan' = orphan
      BY <2>3 DEF SetData
    <3> DEFINE r == setDataField(msg.body, l.data[f], v)
               w == [last EXCEPT !.data[f] = v]
               d == [last.data EXCEPT ![f] = v]
    <3>2. w = [data |-> d, ptr |-> last.ptr]
      BY <2>1
    <3>3. /\ Body(r, l)
          /\ \A g \in DOMAIN l.data : getDataField(r, l.data[g])
               = IF g = f THEN v ELSE getDataField(msg.body, l.data[g])
          /\ \A g \in DOMAIN l.ptr : getPointer(r, l, g) = getPointer(msg.body, l, g)
      <4>1. GoodLayout(l) /\ Body(msg.body, l) /\ f \in DOMAIN l.data
        BY <2>1
      <4> HIDE DEF l
      <4>2. OnlyData(msg.body, l, f, v, r)
        BY <4>1, SetDataReads, Zenon
      <4> QED
        BY <4>2, Zenon DEF OnlyData
    <3>4. v \in Nat
      BY AccessAssumption
    <3>5. d \in [DOMAIN l.data -> Nat] /\ \A g \in DOMAIN l.data : d[g] = IF g = f THEN v ELSE last.data[g]
      BY <2>1, <3>4
    <3> HIDE DEF r, w, d, l
    <3>6. w.data = d /\ w.ptr = last.ptr
      BY <3>2
    <3>7. \A g \in DOMAIN l.data : getDataField(r, l.data[g]) = w.data[g]
      BY <2>1, <3>3, <3>5, <3>6
    <3>8. Written(r, l, w)
      BY <2>1, <3>2, <3>3, <3>5, <3>6, <3>7 DEF Written
    <3>9. msg' = [msg EXCEPT !.body = r] /\ last' = w
      BY <3>1 DEF r, w
    <3> QED
      BY <2>1, <2>2, <3>1, <3>8, <3>9
  <2>4. CASE SetPointer
    <3>1. PICK f \in DOMAIN l.ptr, v \in FieldValues :
            /\ msg' = [msg EXCEPT !.body = setPointer(msg.body, l, f, v)]
            /\ last' = [last EXCEPT !.ptr = Given(@, f, <<v>>)]
            /\ orphan' = orphan
      BY <2>4 DEF SetPointer
    <3>2. Written(setPointer(msg.body, l, f, v), l, [last EXCEPT !.ptr = Given(@, f, <<v>>)])
      BY GivenWritten
    <3> QED
      BY <2>1, <2>2, <3>1, <3>2
  <2>5. CASE Disown
    <3>1. PICK f \in DOMAIN l.ptr :
            /\ isArm(msg.body, l, f)
            /\ orphan' = getPointer(msg.body, l, f)
            /\ msg' = [msg EXCEPT !.body = disown(msg.body, l, f)]
            /\ last' = [last EXCEPT !.ptr[f] = None]
      BY <2>5 DEF Disown
    <3> DEFINE r == disown(msg.body, l, f)
               w == [last EXCEPT !.ptr[f] = None]
               p == [last.ptr EXCEPT ![f] = None]
    <3>2. w = [data |-> last.data, ptr |-> p]
      BY <2>1
    <3>3. /\ Body(r, l)
          /\ \A g \in DOMAIN l.data :
               getDataField(r, l.data[g]) = getDataField(msg.body, l.data[g])
          /\ \A g \in DOMAIN l.ptr :
               getPointer(r, l, g) = IF g = f THEN None ELSE getPointer(msg.body, l, g)
      <4>1. isArm(msg.body, l, f)
        BY <3>1
      <4> HIDE DEF l
      <4> QED
        BY <2>1, <4>1, DisownReads
    <3>4. p \in [DOMAIN l.ptr -> Pointers] /\ \A g \in DOMAIN l.ptr : p[g] = IF g = f THEN None ELSE last.ptr[g]
      BY <2>1 DEF Pointers
    <3> HIDE DEF r, w, p, l
    <3>5. w.data = last.data /\ w.ptr = p
      BY <3>2
    <3>6. \A g \in DOMAIN l.ptr : getPointer(r, l, g) = w.ptr[g]
      BY <2>1, <3>3, <3>4, <3>5
    <3>7. Written(r, l, w)
      BY <2>1, <3>2, <3>3, <3>4, <3>5, <3>6 DEF Written
    <3>8. msg' = [msg EXCEPT !.body = r] /\ last' = w
      BY <3>1 DEF r, w
    <3>9. orphan' \in Pointers
      BY <2>1, <3>1
    <3> QED
      BY <2>2, <3>7, <3>8, <3>9
  <2>6. CASE Adopt
    <3>1. PICK f \in DOMAIN l.ptr :
            /\ orphan # None
            /\ msg' = [msg EXCEPT !.body = setPointer(msg.body, l, f, orphan[1])]
            /\ last' = [last EXCEPT !.ptr = Given(@, f, orphan)]
            /\ orphan' = None
      BY <2>6 DEF Adopt
    <3>2. PICK v \in FieldValues : orphan = <<v>>
      BY <2>1, <3>1 DEF Pointers
    <3>3. orphan[1] = v /\ None \in Pointers
      BY <3>2 DEF Pointers
    <3>4. Written(setPointer(msg.body, l, f, v), l, [last EXCEPT !.ptr = Given(@, f, <<v>>)])
      BY GivenWritten
    <3>5. /\ msg' = [msg EXCEPT !.body = setPointer(msg.body, l, f, v)]
          /\ last' = [last EXCEPT !.ptr = Given(@, f, <<v>>)]
          /\ orphan' \in Pointers
      BY <3>1, <3>2, <3>3
    <3> QED
      BY <2>2, <3>4, <3>5
  <2>7. CASE InitResult
    <3> DEFINE r == initResult(msg.body)
               p == [g \in DOMAIN last.ptr |-> None]
               w == [last EXCEPT !.ptr = p]
    <3>1. /\ l = ConnectionResponse /\ msg' = [msg EXCEPT !.body = r]
          /\ last' = w /\ orphan' = orphan
      BY <2>7 DEF InitResult
    <3>2. w = [data |-> last.data, ptr |-> p] /\ p \in [DOMAIN l.ptr -> Pointers]
          /\ \A g \in DOMAIN l.ptr : p[g] = None
      BY <2>1 DEF Pointers
    <3>3. /\ Body(r, l)
          /\ \A g \in DOMAIN l.ptr : getPointer(r, l, g) = None
      BY <2>1, <3>1, InitResultReads
    <3>4. DOMAIN l.data = {}
      BY <3>1 DEF ConnectionResponse
    <3> HIDE DEF r, w, p, l
    <3>5. w.data = last.data /\ w.ptr = p
      BY <3>2
    <3>6. Written(r, l, w)
      BY <2>1, <3>2, <3>3, <3>4, <3>5 DEF Written
    <3> QED
      BY <2>1, <2>2, <3>1, <3>6
  <2>8. CASE UNCHANGED rpcVars
    BY <2>8 DEF rpcVars, RpcInv
  <2> QED
    BY <2>3, <2>4, <2>5, <2>6, <2>7, <2>8 DEF RpcNext
<1>3. RpcInv => FieldsIndependent
  BY DEF RpcInv, Written, FieldsIndependent
<1> QED
  BY <1>1, <1>2, <1>3, PTL DEF RpcSpec

(***************************************************************************)
(* The decoders, for texts of any length.                                  *)
(***************************************************************************)

\* A nonempty set of numbers has a least one.
LEMMA NatMin ==
  ASSUME NEW T, T \subseteq Nat, T # {}
  PROVE  \E m \in T : \A k \in T : m <= k
<1> DEFINE R == OpToRel(<, Nat)
<1>1. IsWellFoundedOn(R, Nat)
  BY NatLessThanWellFounded, Zenon
<1>2. PICK m \in T : \A k \in T : ~(<<k, m>> \in R)
  <2> HIDE DEF R
  <2> QED
    BY <1>1, WFMin
<1>3. \A k \in T : ~(k < m)
  <2> SUFFICES ASSUME NEW k \in T, k < m
               PROVE  FALSE
    OBVIOUS
  <2>1. <<k, m>> \in {ss \in Nat \X Nat : ss[1] < ss[2]}
    OBVIOUS
  <2>2. <<k, m>> \in R
    BY <2>1 DEF OpToRel
  <2> QED
    BY <2>2, <1>2
<1> QED
  BY <1>3

\* A set that has 0 and with every number the next has them all.
LEMMA NatInd ==
  ASSUME NEW T, 0 \in T, \A n \in Nat : n \in T => n + 1 \in T
  PROVE  \A n \in Nat : n \in T
<1> SUFFICES ASSUME Nat \ T # {}
             PROVE  FALSE
  OBVIOUS
<1>1. PICK m \in Nat \ T : \A k \in Nat \ T : m <= k
  BY NatMin
<1>2. m # 0 /\ m - 1 \in Nat /\ m - 1 \in T
  BY <1>1
<1> QED
  BY <1>2

\* Induction downwards from n, on all that lies above.
LEMMA Downward ==
  ASSUME NEW T, NEW n \in Nat, \A i \in 0..n : (\A j \in i + 1..n : j \in T) => i \in T
  PROVE  \A i \in 0..n : i \in T
<1> DEFINE U == {m \in Nat : \A i \in 0..n : i >= n - m => i \in T}
<1>1. 0 \in U
  OBVIOUS
<1>2. ASSUME NEW m \in Nat, m \in U PROVE m + 1 \in U
  <2>1. ASSUME NEW i \in 0..n, i >= n - (m + 1) PROVE i \in T
    <3>1. \A j \in i + 1..n : j \in 0..n /\ j >= n - m
      BY <2>1
    <3>2. \A j \in i + 1..n : j \in T
      BY <1>2, <3>1
    <3> QED
      BY <3>2
  <2> QED
    BY <2>1
<1> HIDE DEF U
<1>3. \A m \in Nat : m \in U
  BY <1>1, <1>2, NatInd
<1> QED
  BY <1>3 DEF U

\* A byte is a number, which hides how many there are.
LEMMA OctetNat == \A c \in Octet : c \in Nat
BY DEF Octet

\* A 16-bit number and its two bytes.
LEMMA TwoBytes ==
  ASSUME NEW a \in Octet, NEW b \in Octet
  PROVE  (a * 256 + b) \div 256 = a /\ (a * 256 + b) % 256 = b
BY DEF Octet

\* A sequence of four, written out.
LEMMA FourOf ==
  ASSUME NEW S, NEW t \in Seq(S), Len(t) = 4
  PROVE  t = <<t[1], t[2], t[3], t[4]>>
OBVIOUS

\* A frame that was decoded encodes to the datagram it came in.
LEMMA FrameExact ==
  ASSUME NEW s \in Seq(Octet), decodable(s)
  PROVE  encode(decode(s)) = s
<1> DEFINE head == SubSeq(s, 1, 4)
           body == SubSeq(s, 5, Len(s))
<1>1. Len(s) \in Nat /\ Len(s) >= 4 /\ s[1] = kFrameVersion
      /\ s[1] \in Octet /\ s[2] \in Octet /\ s[3] \in Octet /\ s[4] \in Octet
  BY DEF decodable, kFrameHeader
<1>2. (s[3] * 256 + s[4]) \div 256 = s[3] /\ (s[3] * 256 + s[4]) % 256 = s[4]
  BY <1>1, TwoBytes
<1>3. encode(decode(s)) = <<s[1], s[2], s[3], s[4]>> \o body
  BY <1>1, <1>2 DEF encode, decode, kFrameHeader
<1>4. head = <<s[1], s[2], s[3], s[4]>>
  <2>1. \A i \in 1..4 : s[i] \in Octet
    BY <1>1
  <2>2. /\ head \in Seq(Octet)
        /\ Len(head) = IF 1 <= 4 THEN 4 - 1 + 1 ELSE 0
        /\ \A i \in 1..4 - 1 + 1 : head[i] = s[1 + i - 1]
    <3> HIDE DEF head
    <3> QED
      BY <2>1, SubSeqProperties DEF head
  <2> HIDE DEF head
  <2>3. Len(head) = 4 /\ head[1] = s[1] /\ head[2] = s[2] /\ head[3] = s[3] /\ head[4] = s[4]
    BY <2>2
  <2> QED
    BY <2>2, <2>3, FourOf, Zenon
<1>5. head \o body = s
  <2>1. 1 \in 1..Len(s) + 1 /\ 4 \in 1 - 1..Len(s) /\ Len(s) \in 4..Len(s) /\ 4 + 1 = 5
    BY <1>1
  <2>2. head \o SubSeq(s, 4 + 1, Len(s)) = SubSeq(s, 1, Len(s))
    BY <2>1, ConcatAdjacentSubSeq, Zenon
  <2>3. SubSeq(s, 1, Len(s)) = s
    BY SubSeqFull, Zenon
  <2> QED
    BY <2>1, <2>2, <2>3, Zenon
<1> QED
  BY <1>3, <1>4, <1>5, Zenon

(***************************************************************************)
(* The prefix length.                                                      *)
(***************************************************************************)

Digit(c) == c \in 48..57

\* One turn of the loop, and one of the reference.
Turn(plen, c) ==
  IF plen < 0 \/ ~Digit(c) THEN -1
  ELSE IF plen * 10 + (c - 48) > 128 THEN -1 ELSE plen * 10 + (c - 48)
Turns(s, n, f) == f = [k \in 0..n |-> IF k = 0 THEN 0 ELSE Turn(f[k - 1], s[k])]
Decimals(s, n, f) ==
  f = [k \in 0..n |-> IF k = 0 THEN 0 ELSE f[k - 1] * 10 + (s[k] - 48)]

\* There are such functions, so the definitions find them.
LEMMA TurnsExist ==
  ASSUME NEW s
  PROVE  \A n \in Nat : \E f : Turns(s, n, f)
<1> DEFINE T == {n \in Nat : \E f : Turns(s, n, f)}
           Val(k, f) == IF k = 0 THEN 0 ELSE Turn(f[k - 1], s[k])
<1>1. 0 \in T
  <2> DEFINE f == [k \in 0..0 |-> Val(0, <<>>)]
  <2>1. \A k \in 0..0 : f[k] = Val(k, f)
    OBVIOUS
  <2>2. f = [k \in 0..0 |-> Val(k, f)]
    BY <2>1
  <2>3. Turns(s, 0, f)
    BY <2>2, Zenon DEF Turns
  <2> QED
    BY <2>3
<1>2. ASSUME NEW n \in Nat, n \in T PROVE n + 1 \in T
  <2>1. PICK f : Turns(s, n, f)
    BY <1>2
  <2>2. \A k \in 0..n : f[k] = Val(k, f)
    BY <2>1, Zenon DEF Turns
  <2> DEFINE g == [k \in 0..n + 1 |-> IF k = n + 1 THEN Val(n + 1, f) ELSE f[k]]
  <2>3. ASSUME NEW k \in 0..n + 1
        PROVE  g[k] = Val(k, g)
    <3>1. k # 0 => g[k - 1] = f[k - 1]
      OBVIOUS
    <3>2. Val(k, g) = Val(k, f)
      <4> HIDE DEF g
      <4> QED
        BY <3>1, Zenon
    <3>3. k # n + 1 => k \in 0..n /\ g[k] = f[k]
      OBVIOUS
    <3>4. k = n + 1 => g[k] = Val(n + 1, f)
      OBVIOUS
    <3> HIDE DEF Val, g
    <3> QED
      BY <2>2, <3>2, <3>3, <3>4
  <2>4. g = [k \in 0..n + 1 |-> g[k]]
    OBVIOUS
  <2> HIDE DEF g
  <2>5. g = [k \in 0..n + 1 |-> Val(k, g)]
    <3> HIDE DEF Val
    <3> QED
      BY <2>3, <2>4
  <2>6. Turns(s, n + 1, g)
    BY <2>5, Zenon DEF Turns
  <2> QED
    BY <2>6
<1> HIDE DEF T
<1>3. \A n \in Nat : n \in T
  BY <1>1, <1>2, NatInd
<1> QED
  BY <1>3 DEF T

\* The same for the reference.
LEMMA DecimalsExist ==
  ASSUME NEW s
  PROVE  \A n \in Nat : \E f : Decimals(s, n, f)
<1> DEFINE T == {n \in Nat : \E f : Decimals(s, n, f)}
           Val(k, f) == IF k = 0 THEN 0 ELSE f[k - 1] * 10 + (s[k] - 48)
<1>1. 0 \in T
  <2> DEFINE f == [k \in 0..0 |-> Val(0, <<>>)]
  <2>1. \A k \in 0..0 : f[k] = Val(k, f)
    OBVIOUS
  <2>2. f = [k \in 0..0 |-> Val(k, f)]
    BY <2>1
  <2>3. Decimals(s, 0, f)
    BY <2>2, Zenon DEF Decimals
  <2> QED
    BY <2>3
<1>2. ASSUME NEW n \in Nat, n \in T PROVE n + 1 \in T
  <2>1. PICK f : Decimals(s, n, f)
    BY <1>2
  <2>2. \A k \in 0..n : f[k] = Val(k, f)
    BY <2>1, Zenon DEF Decimals
  <2> DEFINE g == [k \in 0..n + 1 |-> IF k = n + 1 THEN Val(n + 1, f) ELSE f[k]]
  <2>3. ASSUME NEW k \in 0..n + 1
        PROVE  g[k] = Val(k, g)
    <3>1. k # 0 => g[k - 1] = f[k - 1]
      OBVIOUS
    <3>2. Val(k, g) = Val(k, f)
      <4> HIDE DEF g
      <4> QED
        BY <3>1, Zenon
    <3>3. k # n + 1 => k \in 0..n /\ g[k] = f[k]
      OBVIOUS
    <3>4. k = n + 1 => g[k] = Val(n + 1, f)
      OBVIOUS
    <3> HIDE DEF Val, g
    <3> QED
      BY <2>2, <3>2, <3>3, <3>4
  <2>4. g = [k \in 0..n + 1 |-> g[k]]
    OBVIOUS
  <2> HIDE DEF g
  <2>5. g = [k \in 0..n + 1 |-> Val(k, g)]
    <3> HIDE DEF Val
    <3> QED
      BY <2>3, <2>4
  <2>6. Decimals(s, n + 1, g)
    BY <2>5, Zenon DEF Decimals
  <2> QED
    BY <2>6
<1> HIDE DEF T
<1>3. \A n \in Nat : n \in T
  BY <1>1, <1>2, NatInd
<1> QED
  BY <1>3 DEF T

\* The prefix length is the decimal number, if it fits.
LEMMA PrefixExact ==
  ASSUME NEW s \in Seq(Octet), NEW f \in {"V4", "V6"}
  PROVE  ParsePrefix(f, s) = PrefixValue(f, s)
<1> DEFINE n == Len(s)
           loop == CHOOSE g : Turns(s, n, g)
           value == CHOOSE g : Decimals(s, n, g)
           top == max_prefix(f)
<1>1. n \in Nat /\ \A k \in 1..n : s[k] \in Octet
  OBVIOUS
<1>2. ParsePrefix(f, s) = IF loop[n] > top THEN -1 ELSE loop[n]
  BY Zenon DEF ParsePrefix, Turns, Turn, Digit
<1>3. PrefixValue(f, s) =
        IF (\A k \in 1..n : Digit(s[k])) /\ value[n] <= top THEN value[n] ELSE -1
  BY Zenon DEF PrefixValue, Decimals, Digit
<1>4. top = 32 \/ top = 128
  BY DEF max_prefix
<1> HIDE DEF n, top
<1>5. Turns(s, n, loop) /\ Decimals(s, n, value)
  <2>1. (\E g : Turns(s, n, g)) /\ (\E g : Decimals(s, n, g))
    BY <1>1, TurnsExist, DecimalsExist
  <2> QED
    BY <2>1, Zenon
<1> HIDE DEF loop, value
<1>6. /\ \A k \in 0..n : loop[k] = IF k = 0 THEN 0 ELSE Turn(loop[k - 1], s[k])
      /\ \A k \in 0..n : value[k] = IF k = 0 THEN 0 ELSE value[k - 1] * 10 + (s[k] - 48)
  BY <1>5, Zenon DEF Turns, Decimals
<1> DEFINE D(k) == \A i \in 1..k : Digit(s[i])
           P(k) == /\ value[k] \in Int
                   /\ D(k) => value[k] >= 0
                   /\ loop[k] = IF D(k) /\ value[k] <= 128 THEN value[k] ELSE -1
           T == {k \in Nat : k <= n => P(k)}
<1>7. P(0)
  BY <1>1, <1>6
<1>8. ASSUME NEW k \in Nat, k + 1 <= n, P(k) PROVE P(k + 1)
  <2>1. k + 1 \in 0..n /\ k + 1 # 0 /\ k + 1 - 1 = k /\ s[k + 1] \in Octet
    BY <1>1, <1>8
  <2>2. /\ loop[k + 1] = Turn(loop[k], s[k + 1])
        /\ value[k + 1] = value[k] * 10 + (s[k + 1] - 48)
    BY <1>6, <2>1
  <2>3. D(k + 1) <=> D(k) /\ Digit(s[k + 1])
    <3>1. 1..k + 1 = 1..k \cup {k + 1}
      OBVIOUS
    <3> QED
      BY <3>1, Zenon
  <2>4. s[k + 1] \in Nat /\ value[k] \in Int /\ value[k + 1] \in Int
    <3>1. s[k + 1] \in Nat
      BY <2>1, OctetNat
    <3>2. value[k] \in Int
      BY <1>8
    <3> QED
      BY <2>2, <3>1, <3>2
  <2> DEFINE d == D(k)
             e == D(k + 1)
             c == s[k + 1]
  <2>5. /\ e <=> d /\ Digit(c)
        /\ value[k] \in Int /\ (d => value[k] >= 0)
        /\ loop[k] = IF d /\ value[k] <= 128 THEN value[k] ELSE -1
    BY <1>8, <2>3
  <2> HIDE DEF d, e
  <2>6. CASE e
    <3>1. d /\ Digit(c)
      BY <2>5, <2>6
    <3>2. value[k + 1] >= 0 /\ value[k + 1] >= value[k] * 10
      <4>1. value[k] >= 0
        BY <2>5, <3>1
      <4>2. \A x \in Int, y \in 48..57 :
              x >= 0 => x * 10 + (y - 48) >= 0 /\ x * 10 + (y - 48) >= x * 10
        OBVIOUS
      <4> QED
        BY <2>2, <2>4, <3>1, <4>1, <4>2 DEF Digit
    <3>3. loop[k + 1] = IF value[k + 1] <= 128 THEN value[k + 1] ELSE -1
      BY <2>1, <2>2, <2>4, <2>5, <3>1, <3>2 DEF Turn
    <3> QED
      BY <2>4, <2>6, <3>2, <3>3 DEF e
  <2>7. CASE ~e
    <3>1. loop[k + 1] = -1
      BY <2>1, <2>2, <2>5, <2>7 DEF Turn
    <3> QED
      BY <2>4, <2>7, <3>1 DEF e
  <2> QED
    BY <2>6, <2>7
<1> HIDE DEF P
<1>9. 0 \in T /\ \A k \in Nat : k \in T => k + 1 \in T
  BY <1>1, <1>7, <1>8 DEF n
<1> HIDE DEF T
<1>10. \A k \in Nat : k \in T
  BY <1>9, NatInd
<1>11. P(n)
  BY <1>1, <1>10 DEF T, n
<1>12. /\ value[n] \in Int /\ (D(n) => value[n] >= 0)
       /\ loop[n] = IF D(n) /\ value[n] <= 128 THEN value[n] ELSE -1
  BY <1>11 DEF P
<1> HIDE DEF D
<1>13. ParsePrefix(f, s) = IF D(n) /\ value[n] <= top THEN value[n] ELSE -1
  BY <1>2, <1>4, <1>12
<1> QED
  BY <1>3, <1>13 DEF D

(***************************************************************************)
(* Base64.                                                                 *)
(***************************************************************************)

\* The sextets of the table, and that padding has none.
LEMMA TabRange == (\A c \in Octet : tab(c) \in -1..63) /\ tab(Pad) = -1
BY DEF tab, Octet, Pad

\* What a quartet of characters may be.
Four(a, b, c, d, final) ==
  /\ tab(a) >= 0 /\ tab(b) >= 0
  /\ \/ tab(c) >= 0 /\ tab(d) >= 0
     \/ final /\ d = Pad /\ (tab(c) >= 0 \/ c = Pad)

\* It is what the decoder checks place by place.
LEMMA QuartetIsFour ==
  ASSUME NEW q, NEW final \in BOOLEAN, \A k \in 1..4 : q[k] \in Octet
  PROVE  Quartet(q, final) <=> Four(q[1], q[2], q[3], q[4], final)
<1> DEFINE At(k) == IF q[k] = Pad THEN final /\ k >= 3
                    ELSE tab(q[k]) >= 0 /\ (k > 1 => q[k - 1] # Pad)
<1>1. Quartet(q, final) <=> At(1) /\ At(2) /\ At(3) /\ At(4)
  <2>1. 1..4 = {1, 2, 3, 4}
    OBVIOUS
  <2>2. Quartet(q, final) <=> \A k \in 1..4 : At(k)
    BY Zenon DEF Quartet
  <2> HIDE DEF At
  <2> QED
    BY <2>1, <2>2
<1>2. /\ tab(q[1]) \in Int /\ tab(q[2]) \in Int /\ tab(q[3]) \in Int /\ tab(q[4]) \in Int
      /\ \A k \in 1..4 : q[k] = Pad => ~(tab(q[k]) >= 0)
  <2>1. \A k \in 1..4 : tab(q[k]) \in -1..63
    BY TabRange
  <2> QED
    BY <2>1, TabRange
<1>3. (At(1) <=> tab(q[1]) >= 0) /\ (At(2) <=> tab(q[2]) >= 0 /\ q[1] # Pad)
  BY <1>2
<1>4. /\ At(3) <=> IF q[3] = Pad THEN final ELSE tab(q[3]) >= 0 /\ q[2] # Pad
      /\ At(4) <=> IF q[4] = Pad THEN final ELSE tab(q[4]) >= 0 /\ q[3] # Pad
  BY <1>2
<1> HIDE DEF At
<1> QED
  BY <1>1, <1>2, <1>3, <1>4 DEF Four

\* The loop over quartets, of which there are m, up to the nth.
Rounds(in, m, n, f) ==
  f = [k \in 0..n |->
         IF k = 0 THEN [ok |-> TRUE, out |-> <<>>]
         ELSE IF f[k - 1].ok /\ Quartet(SubSeq(in, 4 * k - 3, 4 * k), k = m)
         THEN [ok  |-> TRUE,
               out |-> f[k - 1].out \o QuartetBytes(SubSeq(in, 4 * k - 3, 4 * k))]
         ELSE [ok |-> FALSE, out |-> f[k - 1].out]]

\* There is such a function.
LEMMA RoundsExist ==
  ASSUME NEW in, NEW m
  PROVE  \A n \in Nat : \E f : Rounds(in, m, n, f)
<1> DEFINE T == {n \in Nat : \E f : Rounds(in, m, n, f)}
           Val(k, f) == IF k = 0 THEN [ok |-> TRUE, out |-> <<>>]
              ELSE IF f[k - 1].ok /\ Quartet(SubSeq(in, 4 * k - 3, 4 * k), k = m)
              THEN [ok  |-> TRUE,
                    out |-> f[k - 1].out \o QuartetBytes(SubSeq(in, 4 * k - 3, 4 * k))]
              ELSE [ok |-> FALSE, out |-> f[k - 1].out]
<1>1. 0 \in T
  <2> DEFINE f == [k \in 0..0 |-> Val(0, <<>>)]
  <2>1. \A k \in 0..0 : f[k] = Val(k, f)
    OBVIOUS
  <2>2. f = [k \in 0..0 |-> Val(k, f)]
    BY <2>1
  <2>3. Rounds(in, m, 0, f)
    BY <2>2, Zenon DEF Rounds
  <2> QED
    BY <2>3
<1>2. ASSUME NEW n \in Nat, n \in T PROVE n + 1 \in T
  <2>1. PICK f : Rounds(in, m, n, f)
    BY <1>2
  <2>2. \A k \in 0..n : f[k] = Val(k, f)
    BY <2>1, Zenon DEF Rounds
  <2> DEFINE g == [k \in 0..n + 1 |-> IF k = n + 1 THEN Val(n + 1, f) ELSE f[k]]
  <2>3. ASSUME NEW k \in 0..n + 1
        PROVE  g[k] = Val(k, g)
    <3>1. k # 0 => g[k - 1] = f[k - 1]
      OBVIOUS
    <3>2. Val(k, g) = Val(k, f)
      <4> HIDE DEF g
      <4> QED
        BY <3>1, Zenon
    <3>3. k # n + 1 => k \in 0..n /\ g[k] = f[k]
      OBVIOUS
    <3>4. k = n + 1 => g[k] = Val(n + 1, f)
      OBVIOUS
    <3> HIDE DEF Val, g
    <3> QED
      BY <2>2, <3>2, <3>3, <3>4
  <2>4. g = [k \in 0..n + 1 |-> g[k]]
    OBVIOUS
  <2> HIDE DEF g
  <2>5. g = [k \in 0..n + 1 |-> Val(k, g)]
    <3> HIDE DEF Val
    <3> QED
      BY <2>3, <2>4
  <2>6. Rounds(in, m, n + 1, g)
    BY <2>5, Zenon DEF Rounds
  <2> QED
    BY <2>6
<1> HIDE DEF T
<1>3. \A n \in Nat : n \in T
  BY <1>1, <1>2, NatInd
<1> QED
  BY <1>3 DEF T

\* All quartets are good exactly if the padding is at the end.
LEMMA PaddedFour ==
  ASSUME NEW in \in Seq(Octet), NEW n \in Nat, Len(in) = 4 * n
  PROVE  (\E p \in 0..2 : PaddedBy(in, p))
         <=> \A k \in 1..n : Four(in[4*k - 3], in[4*k - 2], in[4*k - 1], in[4*k], k = n)
<1>1. \A i \in 1..4 * n : in[i] \in Octet /\ tab(in[i]) \in Int
  <2>1. \A i \in 1..4 * n : in[i] \in Octet
    BY ElementOfSeq
  <2>2. \A i \in 1..4 * n : tab(in[i]) \in -1..63
    BY <2>1, TabRange
  <2>3. -1..63 \subseteq Int
    OBVIOUS
  <2> QED
    BY <2>1, <2>2, <2>3, Zenon
<1> DEFINE Char(i) == tab(in[i]) >= 0
           Q(k) == Four(in[4*k - 3], in[4*k - 2], in[4*k - 1], in[4*k], k = n)
           Full(k) == Char(4*k - 3) /\ Char(4*k - 2) /\ Char(4*k - 1) /\ Char(4*k)
<1>2. \A i \in 1..4 * n : in[i] = Pad => ~Char(i)
  BY TabRange
<1>3. \A p \in 0..2 : PaddedBy(in, p) <=>
        p <= 4 * n /\ \A i \in 1..4 * n : IF i > 4 * n - p THEN in[i] = Pad ELSE Char(i)
  BY DEF PaddedBy
<1>4. \A k \in 1..n :
        Q(k) <=> /\ Char(4*k - 3) /\ Char(4*k - 2)
                 /\ \/ Char(4*k - 1) /\ Char(4*k)
                    \/ k = n /\ in[4*k] = Pad /\ (Char(4*k - 1) \/ in[4*k - 1] = Pad)
  BY Zenon DEF Four
<1> HIDE DEF Char, Q
<1>5. ASSUME NEW p \in 0..2, PaddedBy(in, p), NEW k \in 1..n
      PROVE  Q(k)
  <2>1. \A i \in 1..4 * n : IF i > 4 * n - p THEN in[i] = Pad ELSE Char(i)
    BY <1>3, <1>5
  <2>2. /\ 4*k - 3 \in 1..4 * n /\ 4*k - 2 \in 1..4 * n
        /\ 4*k - 1 \in 1..4 * n /\ 4*k \in 1..4 * n
        /\ ~(4*k - 3 > 4 * n - p) /\ ~(4*k - 2 > 4 * n - p)
        /\ (k # n => ~(4*k - 1 > 4 * n - p) /\ ~(4*k > 4 * n - p))
        /\ (4*k - 1 > 4 * n - p => 4*k > 4 * n - p)
    OBVIOUS
  <2>3. /\ Char(4*k - 3) /\ Char(4*k - 2)
        /\ (IF 4*k - 1 > 4 * n - p THEN in[4*k - 1] = Pad ELSE Char(4*k - 1))
        /\ (IF 4*k > 4 * n - p THEN in[4*k] = Pad ELSE Char(4*k))
    BY <2>1, <2>2
  <2> QED
    BY <1>4, <2>2, <2>3, Zenon
<1>6. ASSUME \A k \in 1..n : Q(k)
      PROVE  \E p \in 0..2 : PaddedBy(in, p)
  <2>1. CASE n = 0
    <3>1. PaddedBy(in, 0)
      BY <1>3, <2>1
    <3> QED
      BY <3>1
  <2>2. CASE n # 0
    <3> DEFINE p == IF in[4*n - 1] = Pad THEN 2 ELSE IF in[4*n] = Pad THEN 1 ELSE 0
    <3>1. p \in 0..2 /\ p <= 4 * n
      BY <2>2
    <3>2. ASSUME NEW i \in 1..4 * n
          PROVE  IF i > 4 * n - p THEN in[i] = Pad ELSE Char(i)
      <4> DEFINE k == (i + 3) \div 4
      <4>1. /\ k \in 1..n
            /\ \/ i = 4*k - 3
               \/ i = 4*k - 2
               \/ i = 4*k - 1
               \/ i = 4*k
        OBVIOUS
      <4> HIDE DEF k
      <4>2. Q(k)
        BY <1>6, <4>1
      <4>3. /\ Char(4*k - 3) /\ Char(4*k - 2)
            /\ \/ Char(4*k - 1) /\ Char(4*k)
               \/ k = n /\ in[4*k] = Pad /\ (Char(4*k - 1) \/ in[4*k - 1] = Pad)
        BY <1>4, <4>1, <4>2
      <4>4. (in[4*n - 1] = Pad => ~Char(4*n - 1)) /\ (in[4*n] = Pad => ~Char(4*n))
        BY <1>2, <2>2
      <4>5. CASE k # n
        <5>1. ~(i > 4 * n - p) /\ Char(i)
          BY <4>1, <4>3, <4>5, <3>1
        <5> QED
          BY <5>1
      <4>6. CASE k = n
        <5>1. /\ Char(4*n - 3) /\ Char(4*n - 2)
              /\ \/ Char(4*n - 1) /\ Char(4*n)
                 \/ in[4*n] = Pad /\ (Char(4*n - 1) \/ in[4*n - 1] = Pad)
          BY <4>3, <4>6
        <5>2. i = 4*n - 3 \/ i = 4*n - 2 \/ i = 4*n - 1 \/ i = 4*n
          BY <4>1, <4>6
        <5>3. i = 4*n - 3 \/ i = 4*n - 2 => ~(i > 4 * n - p)
          BY <3>1
        <5>4. i = 4*n - 1 => (i > 4 * n - p <=> in[4*n - 1] = Pad)
          BY <2>2
        <5>5. i = 4*n => (i > 4 * n - p <=> in[4*n - 1] = Pad \/ in[4*n] = Pad)
          BY <2>2
        <5> HIDE DEF p
        <5> QED
          BY <4>4, <5>1, <5>2, <5>3, <5>4, <5>5
      <4> QED
        BY <4>5, <4>6
    <3>3. PaddedBy(in, p)
      <4> HIDE DEF p
      <4> QED
        BY <1>3, <3>1, <3>2
    <3> QED
      BY <3>1, <3>3
  <2> QED
    BY <2>1, <2>2
<1> QED
  BY <1>5, <1>6 DEF Q

\* A sextet, the six bits of it, and the numbers they are cut into.
Bits(v) == [i \in 1..6 |-> (v \div Sixth[i]) % 2]

LEMMA SextetBits ==
  ASSUME NEW v \in 0..63
  PROVE  LET b == Bits(v)
         IN  /\ v = 32 * b[1] + 16 * b[2] + 8 * b[3] + 4 * b[4] + 2 * b[5] + b[6]
             /\ v \div 16 = 2 * b[1] + b[2]
             /\ v % 16 = 8 * b[3] + 4 * b[4] + 2 * b[5] + b[6]
             /\ v \div 4 = 8 * b[1] + 4 * b[2] + 2 * b[3] + b[4]
             /\ v % 4 = 2 * b[5] + b[6]
             /\ \A i \in 1..6 : b[i] \in 0..1
<1> DEFINE b == Bits(v)
<1>1. /\ b[1] = (v \div 32) % 2 /\ b[2] = (v \div 16) % 2 /\ b[3] = (v \div 8) % 2
      /\ b[4] = (v \div 4) % 2 /\ b[5] = (v \div 2) % 2 /\ b[6] = v % 2
  BY DEF Sixth, Bits
<1>2. 1..6 = {1, 2, 3, 4, 5, 6}
  OBVIOUS
<1> HIDE DEF b
<1>3. v = 32 * b[1] + 16 * b[2] + 8 * b[3] + 4 * b[4] + 2 * b[5] + b[6]
  BY <1>1
<1>4. v \div 16 = 2 * b[1] + b[2] /\ v \div 4 = 8 * b[1] + 4 * b[2] + 2 * b[3] + b[4]
  BY <1>1
<1>5. v % 16 = 8 * b[3] + 4 * b[4] + 2 * b[5] + b[6] /\ v % 4 = 2 * b[5] + b[6]
  BY <1>1
<1>6. \A i \in 1..6 : b[i] \in 0..1
  BY <1>1, <1>2
<1> QED
  BY <1>3, <1>4, <1>5, <1>6 DEF b

\* The bits of a text, by the character they are in.
LEMMA BitPlace ==
  ASSUME NEW in, NEW c \in Nat, NEW t \in 0..5
  PROVE  BitOf(in, 6 * c + t) = Bits(tab(in[c + 1]))[t + 1]
<1>1. (6 * c + t) \div 6 = c /\ (6 * c + t) % 6 = t /\ t + 1 \in 1..6
  OBVIOUS
<1>2. BitOf(in, 6 * c + t) = (tab(in[c + 1]) \div Sixth[t + 1]) % 2
  BY <1>1, Zenon DEF BitOf
<1> QED
  BY <1>1, <1>2, Zenon DEF Bits

\* The first byte of a quartet, from its first two sextets.
LEMMA FirstByte ==
  ASSUME NEW in, NEW m \in Nat, NEW v \in 0..63, NEW u \in 0..63,
         v = tab(in[4 * m + 1]), u = tab(in[4 * m + 2])
  PROVE  ByteOf(in, 3 * m + 1) = v * 4 + (u \div 16)
<1> DEFINE a == Bits(v)
           b == Bits(u)
           x(t) == BitOf(in, 8 * ((3 * m + 1) - 1) + t)
<1>1. /\ 8 * ((3 * m + 1) - 1) + 0 = 6 * (4 * m) + 0
      /\ 8 * ((3 * m + 1) - 1) + 1 = 6 * (4 * m) + 1
      /\ 8 * ((3 * m + 1) - 1) + 2 = 6 * (4 * m) + 2
      /\ 8 * ((3 * m + 1) - 1) + 3 = 6 * (4 * m) + 3
      /\ 8 * ((3 * m + 1) - 1) + 4 = 6 * (4 * m) + 4
      /\ 8 * ((3 * m + 1) - 1) + 5 = 6 * (4 * m) + 5
      /\ 8 * ((3 * m + 1) - 1) + 6 = 6 * (4 * m + 1) + 0
      /\ 8 * ((3 * m + 1) - 1) + 7 = 6 * (4 * m + 1) + 1
  OBVIOUS
<1>2. /\ \A t \in 0..5 : BitOf(in, 6 * (4 * m) + t) = a[t + 1]
      /\ \A t \in 0..5 : BitOf(in, 6 * (4 * m + 1) + t) = b[t + 1]
  <2>1. 4 * m \in Nat /\ 4 * m + 1 \in Nat
        /\ (4 * m) + 1 = 4 * m + 1 /\ (4 * m + 1) + 1 = 4 * m + 2
    OBVIOUS
  <2>2. \A t \in 0..5 : BitOf(in, 6 * (4 * m) + t) = Bits(tab(in[(4 * m) + 1]))[t + 1]
    BY <2>1, BitPlace, Zenon
  <2>3. \A t \in 0..5 : BitOf(in, 6 * (4 * m + 1) + t) = Bits(tab(in[(4 * m + 1) + 1]))[t + 1]
    BY <2>1, BitPlace, Zenon
  <2>4. tab(in[(4 * m) + 1]) = v /\ tab(in[(4 * m + 1) + 1]) = u
    BY <2>1, Zenon
  <2> QED
    BY <2>2, <2>3, <2>4, Zenon
<1> HIDE DEF a, b
<1>3. /\ x(0) = a[1] /\ x(1) = a[2] /\ x(2) = a[3] /\ x(3) = a[4]
      /\ x(4) = a[5] /\ x(5) = a[6] /\ x(6) = b[1] /\ x(7) = b[2]
  <2>1. 0..5 = {0, 1, 2, 3, 4, 5}
    OBVIOUS
  <2> QED
    BY <1>1, <1>2, <2>1
<1>4. ByteOf(in, 3 * m + 1) =
        128 * x(0) + 64 * x(1) + 32 * x(2) + 16 * x(3)
        + 8 * x(4) + 4 * x(5) + 2 * x(6) + x(7)
  BY DEF ByteOf
<1> HIDE DEF x
<1>5. \A i \in 1..6 : a[i] \in 0..1 /\ b[i] \in 0..1
  BY SextetBits DEF a, b
<1>6. /\ a[1] \in Int /\ a[2] \in Int /\ a[3] \in Int
      /\ a[4] \in Int /\ a[5] \in Int /\ a[6] \in Int
      /\ b[1] \in Int /\ b[2] \in Int /\ b[3] \in Int
      /\ b[4] \in Int /\ b[5] \in Int /\ b[6] \in Int
  BY <1>5
<1>7. /\ v = 32 * a[1] + 16 * a[2] + 8 * a[3] + 4 * a[4] + 2 * a[5] + a[6]
      /\ u \div 16 = 2 * b[1] + b[2]
  BY SextetBits DEF a, b
<1> QED
  BY <1>3, <1>4, <1>6, <1>7

\* The second, from the next two.
LEMMA SecondByte ==
  ASSUME NEW in, NEW m \in Nat, NEW v \in 0..63, NEW u \in 0..63,
         v = tab(in[4 * m + 2]), u = tab(in[4 * m + 3])
  PROVE  ByteOf(in, 3 * m + 2) = (v % 16) * 16 + (u \div 4)
<1> DEFINE a == Bits(v)
           b == Bits(u)
           x(t) == BitOf(in, 8 * ((3 * m + 2) - 1) + t)
<1>1. /\ 8 * ((3 * m + 2) - 1) + 0 = 6 * (4 * m + 1) + 2
      /\ 8 * ((3 * m + 2) - 1) + 1 = 6 * (4 * m + 1) + 3
      /\ 8 * ((3 * m + 2) - 1) + 2 = 6 * (4 * m + 1) + 4
      /\ 8 * ((3 * m + 2) - 1) + 3 = 6 * (4 * m + 1) + 5
      /\ 8 * ((3 * m + 2) - 1) + 4 = 6 * (4 * m + 2) + 0
      /\ 8 * ((3 * m + 2) - 1) + 5 = 6 * (4 * m + 2) + 1
      /\ 8 * ((3 * m + 2) - 1) + 6 = 6 * (4 * m + 2) + 2
      /\ 8 * ((3 * m + 2) - 1) + 7 = 6 * (4 * m + 2) + 3
  OBVIOUS
<1>2. /\ \A t \in 0..5 : BitOf(in, 6 * (4 * m + 1) + t) = a[t + 1]
      /\ \A t \in 0..5 : BitOf(in, 6 * (4 * m + 2) + t) = b[t + 1]
  <2>1. 4 * m + 1 \in Nat /\ 4 * m + 2 \in Nat
        /\ (4 * m + 1) + 1 = 4 * m + 2 /\ (4 * m + 2) + 1 = 4 * m + 3
    OBVIOUS
  <2>2. \A t \in 0..5 : BitOf(in, 6 * (4 * m + 1) + t) = Bits(tab(in[(4 * m + 1) + 1]))[t + 1]
    BY <2>1, BitPlace, Zenon
  <2>3. \A t \in 0..5 : BitOf(in, 6 * (4 * m + 2) + t) = Bits(tab(in[(4 * m + 2) + 1]))[t + 1]
    BY <2>1, BitPlace, Zenon
  <2>4. tab(in[(4 * m + 1) + 1]) = v /\ tab(in[(4 * m + 2) + 1]) = u
    BY <2>1, Zenon
  <2> QED
    BY <2>2, <2>3, <2>4, Zenon
<1> HIDE DEF a, b
<1>3. /\ x(0) = a[3] /\ x(1) = a[4] /\ x(2) = a[5] /\ x(3) = a[6]
      /\ x(4) = b[1] /\ x(5) = b[2] /\ x(6) = b[3] /\ x(7) = b[4]
  <2>1. 0..5 = {0, 1, 2, 3, 4, 5}
    OBVIOUS
  <2> QED
    BY <1>1, <1>2, <2>1
<1>4. ByteOf(in, 3 * m + 2) =
        128 * x(0) + 64 * x(1) + 32 * x(2) + 16 * x(3)
        + 8 * x(4) + 4 * x(5) + 2 * x(6) + x(7)
  BY DEF ByteOf
<1> HIDE DEF x
<1>5. \A i \in 1..6 : a[i] \in 0..1 /\ b[i] \in 0..1
  BY SextetBits DEF a, b
<1>6. /\ a[1] \in Int /\ a[2] \in Int /\ a[3] \in Int
      /\ a[4] \in Int /\ a[5] \in Int /\ a[6] \in Int
      /\ b[1] \in Int /\ b[2] \in Int /\ b[3] \in Int
      /\ b[4] \in Int /\ b[5] \in Int /\ b[6] \in Int
  BY <1>5
<1>7. /\ v % 16 = 8 * a[3] + 4 * a[4] + 2 * a[5] + a[6]
      /\ u \div 4 = 8 * b[1] + 4 * b[2] + 2 * b[3] + b[4]
  BY SextetBits DEF a, b
<1> QED
  BY <1>3, <1>4, <1>6, <1>7

\* And the third.
LEMMA ThirdByte ==
  ASSUME NEW in, NEW m \in Nat, NEW v \in 0..63, NEW u \in 0..63,
         v = tab(in[4 * m + 3]), u = tab(in[4 * m + 4])
  PROVE  ByteOf(in, 3 * m + 3) = (v % 4) * 64 + u
<1> DEFINE a == Bits(v)
           b == Bits(u)
           x(t) == BitOf(in, 8 * ((3 * m + 3) - 1) + t)
<1>1. /\ 8 * ((3 * m + 3) - 1) + 0 = 6 * (4 * m + 2) + 4
      /\ 8 * ((3 * m + 3) - 1) + 1 = 6 * (4 * m + 2) + 5
      /\ 8 * ((3 * m + 3) - 1) + 2 = 6 * (4 * m + 3) + 0
      /\ 8 * ((3 * m + 3) - 1) + 3 = 6 * (4 * m + 3) + 1
      /\ 8 * ((3 * m + 3) - 1) + 4 = 6 * (4 * m + 3) + 2
      /\ 8 * ((3 * m + 3) - 1) + 5 = 6 * (4 * m + 3) + 3
      /\ 8 * ((3 * m + 3) - 1) + 6 = 6 * (4 * m + 3) + 4
      /\ 8 * ((3 * m + 3) - 1) + 7 = 6 * (4 * m + 3) + 5
  OBVIOUS
<1>2. /\ \A t \in 0..5 : BitOf(in, 6 * (4 * m + 2) + t) = a[t + 1]
      /\ \A t \in 0..5 : BitOf(in, 6 * (4 * m + 3) + t) = b[t + 1]
  <2>1. 4 * m + 2 \in Nat /\ 4 * m + 3 \in Nat
        /\ (4 * m + 2) + 1 = 4 * m + 3 /\ (4 * m + 3) + 1 = 4 * m + 4
    OBVIOUS
  <2>2. \A t \in 0..5 : BitOf(in, 6 * (4 * m + 2) + t) = Bits(tab(in[(4 * m + 2) + 1]))[t + 1]
    BY <2>1, BitPlace, Zenon
  <2>3. \A t \in 0..5 : BitOf(in, 6 * (4 * m + 3) + t) = Bits(tab(in[(4 * m + 3) + 1]))[t + 1]
    BY <2>1, BitPlace, Zenon
  <2>4. tab(in[(4 * m + 2) + 1]) = v /\ tab(in[(4 * m + 3) + 1]) = u
    BY <2>1, Zenon
  <2> QED
    BY <2>2, <2>3, <2>4, Zenon
<1> HIDE DEF a, b
<1>3. /\ x(0) = a[5] /\ x(1) = a[6] /\ x(2) = b[1] /\ x(3) = b[2]
      /\ x(4) = b[3] /\ x(5) = b[4] /\ x(6) = b[5] /\ x(7) = b[6]
  <2>1. 0..5 = {0, 1, 2, 3, 4, 5}
    OBVIOUS
  <2> QED
    BY <1>1, <1>2, <2>1
<1>4. ByteOf(in, 3 * m + 3) =
        128 * x(0) + 64 * x(1) + 32 * x(2) + 16 * x(3)
        + 8 * x(4) + 4 * x(5) + 2 * x(6) + x(7)
  BY DEF ByteOf
<1> HIDE DEF x
<1>5. \A i \in 1..6 : a[i] \in 0..1 /\ b[i] \in 0..1
  BY SextetBits DEF a, b
<1>6. /\ a[1] \in Int /\ a[2] \in Int /\ a[3] \in Int
      /\ a[4] \in Int /\ a[5] \in Int /\ a[6] \in Int
      /\ b[1] \in Int /\ b[2] \in Int /\ b[3] \in Int
      /\ b[4] \in Int /\ b[5] \in Int /\ b[6] \in Int
  BY <1>5
<1>7. /\ v % 4 = 2 * a[5] + a[6]
      /\ u = 32 * b[1] + 16 * b[2] + 8 * b[3] + 4 * b[4] + 2 * b[5] + b[6]
  BY SextetBits DEF a, b
<1> QED
  BY <1>3, <1>4, <1>6, <1>7

\* Short sequences put together.
LEMMA Joined ==
  ASSUME NEW a \in Int, NEW b \in Int, NEW c \in Int
  PROVE  /\ (<<a>> \o <<>>) \o <<>> = <<a>>
         /\ (<<a>> \o <<b>>) \o <<>> = <<a, b>>
         /\ (<<a>> \o <<b>>) \o <<c>> = <<a, b, c>>
<1>1. <<a>> \o <<>> = <<a>>
  OBVIOUS
<1>2. <<a>> \o <<b>> = <<a, b>>
  <2> DEFINE l == <<a>>
             r == <<b>>
             t == l \o r
  <2>1. l \in Seq(Int) /\ r \in Seq(Int) /\ Len(l) = 1 /\ Len(r) = 1
        /\ l[1] = a /\ r[1] = b
    OBVIOUS
  <2> HIDE DEF l, r
  <2>2. /\ t \in Seq(Int) /\ Len(t) = Len(l) + Len(r)
        /\ \A i \in 1..Len(l) + Len(r) : t[i] = IF i <= Len(l) THEN l[i] ELSE r[i - Len(l)]
    BY <2>1, ConcatProperties, Zenon
  <2> HIDE DEF t
  <2>3. t \in Seq(Int) /\ Len(t) = 2 /\ t[1] = a /\ t[2] = b
    BY <2>1, <2>2
  <2>4. t = <<a, b>>
    BY <2>3
  <2> QED
    BY <2>4 DEF t, l, r
<1>3. <<a, b>> \o <<>> = <<a, b>>
  OBVIOUS
<1>4. <<a, b>> \o <<c>> = <<a, b, c>>
  <2> DEFINE l == <<a, b>>
             r == <<c>>
             t == l \o r
  <2>1. l \in Seq(Int) /\ r \in Seq(Int) /\ Len(l) = 2 /\ Len(r) = 1
        /\ l[1] = a /\ l[2] = b /\ r[1] = c
    OBVIOUS
  <2> HIDE DEF l, r
  <2>2. /\ t \in Seq(Int) /\ Len(t) = Len(l) + Len(r)
        /\ \A i \in 1..Len(l) + Len(r) : t[i] = IF i <= Len(l) THEN l[i] ELSE r[i - Len(l)]
    BY <2>1, ConcatProperties, Zenon
  <2> HIDE DEF t
  <2>3. t \in Seq(Int) /\ Len(t) = 3 /\ t[1] = a /\ t[2] = b /\ t[3] = c
    BY <2>1, <2>2
  <2>4. t = <<a, b, c>>
    BY <2>3
  <2> QED
    BY <2>4 DEF t, l, r
<1> QED
  BY <1>1, <1>2, <1>3, <1>4, Zenon

\* Parts of sextets put together are numbers.
LEMMA SextetsMixed ==
  \A a, b \in 0..63 : a * 4 + (b \div 16) \in Int
                     /\ (a % 16) * 16 + (b \div 4) \in Int /\ (a % 4) * 64 + b \in Int
OBVIOUS

\* The kth quartet of a text, how many bytes it stands for, and that they are those.
IsQuartet(q, in, k) ==
  q[1] = in[4*k - 3] /\ q[2] = in[4*k - 2] /\ q[3] = in[4*k - 1] /\ q[4] = in[4*k]
Width(k, n, p) == IF k < n THEN 3 ELSE 3 - p
BytesAt(bs, in, k, w) ==
  /\ bs \in Seq(Int) /\ Len(bs) = w
  /\ \A j \in 1..w : bs[j] = ByteOf(in, 3 * (k - 1) + j)

\* What a quartet of a padded text decodes to: the bytes at its place.
LEMMA QuartetValue ==
  ASSUME NEW in \in Seq(Octet), NEW n \in Nat, Len(in) = 4 * n,
         NEW p \in 0..2, PaddedBy(in, p), NEW k \in 1..n, NEW q, IsQuartet(q, in, k)
  PROVE  BytesAt(QuartetBytes(q), in, k, Width(k, n, p))
<1> DEFINE m == k - 1
           v(i) == tab(in[4 * m + i])
           w == Width(k, n, p)
<1>1. /\ m \in Nat
      /\ 4*k - 3 = 4 * m + 1 /\ 4*k - 2 = 4 * m + 2 /\ 4*k - 1 = 4 * m + 3 /\ 4*k = 4 * m + 4
      /\ 4 * m + 1 \in 1..4 * n /\ 4 * m + 2 \in 1..4 * n
      /\ 4 * m + 3 \in 1..4 * n /\ 4 * m + 4 \in 1..4 * n
  OBVIOUS
<1>2. q[1] = in[4 * m + 1] /\ q[2] = in[4 * m + 2] /\ q[3] = in[4 * m + 3] /\ q[4] = in[4 * m + 4]
  BY <1>1 DEF IsQuartet
<1>3. \A i \in 1..4 * n : IF i > 4 * n - p THEN in[i] = Pad ELSE tab(in[i]) \in 0..63
  <2>1. \A i \in 1..4 * n : IF i > 4 * n - p THEN in[i] = Pad ELSE tab(in[i]) >= 0
    BY DEF PaddedBy
  <2>2. \A i \in 1..4 * n : tab(in[i]) \in -1..63
    <3>1. \A i \in 1..4 * n : in[i] \in Octet
      BY ElementOfSeq
    <3> QED
      BY <3>1, TabRange
  <2>3. \A x \in -1..63 : x >= 0 => x \in 0..63
    OBVIOUS
  <2> QED
    BY <2>1, <2>2, <2>3, Zenon
<1>4. tab(Pad) \notin 0..63
  BY TabRange
<1>5. /\ v(1) \in 0..63 /\ v(2) \in 0..63
      /\ \/ w = 3 /\ q[3] # Pad /\ q[4] # Pad /\ v(3) \in 0..63 /\ v(4) \in 0..63
         \/ w = 2 /\ q[3] # Pad /\ q[4] = Pad /\ v(3) \in 0..63
         \/ w = 1 /\ q[3] = Pad /\ q[4] = Pad
  <2>1. ~(4 * m + 1 > 4 * n - p) /\ ~(4 * m + 2 > 4 * n - p)
    BY <1>1
  <2>2. (w = 3 /\ ~(4 * m + 3 > 4 * n - p) /\ ~(4 * m + 4 > 4 * n - p))
        \/ (w = 2 /\ ~(4 * m + 3 > 4 * n - p) /\ 4 * m + 4 > 4 * n - p)
        \/ (w = 1 /\ 4 * m + 3 > 4 * n - p /\ 4 * m + 4 > 4 * n - p)
    BY <1>1 DEF Width
  <2>3. /\ v(1) \in 0..63 /\ v(2) \in 0..63
        /\ IF 4 * m + 3 > 4 * n - p THEN in[4 * m + 3] = Pad ELSE v(3) \in 0..63
        /\ IF 4 * m + 4 > 4 * n - p THEN in[4 * m + 4] = Pad ELSE v(4) \in 0..63
    BY <1>1, <1>3, <2>1
  <2> QED
    BY <1>2, <1>4, <2>2, <2>3, Zenon
<1> DEFINE x == v(1) * 4 + (v(2) \div 16)
           y == (v(2) % 16) * 16 + (v(3) \div 4)
           z == (v(3) % 4) * 64 + v(4)
<1>6. QuartetBytes(q) =
        (<<x>> \o (IF q[3] = Pad THEN <<>> ELSE <<y>>)) \o (IF q[4] = Pad THEN <<>> ELSE <<z>>)
  BY <1>2, Zenon DEF QuartetBytes
<1> HIDE DEF m, v, w
<1>7. x \in Int /\ x = ByteOf(in, 3 * m + 1)
  <2>1. x \in Int
    BY <1>5, SextetsMixed, Zenon
  <2>2. x = ByteOf(in, 3 * m + 1)
    BY <1>1, <1>5, FirstByte, Zenon DEF v
  <2> QED
    BY <2>1, <2>2
<1>8. v(3) \in 0..63 => y \in Int /\ y = ByteOf(in, 3 * m + 2)
  <2> HAVE v(3) \in 0..63
  <2>1. y \in Int
    BY <1>5, SextetsMixed, Zenon
  <2>2. y = ByteOf(in, 3 * m + 2)
    BY <1>1, <1>5, SecondByte, Zenon DEF v
  <2> QED
    BY <2>1, <2>2
<1>9. v(3) \in 0..63 /\ v(4) \in 0..63 => z \in Int /\ z = ByteOf(in, 3 * m + 3)
  <2> HAVE v(3) \in 0..63 /\ v(4) \in 0..63
  <2>1. z \in Int
    BY SextetsMixed, Zenon
  <2>2. z = ByteOf(in, 3 * m + 3)
    <3>1. m \in Nat
      BY <1>1
    <3>2. ByteOf(in, 3 * m + 3) = z
      BY <3>1, ThirdByte, Zenon DEF v
    <3> QED
      BY <3>2
  <2> QED
    BY <2>1, <2>2
<1> HIDE DEF x, y, z
<1>10. CASE w = 3 /\ q[3] # Pad /\ q[4] # Pad /\ v(3) \in 0..63 /\ v(4) \in 0..63
  <2>1. QuartetBytes(q) = <<x, y, z>>
    BY <1>6, <1>7, <1>8, <1>9, <1>10, Joined
  <2>2. <<x, y, z>> \in Seq(Int) /\ Len(<<x, y, z>>) = 3
        /\ \A j \in 1..3 : <<x, y, z>>[j] = ByteOf(in, 3 * m + j)
    <3>1. 1..3 = {1, 2, 3}
      OBVIOUS
    <3> QED
      BY <1>7, <1>8, <1>9, <1>10, <3>1
  <2> QED
    BY <1>10, <2>1, <2>2 DEF BytesAt, m, w
<1>11. CASE w = 2 /\ q[3] # Pad /\ q[4] = Pad /\ v(3) \in 0..63
  <2>1. QuartetBytes(q) = <<x, y>>
    BY <1>6, <1>7, <1>8, <1>11, Joined
  <2>2. <<x, y>> \in Seq(Int) /\ Len(<<x, y>>) = 2
        /\ \A j \in 1..2 : <<x, y>>[j] = ByteOf(in, 3 * m + j)
    <3>1. 1..2 = {1, 2}
      OBVIOUS
    <3> QED
      BY <1>7, <1>8, <1>11, <3>1
  <2> QED
    BY <1>11, <2>1, <2>2 DEF BytesAt, m, w
<1>12. CASE w = 1 /\ q[3] = Pad /\ q[4] = Pad
  <2>1. QuartetBytes(q) = <<x>>
    BY <1>6, <1>7, <1>12, Joined
  <2>2. <<x>> \in Seq(Int) /\ Len(<<x>>) = 1
        /\ \A j \in 1..1 : <<x>>[j] = ByteOf(in, 3 * m + j)
    <3>1. 1..1 = {1}
      OBVIOUS
    <3> QED
      BY <1>7, <3>1
  <2> QED
    BY <1>12, <2>1, <2>2 DEF BytesAt, m, w
<1> QED
  BY <1>5, <1>10, <1>11, <1>12 DEF w

\* The decoder accepts what is base64 and gives its bytes.
LEMMA Base64Exact ==
  ASSUME NEW in \in Seq(Octet)
  PROVE  agrees(base64_decode(in), IsBase64(in), Base64Value(in))
<1> DEFINE n == Len(in) \div 4
           loop == CHOOSE f : Rounds(in, n, n, f)
           q(k) == SubSeq(in, 4 * k - 3, 4 * k)
           Q(k) == Four(in[4*k - 3], in[4*k - 2], in[4*k - 1], in[4*k], k = n)
<1>1. base64_decode(in) =
        IF Len(in) % 4 # 0 THEN [ok |-> FALSE, out |-> <<>>] ELSE loop[n]
  BY Zenon DEF base64_decode, Rounds
<1>2. CASE Len(in) % 4 # 0
  <2>1. ~IsBase64(in)
    BY <1>2 DEF IsBase64
  <2>2. base64_decode(in).ok = FALSE
    BY <1>1, <1>2
  <2>3. IsBase64(in) = FALSE
    BY <2>1 DEF IsBase64
  <2> QED
    BY <2>2, <2>3, Zenon DEF agrees
<1>3. CASE Len(in) % 4 = 0
  <2>1. n \in Nat /\ Len(in) = 4 * n
    <3>1. Len(in) \in Nat
      OBVIOUS
    <3> QED
      BY <1>3, <3>1
  <2>2. base64_decode(in) = loop[n]
    BY <1>1, <1>3, Zenon
  <2> HIDE DEF n
  <2>3. Rounds(in, n, n, loop)
    <3>1. \E f : Rounds(in, n, n, f)
      BY <2>1, RoundsExist
    <3> QED
      BY <3>1, Zenon
  <2> HIDE DEF loop
  <2>4. \A k \in 0..n : loop[k] =
          IF k = 0 THEN [ok |-> TRUE, out |-> <<>>]
          ELSE IF loop[k - 1].ok /\ Quartet(q(k), k = n)
          THEN [ok |-> TRUE, out |-> loop[k - 1].out \o QuartetBytes(q(k))]
          ELSE [ok |-> FALSE, out |-> loop[k - 1].out]
    BY <2>3, Zenon DEF Rounds
  <2>5. ASSUME NEW k \in 1..n
        PROVE  /\ q(k)[1] = in[4*k - 3] /\ q(k)[2] = in[4*k - 2]
               /\ q(k)[3] = in[4*k - 1] /\ q(k)[4] = in[4*k]
               /\ Quartet(q(k), k = n) <=> Q(k)
    <3>1. \A i \in 4 * k - 3..4 * k : in[i] \in Octet
      <4>1. \A i \in 4 * k - 3..4 * k : i \in 1..Len(in)
        BY <2>1
      <4> QED
        BY <4>1, ElementOfSeq
    <3>2. 4 * k - 3 \in Int /\ 4 * k \in Int
      BY <2>1
    <3>3. \A i \in 1..4 * k - (4 * k - 3) + 1 : q(k)[i] = in[4 * k - 3 + i - 1]
      <4> DEFINE c == 4 * k - 3
                 d == 4 * k
      <4>1. c \in Int /\ d \in Int /\ \A i \in c..d : in[i] \in Octet
        BY <3>1, <3>2
      <4> HIDE DEF c, d
      <4>2. \A i \in 1..d - c + 1 : SubSeq(in, c, d)[i] = in[c + i - 1]
        BY <4>1, SubSeqProperties
      <4> QED
        BY <4>2, Zenon DEF c, d
    <3> HIDE DEF q
    <3>4. /\ q(k)[1] = in[4*k - 3] /\ q(k)[2] = in[4*k - 2]
          /\ q(k)[3] = in[4*k - 1] /\ q(k)[4] = in[4*k]
      BY <2>1, <3>3
    <3>5. \A i \in 1..4 : q(k)[i] \in Octet
      <4>1. 1..4 = {1, 2, 3, 4}
        OBVIOUS
      <4>2. /\ in[4*k - 3] \in Octet /\ in[4*k - 2] \in Octet
            /\ in[4*k - 1] \in Octet /\ in[4*k] \in Octet
        BY <2>1, <3>1
      <4> QED
        BY <3>4, <4>1, <4>2, Zenon
    <3>6. Quartet(q(k), k = n) <=> Four(q(k)[1], q(k)[2], q(k)[3], q(k)[4], k = n)
      <4>1. (k = n) \in BOOLEAN
        OBVIOUS
      <4> QED
        BY <3>5, <4>1, QuartetIsFour, Zenon
    <3> QED
      BY <3>4, <3>6, Zenon
  <2>6. IsBase64(in) <=> \A k \in 1..n : Q(k)
    BY <1>3, <2>1, PaddedFour, Zenon DEF IsBase64
  <2> HIDE DEF q, Q
  <2>7. CASE ~IsBase64(in)
    <3>1. PICK b \in 1..n : ~Q(b)
      BY <2>6, <2>7
    <3> DEFINE T == {k \in Nat : k + b <= n => loop[k + b].ok = FALSE}
    <3>2. 0 \in T
      <4>1. b \in 0..n /\ b # 0 /\ ~Quartet(q(b), b = n) /\ 0 + b = b
        BY <2>1, <2>5, <3>1
      <4>2. loop[b] = [ok |-> FALSE, out |-> loop[b - 1].out]
        BY <2>4, <4>1, Zenon
      <4> QED
        BY <4>1, <4>2
    <3>3. ASSUME NEW k \in Nat, k \in T PROVE k + 1 \in T
      <4> DEFINE i == k + 1 + b
      <4>1. i <= n => loop[i].ok = FALSE
        <5> HAVE i <= n
        <5>1. i \in 0..n /\ i # 0 /\ i - 1 = k + b /\ k + b <= n
          BY <2>1
        <5>2. loop[i - 1].ok = FALSE
          BY <3>3, <5>1
        <5> HIDE DEF i
        <5>3. loop[i] = [ok |-> FALSE, out |-> loop[i - 1].out]
          BY <2>4, <5>1, <5>2, Zenon
        <5> QED
          BY <5>3
      <4> QED
        BY <4>1
    <3> HIDE DEF T
    <3>4. \A k \in Nat : k \in T
      BY <3>2, <3>3, NatInd
    <3>5. loop[n].ok = FALSE
      <4>1. n - b \in Nat /\ (n - b) + b = n /\ n <= n
        BY <2>1
      <4>2. n - b \in T
        BY <3>4, <4>1
      <4> QED
        BY <4>1, <4>2 DEF T
    <3>6. IsBase64(in) = FALSE
      BY <2>7, Zenon DEF IsBase64
    <3> QED
      BY <2>2, <3>5, <3>6, Zenon DEF agrees
  <2>8. CASE IsBase64(in)
    <3> DEFINE p == CHOOSE x \in 0..2 : PaddedBy(in, x)
               W(k) == IF k < n THEN 3 * k ELSE 3 * n - p
               P(k) == /\ loop[k].ok = TRUE
                       /\ loop[k].out \in Seq(Int) /\ Len(loop[k].out) = W(k)
                       /\ \A j \in 1..W(k) : loop[k].out[j] = ByteOf(in, j)
               T == {k \in Nat : k <= n => P(k)}
    <3>1. p \in 0..2 /\ PaddedBy(in, p)
      BY <2>8, Zenon DEF IsBase64
    <3>2. p <= 4 * n
      BY <2>1, <3>1 DEF PaddedBy
    <3>3. Base64Value(in) = [j \in 1..(6 * (Len(in) - p)) \div 8 |-> ByteOf(in, j)]
      BY DEF Base64Value
    <3>4. (6 * (Len(in) - p)) \div 8 = 3 * n - p
      <4> HIDE DEF p
      <4> QED
        BY <2>1, <3>1
    <3> HIDE DEF p
    <3>5. P(0)
      <4>1. 0 \in 0..n /\ W(0) = 0
        BY <2>1, <3>1, <3>2
      <4>2. loop[0] = [ok |-> TRUE, out |-> <<>>]
        BY <2>4, <4>1, Zenon
      <4> HIDE DEF W
      <4> QED
        BY <4>1, <4>2
    <3>6. ASSUME NEW k \in Nat, k + 1 <= n, P(k) PROVE P(k + 1)
      <4> DEFINE bs == QuartetBytes(q(k + 1))
                 o == loop[k].out
                 w == IF k + 1 < n THEN 3 ELSE 3 - p
      <4>1. /\ k + 1 \in 0..n /\ k + 1 \in 1..n /\ k + 1 # 0 /\ (k + 1) - 1 = k
            /\ W(k) = 3 * k /\ W(k + 1) = 3 * k + w /\ w \in Nat
        <5>1. n \in Nat /\ k + 1 <= n /\ p \in 0..2
          BY <2>1, <3>1, <3>6
        <5>2. k + 1 \in 0..n /\ k + 1 \in 1..n /\ k + 1 # 0 /\ (k + 1) - 1 = k /\ k < n
          BY <5>1
        <5>3. CASE k + 1 < n
          BY <5>2, <5>3
        <5>4. CASE k + 1 = n
          <6>1. 3 * n - p = 3 * k + (3 - p) /\ 3 - p \in Nat /\ ~(k + 1 < n)
            BY <5>1, <5>4
          <6> QED
            BY <5>2, <6>1
        <5> QED
          BY <5>1, <5>3, <5>4
      <4>2. Quartet(q(k + 1), k + 1 = n)
        BY <2>5, <2>6, <2>8, <4>1, Zenon
      <4>3. loop[k + 1] = [ok |-> TRUE, out |-> o \o bs]
        BY <2>4, <3>6, <4>1, <4>2, Zenon
      <4>4. /\ bs \in Seq(Int) /\ Len(bs) = w
            /\ \A j \in 1..w : bs[j] = ByteOf(in, 3 * ((k + 1) - 1) + j)
        <5>1. IsQuartet(q(k + 1), in, k + 1)
          BY <2>5, <4>1, Zenon DEF IsQuartet
        <5>2. BytesAt(bs, in, k + 1, Width(k + 1, n, p))
          BY <2>1, <3>1, <4>1, <5>1, QuartetValue, Zenon
        <5> QED
          BY <5>2, Zenon DEF BytesAt, Width
      <4> HIDE DEF w, W, bs
      <4>5. o \in Seq(Int) /\ Len(o) = 3 * k /\ \A j \in 1..3 * k : o[j] = ByteOf(in, j)
        BY <3>6, <4>1
      <4> HIDE DEF o
      <4>6. /\ o \o bs \in Seq(Int) /\ Len(o \o bs) = Len(o) + Len(bs)
            /\ \A j \in 1..Len(o) + Len(bs) :
                 (o \o bs)[j] = IF j <= Len(o) THEN o[j] ELSE bs[j - Len(o)]
        BY <4>4, <4>5, ConcatProperties, Zenon
      <4>7. ASSUME NEW j \in 1..3 * k + w PROVE (o \o bs)[j] = ByteOf(in, j)
        <5>1. (o \o bs)[j] = IF j <= 3 * k THEN o[j] ELSE bs[j - 3 * k]
          BY <4>4, <4>5, <4>6, Zenon
        <5>2. CASE j <= 3 * k
          <6>1. j \in 1..3 * k
            BY <4>1, <5>2
          <6> QED
            BY <4>5, <5>1, <5>2, <6>1, Zenon
        <5>3. CASE ~(j <= 3 * k)
          <6>1. j - 3 * k \in 1..w /\ 3 * ((k + 1) - 1) + (j - 3 * k) = j
            BY <4>1, <5>3
          <6>2. bs[j - 3 * k] = ByteOf(in, 3 * ((k + 1) - 1) + (j - 3 * k))
            BY <4>4, <6>1, Zenon
          <6> QED
            BY <5>1, <5>3, <6>1, <6>2, Zenon
        <5> QED
          BY <5>2, <5>3
      <4>8. Len(o \o bs) = W(k + 1)
        BY <4>1, <4>4, <4>5, <4>6, Zenon
      <4>9. loop[k + 1].ok = TRUE /\ loop[k + 1].out = o \o bs
        BY <4>3
      <4> QED
        BY <4>1, <4>6, <4>7, <4>8, <4>9, Zenon
    <3> HIDE DEF P
    <3>7. 0 \in T /\ \A k \in Nat : k \in T => k + 1 \in T
      BY <2>1, <3>5, <3>6
    <3> HIDE DEF T
    <3>8. \A k \in Nat : k \in T
      BY <3>7, NatInd
    <3>9. P(n) /\ W(n) = 3 * n - p
      BY <2>1, <3>1, <3>8 DEF T
    <3>10. /\ loop[n].ok = TRUE /\ loop[n].out \in Seq(Int) /\ Len(loop[n].out) = 3 * n - p
           /\ \A j \in 1..3 * n - p : loop[n].out[j] = ByteOf(in, j)
      BY <3>9, Zenon DEF P
    <3>11. loop[n].out = [j \in 1..3 * n - p |-> ByteOf(in, j)]
      <4>1. loop[n].out = [j \in 1..3 * n - p |-> loop[n].out[j]]
        <5>1. loop[n].out \in [1..Len(loop[n].out) -> Int]
          BY <3>10, LenProperties
        <5> QED
          BY <3>10, <5>1
      <4> QED
        BY <3>10, <4>1, Zenon
    <3> QED
      BY <2>2, <2>8, <3>3, <3>4, <3>10, <3>11, Zenon DEF agrees
  <2> QED
    BY <2>7, <2>8
<1> QED
  BY <1>2, <1>3

(***************************************************************************)
(* The UUID text.                                                          *)
(***************************************************************************)

\* The digits, and that a dash and the terminating zero are none.
LEMMA HexRange ==
  (\A c \in Octet : hex(c) \in -1..15) /\ hex(Dash) = -1 /\ hex(0) = -1
BY DEF hex, Octet, Dash

\* How many digits come before an offset.
LEMMA BeforeCounts ==
  /\ Before(0) = 0 /\ Before(UuidSize) = Cardinality(Digits)
  /\ \A i \in 0..UuidSize : Before(i) \in Nat
  /\ \A i \in 0..UuidSize - 1 : Before(i + 1) = Before(i) + (IF i \in Digits THEN 1 ELSE 0)
  /\ \A i, j \in 0..UuidSize : i <= j => Before(i) <= Before(j)
<1> DEFINE B(i) == {k \in Digits : k < i}
<1>0. UuidSize \in Nat
  BY UuidAssumption
<1>1. Digits \in SUBSET Nat /\ \A k \in Digits : k \in Nat /\ k < UuidSize
  BY <1>0 DEF Digits
<1>2. IsFiniteSet(Digits)
  <2>1. \A k \in Digits : k <= UuidSize
    BY <1>0, <1>1
  <2> QED
    BY <1>0, <1>1, <2>1, FS_BoundedSetOfNaturals
<1>3. \A i : IsFiniteSet(B(i)) /\ Cardinality(B(i)) \in Nat
  <2> SUFFICES ASSUME NEW i PROVE IsFiniteSet(B(i)) /\ Cardinality(B(i)) \in Nat
    OBVIOUS
  <2>1. B(i) \in SUBSET Digits
    OBVIOUS
  <2> HIDE DEF B
  <2>2. IsFiniteSet(B(i))
    BY <1>2, <2>1, FS_Subset
  <2> QED
    BY <2>2, FS_CardinalityType
<1>4. \A i : Before(i) = Cardinality(B(i))
  BY DEF Before
<1>5. Before(0) = 0
  <2>1. \A k \in Digits : ~(k < 0)
    BY <1>1
  <2>2. B(0) = {}
    BY <2>1, Zenon
  <2> QED
    BY <1>4, <2>2, FS_EmptySet
<1>6. Before(UuidSize) = Cardinality(Digits)
  <2>1. B(UuidSize) = Digits
    BY <1>1, Zenon
  <2> QED
    BY <1>4, <2>1
<1>7. ASSUME NEW i \in 0..UuidSize - 1
      PROVE  Before(i + 1) = Before(i) + (IF i \in Digits THEN 1 ELSE 0)
  <2>1. B(i + 1) = IF i \in Digits THEN B(i) \cup {i} ELSE B(i)
    <3>1. \A k \in Digits : k < i + 1 <=> (k < i \/ k = i)
      BY <1>0, <1>1
    <3> QED
      BY <3>1, Zenon
  <2>2. i \notin B(i)
    <3>1. ~(i < i)
      BY <1>0
    <3> QED
      BY <3>1, Zenon
  <2> HIDE DEF B
  <2>3. Cardinality(B(i) \cup {i}) = Cardinality(B(i)) + 1
    BY <1>3, <2>2, FS_AddElement
  <2> QED
    BY <1>3, <1>4, <2>1, <2>3
<1>8. ASSUME NEW i \in 0..UuidSize, NEW j \in 0..UuidSize, i <= j
      PROVE  Before(i) <= Before(j)
  <2>1. B(i) \in SUBSET B(j)
    <3>1. \A k \in Digits : k < i => k < j
      BY <1>0, <1>1, <1>8
    <3> QED
      BY <3>1, Zenon
  <2> HIDE DEF B
  <2> QED
    BY <1>3, <1>4, <2>1, FS_Subset
<1> QED
  BY <1>3, <1>4, <1>5, <1>6, <1>7, <1>8

\* A digit is found by the number of those before it.
LEMMA DigitFound ==
  ASSUME NEW i \in Digits
  PROVE  (CHOOSE k \in Digits : Before(k) = Before(i)) = i
<1> DEFINE c == CHOOSE k \in Digits : Before(k) = Before(i)
<1>1. c \in Digits /\ Before(c) = Before(i)
  OBVIOUS
<1> HIDE DEF c
<1>2. \A k \in Digits : k \in 0..UuidSize - 1 /\ k \in 0..UuidSize /\ k + 1 \in 0..UuidSize
  BY UuidAssumption DEF Digits
<1>3. \A k \in Digits : Before(k + 1) = Before(k) + 1 /\ Before(k) \in Nat
  BY <1>2, BeforeCounts
<1>4. ASSUME NEW k \in Digits, NEW l \in Digits, k < l
      PROVE  Before(k) # Before(l)
  <2>1. k + 1 <= l
    BY <1>2, <1>4
  <2>2. Before(k + 1) <= Before(l)
    BY <1>2, <2>1, BeforeCounts
  <2> QED
    BY <1>3, <2>2
<1>5. ~(c < i) /\ ~(i < c)
  BY <1>1, <1>4
<1>6. c = i
  BY <1>1, <1>2, <1>5
<1> QED
  BY <1>6 DEF c

\* The character at an offset, and the scan from it on.
At(s, i) == IF i < Len(s) THEN s[i + 1] ELSE 0
Scan(s, lo, f) ==
  f = [i \in lo..UuidSize + 1 |->
         IF i >= UuidSize THEN [ok |-> TRUE, out |-> <<>>]
         ELSE IF At(s, i) = Dash THEN f[i + 1]
         ELSE IF hex(At(s, i)) < 0 \/ hex(At(s, i + 1)) < 0 THEN [ok |-> FALSE, out |-> <<>>]
         ELSE [ok  |-> f[i + 2].ok,
               out |-> <<16 * hex(At(s, i)) + hex(At(s, i + 1))>> \o f[i + 2].out]]

\* There is such a function.
LEMMA ScanExists ==
  ASSUME NEW s
  PROVE  \E f : Scan(s, 0, f)
<1> DEFINE N == UuidSize + 1
           Val(i, f) ==
             IF i >= UuidSize THEN [ok |-> TRUE, out |-> <<>>]
             ELSE IF At(s, i) = Dash THEN f[i + 1]
             ELSE IF hex(At(s, i)) < 0 \/ hex(At(s, i + 1)) < 0
             THEN [ok |-> FALSE, out |-> <<>>]
             ELSE [ok  |-> f[i + 2].ok,
                   out |-> <<16 * hex(At(s, i)) + hex(At(s, i + 1))>> \o f[i + 2].out]
           T == {lo \in 0..N : \E f : Scan(s, lo, f)}
<1>1. \A lo, f : Scan(s, lo, f) <=> f = [i \in lo..N |-> Val(i, f)]
  BY Zenon DEF Scan
<1>0. UuidSize \in Nat /\ N \in Nat
  BY UuidAssumption
<1>2. N \in T
  <2> DEFINE f == [i \in N..N |-> [ok |-> TRUE, out |-> <<>>]]
  <2>1. \A i \in N..N : Val(i, f) = [ok |-> TRUE, out |-> <<>>]
    <3>1. \A i \in N..N : i >= UuidSize
      BY <1>0
    <3> HIDE DEF f, N
    <3> QED
      BY <3>1, Zenon
  <2>2. f = [i \in N..N |-> Val(i, f)]
    <3> HIDE DEF Val
    <3> QED
      BY <2>1
  <2>3. Scan(s, N, f)
    BY <1>1, <2>2, Zenon
  <2> QED
    BY <1>0, <2>3
<1>3. ASSUME NEW lo \in 0..N - 1, lo + 1 \in T
      PROVE  lo \in T
  <2>1. PICK f : Scan(s, lo + 1, f)
    BY <1>3
  <2>2. \A i \in lo + 1..N : f[i] = Val(i, f)
    <3> HIDE DEF Val
    <3>1. f = [i \in lo + 1..N |-> Val(i, f)]
      BY <1>1, <2>1, Zenon
    <3> QED
      BY <3>1, Zenon
  <2> DEFINE g == [i \in lo..N |-> IF i = lo THEN Val(lo, f) ELSE f[i]]
  <2>3. ASSUME NEW i \in lo..N
        PROVE  g[i] = Val(i, g)
    <3>1. ~(i >= UuidSize) => g[i + 1] = f[i + 1] /\ g[i + 2] = f[i + 2]
      <4> HIDE DEF Val
      <4> QED
        BY <1>0
    <3>2. Val(i, g) = Val(i, f)
      <4> HIDE DEF g
      <4> QED
        BY <3>1, Zenon
    <3>3. i # lo => i \in lo + 1..N /\ g[i] = f[i]
      <4> HIDE DEF Val
      <4> QED
        BY <1>0
    <3>4. i = lo => g[i] = Val(lo, f)
      <4> HIDE DEF Val
      <4> QED
        OBVIOUS
    <3> HIDE DEF Val, g
    <3> QED
      BY <2>2, <3>2, <3>3, <3>4
  <2>4. g = [i \in lo..N |-> g[i]]
    OBVIOUS
  <2> HIDE DEF g
  <2>5. g = [i \in lo..N |-> Val(i, g)]
    <3> HIDE DEF Val
    <3> QED
      BY <2>3, <2>4
  <2>6. Scan(s, lo, g)
    BY <1>1, <2>5, Zenon
  <2> QED
    BY <1>0, <2>6
<1> HIDE DEF T, N
<1>4. \A i \in 0..N : (\A j \in i + 1..N : j \in T) => i \in T
  <2>1. \A i \in 0..N : i = N \/ (i \in 0..N - 1 /\ i + 1 \in i + 1..N)
    BY <1>0
  <2> QED
    BY <1>2, <1>3, <2>1, Zenon
<1>5. \A i \in 0..N : i \in T
  BY <1>0, <1>4, Downward
<1> QED
  BY <1>0, <1>5 DEF T

\* What a scan found from offset i on: pairs of digits, never more of them than
\* there are places for; and if they fill the places, the text is good from i on.
Found(s, i, r) ==
  /\ r.ok \in BOOLEAN /\ r.out \in Seq(Int)
  /\ 2 * Len(r.out) <= Before(UuidSize) - Before(i)
  /\ r.ok /\ 2 * Len(r.out) = Before(UuidSize) - Before(i) =>
       \A k \in i..UuidSize - 1 : IF k \in Dashes THEN At(s, k) = Dash ELSE hex(At(s, k)) >= 0

\* A byte in front of others.
LEMMA Consed ==
  ASSUME NEW a \in Int, NEW t \in Seq(Int)
  PROVE  /\ <<a>> \o t \in Seq(Int) /\ Len(<<a>> \o t) = Len(t) + 1
         /\ (<<a>> \o t)[1] = a
         /\ \A j \in 1..Len(t) : (<<a>> \o t)[j + 1] = t[j]
<1> DEFINE l == <<a>>
<1>1. l \in Seq(Int) /\ Len(l) = 1 /\ l[1] = a /\ Len(t) \in Nat
  OBVIOUS
<1> HIDE DEF l
<1>2. /\ l \o t \in Seq(Int) /\ Len(l \o t) = Len(l) + Len(t)
      /\ \A i \in 1..Len(l) + Len(t) : (l \o t)[i] = IF i <= Len(l) THEN l[i] ELSE t[i - Len(l)]
  BY <1>1, ConcatProperties, Zenon
<1>3. /\ l \o t \in Seq(Int) /\ Len(l \o t) = Len(t) + 1 /\ (l \o t)[1] = a
      /\ \A j \in 1..Len(t) : (l \o t)[j + 1] = t[j]
  BY <1>1, <1>2
<1> QED
  BY <1>3 DEF l

\* The characters of a text of the right length, and where dashes and digits are.
LEMMA UuidPlaces ==
  ASSUME NEW s \in Seq(Octet), Len(s) = UuidSize
  PROVE  /\ \A i \in 0..UuidSize - 1 : At(s, i) = s[i + 1] /\ hex(At(s, i)) \in -1..15
         /\ hex(At(s, UuidSize)) = -1
         /\ \A i \in 0..UuidSize - 1 : i \in Digits <=> i \notin Dashes
         /\ \A i \in 0..UuidSize - 1 : At(s, i) = Dash => hex(At(s, i)) = -1
<1>0. UuidSize \in Nat
  BY UuidAssumption
<1>1. \A i \in 0..UuidSize - 1 : At(s, i) = s[i + 1] /\ s[i + 1] \in Octet
  <2>1. \A i \in 0..UuidSize - 1 : i < Len(s) /\ i + 1 \in 1..Len(s)
    BY <1>0
  <2> QED
    BY <2>1, ElementOfSeq DEF At
<1>2. At(s, UuidSize) = 0
  BY <1>0 DEF At
<1>3. \A i \in 0..UuidSize - 1 : i \in Digits <=> i \notin Dashes
  BY Zenon DEF Digits
<1> QED
  BY <1>1, <1>2, <1>3, HexRange, Zenon

\* Every step of the scan.
LEMMA ScanFound ==
  ASSUME NEW s \in Seq(Octet), Len(s) = UuidSize, \A d \in Dashes : At(s, d) = Dash,
         NEW f, Scan(s, 0, f)
  PROVE  \A i \in 0..UuidSize : Found(s, i, f[i])
<1> DEFINE N == UuidSize
           v(i) == hex(At(s, i))
           T == {i \in 0..N : Found(s, i, f[i])}
<1>0. N \in Nat
  BY UuidAssumption
<1>1. \A i \in 0..N + 1 : f[i] =
        IF i >= N THEN [ok |-> TRUE, out |-> <<>>]
        ELSE IF At(s, i) = Dash THEN f[i + 1]
        ELSE IF v(i) < 0 \/ v(i + 1) < 0 THEN [ok |-> FALSE, out |-> <<>>]
        ELSE [ok  |-> f[i + 2].ok,
              out |-> <<16 * v(i) + v(i + 1)>> \o f[i + 2].out]
  BY Zenon DEF Scan
<1>2. /\ \A i \in 0..N - 1 : v(i) \in -1..15 /\ (At(s, i) = Dash => v(i) = -1)
      /\ v(N) = -1
      /\ \A i \in 0..N - 1 : i \in Digits <=> i \notin Dashes
  BY UuidPlaces
<1>3. /\ \A i \in 0..N : Before(i) \in Nat
      /\ \A i \in 0..N - 1 : Before(i + 1) = Before(i) + (IF i \in Digits THEN 1 ELSE 0)
      /\ \A i \in 0..N : Before(i) <= Before(N)
  <2>1. \A i \in 0..N : i <= N /\ N \in 0..N
    BY <1>0
  <2> QED
    BY <2>1, BeforeCounts
<1> DEFINE Fits(k) == IF k \in Dashes THEN At(s, k) = Dash ELSE v(k) >= 0
<1>4. \A i, r : Found(s, i, r) <=>
        /\ r.ok \in BOOLEAN /\ r.out \in Seq(Int)
        /\ 2 * Len(r.out) <= Before(N) - Before(i)
        /\ r.ok /\ 2 * Len(r.out) = Before(N) - Before(i) => \A k \in i..N - 1 : Fits(k)
  BY Zenon DEF Found
<1> HIDE DEF N, v, Fits
<1>5. ASSUME NEW i \in 0..N, \A j \in i + 1..N : j \in T
      PROVE  i \in T
  <2>1. CASE i = N
    <3>1. f[i] = [ok |-> TRUE, out |-> <<>>]
      <4>1. i \in 0..N + 1 /\ i >= N
        BY <1>0, <2>1
      <4> QED
        BY <1>1, <4>1, Zenon
    <3>2. \A k \in i..N - 1 : FALSE
      BY <1>0, <2>1
    <3>3. <<>> \in Seq(Int) /\ Len(<<>>) = 0 /\ Before(N) - Before(i) = 0 /\ 2 * 0 <= 0
      BY <1>0, <1>3, <2>1
    <3>4. Found(s, i, f[i])
      BY <1>4, <3>1, <3>2, <3>3
    <3> QED
      BY <3>4
  <2>2. CASE i # N /\ At(s, i) = Dash
    <3>1. i \in 0..N + 1 /\ ~(i >= N) /\ i \in 0..N - 1 /\ i + 1 \in i + 1..N /\ i + 1 \in 0..N
      BY <1>0, <2>2
    <3>2. f[i] = f[i + 1]
      BY <1>1, <2>2, <3>1, Zenon
    <3> DEFINE r == f[i + 1]
    <3>3. Found(s, i + 1, r)
      BY <1>5, <3>1
    <3> HIDE DEF r
    <3>4. /\ r.ok \in BOOLEAN /\ r.out \in Seq(Int) /\ Len(r.out) \in Nat
          /\ 2 * Len(r.out) <= Before(N) - Before(i + 1)
          /\ r.ok /\ 2 * Len(r.out) = Before(N) - Before(i + 1) => \A k \in i + 1..N - 1 : Fits(k)
      BY <1>4, <3>3
    <3>5. /\ Before(i) \in Nat /\ Before(N) \in Nat
          /\ Before(i + 1) = Before(i) + (IF i \in Digits THEN 1 ELSE 0)
      BY <1>0, <1>3, <3>1
    <3>6. 2 * Len(r.out) <= Before(N) - Before(i)
      BY <3>4, <3>5
    <3>7. ASSUME r.ok, 2 * Len(r.out) = Before(N) - Before(i)
          PROVE  \A k \in i..N - 1 : Fits(k)
      <4>1. i \notin Digits /\ 2 * Len(r.out) = Before(N) - Before(i + 1)
        BY <3>4, <3>5, <3>7
      <4>2. Fits(i)
        BY <1>2, <2>2, <3>1, <4>1 DEF Fits
      <4>3. \A k \in i + 1..N - 1 : Fits(k)
        BY <3>4, <3>7, <4>1
      <4>4. \A k \in i..N - 1 : k = i \/ k \in i + 1..N - 1
        BY <1>0
      <4> QED
        BY <4>2, <4>3, <4>4, Zenon
    <3>8. Found(s, i, r)
      BY <1>4, <3>4, <3>6, <3>7, Zenon
    <3> QED
      BY <3>2, <3>8 DEF r
  <2>3. CASE i # N /\ At(s, i) # Dash /\ (v(i) < 0 \/ v(i + 1) < 0)
    <3>1. i \in 0..N + 1 /\ ~(i >= N)
      BY <1>0, <2>3
    <3>2. f[i] = [ok |-> FALSE, out |-> <<>>]
      BY <1>1, <2>3, <3>1, Zenon
    <3>3. <<>> \in Seq(Int) /\ Len(<<>>) = 0 /\ 2 * 0 <= Before(N) - Before(i)
      BY <1>0, <1>3
    <3>4. Found(s, i, f[i])
      BY <1>4, <3>2, <3>3
    <3> QED
      BY <3>4
  <2>4. CASE i # N /\ At(s, i) # Dash /\ ~(v(i) < 0 \/ v(i + 1) < 0)
    <3>1. i \in 0..N + 1 /\ ~(i >= N) /\ i \in 0..N - 1 /\ i + 1 \in 0..N
      BY <1>0, <2>4
    <3>2. i + 1 \in 0..N - 1 /\ i + 2 \in i + 1..N /\ i + 2 \in 0..N
      <4>1. i + 1 # N
        BY <1>2, <2>4
      <4> QED
        BY <1>0, <3>1, <4>1
    <3> DEFINE r == f[i + 2]
               a == 16 * v(i) + v(i + 1)
    <3>3. f[i] = [ok |-> r.ok, out |-> <<a>> \o r.out]
      BY <1>1, <2>4, <3>1, Zenon
    <3>4. a \in Int
      <4>1. v(i) \in -1..15 /\ v(i + 1) \in -1..15
        BY <1>2, <3>1, <3>2
      <4>2. \A x, y \in -1..15 : 16 * x + y \in Int
        OBVIOUS
      <4> QED
        BY <4>1, <4>2, Zenon
    <3>5. Found(s, i + 2, r)
      BY <1>5, <3>2
    <3> HIDE DEF r, a
    <3>6. /\ r.ok \in BOOLEAN /\ r.out \in Seq(Int) /\ Len(r.out) \in Nat
          /\ 2 * Len(r.out) <= Before(N) - Before(i + 2)
          /\ r.ok /\ 2 * Len(r.out) = Before(N) - Before(i + 2) => \A k \in i + 2..N - 1 : Fits(k)
      BY <1>4, <3>5
    <3>7. i \notin Dashes /\ i + 1 \notin Dashes /\ Fits(i) /\ Fits(i + 1)
      <4>1. i \notin Dashes
        BY <2>4
      <4>2. v(i) \in -1..15 /\ v(i + 1) \in -1..15 /\ At(s, i + 1) # Dash
        <5>1. v(i) \in -1..15 /\ v(i + 1) \in -1..15 /\ (At(s, i + 1) = Dash => v(i + 1) = -1)
          BY <1>2, <3>1, <3>2
        <5>2. ~(v(i + 1) < 0)
          BY <2>4
        <5> QED
          BY <5>1, <5>2
      <4>3. i + 1 \notin Dashes
        BY <4>2
      <4>4. v(i) >= 0 /\ v(i + 1) >= 0
        <5>1. \A x \in -1..15 : ~(x < 0) => x >= 0
          OBVIOUS
        <5> QED
          BY <2>4, <4>2, <5>1, Zenon
      <4> QED
        BY <4>1, <4>3, <4>4, Zenon DEF Fits
    <3>8. Before(i) \in Nat /\ Before(N) \in Nat /\ Before(i + 2) = Before(i) + 2
      <4>1. Before(i) \in Nat /\ Before(i + 1) = Before(i) + 1 /\ Before(N) \in Nat
        BY <1>0, <1>2, <1>3, <3>1, <3>7
      <4>2. Before((i + 1) + 1) = Before(i + 1) + 1
        BY <1>2, <1>3, <3>2, <3>7
      <4>3. (i + 1) + 1 = i + 2
        BY <3>1
      <4> QED
        BY <4>1, <4>2, <4>3
    <3>9. <<a>> \o r.out \in Seq(Int) /\ Len(<<a>> \o r.out) = Len(r.out) + 1
      BY <3>4, <3>6, Consed
    <3> DEFINE o == <<a>> \o r.out
               g == [ok |-> r.ok, out |-> o]
    <3> HIDE DEF o
    <3>10. /\ o \in Seq(Int) /\ 2 * Len(o) <= Before(N) - Before(i)
           /\ 2 * Len(o) = Before(N) - Before(i) => 2 * Len(r.out) = Before(N) - Before(i + 2)
      <4>1. o \in Seq(Int) /\ Len(o) = Len(r.out) + 1
        BY <3>9 DEF o
      <4>2. Len(r.out) \in Nat /\ 2 * Len(r.out) <= Before(N) - Before(i + 2)
        BY <3>6
      <4> DEFINE l == Len(r.out)
                 p == Before(i)
      <4>3. /\ Len(o) = l + 1 /\ l \in Nat /\ p \in Nat /\ Before(i + 2) = p + 2
            /\ 2 * l <= Before(N) - (p + 2) /\ Before(N) \in Nat
        BY <3>8, <4>1, <4>2
      <4> HIDE DEF l, p
      <4>4. 2 * Len(o) <= Before(N) - p
            /\ (2 * Len(o) = Before(N) - p => 2 * l = Before(N) - (p + 2))
        BY <4>3
      <4> QED
        BY <4>1, <4>3, <4>4, Zenon DEF l, p
    <3>11. (\A k \in i + 2..N - 1 : Fits(k)) => \A k \in i..N - 1 : Fits(k)
      <4>1. \A k \in i..N - 1 : k = i \/ k = i + 1 \/ k \in i + 2..N - 1
        BY <1>0
      <4> QED
        BY <3>7, <4>1, Zenon
    <3>12. g.ok = r.ok /\ g.out = o
      OBVIOUS
    <3> HIDE DEF g
    <3>13. Found(s, i, g)
      BY <1>4, <3>6, <3>10, <3>11, <3>12, Zenon
    <3> QED
      BY <3>3, <3>13 DEF g, o
  <2> QED
    BY <2>1, <2>2, <2>3, <2>4
<1> HIDE DEF T
<1>6. \A i \in 0..N : i \in T
  BY <1>0, <1>5, Downward
<1> QED
  BY <1>6 DEF T, N

\* The mth digit of a good text.
DigitAt(s, m) == hex(s[(CHOOSE i \in Digits : Before(i) = m) + 1])

\* What the scan of a good text gives from the start of a pair on: all that is left.
Rest(s, i, r) ==
  /\ r.ok = TRUE /\ r.out \in Seq(Int)
  /\ 2 * Len(r.out) = Before(UuidSize) - Before(i)
  /\ \A j \in 1..Len(r.out) :
       r.out[j] = 16 * DigitAt(s, Before(i) + 2 * j - 2) + DigitAt(s, Before(i) + 2 * j - 1)

\* Every step of the scan of a good text.
LEMMA ScanRest ==
  ASSUME NEW s \in Seq(Octet), IsUuid(s), NEW f, Scan(s, 0, f)
  PROVE  \A i \in 0..UuidSize : Before(i) % 2 = 0 => Rest(s, i, f[i])
<1> DEFINE N == UuidSize
           v(i) == hex(At(s, i))
           T == {i \in 0..N : Before(i) % 2 = 0 => Rest(s, i, f[i])}
<1>0. N \in Nat /\ Len(s) = N
  BY UuidAssumption DEF IsUuid
<1>1. \A i \in 0..N + 1 : f[i] =
        IF i >= N THEN [ok |-> TRUE, out |-> <<>>]
        ELSE IF At(s, i) = Dash THEN f[i + 1]
        ELSE IF v(i) < 0 \/ v(i + 1) < 0 THEN [ok |-> FALSE, out |-> <<>>]
        ELSE [ok  |-> f[i + 2].ok,
              out |-> <<16 * v(i) + v(i + 1)>> \o f[i + 2].out]
  BY Zenon DEF Scan
<1>2. /\ \A i \in 0..N - 1 : At(s, i) = s[i + 1]
      /\ \A i \in 0..N - 1 : v(i) \in -1..15 /\ (At(s, i) = Dash => v(i) = -1)
      /\ \A i \in 0..N - 1 : i \in Digits <=> i \notin Dashes
  BY <1>0, UuidPlaces
<1>3. /\ \A i \in 0..N - 1 : i \in Dashes => At(s, i) = Dash
      /\ \A i \in 0..N - 1 : i \notin Dashes => v(i) >= 0
  BY <1>2 DEF IsUuid
<1>4. /\ \A i \in 0..N : Before(i) \in Nat
      /\ \A i \in 0..N - 1 : Before(i + 1) = Before(i) + (IF i \in Digits THEN 1 ELSE 0)
      /\ \A i \in 0..N : (i \in Dashes \/ i = N) => Before(i) % 2 = 0
  BY BeforeCounts, UuidAssumption
<1>5. \A i \in 0..N - 1 : i \in Digits => DigitAt(s, Before(i)) = v(i)
  BY <1>2, DigitFound DEF DigitAt
<1>6. \A i, r : Rest(s, i, r) <=>
        /\ r.ok = TRUE /\ r.out \in Seq(Int)
        /\ 2 * Len(r.out) = Before(N) - Before(i)
        /\ \A j \in 1..Len(r.out) :
             r.out[j] = 16 * DigitAt(s, Before(i) + 2 * j - 2) + DigitAt(s, Before(i) + 2 * j - 1)
  BY Zenon DEF Rest
<1> HIDE DEF N, v
<1>7. ASSUME NEW i \in 0..N, \A j \in i + 1..N : j \in T
      PROVE  i \in T
  <2>0. SUFFICES ASSUME Before(i) % 2 = 0
                 PROVE  Rest(s, i, f[i])
    BY Zenon
  <2>1. CASE i = N
    <3>1. f[i] = [ok |-> TRUE, out |-> <<>>]
      <4>1. i \in 0..N + 1 /\ i >= N
        BY <1>0, <2>1
      <4> QED
        BY <1>1, <4>1, Zenon
    <3>2. <<>> \in Seq(Int) /\ Len(<<>>) = 0 /\ Before(N) - Before(i) = 2 * 0
      BY <1>0, <1>4, <2>1
    <3>3. \A j \in 1..0 : FALSE
      OBVIOUS
    <3>4. f[i].ok = TRUE /\ f[i].out = <<>>
      BY <3>1
    <3> QED
      BY <1>6, <3>2, <3>3, <3>4, Zenon
  <2>2. CASE i # N /\ i \in Dashes
    <3>1. i \in 0..N + 1 /\ ~(i >= N) /\ i \in 0..N - 1 /\ i + 1 \in i + 1..N /\ i + 1 \in 0..N
      BY <1>0, <2>2
    <3>2. f[i] = f[i + 1]
      BY <1>1, <1>3, <2>2, <3>1, Zenon
    <3>3. Before(i) \in Nat /\ Before(i + 1) = Before(i)
      <4>1. i \notin Digits
        BY <1>2, <2>2, <3>1
      <4> QED
        BY <1>4, <3>1, <4>1
    <3>4. Rest(s, i + 1, f[i + 1])
      BY <1>7, <2>0, <3>1, <3>3
    <3> QED
      BY <3>2, <3>3, <3>4, Zenon DEF Rest
  <2>3. CASE i # N /\ i \notin Dashes
    <3>1. i \in 0..N + 1 /\ ~(i >= N) /\ i \in 0..N - 1 /\ i + 1 \in 0..N
      BY <1>0, <2>3
    <3>2. i \in Digits /\ Before(i) \in Nat /\ Before(i + 1) = Before(i) + 1
      BY <1>2, <1>4, <2>3, <3>1
    <3>3. Before(i + 1) % 2 # 0
      BY <2>0, <3>2
    <3>4. i + 1 \notin Dashes /\ i + 1 # N
      BY <1>4, <3>1, <3>3
    <3>5. i + 1 \in 0..N - 1 /\ i + 2 \in i + 1..N /\ i + 2 \in 0..N /\ (i + 1) + 1 = i + 2
      BY <1>0, <3>1, <3>4
    <3>6. i + 1 \in Digits /\ Before(i + 2) = Before(i) + 2
      <4>1. i + 1 \in Digits
        BY <1>2, <3>4, <3>5
      <4>2. Before((i + 1) + 1) = Before(i + 1) + 1
        BY <1>4, <3>5, <4>1
      <4> QED
        BY <3>2, <3>5, <4>1, <4>2
    <3> DEFINE r == f[i + 2]
               a == 16 * v(i) + v(i + 1)
               b == Before(i)
    <3>7. v(i) \in 0..15 /\ v(i + 1) \in 0..15 /\ At(s, i) # Dash
      <4>1. /\ v(i) \in -1..15 /\ v(i + 1) \in -1..15
            /\ v(i) >= 0 /\ v(i + 1) >= 0 /\ (At(s, i) = Dash => v(i) = -1)
        BY <1>2, <1>3, <2>3, <3>1, <3>4, <3>5
      <4>2. \A x \in -1..15 : x >= 0 => x \in 0..15 /\ x # -1
        OBVIOUS
      <4> QED
        BY <4>1, <4>2, Zenon
    <3>8. a \in Int /\ ~(v(i) < 0 \/ v(i + 1) < 0)
      <4>1. \A x, y \in 0..15 : 16 * x + y \in Int /\ ~(x < 0) /\ ~(y < 0)
        OBVIOUS
      <4> QED
        BY <3>7, <4>1, Zenon
    <3>9. f[i] = [ok |-> r.ok, out |-> <<a>> \o r.out]
      BY <1>1, <3>1, <3>7, <3>8, Zenon
    <3>10. Before(i + 2) % 2 = 0
      BY <2>0, <3>2, <3>6
    <3>11. Rest(s, i + 2, r)
      BY <1>7, <3>5, <3>10
    <3>12. a = 16 * DigitAt(s, b) + DigitAt(s, b + 1)
      BY <1>5, <3>1, <3>2, <3>5, <3>6, Zenon
    <3>13. b \in Nat /\ Before(i + 2) = b + 2 /\ Before(N) \in Nat
      BY <1>0, <1>4, <3>2, <3>6
    <3> HIDE DEF r, a, b
    <3>14. /\ r.ok = TRUE /\ r.out \in Seq(Int) /\ Len(r.out) \in Nat
           /\ 2 * Len(r.out) = Before(N) - (b + 2)
           /\ \A j \in 1..Len(r.out) :
                r.out[j] = 16 * DigitAt(s, (b + 2) + 2 * j - 2) + DigitAt(s, (b + 2) + 2 * j - 1)
      BY <1>6, <3>11, <3>13
    <3> DEFINE o == <<a>> \o r.out
               g == [ok |-> r.ok, out |-> o]
    <3>15. /\ o \in Seq(Int) /\ Len(o) = Len(r.out) + 1 /\ o[1] = a
           /\ \A j \in 1..Len(r.out) : o[j + 1] = r.out[j]
      <4>1. r.out \in Seq(Int) /\ a \in Int
        BY <3>8, <3>14
      <4> DEFINE t == r.out
      <4> HIDE DEF t
      <4>2. /\ <<a>> \o t \in Seq(Int) /\ Len(<<a>> \o t) = Len(t) + 1 /\ (<<a>> \o t)[1] = a
            /\ \A j \in 1..Len(t) : (<<a>> \o t)[j + 1] = t[j]
        <5>1. t \in Seq(Int) /\ a \in Int
          BY <4>1 DEF t
        <5> QED
          BY <5>1, Consed
      <4> QED
        BY <4>2 DEF t
    <3> HIDE DEF o
    <3>16. 2 * Len(o) = Before(N) - b
      <4> DEFINE l == Len(r.out)
      <4>1. Len(o) = l + 1 /\ l \in Nat /\ 2 * l = Before(N) - (b + 2) /\ b \in Nat
            /\ Before(N) \in Nat
        BY <3>13, <3>14, <3>15
      <4> HIDE DEF l
      <4> QED
        BY <4>1
    <3>17. ASSUME NEW j \in 1..Len(o)
           PROVE  o[j] = 16 * DigitAt(s, b + 2 * j - 2) + DigitAt(s, b + 2 * j - 1)
      <4>1. CASE j = 1
        <5>1. b + 2 * j - 2 = b /\ b + 2 * j - 1 = b + 1
          BY <3>13, <4>1
        <5> QED
          BY <3>12, <3>15, <4>1, <5>1, Zenon
      <4>2. CASE j # 1
        <5> DEFINE k == j - 1
        <5>1. /\ k \in 1..Len(r.out) /\ k + 1 = j
              /\ (b + 2) + 2 * k - 2 = b + 2 * j - 2 /\ (b + 2) + 2 * k - 1 = b + 2 * j - 1
          BY <3>13, <3>14, <3>15, <4>2
        <5> HIDE DEF k
        <5>2. o[k + 1] = r.out[k]
          BY <3>15, <5>1
        <5>3. r.out[k] = 16 * DigitAt(s, (b + 2) + 2 * k - 2) + DigitAt(s, (b + 2) + 2 * k - 1)
          BY <3>14, <5>1, Zenon
        <5> QED
          BY <5>1, <5>2, <5>3, Zenon
      <4> QED
        BY <4>1, <4>2
    <3>18. g.ok = TRUE /\ g.out = o
      BY <3>14
    <3> HIDE DEF g
    <3>19. Rest(s, i, g)
      BY <1>6, <3>15, <3>16, <3>17, <3>18, Zenon DEF b
    <3> QED
      BY <3>9, <3>19 DEF g, o
  <2> QED
    BY <2>1, <2>2, <2>3
<1> HIDE DEF T
<1>8. \A i \in 0..N : i \in T
  BY <1>0, <1>7, Downward
<1> QED
  BY <1>8 DEF T, N

\* The decoder accepts what is a UUID, gives its bytes, and never more than fit.
LEMMA UuidExact ==
  ASSUME NEW s \in Seq(Octet)
  PROVE  /\ agrees(parse_uuid(s), IsUuid(s), UuidValue(s))
         /\ Len(parse_uuid(s).out) <= UuidBytes
<1> DEFINE from == CHOOSE f : Scan(s, 0, f)
           bad == Len(s) # UuidSize \/ \E d \in Dashes : At(s, d) # Dash
<1>1. parse_uuid(s) =
        IF bad THEN [ok |-> FALSE, out |-> <<>>]
        ELSE [ok |-> from[0].ok /\ Len(from[0].out) = UuidBytes, out |-> from[0].out]
  BY Zenon DEF parse_uuid, Scan, At
<1>2. Scan(s, 0, from)
  <2>1. \E f : Scan(s, 0, f)
    BY ScanExists
  <2> QED
    BY <2>1, Zenon
<1> HIDE DEF from
<1>3. /\ UuidSize \in Nat /\ 0 \in 0..UuidSize /\ Before(0) = 0
      /\ Before(UuidSize) \in Nat /\ Before(UuidSize) % 2 = 0
      /\ UuidBytes = Before(UuidSize) \div 2
  BY UuidAssumption, BeforeCounts DEF UuidBytes
<1>4. UuidBytes \in Nat /\ 2 * UuidBytes = Before(UuidSize)
  BY <1>3
<1>5. CASE bad
  <2>1. IsUuid(s) = FALSE
    <3>1. ~IsUuid(s)
      <4>1. SUFFICES ASSUME IsUuid(s) PROVE FALSE
        OBVIOUS
      <4>2. Len(s) = UuidSize
        BY <4>1 DEF IsUuid
      <4>3. PICK d \in Dashes : At(s, d) # Dash
        BY <1>5, <4>2
      <4>4. d \in 0..UuidSize - 1
        BY UuidAssumption
      <4>5. s[d + 1] = Dash /\ At(s, d) = s[d + 1]
        BY <4>1, <4>2, <4>4, UuidPlaces DEF IsUuid
      <4> QED
        BY <4>3, <4>5
    <3> QED
      BY <3>1, Zenon DEF IsUuid
  <2>2. parse_uuid(s).ok = FALSE /\ parse_uuid(s).out = <<>>
    BY <1>1, <1>5
  <2>3. Len(<<>>) <= UuidBytes
    BY <1>4
  <2> QED
    BY <2>1, <2>2, <2>3, Zenon DEF agrees
<1>6. CASE ~bad
  <2>1. Len(s) = UuidSize /\ \A d \in Dashes : At(s, d) = Dash
    BY <1>6, Zenon
  <2> HIDE DEF bad
  <2> DEFINE r == from[0]
  <2>2. Found(s, 0, r)
    BY <1>2, <1>3, <2>1, ScanFound
  <2> HIDE DEF r
  <2>3. /\ r.ok \in BOOLEAN /\ r.out \in Seq(Int) /\ Len(r.out) \in Nat
        /\ 2 * Len(r.out) <= Before(UuidSize)
        /\ r.ok /\ 2 * Len(r.out) = Before(UuidSize) =>
             \A k \in 0..UuidSize - 1 :
               IF k \in Dashes THEN At(s, k) = Dash ELSE hex(At(s, k)) >= 0
    BY <1>3, <2>2 DEF Found
  <2>4. parse_uuid(s) = [ok |-> r.ok /\ Len(r.out) = UuidBytes, out |-> r.out]
    BY <1>1, <1>6, Zenon DEF r
  <2>5. Len(r.out) <= UuidBytes
    BY <1>4, <2>3
  <2>6. r.ok /\ Len(r.out) = UuidBytes => IsUuid(s)
    <3>1. HAVE r.ok /\ Len(r.out) = UuidBytes
    <3>2. \A k \in 0..UuidSize - 1 :
            IF k \in Dashes THEN At(s, k) = Dash ELSE hex(At(s, k)) >= 0
      BY <1>4, <2>3, <3>1
    <3>3. \A k \in 0..UuidSize - 1 : At(s, k) = s[k + 1]
      BY <2>1, UuidPlaces
    <3> QED
      BY <2>1, <3>2, <3>3, Zenon DEF IsUuid
  <2>7. IsUuid(s) => r.ok /\ Len(r.out) = UuidBytes /\ r.out = UuidValue(s)
    <3>1. HAVE IsUuid(s)
    <3>2. Before(0) % 2 = 0
      BY <1>3
    <3>3. Rest(s, 0, r)
      BY <1>2, <1>3, <3>1, <3>2, ScanRest DEF r
    <3>4. r.ok = TRUE /\ 2 * Len(r.out) = Before(UuidSize)
          /\ \A j \in 1..Len(r.out) :
               r.out[j] = 16 * DigitAt(s, 0 + 2 * j - 2) + DigitAt(s, 0 + 2 * j - 1)
      BY <1>3, <3>3 DEF Rest
    <3>5. Len(r.out) = UuidBytes
      BY <1>4, <2>3, <3>4
    <3>6. r.out = [j \in 1..UuidBytes |-> r.out[j]]
      <4>1. r.out \in [1..Len(r.out) -> Int]
        BY <2>3, LenProperties
      <4> QED
        BY <3>5, <4>1
    <3>7. \A j \in 1..UuidBytes :
            r.out[j] = 16 * DigitAt(s, 2 * j - 2) + DigitAt(s, 2 * j - 1)
      <4>1. \A j \in 1..UuidBytes : 0 + 2 * j - 2 = 2 * j - 2 /\ 0 + 2 * j - 1 = 2 * j - 1
        BY <1>4
      <4> QED
        BY <3>4, <3>5, <4>1, Zenon
    <3>8. r.out = UuidValue(s)
      BY <3>6, <3>7, Zenon DEF UuidValue, DigitAt
    <3> QED
      BY <3>4, <3>5, <3>8
  <2>8. (r.ok /\ Len(r.out) = UuidBytes) = IsUuid(s)
    BY <2>6, <2>7, Zenon DEF IsUuid
  <2>9. parse_uuid(s).ok = IsUuid(s) /\ parse_uuid(s).out = r.out
    BY <2>4, <2>8
  <2> QED
    BY <2>5, <2>7, <2>9, Zenon DEF agrees
<1> QED
  BY <1>5, <1>6

(***************************************************************************)
(* All decoders together.                                                  *)
(***************************************************************************)

\* What is decoded is nothing yet, or one of the inputs.
CodecInv == input = NoInput \/ input \in Inputs

\* Every decoder accepts exactly what its reference accepts and gives the same
\* value, for texts of any length over all bytes: base64_decode(), parse_uuid(),
\* the prefix length of Cidr::parse(), and the frame of a datagram.
THEOREM DecodersExactThm == CodecSpec => []DecodersExact
<1>1. CodecInit => CodecInv
  BY DEF CodecInit, CodecInv
<1>2. CodecInv /\ [Decode]_input => CodecInv'
  BY DEF CodecInv, Decode
<1>3. CodecInv => DecodersExact
  <2> SUFFICES ASSUME CodecInv PROVE DecodersExact
    OBVIOUS
  <2>1. CASE input = NoInput
    <3>1. input.kind = "none"
      BY <2>1 DEF NoInput
    <3> QED
      BY <3>1 DEF DecodersExact
  <2>2. CASE input \in Inputs
    <3> DEFINE s == input.text
    <3>1. s \in Seq(Octet)
      <4>1. input \in [kind : {"base64", "uuid", "prefix", "frame"}, text : Seq(Octet)]
        BY <2>2, InputAssumption, Zenon
      <4> QED
        BY <4>1
    <3> HIDE DEF s
    <3>2. agrees(base64_decode(s), IsBase64(s), Base64Value(s))
      BY <3>1, Base64Exact
    <3>3. agrees(parse_uuid(s), IsUuid(s), UuidValue(s)) /\ Len(parse_uuid(s).out) <= UuidBytes
      BY <3>1, UuidExact
    <3>4. \A f \in {"V4", "V6"} : ParsePrefix(f, s) = PrefixValue(f, s)
      BY <3>1, PrefixExact
    <3>5. decodable(s) => encode(decode(s)) = s
      BY <3>1, FrameExact
    <3> QED
      BY <3>2, <3>3, <3>4, <3>5, Zenon DEF DecodersExact, s
  <2> QED
    BY <2>1, <2>2 DEF CodecInv
<1> QED
  BY <1>1, <1>2, <1>3, PTL DEF CodecSpec
=============================================================================
