------------------------- MODULE AsyncStreamProofs -------------------------
(***************************************************************************)
(* Proofs about AsyncStream, for an answer of any length: no reader sleeps *)
(* on data, the watchdog never aborts a destroyed stream, and the reads    *)
(* get the answer's bytes in order.                                        *)
(***************************************************************************)
EXTENDS AsyncStream, Integers, SequenceTheorems, WellFoundedInduction, TLAPS

\* Nothing is open yet.
LEMMA InitInv == Init => StreamInv
BY DEF Init, StreamInv, NoSleepOnData

\* A read that returns leaves no fulfiller behind.
LEMMA ReadStep ==
  ASSUME StreamInv, ReadCheck \/ ReadPark
  PROVE  StreamInv'
<1> USE DEF StreamInv, NoSleepOnData, peer, timer
<1>1. kpc = "rpc" /\ rd \in {"check", "recheck"} /\ ~read_wakeup_
  BY DEF ReadCheck, ReadPark
<1>2. UNCHANGED <<members, eof_, stream, cb, watchdog>>
  BY Zenon DEF ReadCheck, ReadPark
<1>3. cb # "fulfill"
  BY <1>1
<1>4. CASE Return /\ UNCHANGED read_wakeup_
  <2>1. kpc' \in {"failed", "answered", "rpc"} /\ rd' = "idle"
    BY <1>4 DEF Return, Verdict
  <2>2. ~read_wakeup_'
    BY <1>1, <1>4
  <2>3. QED
    BY <1>1, <1>2, <1>3, <2>1, <2>2
<1>5. CASE rd' = "recheck" /\ UNCHANGED <<kpc, read_wakeup_>>
  BY <1>1, <1>2, <1>3, <1>5
<1>6. CASE /\ read_wakeup_' = TRUE /\ rd' = "parked" /\ ~DataThere
           /\ UNCHANGED <<kpc, recv_queue_>>
  BY <1>1, <1>2, <1>3, <1>6 DEF DataThere
<1>7. QED
  BY <1>4, <1>5, <1>6, Zenon DEF ReadCheck, ReadPark

\* The KJ thread's steps: parking and unparking, and the order of teardown.
LEMMA KjStep ==
  ASSUME StreamInv, Kj
  PROVE  StreamInv'
<1> USE DEF StreamInv, NoSleepOnData, reads, shared, peer, timer
<1>1. CASE Open
  BY <1>1 DEF Open
<1>2. CASE write
  BY <1>2 DEF write, Looping
<1>3. CASE ReadBegin
  BY <1>3 DEF ReadBegin, Looping
<1>4. CASE ReadCheck \/ ReadPark
  BY <1>4, ReadStep
<1>5. CASE ReadResume
  BY <1>5 DEF ReadResume
<1>6. CASE Unwind
  BY <1>6 DEF Unwind
<1>7. CASE Join
  BY <1>7 DEF Join, WatchdogJoined
<1>8. CASE DestroyMembers
  <2>1. ~read_wakeup_' /\ ~members'
    BY <1>8, Zenon DEF DestroyMembers
  <2>2. QED
    BY <1>8, <2>1 DEF DestroyMembers
<1>9. CASE StreamClose
  BY <1>9 DEF StreamClose
<1>10. QED
  BY <1>1, <1>2, <1>3, <1>4, <1>5, <1>6, <1>7, <1>8, <1>9 DEF Kj

\* The locked part of onEvent() takes the fulfiller, and then wakes its reader.
LEMMA OnEventStep ==
  ASSUME StreamInv, OnEvent
  PROVE  StreamInv'
<1> USE DEF StreamInv, NoSleepOnData, reads, shared, peer, timer
<1>1. CASE OnReceive \/ OnEnd
  <2>1. UNCHANGED <<kpc, rd, members, watchdog, stream>>
    BY <1>1, Zenon DEF OnReceive, OnEnd, WorkerOnly
  <2>2. TakeWakeup /\ cb \in {"receive", "fin", "end"}
    BY <1>1 DEF OnReceive, OnEnd
  <2>3. ~read_wakeup_'
    BY <2>2, Zenon DEF TakeWakeup
  <2>4. QED
    BY <2>1, <2>2, <2>3 DEF TakeWakeup
<1>2. CASE Fulfill
  BY <1>2 DEF Fulfill
<1>3. CASE OnDeadMembers
  BY <1>3 DEF OnDeadMembers, WorkerOnly
<1>4. QED
  BY <1>1, <1>2, <1>3 DEF OnEvent

\* Events only begin on a stream that is open.
LEMMA EventStep ==
  ASSUME StreamInv,
         EvReceive \/ EvPeerAborted \/ EvShutdownComplete \/ EvSendComplete
  PROVE  StreamInv'
<1> USE DEF StreamInv, NoSleepOnData, WorkerOnly, reads, shared, peer, timer
<1>1. CASE EvReceive
  BY <1>1 DEF EvReceive
<1>2. CASE EvPeerAborted
  BY <1>2 DEF EvPeerAborted
<1>3. CASE EvShutdownComplete
  BY <1>3 DEF EvShutdownComplete
<1>4. CASE EvSendComplete
  BY <1>4 DEF EvSendComplete
<1>5. QED
  BY <1>1, <1>2, <1>3, <1>4

\* The watchdog touches the stream only before it ends.
LEMMA WatchdogStep ==
  ASSUME StreamInv, Watchdog
  PROVE  StreamInv'
<1> USE DEF StreamInv, NoSleepOnData, reads, shared, peer
<1>1. CASE TimerExpires
  BY <1>1 DEF TimerExpires
<1>2. CASE WatchdogCheck
  BY <1>2 DEF WatchdogCheck
<1>3. CASE WatchdogAbort
  BY <1>3 DEF WatchdogAbort, Aborted
<1>4. QED
  BY <1>1, <1>2, <1>3 DEF Watchdog

\* StreamInv holds in every reachable state.
THEOREM Invariance == Spec => []StreamInv
<1>1. StreamInv /\ [Next]_vars => StreamInv'
  <2> SUFFICES ASSUME StreamInv, [Next]_vars
               PROVE  StreamInv'
    OBVIOUS
  <2>1. CASE UNCHANGED vars
    BY <2>1 DEF StreamInv, NoSleepOnData, vars
  <2>2. QED
    BY <2>1, KjStep, OnEventStep, EventStep, WatchdogStep DEF Next, Terminated
<1>2. QED
  BY <1>1, InitInv, PTL DEF Spec

\* tryRead()'s second check under the lock leaves no window: no reader waits
\* while there is data, and a waiting reader will be woken.
THEOREM NoSleepOnDataThm == Spec => []NoSleepOnData
<1>1. StreamInv => NoSleepOnData
  BY DEF StreamInv
<1>2. QED
  BY <1>1, Invariance, PTL

\* The watchdog is joined before the stream it may abort is destroyed.
THEOREM AbortOnLiveStreamThm == Spec => []AbortOnLiveStream
<1>1. StreamInv => AbortOnLiveStream
  BY DEF StreamInv, AbortOnLiveStream
<1>2. QED
  BY <1>1, Invariance, PTL

(***************************************************************************)
(* Induction over the numbers, for a set of them, and what it says of      *)
(* FlattenSeq, which is defined by a recursive function.                   *)
(***************************************************************************)

\* A set of numbers that is not empty has a least one.
LEMMA NatMin ==
  ASSUME NEW T, T \subseteq Nat, T # {}
  PROVE  \E m \in T : \A k \in T : m <= k
<1> DEFINE R == OpToRel(<, Nat)
<1>1. IsWellFoundedOn(R, Nat)
  BY NatLessThanWellFounded, Zenon
<1>2. PICK m \in T : \A k \in T : ~(<<k, m>> \in R)
  <2> HIDE DEF R
  <2> QED
    BY <1>1, WFMin
<1>3. \A k \in T : ~(k < m)
  <2> SUFFICES ASSUME NEW k \in T, k < m
               PROVE  FALSE
    OBVIOUS
  <2>1. <<k, m>> \in {ss \in Nat \X Nat : ss[1] < ss[2]}
    OBVIOUS
  <2>2. <<k, m>> \in R
    BY <2>1 DEF OpToRel
  <2> QED
    BY <2>2, <1>2
<1> QED
  BY <1>3

\* A set that has 0 and with every number the next has them all.
LEMMA NatInd ==
  ASSUME NEW T, 0 \in T, \A n \in Nat : n \in T => n + 1 \in T
  PROVE  \A n \in Nat : n \in T
<1> SUFFICES ASSUME Nat \ T # {}
             PROVE  FALSE
  OBVIOUS
<1>1. PICK m \in Nat \ T : \A k \in Nat \ T : m <= k
  BY NatMin
<1>2. m # 0 /\ m - 1 \in Nat /\ m - 1 \in T
  BY <1>1
<1> QED
  BY <1>2

\* The function by which FlattenSeq is defined, for the first n elements.
Flattens(q, n, f) ==
  f = [i \in 1..n |-> IF i = 1 THEN q[i] ELSE f[i - 1] \o q[i]]

\* There is one, so FlattenSeq's CHOOSE finds it.
LEMMA FlattensExists ==
  ASSUME NEW q, NEW n \in Nat
  PROVE  \E f : Flattens(q, n, f)
<1> DEFINE T == {k \in Nat : \E f : Flattens(q, k, f)}
<1>1. 0 \in T
  <2>1. Flattens(q, 0, [i \in 1..0 |-> q[i]])
    BY DEF Flattens
  <2> QED
    BY <2>1
<1>2. ASSUME NEW k \in Nat, k \in T
      PROVE  k + 1 \in T
  <2>1. PICK f : Flattens(q, k, f)
    BY <1>2
  <2> DEFINE g == [i \in 1..k + 1 |->
                     IF i <= k THEN f[i]
                     ELSE IF i = 1 THEN q[i] ELSE f[i - 1] \o q[i]]
  <2>2. \A i \in 1..k : f[i] = IF i = 1 THEN q[i] ELSE f[i - 1] \o q[i]
    BY <2>1 DEF Flattens
  <2>3. \A i \in 1..k : g[i] = f[i]
    OBVIOUS
  <2>4. \A i \in 1..k + 1 : g[i] = IF i = 1 THEN q[i] ELSE g[i - 1] \o q[i]
    BY <2>2, <2>3
  <2>5. g = [i \in 1..k + 1 |-> g[i]]
    OBVIOUS
  <2>6. Flattens(q, k + 1, g)
    <3> HIDE DEF g
    <3> QED
      BY <2>4, <2>5 DEF Flattens
  <2> QED
    BY <2>6
<1>3. \A k \in Nat : k \in T
  <2> HIDE DEF T
  <2> QED
    BY <1>1, <1>2, NatInd
<1> QED
  BY <1>3

\* It depends on the elements it flattens only.
LEMMA FlattensOne ==
  ASSUME NEW S, NEW q \in Seq(Seq(S)), NEW r \in Seq(Seq(S)),
         NEW n \in 0..Len(q), n <= Len(r), \A i \in 1..n : q[i] = r[i],
         NEW m \in n..Len(r),
         NEW f, Flattens(q, n, f), NEW g, Flattens(r, m, g)
  PROVE  \A i \in 1..n : f[i] = g[i] /\ f[i] \in Seq(S)
<1> DEFINE T == {k \in Nat : k \in 1..n => f[k] = g[k] /\ f[k] \in Seq(S)}
<1>1. \A i \in 1..n : f[i] = IF i = 1 THEN q[i] ELSE f[i - 1] \o q[i]
  BY DEF Flattens
<1>2. \A i \in 1..m : g[i] = IF i = 1 THEN r[i] ELSE g[i - 1] \o r[i]
  BY DEF Flattens
<1>3. 0 \in T
  OBVIOUS
<1>4. ASSUME NEW k \in Nat, k \in T, k + 1 \in 1..n
      PROVE  f[k + 1] = g[k + 1] /\ f[k + 1] \in Seq(S)
  <2>1. q[k + 1] = r[k + 1] /\ q[k + 1] \in Seq(S)
    BY <1>4, ElementOfSeq
  <2>2. CASE k = 0
    BY <2>1, <2>2, <1>1, <1>2, <1>4
  <2>3. CASE k # 0
    <3>1. f[k] = g[k] /\ f[k] \in Seq(S)
      BY <1>4, <2>3
    <3>2. k + 1 \in 1..m /\ k + 1 # 1 /\ (k + 1) - 1 = k
      BY <1>4, <2>3
    <3>3. f[k + 1] = f[k] \o q[k + 1]
      BY <1>1, <1>4, <3>2, Zenon
    <3>4. g[k + 1] = g[k] \o r[k + 1]
      BY <1>2, <1>4, <3>2, Zenon
    <3>5. f[k] \o q[k + 1] \in Seq(S)
      BY <3>1, <2>1, ConcatProperties
    <3> QED
      BY <3>1, <3>3, <3>4, <3>5, <2>1, Zenon
  <2> QED
    BY <2>2, <2>3
<1>5. \A k \in Nat : k \in T
  <2>1. \A k \in Nat : k \in T => k + 1 \in T
    BY <1>4
  <2> HIDE DEF T
  <2> QED
    BY <1>3, <2>1, NatInd
<1> QED
  BY <1>5

\* FlattenSeq is the last value of the recursive function.
LEMMA FlattenIs ==
  ASSUME NEW q, NEW n \in Nat, Len(q) = n, n # 0
  PROVE  \E f : Flattens(q, n, f) /\ FlattenSeq(q) = f[n]
<1> DEFINE flatten == CHOOSE f : Flattens(q, n, f)
<1>1. FlattenSeq(q) = flatten[n]
  BY Zenon DEF FlattenSeq, Flattens
<1>2. Flattens(q, n, flatten)
  BY FlattensExists, Zenon
<1> QED
  BY <1>1, <1>2, Zenon

\* A chunk added at the end of a queue is added at the end of its bytes.
LEMMA FlattenAppend ==
  ASSUME NEW S, NEW q \in Seq(Seq(S)), NEW c \in Seq(S)
  PROVE  /\ FlattenSeq(<<>>) = <<>>
         /\ FlattenSeq(q) \in Seq(S)
         /\ FlattenSeq(Append(q, c)) = FlattenSeq(q) \o c
<1> DEFINE r == Append(q, c)
<1>1. FlattenSeq(<<>>) = <<>>
  BY DEF FlattenSeq
<1>2. /\ r \in Seq(Seq(S)) /\ Len(r) = Len(q) + 1 /\ Len(q) \in Nat
      /\ \A i \in 1..Len(q) : q[i] = r[i]
      /\ r[Len(q) + 1] = c
  OBVIOUS
<1>3. PICK g : Flattens(r, Len(q) + 1, g) /\ FlattenSeq(r) = g[Len(q) + 1]
  <2>1. Len(q) + 1 \in Nat /\ Len(q) + 1 # 0
    BY <1>2
  <2> QED
    BY <1>2, <2>1, FlattenIs, Zenon
<1>4. \A i \in 1..Len(q) + 1 : g[i] = IF i = 1 THEN r[i] ELSE g[i - 1] \o r[i]
  BY <1>3 DEF Flattens
<1>5. CASE Len(q) = 0
  <2>1. q = <<>>
    BY <1>5
  <2>2. g[1] = r[1] /\ r[1] = c
    BY <1>2, <1>4, <1>5
  <2>3. <<>> \o c = c
    BY ConcatEmptySeq
  <2>4. FlattenSeq(q) = <<>> /\ <<>> \in Seq(S)
    BY <1>1, <2>1, EmptySeq, Zenon
  <2>5. Len(q) + 1 = 1
    BY <1>5
  <2> QED
    BY <1>1, <1>3, <2>2, <2>3, <2>4, <2>5, Zenon
<1>6. CASE Len(q) # 0
  <2>1. PICK f : Flattens(q, Len(q), f) /\ FlattenSeq(q) = f[Len(q)]
    BY <1>2, <1>6, FlattenIs
  <2> HIDE DEF r
  <2>2. \A i \in 1..Len(q) : f[i] = g[i] /\ f[i] \in Seq(S)
    <3>1. /\ Len(q) \in 0..Len(q) /\ Len(q) <= Len(r)
          /\ Len(q) + 1 \in Len(q)..Len(r)
      BY <1>2
    <3> QED
      BY <1>2, <1>3, <2>1, <3>1, FlattensOne, Zenon
  <2>3. g[Len(q)] = f[Len(q)] /\ f[Len(q)] \in Seq(S)
    BY <1>2, <1>6, <2>2
  <2>4. /\ Len(q) + 1 \in 1..Len(q) + 1 /\ Len(q) + 1 # 1
        /\ (Len(q) + 1) - 1 = Len(q)
    BY <1>2, <1>6
  <2>5. g[Len(q) + 1] = g[Len(q)] \o c
    BY <1>2, <1>4, <2>4, Zenon
  <2> QED
    BY <1>1, <1>3, <2>1, <2>3, <2>5, Zenon DEF r
<1> QED
  BY <1>5, <1>6

\* Concatenation is associative.
Regroups(a, b, c) == (a \o b) \o c = a \o (b \o c)

\* For sequences.
LEMMA Concat3 ==
  ASSUME NEW S, NEW a \in Seq(S), NEW b \in Seq(S), NEW c \in Seq(S)
  PROVE  Regroups(a, b, c)
BY DEF Regroups

\* The step of the induction on the second sequence.
LEMMA FlattenSnoc ==
  ASSUME NEW S, NEW q \in Seq(Seq(S)), NEW t \in Seq(Seq(S)), NEW c \in Seq(S),
         FlattenSeq(q \o t) = FlattenSeq(q) \o FlattenSeq(t)
  PROVE  FlattenSeq(q \o Append(t, c)) = FlattenSeq(q) \o FlattenSeq(Append(t, c))
<1>1. q \o Append(t, c) = Append(q \o t, c) /\ q \o t \in Seq(Seq(S))
  OBVIOUS
<1>2. /\ FlattenSeq(Append(q \o t, c)) = FlattenSeq(q \o t) \o c
      /\ FlattenSeq(Append(t, c)) = FlattenSeq(t) \o c
      /\ FlattenSeq(q) \in Seq(S) /\ FlattenSeq(t) \in Seq(S)
  BY <1>1, FlattenAppend
<1>3. Regroups(FlattenSeq(q), FlattenSeq(t), c)
  BY <1>2, Concat3, Zenon
<1> QED
  BY <1>1, <1>2, <1>3 DEF Regroups

\* Flattening two queues in a row is flattening the one and then the other.
LEMMA FlattenConcat ==
  ASSUME NEW S, NEW q \in Seq(Seq(S)), NEW r \in Seq(Seq(S))
  PROVE  FlattenSeq(q \o r) = FlattenSeq(q) \o FlattenSeq(r)
<1> DEFINE P(n) == \A s \in Seq(Seq(S)) : Len(s) = n =>
                      FlattenSeq(q \o s) = FlattenSeq(q) \o FlattenSeq(s)
           T == {n \in Nat : P(n)}
<1>1. P(0)
  <2> SUFFICES ASSUME NEW s \in Seq(Seq(S)), Len(s) = 0
               PROVE  FlattenSeq(q \o s) = FlattenSeq(q) \o FlattenSeq(s)
    OBVIOUS
  <2>1. s = <<>>
    OBVIOUS
  <2>2. q \o s = q
    BY <2>1, ConcatEmptySeq
  <2>3. FlattenSeq(s) = <<>> /\ FlattenSeq(q) \in Seq(S)
    BY <2>1, FlattenAppend, EmptySeq
  <2>4. FlattenSeq(q) \o <<>> = FlattenSeq(q)
    BY <2>3, ConcatEmptySeq
  <2> QED
    BY <2>2, <2>3, <2>4
<1>2. ASSUME NEW n \in Nat, P(n)
      PROVE  P(n + 1)
  <2> SUFFICES ASSUME NEW s \in Seq(Seq(S)), Len(s) = n + 1
               PROVE  FlattenSeq(q \o s) = FlattenSeq(q) \o FlattenSeq(s)
    OBVIOUS
  <2>1. PICK t \in Seq(Seq(S)), c \in Seq(S) : s = Append(t, c)
    <3>1. s # <<>>
      BY <1>2
    <3> QED
      BY <3>1, SequenceEmptyOrAppend
  <2>2. Len(t) = n
    BY <1>2, <2>1
  <2>3. FlattenSeq(q \o t) = FlattenSeq(q) \o FlattenSeq(t)
    BY <1>2, <2>2
  <2> QED
    BY <2>1, <2>3, FlattenSnoc
<1>3. \A n \in Nat : P(n)
  <2> HIDE DEF P
  <2>1. 0 \in T /\ \A n \in Nat : n \in T => n + 1 \in T
    BY <1>1, <1>2
  <2> HIDE DEF T
  <2>2. \A n \in Nat : n \in T
    BY <2>1, NatInd
  <2> QED
    BY <2>2 DEF T
<1>4. Len(r) \in Nat
  OBVIOUS
<1> QED
  BY <1>3, <1>4

\* A sequence cut in two.
LEMMA Split ==
  ASSUME NEW S, NEW q \in Seq(S), NEW k \in 1..Len(q)
  PROVE  /\ q = SubSeq(q, 1, k) \o SubSeq(q, k + 1, Len(q))
         /\ SubSeq(q, 1, k) \in Seq(S)
         /\ SubSeq(q, 1, k) = Append(SubSeq(q, 1, k - 1), q[k])
OBVIOUS

\* Two sequences that hold the front and the back of a third make it up.
LEMMA FrontAndBack ==
  ASSUME NEW S, NEW all \in Seq(S), NEW x \in Seq(S), NEW y \in Seq(S),
         Len(all) = Len(x) + Len(y),
         \A i \in 1..Len(x) : x[i] = all[i],
         \A i \in 1..Len(y) : y[i] = all[Len(x) + i]
  PROVE  x \o y = all
<1>1. /\ x \o y \in Seq(S) /\ Len(x \o y) = Len(all)
      /\ \A i \in 1..Len(all) :
           (x \o y)[i] = IF i <= Len(x) THEN x[i] ELSE y[i - Len(x)]
  BY ConcatProperties
<1>2. \A i \in 1..Len(all) : (x \o y)[i] = all[i]
  <2> SUFFICES ASSUME NEW i \in 1..Len(all)
               PROVE  (x \o y)[i] = all[i]
    OBVIOUS
  <2>1. CASE i <= Len(x)
    BY <1>1, <2>1
  <2>2. CASE ~(i <= Len(x))
    <3>1. i - Len(x) \in 1..Len(y) /\ Len(x) + (i - Len(x)) = i
      BY <2>2
    <3>2. y[i - Len(x)] = all[Len(x) + (i - Len(x))]
      BY <3>1, Zenon
    <3> QED
      BY <1>1, <2>2, <3>1, <3>2, Zenon
  <2> QED
    BY <2>1, <2>2
<1> QED
  BY <1>1, <1>2, SeqEqual

\* all is a, b and c, and its first n elements end inside b, where cut begins.
CutsAt(a, b, c, n, all, cut) ==
  /\ n \in Nat /\ Len(a) <= n /\ n < Len(a) + Len(b)
  /\ all = (a \o b) \o c
  /\ cut = SubSeq(b, (n - Len(a)) + 1, Len(b))

Rejoins(all, n, cut, c) == SubSeq(all, 1, n) \o (cut \o c) = all

\* Then the first n elements, cut and c make up the whole.
LEMMA CutInside ==
  ASSUME NEW S, NEW a \in Seq(S), NEW b \in Seq(S), NEW c \in Seq(S),
         NEW n, NEW all, NEW cut, CutsAt(a, b, c, n, all, cut)
  PROVE  cut \in Seq(S) /\ Rejoins(all, n, cut, c)
<1> DEFINE x == SubSeq(all, 1, n)
           rest == cut \o c
<1> USE DEF CutsAt
<1>1. cut \in Seq(S)
  OBVIOUS
<1>2. /\ Len(cut) = Len(a) + Len(b) - n
      /\ \A i \in 1..Len(cut) : cut[i] = b[(n - Len(a)) + i]
  OBVIOUS
<1>3. /\ all \in Seq(S) /\ Len(all) = Len(a) + Len(b) + Len(c)
      /\ \A i \in 1..Len(all) :
           all[i] = IF i <= Len(a) THEN a[i]
                    ELSE IF i <= Len(a) + Len(b) THEN b[i - Len(a)]
                    ELSE c[i - (Len(a) + Len(b))]
  OBVIOUS
<1>4. x \in Seq(S) /\ Len(x) = n /\ \A i \in 1..n : x[i] = all[i]
  BY <1>3
<1>5. /\ rest \in Seq(S) /\ Len(rest) = Len(cut) + Len(c)
      /\ \A i \in 1..Len(cut) + Len(c) :
           rest[i] = IF i <= Len(cut) THEN cut[i] ELSE c[i - Len(cut)]
  BY <1>1, ConcatProperties
<1>0. n \in Nat /\ Len(a) <= n /\ n < Len(a) + Len(b)
  OBVIOUS
<1> HIDE DEF x, rest, CutsAt
<1>6. \A i \in 1..Len(rest) : rest[i] = all[n + i]
  <2> SUFFICES ASSUME NEW i \in 1..Len(rest)
               PROVE  rest[i] = all[n + i]
    OBVIOUS
  <2>0. n + i \in 1..Len(all) /\ ~(n + i <= Len(a)) /\ i \in 1..Len(cut) + Len(c)
    BY <1>0, <1>2, <1>3, <1>5
  <2>1. CASE i <= Len(cut)
    <3>1. i \in 1..Len(cut) /\ n + i <= Len(a) + Len(b)
      BY <1>0, <1>2, <2>1
    <3>2. all[n + i] = b[(n + i) - Len(a)]
      BY <1>3, <2>0, <3>1, Zenon
    <3>3. rest[i] = b[(n - Len(a)) + i]
      BY <1>2, <1>5, <2>0, <2>1, <3>1, Zenon
    <3>4. (n + i) - Len(a) = (n - Len(a)) + i
      BY <1>0
    <3> QED
      BY <3>2, <3>3, <3>4, Zenon
  <2>2. CASE ~(i <= Len(cut))
    <3>1. ~(n + i <= Len(a) + Len(b))
      BY <1>0, <1>2, <2>2
    <3>2. all[n + i] = c[(n + i) - (Len(a) + Len(b))]
      BY <1>3, <2>0, <3>1, Zenon
    <3>3. rest[i] = c[i - Len(cut)]
      BY <1>5, <2>0, <2>2, Zenon
    <3>4. (n + i) - (Len(a) + Len(b)) = i - Len(cut)
      BY <1>0, <1>2
    <3> QED
      BY <3>2, <3>3, <3>4, Zenon
  <2> QED
    BY <2>1, <2>2
<1>7. Len(all) = Len(x) + Len(rest)
  BY <1>0, <1>2, <1>3, <1>4, <1>5
<1>8. x \o rest = all
  <2>1. x \in Seq(S) /\ rest \in Seq(S) /\ all \in Seq(S)
    BY <1>3, <1>4, <1>5
  <2>2. \A i \in 1..Len(x) : x[i] = all[i]
    BY <1>4, Zenon
  <2>3. \A i \in 1..Len(rest) : rest[i] = all[Len(x) + i]
    BY <1>4, <1>6, Zenon
  <2> QED
    BY <1>7, <2>1, <2>2, <2>3, FrontAndBack, Zenon
<1> QED
  BY <1>1, <1>8 DEF x, rest, Rejoins

\* drainLocked(): what it hands out, followed by what it leaves queued, is what
\* was queued, also when the destination ends inside a chunk.
LEMMA DrainedKeepsBytes ==
  ASSUME NEW S, NEW q \in Seq(Seq(S)), NEW max \in Nat
  PROVE  /\ Drained(q, max).out \in Seq(S)
         /\ Drained(q, max).left \in Seq(Seq(S))
         /\ Drained(q, max).out \o FlattenSeq(Drained(q, max).left) = FlattenSeq(q)
<1> DEFINE flat  == FlattenSeq(q)
           n     == IF Len(flat) < max THEN Len(flat) ELSE max
           ends  == [i \in 0..Len(q) |-> Len(FlattenSeq(SubSeq(q, 1, i)))]
           Whole(i) == /\ i \in 0..Len(q) /\ ends[i] <= n
                       /\ \A j \in 0..Len(q) : ends[j] <= n => j <= i
           whole == CHOOSE i \in 0..Len(q) :
                      ends[i] <= n /\ \A j \in 0..Len(q) : ends[j] <= n => j <= i
           next  == q[whole + 1]
           taken == n - ends[whole]
           left  == IF whole = Len(q) THEN <<>>
                    ELSE <<SubSeq(next, taken + 1, Len(next))>>
                           \o SubSeq(q, whole + 2, Len(q))
<1>1. Drained(q, max).out = SubSeq(flat, 1, n) /\ Drained(q, max).left = left
  BY DEF Drained
<1>2. flat \in Seq(S) /\ Len(flat) \in Nat /\ n \in 0..Len(flat) /\ Len(q) \in Nat
  <2>1. FlattenSeq(q) \in Seq(S)
    BY FlattenAppend, EmptySeq
  <2> QED
    BY <2>1
<1>3. \A i \in 0..Len(q) : /\ SubSeq(q, 1, i) \in Seq(Seq(S))
                            /\ FlattenSeq(SubSeq(q, 1, i)) \in Seq(S)
                            /\ ends[i] = Len(FlattenSeq(SubSeq(q, 1, i)))
                            /\ ends[i] \in Nat
  <2> SUFFICES ASSUME NEW i \in 0..Len(q)
               PROVE  /\ SubSeq(q, 1, i) \in Seq(Seq(S))
                      /\ FlattenSeq(SubSeq(q, 1, i)) \in Seq(S)
                      /\ Len(FlattenSeq(SubSeq(q, 1, i))) \in Nat
    BY Zenon
  <2>1. SubSeq(q, 1, i) \in Seq(Seq(S))
    OBVIOUS
  <2>2. FlattenSeq(SubSeq(q, 1, i)) \in Seq(S)
    BY <2>1, FlattenAppend, EmptySeq
  <2> QED
    BY <2>1, <2>2, LenProperties
<1>4. \E i \in 0..Len(q) :
        ends[i] <= n /\ \A j \in 0..Len(q) : ends[j] <= n => j <= i
  <2> DEFINE T == {Len(q) - i : i \in {j \in 0..Len(q) : ends[j] <= n}}
  <2>1. ends[0] <= n
    <3>1. SubSeq(q, 1, 0) = <<>>
      BY SubSeqEmpty
    <3>2. FlattenSeq(<<>>) = <<>>
      BY FlattenAppend, EmptySeq
    <3>3. Len(FlattenSeq(SubSeq(q, 1, 0))) = 0
      BY <3>1, <3>2, EmptySeq
    <3> QED
      BY <1>2, <1>3, <3>3
  <2> HIDE DEF n, ends
  <2>2. T \subseteq Nat /\ Len(q) \in T
    BY <1>2, <2>1
  <2>3. PICK m \in T : \A k \in T : m <= k
    <3> HIDE DEF T
    <3> QED
      BY <2>2, NatMin
  <2>4. PICK i \in {j \in 0..Len(q) : ends[j] <= n} : m = Len(q) - i
    BY <2>3
  <2>5. ASSUME NEW j \in 0..Len(q), ends[j] <= n
        PROVE  j <= i
    <3>1. Len(q) - j \in T
      BY <2>5
    <3>2. m <= Len(q) - j
      BY <2>3, <3>1
    <3> QED
      BY <1>2, <2>4, <3>2
  <2> QED
    BY <2>4, <2>5
<1>5. /\ whole \in 0..Len(q) /\ ends[whole] <= n
      /\ \A j \in 0..Len(q) : ends[j] <= n => j <= whole
  <2> HIDE DEF n, ends
  <2> QED
    BY <1>4
<1>6. CASE whole = Len(q)
  <2>1. ends[whole] = Len(flat)
    BY <1>2, <1>3, <1>5, <1>6, SubSeqFull
  <2>2. n = Len(flat)
    <3> HIDE DEF whole, n, ends, flat
    <3> QED
      BY <1>2, <1>5, <2>1
  <2>3. SubSeq(flat, 1, n) = flat
    BY <1>2, <2>2, SubSeqFull
  <2>4. left = <<>> /\ FlattenSeq(<<>>) = <<>>
    BY <1>6, FlattenAppend, EmptySeq
  <2>5. flat \o <<>> = flat
    BY <1>2, ConcatEmptySeq
  <2> HIDE DEF left, n, flat
  <2> QED
    BY <1>1, <1>2, <2>3, <2>4, <2>5, EmptySeq DEF flat
<1>7. CASE whole # Len(q)
  <2> DEFINE A == FlattenSeq(SubSeq(q, 1, whole))
             R == SubSeq(q, whole + 2, Len(q))
             C == FlattenSeq(R)
             cut == SubSeq(next, taken + 1, Len(next))
  <2>1. /\ SubSeq(q, 1, whole) \in Seq(Seq(S)) /\ A \in Seq(S)
        /\ ends[whole] = Len(A) /\ Len(A) \in Nat
    BY <1>3, <1>5, Zenon
  <2>2. whole \in Nat /\ whole + 1 \in 1..Len(q)
    BY <1>2, <1>5, <1>7
  <2> HIDE DEF whole, n, ends
  <2>3. next \in Seq(S) /\ R \in Seq(Seq(S)) /\ C \in Seq(S)
    <3>1. next \in Seq(S)
      BY <2>2, ElementOfSeq
    <3>2. R \in Seq(Seq(S))
      BY <2>2
    <3> QED
      BY <3>1, <3>2, FlattenAppend
  <2>4. /\ q = SubSeq(q, 1, whole + 1) \o R
        /\ SubSeq(q, 1, whole + 1) \in Seq(Seq(S))
        /\ SubSeq(q, 1, whole + 1) = Append(SubSeq(q, 1, whole), next)
    <3>1. (whole + 1) + 1 = whole + 2 /\ (whole + 1) - 1 = whole
      BY <2>2
    <3> QED
      BY <2>2, <3>1, Split
  <2>5. FlattenSeq(SubSeq(q, 1, whole + 1)) = A \o next
    BY <2>1, <2>3, <2>4, FlattenAppend
  <2>6. flat = (A \o next) \o C
    <3>1. flat = FlattenSeq(SubSeq(q, 1, whole + 1)) \o C
      BY <2>3, <2>4, FlattenConcat
    <3> QED
      BY <2>5, <3>1
  <2>7. ends[whole + 1] = Len(A \o next) /\ ~(ends[whole + 1] <= n)
    <3>1. whole + 1 \in 0..Len(q) /\ ~(whole + 1 <= whole)
      BY <2>2
    <3> QED
      BY <1>3, <1>5, <2>5, <3>1, Zenon
  <2>8. left = <<cut>> \o R
    BY <1>7
  <2>9. taken = n - Len(A)
    BY <2>1
  <2> HIDE DEF A, C, R, next, flat, left
  <2>10. n \in Nat /\ n < Len(A) + Len(next) /\ Len(A) <= n
    BY <1>2, <1>5, <2>1, <2>3, <2>7
  <2>11. /\ cut \in Seq(S)
         /\ SubSeq(flat, 1, n) \o (cut \o C) = flat
    <3>1. cut = SubSeq(next, (n - Len(A)) + 1, Len(next))
      BY <2>9
    <3> HIDE DEF cut
    <3>2. CutsAt(A, next, C, n, flat, cut)
      BY <2>6, <2>10, <3>1 DEF CutsAt
    <3>3. cut \in Seq(S) /\ Rejoins(flat, n, cut, C)
      BY <2>1, <2>3, <3>2, CutInside, Zenon
    <3> QED
      BY <3>3 DEF Rejoins
  <2> HIDE DEF cut, taken
  <2>12. FlattenSeq(left) = cut \o C
    <3>1. <<cut>> \in Seq(Seq(S)) /\ <<>> \in Seq(Seq(S)) /\ <<cut>> = Append(<<>>, cut)
      BY <2>11
    <3>2. FlattenSeq(<<cut>>) = <<>> \o cut
      BY <2>11, <3>1, FlattenAppend
    <3>3. <<>> \o cut = cut
      BY <2>11, ConcatEmptySeq
    <3> QED
      BY <2>3, <2>8, <3>1, <3>2, <3>3, FlattenConcat DEF C
  <2>13. left \in Seq(Seq(S)) /\ SubSeq(flat, 1, n) \in Seq(S)
    BY <1>2, <2>3, <2>8, <2>11
  <2>14. flat = FlattenSeq(q)
    BY DEF flat
  <2> QED
    BY <1>1, <2>11, <2>12, <2>13, <2>14
<1> QED
  BY <1>6, <1>7

(***************************************************************************)
(* The answer's bytes.                                                     *)
(***************************************************************************)

\* The bytes of two ranges in a row are those of the whole range.
LEMMA BytesConcat ==
  ASSUME NEW a \in Nat, NEW b \in Nat, NEW c \in Nat, a <= b, b <= c
  PROVE  Bytes(a, b) \o Bytes(b, c) = Bytes(a, c)
<1> DEFINE x == Bytes(a, b)
           y == Bytes(b, c)
           all == Bytes(a, c)
<1>1. /\ x \in Seq(Nat) /\ Len(x) = b - a /\ \A i \in 1..Len(x) : x[i] = a + i
      /\ y \in Seq(Nat) /\ Len(y) = c - b /\ \A i \in 1..Len(y) : y[i] = b + i
      /\ all \in Seq(Nat) /\ Len(all) = c - a
      /\ \A i \in 1..Len(all) : all[i] = a + i
  BY DEF Bytes
<1> HIDE DEF x, y, all
<1>2. /\ Len(all) = Len(x) + Len(y)
      /\ \A i \in 1..Len(x) : x[i] = all[i]
      /\ \A i \in 1..Len(y) : y[i] = all[Len(x) + i]
  BY <1>1
<1>3. x \o y = all
  BY <1>1, <1>2, FrontAndBack, Zenon
<1> QED
  BY <1>3 DEF x, y, all

\* Bytes(a, b) are bytes of the answer.
LEMMA BytesType ==
  ASSUME NEW a \in Nat, NEW b \in Nat, b <= AnswerLen
  PROVE  Bytes(a, b) \in Seq(1..AnswerLen)
BY AnswerLenAssumption DEF Bytes

\* Skipping an empty buffer loses nothing.
LEMMA FlattenChunk ==
  ASSUME NEW S, NEW buf \in Seq(S)
  PROVE  Chunk(buf) \in Seq(Seq(S)) /\ FlattenSeq(Chunk(buf)) = buf
<1>1. CASE buf = <<>>
  BY <1>1, FlattenAppend, EmptySeq DEF Chunk
<1>2. CASE buf # <<>>
  <2>1. Chunk(buf) = <<buf>> /\ <<buf>> = Append(<<>>, buf)
    BY <1>2 DEF Chunk
  <2>2. <<>> \in Seq(Seq(S)) /\ <<buf>> \in Seq(Seq(S))
    OBVIOUS
  <2>3. FlattenSeq(<<buf>>) = <<>> \o buf
    BY <2>1, <2>2, FlattenAppend
  <2>4. <<>> \o buf = buf
    BY ConcatEmptySeq
  <2> QED
    BY <2>1, <2>2, <2>3, <2>4
<1> QED
  BY <1>1, <1>2

\* What the three variables that carry the bytes may do in a step.
LEMMA ByteSteps ==
  ASSUME Next
  PROVE  \/ UNCHANGED <<got, recv_queue_, delivered>>
         \/ kpc = "rpc" /\ Return /\ UNCHANGED <<delivered, members>>
         \/ OnReceive
         \/ /\ recv_queue_' = <<>> /\ members' = FALSE
            /\ UNCHANGED <<got, delivered>>
BY Zenon DEF Next, Kj, Watchdog, OnEvent, Open, write, ReadBegin, ReadCheck,
   ReadPark, ReadResume, Unwind, Join, DestroyMembers, StreamClose, EvReceive,
   EvPeerAborted, EvShutdownComplete, EvSendComplete, OnEnd, Fulfill,
   OnDeadMembers, TimerExpires, WatchdogCheck, WatchdogAbort, Terminated,
   WorkerOnly, reads, shared, peer, timer, vars

\* A read that returns hands out the front of the queue.
LEMMA ReturnKeeps ==
  ASSUME got \in Seq(1..AnswerLen), recv_queue_ \in Seq(Seq(1..AnswerLen)),
         want.max \in Nat, Return
  PROVE  /\ got' \in Seq(1..AnswerLen)
         /\ recv_queue_' \in Seq(Seq(1..AnswerLen))
         /\ got' \o FlattenSeq(recv_queue_') = got \o FlattenSeq(recv_queue_)
<1> DEFINE S == 1..AnswerLen
           out == Drained(recv_queue_, want.max).out
           left == Drained(recv_queue_, want.max).left
<1>1. recv_queue_' = left /\ got' = got \o out
  BY DEF Return
<1>2. got \in Seq(S) /\ recv_queue_ \in Seq(Seq(S)) /\ want.max \in Nat
  OBVIOUS
<1> HIDE DEF S
<1>3. /\ out \in Seq(S) /\ left \in Seq(Seq(S))
      /\ out \o FlattenSeq(left) = FlattenSeq(recv_queue_)
  BY <1>2, DrainedKeepsBytes
<1> HIDE DEF out, left
<1>4. FlattenSeq(left) \in Seq(S)
  BY <1>3, FlattenAppend
<1>5. Regroups(got, out, FlattenSeq(left))
  BY <1>2, <1>3, <1>4, Concat3, Zenon
<1>6. got \o out \in Seq(S)
  BY <1>2, <1>3, ConcatProperties
<1>7. got' \o FlattenSeq(recv_queue_') = got \o FlattenSeq(recv_queue_)
  BY <1>1, <1>3, <1>5 DEF Regroups
<1> QED
  BY <1>1, <1>3, <1>6, <1>7 DEF S

\* RECEIVE queues the bytes that come next.
LEMMA ReceiveAdds ==
  ASSUME got \in Seq(1..AnswerLen), recv_queue_ \in Seq(Seq(1..AnswerLen)),
         delivered \in 0..AnswerLen, BytesInOrder, OnReceive
  PROVE  /\ delivered' \in 0..AnswerLen /\ UNCHANGED <<got, members>>
         /\ recv_queue_' \in Seq(Seq(1..AnswerLen))
         /\ got' \o FlattenSeq(recv_queue_') = Bytes(0, delivered')
<1> DEFINE S == 1..AnswerLen
<1>1. UNCHANGED <<got, members>> /\ members
  BY Zenon DEF OnReceive, WorkerOnly, reads
<1> DEFINE Receives(mid, to) ==
             /\ mid \in delivered..to /\ delivered' = to
             /\ recv_queue_' = recv_queue_ \o (Chunk(Bytes(delivered, mid))
                                                  \o Chunk(Bytes(mid, to)))
<1>2. PICK mid, to : to \in delivered..AnswerLen /\ Receives(mid, to)
  BY Zenon DEF OnReceive
<1>3. /\ to \in Nat /\ mid \in Nat /\ delivered \in Nat /\ 0 <= delivered
      /\ delivered <= mid /\ mid <= to /\ to <= AnswerLen /\ mid <= AnswerLen
      /\ delivered <= to
  BY <1>2, AnswerLenAssumption
<1> DEFINE x == Bytes(delivered, mid)
           y == Bytes(mid, to)
           q == recv_queue_
<1>4. /\ x \in Seq(S) /\ y \in Seq(S) /\ Bytes(delivered, to) \in Seq(S)
      /\ x \o y = Bytes(delivered, to)
  BY <1>3, BytesType, BytesConcat
<1>5. got \in Seq(S) /\ q \in Seq(Seq(S))
  OBVIOUS
<1> HIDE DEF S, x, y
<1>6. /\ Chunk(x) \in Seq(Seq(S)) /\ FlattenSeq(Chunk(x)) = x
      /\ Chunk(y) \in Seq(Seq(S)) /\ FlattenSeq(Chunk(y)) = y
  BY <1>4, FlattenChunk
<1>7. /\ Chunk(x) \o Chunk(y) \in Seq(Seq(S))
      /\ FlattenSeq(Chunk(x) \o Chunk(y)) = x \o y
  BY <1>6, FlattenConcat, ConcatProperties
<1> DEFINE more == Chunk(x) \o Chunk(y)
<1>8. recv_queue_' = q \o more
  BY <1>2 DEF x, y
<1> HIDE DEF q, more
<1>9. /\ q \o more \in Seq(Seq(S))
      /\ FlattenSeq(q \o more) = FlattenSeq(q) \o (x \o y)
      /\ FlattenSeq(q) \in Seq(S)
  <2>1. more \in Seq(Seq(S)) /\ FlattenSeq(more) = x \o y
    BY <1>7 DEF more
  <2>2. FlattenSeq(q) \in Seq(S)
    BY <1>4, <1>5, FlattenAppend
  <2>3. FlattenSeq(q \o more) = FlattenSeq(q) \o FlattenSeq(more)
    BY <1>5, <2>1, FlattenConcat
  <2> QED
    BY <1>5, <2>1, <2>2, <2>3, ConcatProperties
<1>10. got \o (FlattenSeq(q) \o (x \o y)) = Bytes(0, to)
  <2> DEFINE z == x \o y
  <2>1. z \in Seq(S) /\ z = Bytes(delivered, to)
    BY <1>4
  <2> HIDE DEF z
  <2>2. Regroups(got, FlattenSeq(q), z)
    BY <1>5, <1>9, <2>1, Concat3, Zenon
  <2>3. got \o FlattenSeq(q) = Bytes(0, delivered)
    BY <1>1 DEF BytesInOrder, q
  <2>4. Bytes(0, delivered) \o Bytes(delivered, to) = Bytes(0, to)
    BY <1>3, BytesConcat
  <2> QED
    BY <2>1, <2>2, <2>3, <2>4 DEF z, Regroups
<1>11. delivered' \in 0..AnswerLen
  BY <1>2, <1>3
<1>12. got' \o FlattenSeq(recv_queue_') = Bytes(0, delivered')
  BY <1>1, <1>2, <1>8, <1>9, <1>10
<1> QED
  BY <1>1, <1>8, <1>9, <1>11, <1>12 DEF S

\* The flags stay flags, and the control variables keep to their values.
LEMMA ControlType ==
  ASSUME TypeOK, [Next]_vars
  PROVE  /\ members' \in BOOLEAN /\ eof_' \in BOOLEAN /\ read_wakeup_' \in BOOLEAN
         /\ sending' \in BOOLEAN /\ taking' \in BOOLEAN /\ done' \in BOOLEAN
         /\ kpc' \in {"open", "rpc", "answered", "failed", "join", "members",
                      "close", "returned"}
         /\ rd' \in {"idle", "check", "recheck", "parked", "woken"}
         /\ ctx' \in {"none", "msquic", "freed"}
         /\ stream' \in {"none", "open", "aborted", "complete", "closed"}
         /\ cb' \in {"idle", "receive", "fin", "end", "fulfill"}
         /\ watchdog' \in {"none", "sleep", "check", "abort", "ended"}
<1> USE DEF Next, Kj, Watchdog, OnEvent, Open, write, ReadBegin, ReadCheck,
    ReadPark, ReadResume, Unwind, Join, DestroyMembers, StreamClose, EvReceive,
    EvPeerAborted, EvShutdownComplete, EvSendComplete, OnReceive, OnEnd, Fulfill,
    OnDeadMembers, TimerExpires, WatchdogCheck, WatchdogAbort, Terminated,
    WorkerOnly, TakeWakeup, Return, Reclaimed, Aborted, reads, shared, peer,
    timer, vars
<1>1. /\ members \in BOOLEAN /\ eof_ \in BOOLEAN /\ read_wakeup_ \in BOOLEAN
      /\ sending \in BOOLEAN /\ taking \in BOOLEAN /\ done \in BOOLEAN
  BY DEF TypeOK
<1>2. members' \in BOOLEAN /\ read_wakeup_' \in BOOLEAN /\ taking' \in BOOLEAN
  BY <1>1, Zenon
<1>3. eof_' \in BOOLEAN /\ sending' \in BOOLEAN /\ done' \in BOOLEAN
  BY <1>1, Zenon
<1>4. Verdict(Drained(recv_queue_, want.max).out) \in {"failed", "answered", "rpc"}
  BY DEF Verdict
<1>5. kpc' \in {"open", "rpc", "answered", "failed", "join", "members", "close",
                "returned"}
  BY <1>4 DEF TypeOK
<1>6. /\ rd' \in {"idle", "check", "recheck", "parked", "woken"}
      /\ ctx' \in {"none", "msquic", "freed"}
  BY DEF TypeOK
<1>7. /\ stream' \in {"none", "open", "aborted", "complete", "closed"}
      /\ cb' \in {"idle", "receive", "fin", "end", "fulfill"}
      /\ watchdog' \in {"none", "sleep", "check", "abort", "ended"}
  BY DEF TypeOK
<1> QED
  BY <1>2, <1>3, <1>5, <1>6, <1>7

\* A read asks for what is missing of the answer.
LEMMA WantType ==
  ASSUME TypeOK, [Next]_vars
  PROVE  want' \in [min : 0..AnswerLen, max : 0..AnswerLen]
<1>1. CASE ReadBegin
  <2>1. Len(got) \in Nat /\ AnswerLen \in Nat
    BY AnswerLenAssumption DEF TypeOK
  <2>2. PICK max \in 1..(AnswerLen - Len(got)) :
          \E min \in 1..max : want' = [min |-> min, max |-> max]
    BY <1>1 DEF ReadBegin
  <2>3. PICK min \in 1..max : want' = [min |-> min, max |-> max]
    BY <2>2
  <2>4. min \in 0..AnswerLen /\ max \in 0..AnswerLen
    BY <2>1, <2>2, <2>3
  <2> QED
    BY <2>3, <2>4
<1>2. CASE UNCHANGED want
  BY <1>2 DEF TypeOK
<1>3. ReadBegin \/ UNCHANGED want
  BY Zenon DEF Next, Kj, Watchdog, OnEvent, Open, write, ReadCheck,
     ReadPark, ReadResume, Unwind, Join, DestroyMembers, StreamClose, EvReceive,
     EvPeerAborted, EvShutdownComplete, EvSendComplete, OnReceive, OnEnd,
     Fulfill, OnDeadMembers, TimerExpires, WatchdogCheck, WatchdogAbort,
     Terminated, WorkerOnly, reads, vars
<1> QED
  BY <1>1, <1>2, <1>3

\* The bytes stay in order in every step.  The type of the queue and of what
\* was read is needed to add up their lengths, and StreamInv says that a read
\* that returns still finds the queue.
LEMMA BytesStep ==
  ASSUME TypeOK, StreamInv, BytesInOrder, [Next]_vars
  PROVE  /\ got' \in Seq(1..AnswerLen) /\ delivered' \in 0..AnswerLen
         /\ recv_queue_' \in Seq(Seq(1..AnswerLen))
         /\ BytesInOrder'
<1> DEFINE Goal == /\ got' \in Seq(1..AnswerLen) /\ delivered' \in 0..AnswerLen
                   /\ recv_queue_' \in Seq(Seq(1..AnswerLen))
                   /\ BytesInOrder'
<1>1. /\ got \in Seq(1..AnswerLen) /\ delivered \in 0..AnswerLen
      /\ recv_queue_ \in Seq(Seq(1..AnswerLen)) /\ want.max \in Nat
  BY AnswerLenAssumption DEF TypeOK
<1>2. members' => members
  BY Zenon DEF Next, Kj, Watchdog, OnEvent, Open, write, ReadBegin, ReadCheck,
     ReadPark, ReadResume, Unwind, Join, DestroyMembers, StreamClose, EvReceive,
     EvPeerAborted, EvShutdownComplete, EvSendComplete, OnReceive, OnEnd,
     Fulfill, OnDeadMembers, TimerExpires, WatchdogCheck, WatchdogAbort,
     Terminated, WorkerOnly, vars
<1>3. CASE UNCHANGED <<got, recv_queue_, delivered>>
  BY <1>1, <1>2, <1>3, Zenon DEF BytesInOrder
<1>4. CASE kpc = "rpc" /\ Return /\ UNCHANGED <<delivered, members>>
  <2>1. /\ got' \in Seq(1..AnswerLen)
        /\ recv_queue_' \in Seq(Seq(1..AnswerLen))
        /\ got' \o FlattenSeq(recv_queue_') = got \o FlattenSeq(recv_queue_)
    BY <1>1, <1>4, ReturnKeeps
  <2>2. members
    BY <1>4 DEF StreamInv
  <2> QED
    BY <1>1, <1>4, <2>1, <2>2, Zenon DEF BytesInOrder
<1>5. CASE OnReceive
  <2>1. /\ delivered' \in 0..AnswerLen /\ UNCHANGED <<got, members>>
        /\ recv_queue_' \in Seq(Seq(1..AnswerLen))
        /\ got' \o FlattenSeq(recv_queue_') = Bytes(0, delivered')
    BY <1>1, <1>5, ReceiveAdds
  <2> QED
    BY <1>1, <2>1, Zenon DEF BytesInOrder
<1>6. CASE /\ recv_queue_' = <<>> /\ members' = FALSE
           /\ UNCHANGED <<got, delivered>>
  <2>1. recv_queue_' \in Seq(Seq(1..AnswerLen))
    BY <1>6, EmptySeq
  <2>2. BytesInOrder'
    BY <1>6, Zenon DEF BytesInOrder
  <2> QED
    BY <1>1, <1>6, <2>1, <2>2
<1>7. CASE UNCHANGED vars
  BY <1>3, <1>7 DEF vars
<1> HIDE DEF Goal
<1> QED
  BY <1>3, <1>4, <1>5, <1>6, <1>7, ByteSteps DEF Goal

\* TypeOK and BytesInOrder are inductive together, given StreamInv.
LEMMA TypeAndBytes == Spec => [](TypeOK /\ BytesInOrder)
<1>1. Init => TypeOK /\ BytesInOrder
  <2> SUFFICES ASSUME Init
               PROVE  TypeOK /\ BytesInOrder
    OBVIOUS
  <2>1. got \o FlattenSeq(recv_queue_) = Bytes(0, delivered)
    <3>1. FlattenSeq(<<>>) = <<>>
      BY FlattenAppend, EmptySeq
    <3>2. <<>> \o <<>> = <<>> /\ Bytes(0, 0) = <<>>
      BY DEF Bytes
    <3> QED
      BY <3>1, <3>2 DEF Init
  <2>2. TypeOK
    <3>1. /\ got \in Seq(1..AnswerLen) /\ recv_queue_ \in Seq(Seq(1..AnswerLen))
          /\ delivered \in 0..AnswerLen
          /\ want \in [min : 0..AnswerLen, max : 0..AnswerLen]
      BY AnswerLenAssumption, EmptySeq DEF Init
    <3> QED
      BY <3>1, Zenon DEF Init, TypeOK
  <2> QED
    BY <2>1, <2>2 DEF BytesInOrder
<1>2. TypeOK /\ BytesInOrder /\ StreamInv /\ [Next]_vars
        => (TypeOK /\ BytesInOrder)'
  <2> SUFFICES ASSUME TypeOK, BytesInOrder, StreamInv, [Next]_vars
               PROVE  TypeOK' /\ BytesInOrder'
    OBVIOUS
  <2>1. TypeOK'
    BY ControlType, WantType, BytesStep, Zenon DEF TypeOK
  <2> QED
    BY <2>1, BytesStep
<1> QED
  BY <1>1, <1>2, Invariance, PTL DEF Spec

\* Every variable keeps to its values: the queue and what was read hold bytes
\* of the answer only.
THEOREM TypeCorrect == Spec => []TypeOK
BY TypeAndBytes, PTL

\* No byte of the answer is lost, repeated or moved, however msquic cuts it
\* into buffers and wherever the reads of the RPC layer end.
THEOREM BytesInOrderThm == Spec => []BytesInOrder
BY TypeAndBytes, PTL
=============================================================================
