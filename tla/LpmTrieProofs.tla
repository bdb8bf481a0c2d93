--------------------------- MODULE LpmTrieProofs ---------------------------
(***************************************************************************)
(* Proofs about LpmTrie, for all widths of bytes and addresses and any     *)
(* number of insertions: every node can be reached from its root, so the   *)
(* recursive destructor frees them all, and lookup() finds the longest     *)
(* prefix that contains an address.                                        *)
(***************************************************************************)
EXTENDS LpmTrie, WellFoundedInduction, TLAPS

\* A path is a sequence, whatever its elements are.
IsPath(p) == Len(p) \in Nat /\ p = [i \in 1..Len(p) |-> p[i]]

\* The nodes of a trie are named by paths and include their own prefixes.
Reachable(t) ==
  \A p \in DOMAIN t :
    IsPath(p) /\ \A n \in 0..Len(p) : SubSeq(p, 1, n) \in DOMAIN t

TrieInv ==
  /\ root_ = [f \in Family |-> root_[f]]
  /\ \A f \in Family : Reachable(root_[f])

\* A prefix of a prefix is a prefix.
LEMMA PrefixOfPrefix ==
  ASSUME NEW p, IsPath(p), NEW n \in 0..Len(p)
  PROVE  /\ IsPath(SubSeq(p, 1, n)) /\ Len(SubSeq(p, 1, n)) = n
         /\ \A m \in 0..n : SubSeq(SubSeq(p, 1, n), 1, m) = SubSeq(p, 1, m)
<1> DEFINE S == {p[i] : i \in 1..Len(p)}
<1>1. p \in Seq(S)
  BY DEF IsPath
<1> HIDE DEF S
<1>2. /\ SubSeq(p, 1, n) \in Seq(S) /\ Len(SubSeq(p, 1, n)) = n
      /\ \A i \in 1..n : SubSeq(p, 1, n)[i] = p[i]
  BY <1>1
<1>3. IsPath(SubSeq(p, 1, n))
  BY <1>2 DEF IsPath
<1>4. ASSUME NEW m \in 0..n
      PROVE  SubSeq(SubSeq(p, 1, n), 1, m) = SubSeq(p, 1, m)
  BY <1>1, <1>2
<1>5. QED
  BY <1>2, <1>3, <1>4

\* insert() adds a path together with all its prefixes.
LEMMA InsertedReachable ==
  ASSUME NEW t, Reachable(t), NEW c, c.prefix_len \in Nat, NEW value
  PROVE  Reachable(Inserted(t, c, value))
<1> DEFINE path  == PathOf(c.addr, c.prefix_len)
           below == {SubSeq(path, 1, n) : n \in Depths(c)}
           new   == Inserted(t, c, value)
<1>1. IsPath(path) /\ Len(path) = c.prefix_len
  BY DEF IsPath, PathOf
<1>2. DOMAIN new = DOMAIN t \cup below
  BY DEF Inserted
<1> HIDE DEF path, new
<1>3. ASSUME NEW p \in DOMAIN t
      PROVE  IsPath(p) /\ \A n \in 0..Len(p) : SubSeq(p, 1, n) \in DOMAIN new
  BY <1>2 DEF Reachable
<1>4. ASSUME NEW p \in below
      PROVE  IsPath(p) /\ \A n \in 0..Len(p) : SubSeq(p, 1, n) \in DOMAIN new
  <2>1. PICK k \in 0..c.prefix_len : p = SubSeq(path, 1, k)
    BY DEF Depths
  <2>2. IsPath(p) /\ Len(p) = k
    BY <1>1, <2>1, PrefixOfPrefix
  <2>3. ASSUME NEW n \in 0..k
        PROVE  SubSeq(p, 1, n) \in below
    <3>1. SubSeq(p, 1, n) = SubSeq(path, 1, n)
      BY <1>1, <2>1, PrefixOfPrefix
    <3>2. n \in Depths(c)
      BY DEF Depths
    <3>3. QED
      BY <3>1, <3>2
  <2>4. QED
    BY <1>2, <2>2, <2>3
<1>5. QED
  BY <1>2, <1>3, <1>4 DEF Reachable, new

\* Both tries stay closed under prefixes: ~LpmTrie, whose recursion goes down
\* from the roots, reaches every node that insert() ever made.
THEOREM DestructorComplete == Spec => []DestroyReachesAll
<1>1. Init => TrieInv
  BY DEF Init, TrieInv, Empty, Reachable
<1>2. TrieInv /\ [Next]_vars => TrieInv'
  <2> SUFFICES ASSUME TrieInv, [Next]_vars
               PROVE  TrieInv'
    OBVIOUS
  <2>1. ASSUME NEW c \in Cidr, NEW value \in Values, insert(c, value)
        PROVE  TrieInv'
    <3>1. c.prefix_len \in Nat
      BY DEF Cidr
    <3>2. root_' = [root_ EXCEPT ![c.addr.family] =
                      Inserted(root_[c.addr.family], c, value)]
      BY <2>1 DEF insert, root_for
    <3>3. ASSUME NEW f \in Family PROVE Reachable(root_'[f])
      <4>1. Reachable(root_[f])
        BY DEF TrieInv
      <4>2. Reachable(Inserted(root_[f], c, value))
        BY <3>1, <4>1, InsertedReachable
      <4>3. root_'[f] = IF f = c.addr.family THEN Inserted(root_[f], c, value)
                                            ELSE root_[f]
        BY <3>2 DEF TrieInv
      <4>4. QED
        BY <4>1, <4>2, <4>3
    <3>4. root_' = [f \in Family |-> root_'[f]]
      BY <3>2 DEF TrieInv
    <3>5. QED
      BY <3>3, <3>4 DEF TrieInv
  <2>2. CASE UNCHANGED vars
    BY <2>2 DEF TrieInv, vars
  <2>3. QED
    BY <2>1, <2>2 DEF Next
<1>3. TrieInv => DestroyReachesAll
  BY DEF TrieInv, DestroyReachesAll, Reachable
<1>4. QED
  BY <1>1, <1>2, <1>3, PTL DEF Spec

(***************************************************************************)
(* Bits: Cidr::contains() and the trie agree on what a prefix is.          *)
(***************************************************************************)

\* A nonempty set of numbers has a least one.
LEMMA NatMin ==
  ASSUME NEW T, T \subseteq Nat, T # {}
  PROVE  \E m \in T : \A k \in T : m <= k
<1> DEFINE R == OpToRel(<, Nat)
<1>1. IsWellFoundedOn(R, Nat)
  BY NatLessThanWellFounded, Zenon
<1>2. PICK m \in T : \A k \in T : ~(<<k, m>> \in R)
  <2> HIDE DEF R
  <2> QED
    BY <1>1, WFMin
<1>3. \A k \in T : ~(k < m)
  <2> SUFFICES ASSUME NEW k \in T, k < m
               PROVE  FALSE
    OBVIOUS
  <2>1. <<k, m>> \in {ss \in Nat \X Nat : ss[1] < ss[2]}
    OBVIOUS
  <2>2. <<k, m>> \in R
    BY <2>1 DEF OpToRel
  <2> QED
    BY <2>2, <1>2
<1> QED
  BY <1>3

\* A set that has 0 and with every number the next has them all.
LEMMA NatInd ==
  ASSUME NEW T, 0 \in T, \A n \in Nat : n \in T => n + 1 \in T
  PROVE  \A n \in Nat : n \in T
<1> SUFFICES ASSUME Nat \ T # {}
             PROVE  FALSE
  OBVIOUS
<1>1. PICK m \in Nat \ T : \A k \in Nat \ T : m <= k
  BY NatMin
<1>2. m # 0 /\ m - 1 \in Nat /\ m - 1 \in T
  BY <1>1
<1> QED
  BY <1>2


\* The first n powers of 2.
Powers(n, f) == f = [i \in 0..n |-> IF i = 0 THEN 1 ELSE 2 * f[i - 1]]

\* There is such a function, so the definition of Pow2 finds it.
LEMMA PowersExist == \A n \in Nat : \E f : Powers(n, f)
<1> DEFINE T == {n \in Nat : \E f : Powers(n, f)}
<1>1. 0 \in T
  <2>1. Powers(0, [i \in 0..0 |-> 1])
    BY DEF Powers
  <2> QED
    BY <2>1
<1>2. ASSUME NEW n \in Nat, n \in T PROVE n + 1 \in T
  <2>1. PICK f : Powers(n, f)
    BY <1>2
  <2>2. \A i \in 0..n : f[i] = IF i = 0 THEN 1 ELSE 2 * f[i - 1]
    BY <2>1, Zenon DEF Powers
  <2> DEFINE g == [i \in 0..n + 1 |-> IF i = n + 1 THEN 2 * f[n] ELSE f[i]]
  <2>3. ASSUME NEW i \in 0..n + 1
        PROVE  g[i] = IF i = 0 THEN 1 ELSE 2 * g[i - 1]
    <3>1. CASE i = n + 1
      BY <3>1
    <3>2. CASE i \in 0..n
      BY <2>2, <3>2
    <3> QED
      BY <3>1, <3>2
  <2>4. g = [i \in 0..n + 1 |-> g[i]]
    OBVIOUS
  <2> HIDE DEF g
  <2>5. Powers(n + 1, g)
    BY <2>3, <2>4 DEF Powers
  <2> QED
    BY <2>5
<1> HIDE DEF T
<1>3. \A n \in Nat : n \in T
  BY <1>1, <1>2, NatInd
<1> QED
  BY <1>3 DEF T

\* Pow2 doubles with every step and is positive.
LEMMA Pow2s ==
  /\ \A n \in 0..ByteBits : Pow2[n] \in Nat \ {0}
  /\ Pow2[0] = 1
  /\ \A n \in 1..ByteBits : Pow2[n] = 2 * Pow2[n - 1]
<1>1. Powers(ByteBits, Pow2)
  <2>1. \E f : Powers(ByteBits, f)
    BY PowersExist, WidthAssumption
  <2>2. Pow2 = CHOOSE f : Powers(ByteBits, f)
    BY Zenon DEF Pow2, Powers
  <2> QED
    BY <2>1, <2>2, Zenon
<1>2. \A n \in 0..ByteBits : Pow2[n] = IF n = 0 THEN 1 ELSE 2 * Pow2[n - 1]
  BY <1>1, Zenon DEF Powers
<1>3. Pow2[0] = 1 /\ \A n \in 1..ByteBits : Pow2[n] = 2 * Pow2[n - 1]
  BY <1>2, WidthAssumption
<1> DEFINE T == {n \in Nat : n <= ByteBits => Pow2[n] \in Nat \ {0}}
<1>4. 0 \in T
  BY <1>3
<1>5. ASSUME NEW n \in Nat, n \in T PROVE n + 1 \in T
  BY <1>3, <1>5, WidthAssumption
<1> HIDE DEF T
<1>6. \A n \in Nat : n \in T
  BY <1>4, <1>5, NatInd
<1>7. \A n \in 0..ByteBits : Pow2[n] \in Nat \ {0}
  BY <1>6, WidthAssumption DEF T
<1> QED
  BY <1>3, <1>7

\* The bit at place j of a byte, the highest first.
BitAt(x, j) == (x \div Pow2[ByteBits - 1 - j]) % 2

\* Two bytes agree under the mask of n bits if they agree on the first n bits.
LEMMA TopBits ==
  ASSUME NEW x \in Byte, NEW y \in Byte, NEW n \in 0..ByteBits
  PROVE  Masked(x, n) = Masked(y, n) <=> \A j \in 0..n - 1 : BitAt(x, j) = BitAt(y, j)
<1> DEFINE P(m) == Masked(x, m) = Masked(y, m)
                     <=> \A j \in 0..m - 1 : BitAt(x, j) = BitAt(y, j)
           T == {m \in Nat : m <= ByteBits => P(m)}
<1>0. x \in Nat /\ y \in Nat /\ x < Pow2[ByteBits] /\ y < Pow2[ByteBits]
      /\ Pow2[ByteBits] \in Nat \ {0} /\ ByteBits \in Nat
  BY WidthAssumption, Pow2s DEF Byte
<1>1. P(0)
  <2>1. Masked(x, 0) = 0 /\ Masked(y, 0) = 0
    <3>1. Masked(x, 0) = x \div Pow2[ByteBits] /\ Masked(y, 0) = y \div Pow2[ByteBits]
      BY <1>0 DEF Masked
    <3> DEFINE p == Pow2[ByteBits]
    <3> HIDE DEF p
    <3>2. x \div p = 0 /\ y \div p = 0
      BY <1>0 DEF p
    <3> QED
      BY <3>1, <3>2 DEF p
  <2> QED
    BY <2>1
<1>2. ASSUME NEW m \in Nat, m + 1 <= ByteBits, P(m) PROVE P(m + 1)
  <2> DEFINE p == Pow2[ByteBits - 1 - m]
             Half(z) == Masked(z, m) = Masked(z, m + 1) \div 2
             u == Masked(x, m + 1)
             w == Masked(y, m + 1)
  <2>1. p \in Nat \ {0} /\ Pow2[ByteBits - m] = 2 * p
    <3>1. ByteBits - m \in 1..ByteBits /\ (ByteBits - m) - 1 = ByteBits - 1 - m
          /\ ByteBits - 1 - m \in 0..ByteBits
      BY <1>0, <1>2
    <3> QED
      BY <3>1, Pow2s
  <2>2. ByteBits - (m + 1) = ByteBits - 1 - m
    BY <1>0
  <2>3. /\ u = x \div p /\ w = y \div p
        /\ Masked(x, m) = x \div (2 * p) /\ Masked(y, m) = y \div (2 * p)
        /\ BitAt(x, m) = u % 2 /\ BitAt(y, m) = w % 2
    BY <2>1, <2>2, Zenon DEF Masked, BitAt
  <2> HIDE DEF p
  <2>4. /\ x \div (2 * p) = (x \div p) \div 2 /\ y \div (2 * p) = (y \div p) \div 2
        /\ x \div p \in Nat /\ y \div p \in Nat
    BY <1>0, <2>1
  <2> HIDE DEF u, w
  <2>5. /\ u \in Nat /\ w \in Nat
        /\ Masked(x, m) = u \div 2 /\ Masked(y, m) = w \div 2
    BY <2>3, <2>4
  <2>6. u = w <=> u \div 2 = w \div 2 /\ u % 2 = w % 2
    <3>1. u = (u \div 2) * 2 + (u % 2) /\ w = (w \div 2) * 2 + (w % 2)
      BY <2>5
    <3> QED
      BY <3>1
  <2>7. (\A j \in 0..m + 1 - 1 : BitAt(x, j) = BitAt(y, j))
          <=> (\A j \in 0..m - 1 : BitAt(x, j) = BitAt(y, j)) /\ BitAt(x, m) = BitAt(y, m)
    <3>1. 0..m + 1 - 1 = 0..m - 1 \cup {m}
      OBVIOUS
    <3> QED
      BY <3>1, Zenon
  <2>8. u = w <=> (\A j \in 0..m + 1 - 1 : BitAt(x, j) = BitAt(y, j))
    BY <1>2, <2>3, <2>5, <2>6, <2>7
  <2> QED
    BY <2>8 DEF u, w
<1> HIDE DEF P
<1>3. 0 \in T
  BY <1>1
<1>4. ASSUME NEW m \in Nat, m \in T PROVE m + 1 \in T
  BY <1>0, <1>2, <1>4
<1> HIDE DEF T
<1>5. \A m \in Nat : m \in T
  BY <1>3, <1>4, NatInd
<1>6. P(n)
  BY <1>0, <1>5 DEF T
<1> QED
  BY <1>6 DEF P

\* A byte is its bits.
LEMMA WholeByte ==
  ASSUME NEW x \in Byte, NEW y \in Byte
  PROVE  x = y <=> \A j \in 0..ByteBits - 1 : BitAt(x, j) = BitAt(y, j)
<1>1. ByteBits \in 0..ByteBits /\ ByteBits - ByteBits = 0 /\ x \in Nat /\ y \in Nat
  BY WidthAssumption, Pow2s DEF Byte
<1>2. Masked(x, ByteBits) = x \div 1 /\ Masked(y, ByteBits) = y \div 1
  BY <1>1, Pow2s, Zenon DEF Masked
<1>3. x \div 1 = x /\ y \div 1 = y
  BY <1>1
<1>4. Masked(x, ByteBits) = Masked(y, ByteBits)
        <=> \A j \in 0..ByteBits - 1 : BitAt(x, j) = BitAt(y, j)
  BY <1>1, TopBits
<1> QED
  BY <1>2, <1>3, <1>4

\* The first k bits are those of the first k \div ByteBits bytes and the first
\* k % ByteBits bits of the byte behind them.
LEMMA BitPlaces ==
  ASSUME NEW k \in Nat
  PROVE  /\ k \div ByteBits \in Nat /\ k % ByteBits \in 0..ByteBits - 1
         /\ k = (k \div ByteBits) * ByteBits + (k % ByteBits)
         /\ \A b \in 0..k - 1 :
              /\ b \div ByteBits \in Nat /\ b % ByteBits \in 0..ByteBits - 1
              /\ \/ b \div ByteBits < k \div ByteBits
                 \/ b \div ByteBits = k \div ByteBits /\ b % ByteBits < k % ByteBits
         /\ \A i \in Nat, j \in 0..ByteBits - 1 :
              (i < k \div ByteBits \/ (i = k \div ByteBits /\ j < k % ByteBits))
              => \E b \in 0..k - 1 : b \div ByteBits = i /\ b % ByteBits = j
<1> DEFINE B == ByteBits
<1>1. B \in Nat \ {0}
  BY WidthAssumption
<1> HIDE DEF B
<1> DEFINE q == k \div B
           r == k % B
<1>2. q \in Nat /\ r \in 0..B - 1 /\ k = q * B + r
  BY <1>1
<1>3. ASSUME NEW b \in 0..k - 1
      PROVE  /\ b \div B \in Nat /\ b % B \in 0..B - 1
             /\ (b \div B < q \/ (b \div B = q /\ b % B < r))
  <2>1. b \div B \in Nat /\ b % B \in 0..B - 1
    BY <1>1
  <2>2. b \div B <= q
    BY <1>1
  <2>3. b \div B = q => b % B < r
    BY <1>1
  <2> QED
    BY <1>2, <2>1, <2>2, <2>3
<1>4. ASSUME NEW i \in Nat, NEW j \in 0..B - 1, i < q \/ (i = q /\ j < r)
      PROVE  \E b \in 0..k - 1 : b \div B = i /\ b % B = j
  <2> DEFINE b == i * B + j
  <2>1. b \in Nat /\ b \div B = i /\ b % B = j
    BY <1>1
  <2>2. b < k
    <3>1. CASE i < q
      <4>1. (i + 1) * B <= q * B
        BY <1>1, <1>2, <3>1
      <4>2. (i + 1) * B = i * B + B
        BY <1>1
      <4> QED
        BY <1>1, <1>2, <4>1, <4>2
    <3>2. CASE i = q /\ j < r
      BY <1>1, <1>2, <3>2
    <3> QED
      BY <1>4, <3>1, <3>2
  <2>3. b \in 0..k - 1
    BY <2>1, <2>2
  <2> QED
    BY <2>1, <2>3
<1> QED
  BY <1>2, <1>3, <1>4 DEF B

\* The bytes a prefix of an address looks at.
LEMMA PrefixBytes ==
  ASSUME NEW c \in Cidr
  PROVE  /\ c.addr \in IpAddr /\ c.prefix_len \in Nat
         /\ c.prefix_len \div ByteBits <= V6Bytes
         /\ c.prefix_len % ByteBits # 0 => c.prefix_len \div ByteBits < V6Bytes
<1> DEFINE k == c.prefix_len
           B == ByteBits
           q == k \div B
           r == k % B
<1>1. c.addr \in IpAddr /\ k \in Nat /\ k <= Bits(c.addr.family)
  BY DEF Cidr
<1>2. B \in Nat \ {0} /\ V6Bytes \in Nat
  BY WidthAssumption
<1>3. PICK n \in Nat : n <= V6Bytes /\ k <= n * B
  BY <1>1, WidthAssumption DEF Bits, Bytes
<1>4. q \in Nat /\ r \in 0..B - 1 /\ k = q * B + r
  BY <1>1, BitPlaces
<1> HIDE DEF k, B, q, r
<1>5. q <= n
  <2> SUFFICES ASSUME n + 1 <= q PROVE FALSE
    BY <1>3, <1>4
  <2>1. (n + 1) * B <= q * B
    BY <1>2, <1>4
  <2>2. (n + 1) * B = n * B + B
    BY <1>2
  <2> QED
    BY <1>1, <1>2, <1>3, <1>4, <2>1, <2>2
<1>6. r # 0 => q # n
  BY <1>1, <1>2, <1>3, <1>4
<1> QED
  <2>1. q <= V6Bytes /\ (r # 0 => q < V6Bytes)
    BY <1>2, <1>3, <1>4, <1>5, <1>6
  <2> QED
    BY <1>1, <2>1 DEF k, B, q, r

\* Cidr::contains() compares the first prefix_len bits of the addresses.
LEMMA ContainsPath ==
  ASSUME NEW c \in Cidr, NEW a \in IpAddr
  PROVE  contains(c, a) <=> /\ a.family = c.addr.family
                            /\ PathOf(c.addr, c.prefix_len) = PathOf(a, c.prefix_len)
<1> DEFINE k == c.prefix_len
           q == k \div ByteBits
           r == k % ByteBits
           x == c.addr.bytes
           y == a.bytes
           Same(i, j) == BitAt(x[i], j) = BitAt(y[i], j)
<1>1. k \in Nat /\ c.addr \in IpAddr /\ q <= V6Bytes /\ (r # 0 => q < V6Bytes)
  BY PrefixBytes
<1>2. \A i \in 0..V6Bytes - 1 : x[i] \in Byte /\ y[i] \in Byte
  BY <1>1 DEF IpAddr
<1>3. /\ q \in Nat /\ r \in 0..ByteBits - 1
      /\ \A b \in 0..k - 1 :
              /\ b \div ByteBits \in Nat /\ b % ByteBits \in 0..ByteBits - 1
              /\ \/ b \div ByteBits < q
                 \/ b \div ByteBits = q /\ b % ByteBits < r
      /\ \A i \in Nat, j \in 0..ByteBits - 1 :
              (i < q \/ (i = q /\ j < r))
              => \E b \in 0..k - 1 : b \div ByteBits = i /\ b % ByteBits = j
  BY <1>1, BitPlaces
<1>4. \A i \in 0..q - 1 : x[i] = y[i] <=> \A j \in 0..ByteBits - 1 : Same(i, j)
  <2> SUFFICES ASSUME NEW i \in 0..q - 1
               PROVE  x[i] = y[i] <=> \A j \in 0..ByteBits - 1 : Same(i, j)
    OBVIOUS
  <2>1. x[i] \in Byte /\ y[i] \in Byte
    <3>1. V6Bytes \in Nat /\ q \in Nat /\ q <= V6Bytes
      BY <1>1, <1>3, WidthAssumption
    <3> HIDE DEF q, x, y
    <3>2. i \in 0..V6Bytes - 1
      BY <3>1
    <3> QED
      BY <1>2, <3>2
  <2> QED
    BY <2>1, WholeByte
<1>5. r # 0 => (Masked(x[q], r) = Masked(y[q], r) <=> \A j \in 0..r - 1 : Same(q, j))
  <2> SUFFICES ASSUME r # 0
               PROVE  Masked(x[q], r) = Masked(y[q], r) <=> \A j \in 0..r - 1 : Same(q, j)
    OBVIOUS
  <2>1. x[q] \in Byte /\ y[q] \in Byte /\ r \in 0..ByteBits
    <3>1. V6Bytes \in Nat /\ q \in Nat /\ q < V6Bytes
          /\ ByteBits \in Nat /\ r \in 0..ByteBits - 1
      BY <1>1, <1>3, WidthAssumption
    <3> HIDE DEF q, r, x, y
    <3>2. q \in 0..V6Bytes - 1 /\ r \in 0..ByteBits
      BY <3>1
    <3> QED
      BY <1>2, <3>2
  <2> QED
    BY <2>1, TopBits
<1>6. contains(c, a) <=>
        /\ a.family = c.addr.family
        /\ \A i \in 0..q - 1 : x[i] = y[i]
        /\ r # 0 => Masked(x[q], r) = Masked(y[q], r)
  BY Zenon DEF contains
<1>7. \A b \in 0..k - 1 : bit_of(c.addr, b) = bit_of(a, b)
                            <=> Same(b \div ByteBits, b % ByteBits)
  BY Zenon DEF bit_of, BitAt
<1>8. PathOf(c.addr, k) = PathOf(a, k) <=> \A b \in 0..k - 1 : bit_of(c.addr, b) = bit_of(a, b)
  <2>1. ASSUME PathOf(c.addr, k) = PathOf(a, k), NEW b \in 0..k - 1
        PROVE  bit_of(c.addr, b) = bit_of(a, b)
    <3>1. b + 1 \in 1..k /\ b + 1 - 1 = b
      BY <1>1
    <3>2. PathOf(c.addr, k)[b + 1] = bit_of(c.addr, b + 1 - 1)
          /\ PathOf(a, k)[b + 1] = bit_of(a, b + 1 - 1)
      BY <3>1 DEF PathOf
    <3> QED
      BY <2>1, <3>1, <3>2
  <2>2. ASSUME \A b \in 0..k - 1 : bit_of(c.addr, b) = bit_of(a, b)
        PROVE  PathOf(c.addr, k) = PathOf(a, k)
    <3>1. \A i \in 1..k : i - 1 \in 0..k - 1
      BY <1>1
    <3> QED
      BY <2>2, <3>1 DEF PathOf
  <2> QED
    BY <2>1, <2>2
<1> HIDE DEF k, q, r, x, y, Same
<1>9. (\A b \in 0..k - 1 : Same(b \div ByteBits, b % ByteBits))
        <=> /\ \A i \in 0..q - 1 : \A j \in 0..ByteBits - 1 : Same(i, j)
            /\ \A j \in 0..r - 1 : Same(q, j)
  <2>1. ASSUME \A b \in 0..k - 1 : Same(b \div ByteBits, b % ByteBits),
               NEW i \in Nat, NEW j \in 0..ByteBits - 1, i < q \/ (i = q /\ j < r)
        PROVE  Same(i, j)
    <3>1. PICK b \in 0..k - 1 : b \div ByteBits = i /\ b % ByteBits = j
      BY <1>3, <2>1
    <3> QED
      BY <2>1, <3>1
  <2>2. ASSUME \A i \in 0..q - 1 : \A j \in 0..ByteBits - 1 : Same(i, j),
               \A j \in 0..r - 1 : Same(q, j), NEW b \in 0..k - 1
        PROVE  Same(b \div ByteBits, b % ByteBits)
    <3> DEFINE i == b \div ByteBits
               j == b % ByteBits
    <3>1. i \in Nat /\ j \in 0..ByteBits - 1 /\ (i < q \/ (i = q /\ j < r))
      BY <1>3
    <3> HIDE DEF i, j
    <3>2. Same(i, j)
      BY <1>3, <2>2, <3>1
    <3> QED
      BY <3>2 DEF i, j
  <2>3. \A i \in 0..q - 1 : i \in Nat /\ i < q
    BY <1>3
  <2>4. \A j \in 0..r - 1 : j \in 0..ByteBits - 1 /\ j < r
    BY <1>3, WidthAssumption
  <2> QED
    BY <1>3, <2>1, <2>2, <2>3, <2>4
<1>10. (r # 0 => \A j \in 0..r - 1 : Same(q, j)) <=> \A j \in 0..r - 1 : Same(q, j)
  BY <1>3
<1>11. contains(c, a) <=> a.family = c.addr.family /\ PathOf(c.addr, k) = PathOf(a, k)
  <2>1. (\A i \in 0..q - 1 : x[i] = y[i])
          <=> \A i \in 0..q - 1 : \A j \in 0..ByteBits - 1 : Same(i, j)
    BY <1>4, Zenon
  <2>2. PathOf(c.addr, k) = PathOf(a, k)
          <=> \A b \in 0..k - 1 : Same(b \div ByteBits, b % ByteBits)
    BY <1>7, <1>8, Zenon
  <2> QED
    BY <1>5, <1>6, <1>9, <1>10, <2>1, <2>2, Zenon
<1> QED
  BY <1>11 DEF k

(***************************************************************************)
(* lookup(): the walk down a trie.                                         *)
(***************************************************************************)

\* What the walk makes of the node at depth bit, below which it finds deeper.
Seen(t, p, deeper) ==
  IF p \notin DOMAIN t THEN {}
  ELSE IF deeper # {} THEN deeper
  ELSE IF t[p].has_value THEN {t[p].value} ELSE {}

\* g is the walk of lookup(a) in t from the depth lo down.
Walk(a, t, max, lo, g) ==
  g = [bit \in lo..max |->
         Seen(t, PathOf(a, bit), IF bit = max THEN {} ELSE g[bit + 1])]

\* There is such a walk, so the definition of best finds it.
LEMMA WalkExists ==
  ASSUME NEW a, NEW t, NEW max \in Nat
  PROVE  \E g : Walk(a, t, max, 0, g)
<1> DEFINE T == {n \in Nat : n <= max => \E g : Walk(a, t, max, max - n, g)}
<1>1. 0 \in T
  <2> DEFINE g == [bit \in max..max |-> Seen(t, PathOf(a, bit), {})]
  <2>1. Walk(a, t, max, max, g)
    <3>1. \A bit \in max..max : bit = max
      OBVIOUS
    <3>2. \A bit \in max..max : Seen(t, PathOf(a, bit), {})
            = Seen(t, PathOf(a, bit), IF bit = max THEN {} ELSE g[bit + 1])
      BY <3>1, Zenon
    <3> HIDE DEF Seen
    <3> QED
      BY <3>2 DEF Walk
  <2>2. max - 0 = max
    OBVIOUS
  <2> HIDE DEF g
  <2> QED
    BY <2>1, <2>2
<1>2. ASSUME NEW n \in Nat, n \in T PROVE n + 1 \in T
  <2> SUFFICES ASSUME n + 1 <= max PROVE \E g : Walk(a, t, max, max - (n + 1), g)
    OBVIOUS
  <2> DEFINE lo == max - n
             low == max - (n + 1)
  <2>1. lo \in 1..max /\ low = lo - 1 /\ low \in 0..max
    OBVIOUS
  <2>2. PICK h : Walk(a, t, max, lo, h)
    BY <1>2
  <2> HIDE DEF lo, low
  <2> DEFINE g == [bit \in low..max |->
                     IF bit = low THEN Seen(t, PathOf(a, bit), h[lo]) ELSE h[bit]]
             Next1(k, bit) == IF bit = max THEN {} ELSE k[bit + 1]
  <2>3. \A bit \in lo..max : h[bit] = Seen(t, PathOf(a, bit), Next1(h, bit))
    BY <2>2, Zenon DEF Walk
  <2>4. \A bit \in low..max : g[bit] = Seen(t, PathOf(a, bit), Next1(g, bit))
    <3> SUFFICES ASSUME NEW bit \in low..max
                 PROVE  g[bit] = Seen(t, PathOf(a, bit), Next1(g, bit))
      OBVIOUS
    <3>1. CASE bit = low
      <4>1. Next1(g, bit) = h[lo]
        BY <2>1, <3>1
      <4>2. g[bit] = Seen(t, PathOf(a, bit), h[lo])
        BY <3>1
      <4> QED
        BY <4>1, <4>2
    <3>2. CASE bit # low
      <4>1. bit \in lo..max
        BY <2>1, <3>2
      <4>2. Next1(g, bit) = Next1(h, bit)
        BY <2>1, <4>1
      <4>3. g[bit] = h[bit]
        BY <3>2
      <4> QED
        BY <2>3, <4>1, <4>2, <4>3
    <3> QED
      BY <3>1, <3>2
  <2>5. g = [bit \in low..max |-> g[bit]]
    OBVIOUS
  <2> HIDE DEF g
  <2>6. g = [bit \in low..max |-> Seen(t, PathOf(a, bit), Next1(g, bit))]
    <3> HIDE DEF Next1
    <3> QED
      BY <2>4, <2>5
  <2>7. Walk(a, t, max, low, g)
    BY <2>6, Zenon DEF Walk
  <2> QED
    BY <2>7 DEF low
<1>3. \A n \in Nat : n \in T
  <2> HIDE DEF T
  <2> QED
    BY <1>1, <1>2, NatInd
<1>4. \E g : Walk(a, t, max, max - max, g)
  BY <1>3
<1>5. max - max = 0
  OBVIOUS
<1> QED
  BY <1>4, <1>5

\* The depths at which the walk finds a value.
Valued(a, t, n) == PathOf(a, n) \in DOMAIN t /\ t[PathOf(a, n)].has_value

\* The value found from the depth lo down is that of the deepest node.
Deepest(a, t, max, lo, found) ==
  \/ /\ found = {}
     /\ \A m \in lo..max : ~Valued(a, t, m)
  \/ \E n \in lo..max :
       /\ Valued(a, t, n) /\ found = {t[PathOf(a, n)].value}
       /\ \A m \in lo..max : Valued(a, t, m) => m <= n

\* The nodes on the way down to a node are there.
LEMMA OnTheWay ==
  ASSUME NEW a, NEW t, Reachable(t), NEW n \in Nat, NEW m \in 0..n,
         PathOf(a, n) \in DOMAIN t
  PROVE  PathOf(a, m) \in DOMAIN t
<1> DEFINE p == PathOf(a, n)
<1>1. IsPath(p) /\ Len(p) = n
  BY DEF IsPath, PathOf
<1>2. SubSeq(p, 1, m) \in DOMAIN t
  BY <1>1 DEF Reachable
<1>3. IsPath(SubSeq(p, 1, m)) /\ Len(SubSeq(p, 1, m)) = m
  <2> HIDE DEF p
  <2> QED
    BY <1>1, PrefixOfPrefix
<1>4. \A i \in 1..m : SubSeq(p, 1, m)[i] = p[i]
  <2> DEFINE S == {p[i] : i \in 1..n}
  <2>1. p \in Seq(S)
    BY <1>1 DEF IsPath
  <2> HIDE DEF S, p
  <2> QED
    BY <1>1, <2>1
<1>5. \A i \in 1..m : p[i] = bit_of(a, i - 1)
  BY DEF PathOf
<1>6. SubSeq(p, 1, m) = [i \in 1..m |-> bit_of(a, i - 1)]
  <2> HIDE DEF p
  <2> QED
    BY <1>3, <1>4, <1>5 DEF IsPath
<1> QED
  BY <1>2, <1>6 DEF PathOf

\* lookup() finds the deepest value on its way.
LEMMA LookupDeepest ==
  ASSUME NEW a, Bits(a.family) \in Nat, Reachable(root_[a.family])
  PROVE  Deepest(a, root_[a.family], Bits(a.family), 0, lookup(a))
<1> DEFINE t == root_[a.family]
           max == Bits(a.family)
           best == CHOOSE g : Walk(a, t, max, 0, g)
<1>1. lookup(a) = best[0]
  BY Zenon DEF lookup, Walk, Seen
<1> HIDE DEF t, max
<1>2. Walk(a, t, max, 0, best)
  <2>1. max \in Nat
    BY DEF max
  <2>2. \E g : Walk(a, t, max, 0, g)
    BY <2>1, WalkExists
  <2> QED
    BY <2>2, Zenon
<1> HIDE DEF best
<1>3. \A bit \in 0..max : best[bit]
        = Seen(t, PathOf(a, bit), IF bit = max THEN {} ELSE best[bit + 1])
  BY <1>2, Zenon DEF Walk
<1>4. max \in Nat /\ Reachable(t)
  BY DEF max, t
<1> DEFINE D(lo) == Deepest(a, t, max, lo, best[lo])
           T == {n \in Nat : n <= max => D(max - n)}
           V(n) == Valued(a, t, n)
<1>5. ASSUME NEW lo \in 0..max, lo # max => D(lo + 1)
      PROVE  D(lo)
  <2> DEFINE deeper == IF lo = max THEN {} ELSE best[lo + 1]
             p == PathOf(a, lo)
  <2>1. best[lo] = Seen(t, p, deeper)
    BY <1>3, Zenon
  <2>2. \/ deeper = {} /\ \A m \in lo + 1..max : ~V(m)
        \/ \E n \in lo + 1..max : /\ V(n) /\ deeper = {t[PathOf(a, n)].value}
                                  /\ \A m \in lo + 1..max : V(m) => m <= n
    <3>1. CASE lo = max
      BY <1>4, <3>1
    <3>2. CASE lo # max
      BY <1>5, <3>2, Zenon DEF Deepest
    <3> QED
      BY <3>1, <3>2
  <2>3. \A m \in lo..max : m = lo \/ m \in lo + 1..max
    BY <1>4
  <2>4. \A m \in lo..max : V(m) => p \in DOMAIN t
    <3> SUFFICES ASSUME NEW m \in lo..max, V(m) PROVE p \in DOMAIN t
      OBVIOUS
    <3>1. m \in Nat /\ lo \in 0..m /\ PathOf(a, m) \in DOMAIN t
      BY <1>4 DEF Valued
    <3> QED
      BY <1>4, <3>1, OnTheWay
  <2> HIDE DEF deeper, p
  <2>5. CASE p \notin DOMAIN t
    <3>1. best[lo] = {}
      BY <2>1, <2>5 DEF Seen
    <3> QED
      BY <2>4, <2>5, <3>1 DEF Deepest
  <2>6. CASE p \in DOMAIN t /\ deeper # {}
    <3>1. best[lo] = deeper
      BY <2>1, <2>6 DEF Seen
    <3>2. PICK n \in lo + 1..max : /\ V(n) /\ deeper = {t[PathOf(a, n)].value}
                                   /\ \A m \in lo + 1..max : V(m) => m <= n
      BY <2>2, <2>6
    <3>3. n \in lo..max /\ lo <= n
      BY <1>4
    <3>4. \A m \in lo..max : V(m) => m <= n
      BY <2>3, <3>2, <3>3
    <3> QED
      BY <3>1, <3>2, <3>3, <3>4, Zenon DEF Deepest
  <2>7. CASE p \in DOMAIN t /\ deeper = {}
    <3>1. best[lo] = IF t[p].has_value THEN {t[p].value} ELSE {}
      BY <2>1, <2>7 DEF Seen
    <3>2. \A m \in lo + 1..max : ~V(m)
      BY <2>2, <2>7
    <3>3. V(lo) <=> t[p].has_value
      BY <2>7 DEF Valued, p
    <3>4. lo \in lo..max /\ lo <= lo
      BY <1>4
    <3>5. CASE V(lo)
      <4>1. best[lo] = {t[PathOf(a, lo)].value}
        BY <3>1, <3>3, <3>5 DEF p
      <4>2. \A m \in lo..max : V(m) => m <= lo
        BY <2>3, <3>2, <3>4
      <4> QED
        BY <3>4, <3>5, <4>1, <4>2, Zenon DEF Deepest
    <3>6. CASE ~V(lo)
      <4>1. best[lo] = {}
        BY <3>1, <3>3, <3>6
      <4>2. \A m \in lo..max : ~V(m)
        BY <2>3, <3>2, <3>6, Zenon
      <4> QED
        BY <4>1, <4>2, Zenon DEF Deepest
    <3> QED
      BY <3>5, <3>6
  <2> QED
    BY <2>5, <2>6, <2>7
<1> HIDE DEF D
<1>6. 0 \in T
  BY <1>4, <1>5
<1>7. ASSUME NEW n \in Nat, n \in T PROVE n + 1 \in T
  <2> SUFFICES ASSUME n + 1 <= max PROVE D(max - (n + 1))
    OBVIOUS
  <2>1. max - (n + 1) \in 0..max /\ (max - (n + 1)) + 1 = max - n /\ D(max - n)
    BY <1>4, <1>7
  <2> DEFINE lo == max - (n + 1)
  <2>2. lo \in 0..max /\ D(lo + 1)
    BY <2>1
  <2> HIDE DEF lo
  <2>3. D(lo)
    BY <1>5, <2>2
  <2> QED
    BY <2>3 DEF lo
<1> HIDE DEF T
<1>8. \A n \in Nat : n \in T
  BY <1>6, <1>7, NatInd
<1>9. D(0)
  <2>1. max \in T /\ max - max = 0
    BY <1>4, <1>8
  <2> QED
    BY <1>4, <2>1 DEF T
<1> QED
  BY <1>1, <1>9 DEF D, t, max

(***************************************************************************)
(* insert(): every node knows the last insertion at its path.              *)
(***************************************************************************)

\* The insertion e put its value into the node p of family f.
At(e, f, p) ==
  e.cidr.addr.family = f /\ PathOf(e.cidr.addr, e.cidr.prefix_len) = p

LastAt(l, f, p, i) ==
  At(l[i], f, p) /\ \A k \in DOMAIN l : At(l[k], f, p) => k <= i

\* The node p after the insertions l.
Up2Date(t, l, f, p) ==
  \/ t[p] = Absent /\ \A i \in DOMAIN l : ~At(l[i], f, p)
  \/ \E i \in DOMAIN l :
       LastAt(l, f, p, i) /\ t[p] = [has_value |-> TRUE, value |-> l[i].value]

\* t is the trie of family f after the insertions l.
TrieOf(t, l, f) ==
  /\ Reachable(t)
  /\ \A i \in DOMAIN l : \A p : At(l[i], f, p) => p \in DOMAIN t
  /\ \A p \in DOMAIN t : Up2Date(t, l, f, p)

Entry == [cidr : Cidr, value : Values]

TableInv ==
  /\ root_ = [f \in Family |-> root_[f]]
  /\ log \in Seq(Entry)
  /\ \A f \in Family : TrieOf(root_[f], log, f)

\* A log that grew.
LEMMA Appended ==
  ASSUME NEW S, NEW l \in Seq(S), NEW e \in S
  PROVE  LET m == Append(l, e)
         IN /\ m \in Seq(S) /\ DOMAIN m = DOMAIN l \cup {Len(l) + 1} /\ m[Len(l) + 1] = e
            /\ \A i \in DOMAIN l : m[i] = l[i] /\ i <= Len(l) + 1
OBVIOUS

\* insert() into the trie of the prefix's family.
LEMMA InsertedTrie ==
  ASSUME NEW t, NEW l \in Seq(Entry), NEW c \in Cidr, NEW value \in Values,
         TrieOf(t, l, c.addr.family)
  PROVE  TrieOf(Inserted(t, c, value), Append(l, [cidr |-> c, value |-> value]),
                c.addr.family)
<1> DEFINE f == c.addr.family
           e == [cidr |-> c, value |-> value]
           m == Append(l, e)
           n == Len(l) + 1
           path == PathOf(c.addr, c.prefix_len)
           below == {SubSeq(path, 1, k) : k \in Depths(c)}
           new == Inserted(t, c, value)
<1>1. Reachable(new)
  <2>1. c.prefix_len \in Nat
    BY DEF Cidr
  <2> QED
    BY <2>1, InsertedReachable DEF TrieOf
<1>2. /\ DOMAIN new = DOMAIN t \cup below
      /\ \A p \in DOMAIN new : new[p] =
           IF p = path THEN [has_value |-> TRUE, value |-> value]
           ELSE IF p \in DOMAIN t THEN t[p] ELSE Absent
  BY DEF Inserted
<1>3. path \in below
  <2>1. c.prefix_len \in Nat
    BY DEF Cidr
  <2>2. IsPath(path) /\ Len(path) = c.prefix_len
    BY <2>1 DEF IsPath, PathOf
  <2>3. c.prefix_len \in Depths(c)
    BY <2>1 DEF Depths
  <2>4. SubSeq(path, 1, c.prefix_len) = path
    <3> DEFINE S == {path[i] : i \in 1..Len(path)}
    <3>1. path \in Seq(S)
      BY <2>2 DEF IsPath
    <3> HIDE DEF S, path
    <3> QED
      BY <2>2, <3>1
  <2> QED
    BY <2>3, <2>4
<1>4. /\ DOMAIN m = DOMAIN l \cup {n} /\ m[n] = e
      /\ \A i \in DOMAIN l : m[i] = l[i] /\ i <= n
      /\ n <= n
  <2>1. e \in Entry /\ Len(l) \in Nat
    BY DEF Entry
  <2> HIDE DEF e
  <2> QED
    BY <2>1, Appended
<1>5. \A p : At(e, f, p) <=> p = path
  BY DEF At
<1>6. e.value = value
  OBVIOUS
<1> HIDE DEF f, e, m, n, path, below, new
<1>7. /\ \A i \in DOMAIN l : \A p : At(l[i], f, p) => p \in DOMAIN t
      /\ \A p \in DOMAIN t : Up2Date(t, l, f, p)
  BY DEF TrieOf, f
<1>8. \A i \in DOMAIN m : \A p : At(m[i], f, p) => p \in DOMAIN new
  BY <1>2, <1>3, <1>4, <1>5, <1>7
<1>9. ASSUME NEW p \in DOMAIN new PROVE Up2Date(new, m, f, p)
  <2>1. CASE p = path
    <3>1. At(m[n], f, p) /\ n \in DOMAIN m
      BY <1>4, <1>5, <2>1
    <3>2. \A k \in DOMAIN m : k <= n
      BY <1>4
    <3>3. new[p] = [has_value |-> TRUE, value |-> m[n].value]
      BY <1>2, <1>4, <1>6, <2>1
    <3> QED
      BY <3>1, <3>2, <3>3, Zenon DEF Up2Date, LastAt
  <2>2. CASE p # path
    <3>1. ~At(m[n], f, p)
      BY <1>4, <1>5, <2>2
    <3>2. CASE p \in DOMAIN t
      <4>1. new[p] = t[p] /\ Up2Date(t, l, f, p)
        BY <1>2, <1>7, <2>2, <3>2
      <4>2. CASE t[p] = Absent /\ \A i \in DOMAIN l : ~At(l[i], f, p)
        <5>1. \A i \in DOMAIN m : ~At(m[i], f, p)
          BY <1>4, <3>1, <4>2
        <5> QED
          BY <4>1, <4>2, <5>1 DEF Up2Date
      <4>3. ASSUME NEW i \in DOMAIN l, LastAt(l, f, p, i),
                   t[p] = [has_value |-> TRUE, value |-> l[i].value]
            PROVE  Up2Date(new, m, f, p)
        <5>1. i \in DOMAIN m /\ m[i] = l[i]
          BY <1>4
        <5>2. LastAt(m, f, p, i)
          BY <1>4, <3>1, <4>3 DEF LastAt
        <5> QED
          BY <4>1, <4>3, <5>1, <5>2, Zenon DEF Up2Date
      <4> QED
        BY <4>1, <4>2, <4>3 DEF Up2Date
    <3>3. CASE p \notin DOMAIN t
      <4>1. new[p] = Absent
        BY <1>2, <2>2, <3>3
      <4>2. \A i \in DOMAIN m : ~At(m[i], f, p)
        BY <1>4, <1>7, <3>1, <3>3
      <4> QED
        BY <4>1, <4>2 DEF Up2Date
    <3> QED
      BY <3>2, <3>3
  <2> QED
    BY <2>1, <2>2
<1>10. TrieOf(new, m, f)
  BY <1>1, <1>8, <1>9 DEF TrieOf
<1> QED
  BY <1>10 DEF new, m, e, f

\* insert() into the trie of the other family.
LEMMA OtherTrie ==
  ASSUME NEW t, NEW l \in Seq(Entry), NEW e \in Entry, NEW f,
         e.cidr.addr.family # f, TrieOf(t, l, f)
  PROVE  TrieOf(t, Append(l, e), f)
<1> DEFINE m == Append(l, e)
           n == Len(l) + 1
<1>1. /\ DOMAIN m = DOMAIN l \cup {n} /\ m[n] = e
      /\ \A i \in DOMAIN l : m[i] = l[i]
  BY Appended
<1>2. \A p : ~At(e, f, p)
  BY DEF At
<1> HIDE DEF m, n
<1>3. \A i \in DOMAIN m : \A p : At(m[i], f, p) => i \in DOMAIN l /\ At(l[i], f, p)
  BY <1>1, <1>2
<1>4. \A i \in DOMAIN m : \A p : At(m[i], f, p) => p \in DOMAIN t
  BY <1>3 DEF TrieOf
<1>5. ASSUME NEW p \in DOMAIN t PROVE Up2Date(t, m, f, p)
  <2>1. Up2Date(t, l, f, p)
    BY DEF TrieOf
  <2>2. CASE t[p] = Absent /\ \A i \in DOMAIN l : ~At(l[i], f, p)
    BY <1>3, <2>2 DEF Up2Date
  <2>3. ASSUME NEW i \in DOMAIN l, LastAt(l, f, p, i),
               t[p] = [has_value |-> TRUE, value |-> l[i].value]
        PROVE  Up2Date(t, m, f, p)
    <3>1. i \in DOMAIN m /\ m[i] = l[i]
      BY <1>1
    <3>2. LastAt(m, f, p, i)
      BY <1>3, <2>3, <3>1 DEF LastAt
    <3> QED
      BY <2>3, <3>1, <3>2, Zenon DEF Up2Date
  <2> QED
    BY <2>1, <2>2, <2>3 DEF Up2Date
<1>6. TrieOf(t, m, f)
  BY <1>4, <1>5 DEF TrieOf
<1> QED
  BY <1>6 DEF m

\* The table keeps its invariant.
LEMMA TableInit == Init => TableInv
<1> SUFFICES ASSUME Init PROVE TableInv
  OBVIOUS
<1>1. root_ = [f \in Family |-> <<>>] /\ log = <<>>
  BY DEF Init, Empty
<1>2. log \in Seq(Entry) /\ DOMAIN log = {}
  BY <1>1
<1>3. \A f \in Family : DOMAIN root_[f] = {}
  BY <1>1
<1>4. \A f \in Family : TrieOf(root_[f], log, f)
  BY <1>2, <1>3 DEF TrieOf, Reachable
<1> QED
  BY <1>1, <1>2, <1>4 DEF TableInv

\* An insertion keeps both tries up to date.
LEMMA TableInsert ==
  ASSUME TableInv, NEW c \in Cidr, NEW value \in Values, insert(c, value)
  PROVE  TableInv'
<1> DEFINE e == [cidr |-> c, value |-> value]
           g == c.addr.family
<1>1. /\ root_' = [root_ EXCEPT ![g] = Inserted(root_[g], c, value)]
      /\ log' = Append(log, e)
  BY DEF insert, root_for
<1>2. e \in Entry /\ e.cidr = c /\ g \in Family
  BY DEF Entry, Cidr, IpAddr
<1>3. /\ root_ = [f \in Family |-> root_[f]] /\ log \in Seq(Entry)
      /\ \A f \in Family : TrieOf(root_[f], log, f)
  BY DEF TableInv
<1>4. root_' = [f \in Family |-> root_'[f]]
  BY <1>1, <1>3
<1>5. log' \in Seq(Entry)
  <2> HIDE DEF e
  <2> QED
    BY <1>1, <1>2, <1>3, Appended
<1>6. ASSUME NEW f \in Family PROVE TrieOf(root_'[f], log', f)
  <2>1. CASE f = g
    <3>1. root_'[f] = Inserted(root_[g], c, value)
      BY <1>1, <1>3, <2>1
    <3>2. TrieOf(root_[g], log, c.addr.family)
      BY <1>2, <1>3
    <3>3. TrieOf(Inserted(root_[g], c, value), Append(log, e), g)
      BY <1>3, <3>2, InsertedTrie
    <3> QED
      BY <1>1, <2>1, <3>1, <3>3
  <2>2. CASE f # g
    <3>1. root_'[f] = root_[f]
      BY <1>1, <1>3, <2>2
    <3>2. e.cidr.addr.family # f
      BY <1>2, <2>2
    <3> HIDE DEF e
    <3>3. TrieOf(root_[f], Append(log, e), f)
      BY <1>2, <1>3, <3>2, OtherTrie
    <3> QED
      BY <1>1, <3>1, <3>3
  <2> QED
    BY <2>1, <2>2
<1> QED
  BY <1>4, <1>5, <1>6 DEF TableInv

\* A valued node on the way of an address is an insertion that contains it.
LEMMA ValuedMatches ==
  ASSUME TableInv, NEW a \in IpAddr
  PROVE  LET t == root_[a.family]
         IN /\ \A i \in Matching(a) :
                 /\ log[i].cidr.prefix_len \in 0..Bits(a.family)
                 /\ At(log[i], a.family, PathOf(a, log[i].cidr.prefix_len))
                 /\ Valued(a, t, log[i].cidr.prefix_len)
            /\ \A n \in Nat : Valued(a, t, n) =>
                 \E i \in Matching(a) :
                   /\ log[i].cidr.prefix_len = n /\ t[PathOf(a, n)].value = log[i].value
                   /\ \A k \in Matching(a) : log[k].cidr.prefix_len = n => k <= i
<1> DEFINE f == a.family
           t == root_[f]
           Len1(i) == log[i].cidr.prefix_len
<1>1. f \in Family /\ log \in Seq(Entry) /\ TrieOf(t, log, f)
  BY DEF TableInv, IpAddr
<1>2. \A i \in DOMAIN log : log[i].cidr \in Cidr /\ Len1(i) \in Nat
                            /\ Len1(i) <= Bits(log[i].cidr.addr.family)
  <2>1. \A i \in DOMAIN log : log[i] \in Entry
    BY <1>1
  <2>2. \A i \in DOMAIN log : log[i].cidr \in Cidr
    BY <2>1 DEF Entry
  <2>3. \A c \in Cidr : c.prefix_len \in Nat /\ c.prefix_len <= Bits(c.addr.family)
    BY DEF Cidr
  <2> QED
    BY <2>2, <2>3
<1>3. \A i \in DOMAIN log :
        i \in Matching(a) <=> At(log[i], f, PathOf(a, Len1(i)))
  <2> SUFFICES ASSUME NEW i \in DOMAIN log
               PROVE  contains(log[i].cidr, a) <=> At(log[i], f, PathOf(a, Len1(i)))
    BY DEF Matching
  <2> DEFINE c == log[i].cidr
  <2>1. c \in Cidr
    BY <1>2
  <2> HIDE DEF c
  <2>2. contains(c, a) <=> /\ a.family = c.addr.family
                           /\ PathOf(c.addr, c.prefix_len) = PathOf(a, c.prefix_len)
    BY <2>1, ContainsPath
  <2> QED
    BY <2>2 DEF At, c
<1>4. \A i \in Matching(a) : i \in DOMAIN log
  BY DEF Matching
<1>5. ASSUME NEW i \in DOMAIN log, NEW p, At(log[i], f, p)
      PROVE  p \in DOMAIN t /\ t[p].has_value
  <2>1. p \in DOMAIN t /\ Up2Date(t, log, f, p)
    BY <1>1, <1>5 DEF TrieOf
  <2>2. \E k \in DOMAIN log : t[p] = [has_value |-> TRUE, value |-> log[k].value]
    BY <1>5, <2>1, Zenon DEF Up2Date
  <2> QED
    BY <2>1, <2>2
<1>6. ASSUME NEW i \in Matching(a)
      PROVE  /\ Len1(i) \in 0..Bits(f) /\ At(log[i], f, PathOf(a, Len1(i)))
             /\ Valued(a, t, Len1(i))
  <2>1. i \in DOMAIN log /\ At(log[i], f, PathOf(a, Len1(i)))
    BY <1>3, <1>4
  <2>2. log[i].cidr.addr.family = f
    BY <2>1 DEF At
  <2>3. Bits(f) \in Nat
    BY WidthAssumption DEF Bits, Bytes
  <2> QED
    BY <1>2, <1>5, <2>1, <2>2, <2>3 DEF Valued
<1>7. ASSUME NEW n \in Nat, Valued(a, t, n)
      PROVE  \E i \in Matching(a) :
               /\ Len1(i) = n /\ t[PathOf(a, n)].value = log[i].value
               /\ \A k \in Matching(a) : Len1(k) = n => k <= i
  <2> DEFINE p == PathOf(a, n)
  <2>1. p \in DOMAIN t /\ t[p].has_value /\ Up2Date(t, log, f, p)
    BY <1>1, <1>7 DEF TrieOf, Valued
  <2>2. t[p] # Absent
    BY <2>1 DEF Absent
  <2> HIDE DEF p
  <2>3. PICK i \in DOMAIN log :
          LastAt(log, f, p, i) /\ t[p] = [has_value |-> TRUE, value |-> log[i].value]
    BY <2>1, <2>2 DEF Up2Date
  <2>4. t[p].value = log[i].value
    BY <2>3
  <2>5. At(log[i], f, p) /\ \A k \in DOMAIN log : At(log[k], f, p) => k <= i
    BY <2>3 DEF LastAt
  <2>6. Len1(i) = n
    <3>1. PathOf(log[i].cidr.addr, Len1(i)) = PathOf(a, n)
      BY <2>5 DEF At, p
    <3>2. Len1(i) \in Nat
      BY <1>2
    <3> DEFINE x == log[i].cidr.addr
               m == Len1(i)
    <3> HIDE DEF x, m
    <3>3. Len(PathOf(x, m)) = m /\ Len(PathOf(a, n)) = n
      BY <3>2 DEF PathOf, m
    <3> QED
      BY <3>1, <3>3 DEF x, m
  <2>7. i \in Matching(a)
    BY <1>3, <2>5, <2>6 DEF p
  <2>8. \A k \in Matching(a) : Len1(k) = n => k <= i
    BY <1>3, <1>4, <2>5 DEF p
  <2> QED
    BY <2>4, <2>6, <2>7, <2>8, Zenon DEF p
<1> QED
  BY <1>6, <1>7, Zenon

\* The value at the deepest node is that of the longest prefix.
LEMMA TableLookup ==
  ASSUME TableInv, NEW a \in IpAddr
  PROVE  lookup(a) = LongestMatch(a)
<1> DEFINE t == root_[a.family]
           max == Bits(a.family)
           M == Matching(a)
           L(i) == log[i].cidr.prefix_len
           Best(j) == \A k \in M : L(k) < L(j) \/ (L(k) = L(j) /\ k <= j)
<1>1. max \in Nat /\ Reachable(t)
  BY WidthAssumption DEF TableInv, TrieOf, Bits, Bytes, IpAddr
<1>2. Deepest(a, t, max, 0, lookup(a))
  BY <1>1, LookupDeepest
<1>3. /\ \A i \in M : L(i) \in 0..max /\ Valued(a, t, L(i))
      /\ \A n \in Nat : Valued(a, t, n) =>
           \E i \in M : /\ L(i) = n /\ t[PathOf(a, n)].value = log[i].value
                        /\ \A k \in M : L(k) = n => k <= i
  BY ValuedMatches
<1>4. LongestMatch(a) = {log[i].value : i \in {j \in M : Best(j)}}
  BY Zenon DEF LongestMatch
<1>5. \A i \in M : i \in Nat
  BY DEF TableInv, Matching
<1> HIDE DEF t, max, M, L
<1>6. CASE lookup(a) = {} /\ \A m \in 0..max : ~Valued(a, t, m)
  <2>1. M = {}
    BY <1>3, <1>6
  <2>2. LongestMatch(a) = {}
    BY <1>4, <2>1
  <2> QED
    BY <1>6, <2>2
<1>7. ASSUME NEW n \in 0..max, Valued(a, t, n), lookup(a) = {t[PathOf(a, n)].value},
             \A m \in 0..max : Valued(a, t, m) => m <= n
      PROVE  lookup(a) = LongestMatch(a)
  <2>1. PICK i \in M : /\ L(i) = n /\ t[PathOf(a, n)].value = log[i].value
                       /\ \A k \in M : L(k) = n => k <= i
    BY <1>1, <1>3, <1>7
  <2>2. \A k \in M : L(k) \in Nat /\ L(k) <= n
    BY <1>1, <1>3, <1>7
  <2>3. Best(i)
    BY <2>1, <2>2
  <2>4. ASSUME NEW j \in M, Best(j) PROVE j = i
    <3>1. L(j) \in Nat /\ L(j) <= L(i) /\ j \in Nat /\ i \in Nat /\ L(i) \in Nat
      BY <1>5, <2>1, <2>2
    <3>2. L(i) < L(j) \/ (L(i) = L(j) /\ i <= j)
      BY <2>4
    <3>3. L(j) < L(i) \/ (L(j) = L(i) /\ j <= i)
      BY <2>3
    <3> QED
      BY <3>1, <3>2, <3>3
  <2> HIDE DEF Best
  <2>5. {j \in M : Best(j)} = {i}
    BY <2>3, <2>4
  <2>6. LongestMatch(a) = {log[i].value}
    BY <1>4, <2>5
  <2> QED
    BY <1>7, <2>1, <2>6
<1> QED
  BY <1>2, <1>6, <1>7, Zenon DEF Deepest

\* lookup() finds a value where a prefix contains the address, and nothing but
\* inserted values.
LEMMA LookupFinds ==
  ASSUME TableInv, NEW a \in IpAddr
  PROVE  /\ lookup(a) = {} <=> Matching(a) = {}
         /\ \A v \in lookup(a) : \E i \in DOMAIN log : v = log[i].value
<1> DEFINE t == root_[a.family]
           max == Bits(a.family)
           M == Matching(a)
           L(i) == log[i].cidr.prefix_len
<1>1. max \in Nat /\ Reachable(t)
  BY WidthAssumption DEF TableInv, TrieOf, Bits, Bytes, IpAddr
<1>2. Deepest(a, t, max, 0, lookup(a))
  BY <1>1, LookupDeepest
<1>3. /\ \A i \in M : L(i) \in 0..max /\ Valued(a, t, L(i))
      /\ \A n \in Nat : Valued(a, t, n) =>
           \E i \in M : L(i) = n /\ t[PathOf(a, n)].value = log[i].value
  BY ValuedMatches
<1>4. \A i \in M : i \in DOMAIN log
  BY DEF Matching
<1> HIDE DEF t, max, M, L
<1>5. CASE lookup(a) = {} /\ \A m \in 0..max : ~Valued(a, t, m)
  BY <1>3, <1>5 DEF M
<1>6. ASSUME NEW n \in 0..max, Valued(a, t, n), lookup(a) = {t[PathOf(a, n)].value}
      PROVE  /\ lookup(a) # {} /\ M # {}
             /\ \A v \in lookup(a) : \E i \in DOMAIN log : v = log[i].value
  BY <1>1, <1>3, <1>4, <1>6
<1> QED
  BY <1>2, <1>5, <1>6 DEF Deepest, M

\* lookup() answers for every address with the value of the longest inserted
\* prefix that contains it by Cidr::contains(), the last insertion of a prefix
\* inserted twice: for every width of bytes and addresses and any number of
\* insertions.
THEOREM LongestPrefixWins == Spec => []LookupIsLongestMatch
<1>1. Init => TableInv
  BY TableInit
<1>2. TableInv /\ [Next]_vars => TableInv'
  <2>1. ASSUME TableInv, UNCHANGED vars PROVE TableInv'
    BY <2>1 DEF TableInv, vars
  <2> QED
    BY <2>1, TableInsert DEF Next
<1>3. TableInv => LookupIsLongestMatch
  BY TableLookup DEF LookupIsLongestMatch
<1> QED
  BY <1>1, <1>2, <1>3, PTL DEF Spec
=============================================================================
