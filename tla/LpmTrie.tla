------------------------------ MODULE LpmTrie ------------------------------
(***************************************************************************)
(* LpmTrie (include/cfd/lpm_trie.hpp) and the addresses and prefixes it is *)
(* keyed by (src/net/cidr.cpp).  A trie node is named by the path of bits  *)
(* that leads to it, so a trie is a function from paths to nodes and a     *)
(* null child is a path outside its domain.  Bytes have ByteBits bits      *)
(* instead of 8, addresses V4Bytes and V6Bytes bytes instead of 4 and 16.  *)
(***************************************************************************)
EXTENDS Naturals, Sequences, FiniteSets

CONSTANTS
  ByteBits, V4Bytes, V6Bytes,
  Values,        \* what the trie maps prefixes to
  MaxInserts     \* bound: number of insertions explored

ASSUME WidthAssumption ==
  /\ ByteBits \in Nat \ {0} /\ V4Bytes \in Nat \ {0} /\ V6Bytes \in Nat
  /\ V4Bytes <= V6Bytes /\ MaxInserts \in Nat

VARIABLES
  root_,         \* root_v4_ and root_v6_: per family, the nodes by path
  log            \* the insertions so far, oldest first

Family   == {"V4", "V6"}
Bytes(f) == IF f = "V4" THEN V4Bytes ELSE V6Bytes
Bits(f)  == Bytes(f) * ByteBits

\* 1 << n, for the shifts of a byte.
Pow2[n \in 0..ByteBits] == IF n = 0 THEN 1 ELSE 2 * Pow2[n - 1]

Byte == 0..Pow2[ByteBits] - 1

\* IpAddr holds the bytes of the longer family; the rest is zero for V4.
IpAddr == {a \in [family : Family, bytes : [0..V6Bytes - 1 -> Byte]] :
             \A i \in Bytes(a.family)..V6Bytes - 1 : a.bytes[i] = 0}

\* Cidr::parse rejects a prefix longer than the address, and keeps the
\* address as it is written: bits behind the prefix may be set.
Cidr == {c \in [addr : IpAddr, prefix_len : 0..V6Bytes * ByteBits] :
           c.prefix_len <= Bits(c.addr.family)}

Absent == [has_value |-> FALSE]

-----------------------------------------------------------------------------
bit_of(a, bit) ==
  (a.bytes[bit \div ByteBits] \div Pow2[ByteBits - 1 - (bit % ByteBits)]) % 2

PathOf(a, n) == [i \in 1..n |-> bit_of(a, i - 1)]

Empty == [f \in Family |-> <<>>]

\* Where insert()'s loop makes a node: at every depth down to the prefix.
Depths_LeafOnly(c) == {c.prefix_len}
Depths(c) == 0..c.prefix_len

\* A step of insert()'s loop makes the node it stands on and goes down; the
\* last node gets the value.
Inserted(t, c, value) ==
  LET path  == PathOf(c.addr, c.prefix_len)
      below == {SubSeq(path, 1, n) : n \in Depths(c)}
  IN [p \in DOMAIN t \cup below |->
        IF p = path THEN [has_value |-> TRUE, value |-> value]
        ELSE IF p \in DOMAIN t THEN t[p]
        ELSE Absent]

root_for(f) == f

insert(c, value) ==
  /\ Len(log) < MaxInserts
  /\ root_' = [root_ EXCEPT ![root_for(c.addr.family)] = Inserted(@, c, value)]
  /\ log' = Append(log, [cidr |-> c, value |-> value])

\* lookup()'s loop: walk down while there is a node, as far as the address
\* has bits, and keep the last value seen.  The optional is a set.
lookup_StopsEarly(a) ==
  LET t == root_[a.family]
      max_bits == Bits(a.family)
      best[bit \in 0..max_bits] ==
        IF PathOf(a, bit) \notin DOMAIN t \/ bit = max_bits THEN {}
        ELSE LET cur    == t[PathOf(a, bit)]
                 deeper == best[bit + 1]
             IN IF deeper # {} THEN deeper
                ELSE IF cur.has_value THEN {cur.value} ELSE {}
  IN best[0]
lookup(a) ==
  LET t == root_[a.family]
      max_bits == Bits(a.family)
      best[bit \in 0..max_bits] ==
        IF PathOf(a, bit) \notin DOMAIN t THEN {}
        ELSE LET cur    == t[PathOf(a, bit)]
                 deeper == IF bit = max_bits THEN {} ELSE best[bit + 1]
             IN IF deeper # {} THEN deeper
                ELSE IF cur.has_value THEN {cur.value} ELSE {}
  IN best[0]

\* Cidr::contains compares whole bytes, then the top bits of the next one
\* under a mask: masking with 11..10..0 is dropping the low bits.
Masked(byte, n) == byte \div Pow2[ByteBits - n]

contains(c, other) ==
  LET bytes == c.prefix_len \div ByteBits
      rest  == c.prefix_len % ByteBits
  IN /\ other.family = c.addr.family
     /\ \A i \in 0..bytes - 1 : c.addr.bytes[i] = other.bytes[i]
     /\ rest # 0 => Masked(c.addr.bytes[bytes], rest)
                      = Masked(other.bytes[bytes], rest)

-----------------------------------------------------------------------------
Init == root_ = Empty /\ log = <<>>

Next == \E c \in Cidr, value \in Values : insert(c, value)

vars == <<root_, log>>
Spec == Init /\ [][Next]_vars

\* The insertions whose prefix contains a, by Cidr::contains.
Matching(a) == {i \in DOMAIN log : contains(log[i].cidr, a)}

\* The value of the longest prefix that contains a, the latest of them when
\* one prefix was inserted several times.
LongestMatch(a) ==
  {log[i].value : i \in
     {j \in Matching(a) : \A k \in Matching(a) :
        \/ log[k].cidr.prefix_len < log[j].cidr.prefix_len
        \/ log[k].cidr.prefix_len = log[j].cidr.prefix_len /\ k <= j}}

\* lookup() finds for every address of either family exactly the value a
\* linear search of all inserted prefixes with Cidr::contains would find:
\* default routes, host routes, nested, repeated and non-canonical prefixes
\* (bits set behind the prefix) included.
LookupIsLongestMatch == \A a \in IpAddr : lookup(a) = LongestMatch(a)

\* ~LpmTrie frees every node that insert() made: its recursion from the
\* roots reaches a node only through all the nodes above it.
DestroyReachesAll ==
  \A f \in Family : \A p \in DOMAIN root_[f] :
    \A n \in 0..Len(p) : SubSeq(p, 1, n) \in DOMAIN root_[f]
=============================================================================
