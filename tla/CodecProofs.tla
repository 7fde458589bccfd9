----------------------------- MODULE CodecProofs -----------------------------
(***************************************************************************)
(* The parser is the inverse of the writer, for all messages and frames;   *)
(* and the channel between two threads, for any messages, limit and        *)
(* splitting of the writes.                                                *)
(***************************************************************************)
EXTENDS Codec, SequenceTheorems, WellFoundedInduction, TLAPS

-----------------------------------------------------------------------------
(* Induction and recursion over the numbers up to one.                     *)

\* The least of some numbers.
LEMMA Least ==
    ASSUME NEW T, T \subseteq Nat, T # {}
    PROVE  \E x \in T : \A y \in T : x <= y
<1>1. PICK x \in T : \A y \in T : ~(<<y, x>> \in OpToRel(<, Nat))
    BY WFMin, NatLessThanWellFounded
<1>2. \A y \in T : ~(y < x)
    BY <1>1 DEF OpToRel
<1> QED
    BY <1>2

\* A set that has zero and the successors of its elements has every number up to N.
LEMMA UpTo ==
    ASSUME NEW N \in Nat, NEW T, 0 \in T, \A k \in 0..(N - 1) : k \in T => k + 1 \in T
    PROVE  \A k \in 0..N : k \in T
<1> DEFINE M == {k \in 0..N : k \notin T}
<1>1. ASSUME M # {} PROVE FALSE
  <2>1. PICK x \in M : \A y \in M : x <= y
    <3>1. M \subseteq Nat
      OBVIOUS
    <3> HIDE DEF M
    <3> QED
      BY <1>1, <3>1, Least
  <2>2. x # 0 /\ x \in 0..N
    OBVIOUS
  <2>3. x - 1 \in 0..(N - 1) /\ x - 1 \notin M
    BY <2>1, <2>2
  <2>4. x - 1 \in T /\ (x - 1) + 1 = x
    BY <2>2, <2>3
  <2> QED
    BY <2>3, <2>4
<1> QED
    BY <1>1

\* f starts with first and goes from each value to the next by a step.
Runs(f, first, step, N) == f[0] = first /\ \A k \in 1..N : f[k] = step[k][f[k - 1]]

\* A function may be defined by its first value and by each step to the next.
LEMMA Recursion ==
    ASSUME NEW N \in Nat, NEW S, NEW first \in S, NEW step \in [1..N -> [S -> S]]
    PROVE  \E f \in [0..N -> S] : Runs(f, first, step, N)
<1> DEFINE T == {n \in 0..N : \E f \in [0..n -> S] :
                     f[0] = first /\ \A k \in 1..n : f[k] = step[k][f[k - 1]]}
<1>1. 0 \in T
  <2> DEFINE f == [k \in 0..0 |-> first]
  <2>1. f \in [0..0 -> S] /\ f[0] = first /\ \A k \in 1..0 : f[k] = step[k][f[k - 1]]
    OBVIOUS
  <2> HIDE DEF f
  <2> QED
    BY <2>1
<1>2. ASSUME NEW n \in 0..(N - 1), n \in T PROVE n + 1 \in T
  <2>1. PICK f \in [0..n -> S] : f[0] = first /\ \A k \in 1..n : f[k] = step[k][f[k - 1]]
    BY <1>2
  <2> DEFINE g == [k \in 0..(n + 1) |-> IF k <= n THEN f[k] ELSE step[k][f[n]]]
  <2>2. step[n + 1] \in [S -> S] /\ f[n] \in S
    OBVIOUS
  <2>3. g \in [0..(n + 1) -> S]
    BY <2>2
  <2>4. g[0] = first
    BY <2>1
  <2>5. ASSUME NEW k \in 1..(n + 1) PROVE g[k] = step[k][g[k - 1]]
    <3>1. CASE k <= n
      <4>1. k \in 1..n /\ k - 1 \in 0..(n + 1) /\ k - 1 <= n
        BY <3>1
      <4>2. g[k] = f[k] /\ g[k - 1] = f[k - 1]
        BY <4>1
      <4> QED
        BY <2>1, <4>1, <4>2
    <3>2. CASE k = n + 1
      <4>1. g[k] = step[k][f[n]] /\ g[k - 1] = f[n]
        BY <3>2
      <4> QED
        BY <4>1
    <3> QED
      BY <3>1, <3>2
  <2> HIDE DEF g
  <2>6. \E h \in [0..(n + 1) -> S] : h[0] = first /\ \A k \in 1..(n + 1) : h[k] = step[k][h[k - 1]]
    BY <2>3, <2>4, <2>5
  <2> QED
    BY <2>6
<1> HIDE DEF T
<1>3. N \in T
  <2>1. \A k \in 0..N : k \in T
    BY <1>1, <1>2, UpTo
  <2> QED
    BY <2>1
<1> QED
    BY <1>3 DEF T, Runs

-----------------------------------------------------------------------------
(* Slices.                                                                 *)

\* What two slices hold together.
LEMMA Joined ==
    ASSUME NEW S, NEW s \in Seq(S), NEW t \in Seq(S)
    PROVE  /\ s \o t \in Seq(S) /\ Len(s \o t) = Len(s) + Len(t)
           /\ \A i \in 1..Len(s) : (s \o t)[i] = s[i]
           /\ \A i \in 1..Len(t) : (s \o t)[Len(s) + i] = t[i]
    BY ConcatProperties

\* What is left of a sequence after n of its elements.
LEMMA RestIs ==
    ASSUME NEW S, NEW s \in Seq(S), NEW n \in 0..Len(s)
    PROVE  /\ Rest(s, n) \in Seq(S) /\ Len(Rest(s, n)) = Len(s) - n
           /\ \A i \in 1..(Len(s) - n) : Rest(s, n)[i] = s[n + i]
<1>1. \A i \in (n + 1)..Len(s) : s[i] \in S
    OBVIOUS
<1>2. n + 1 \in Int /\ Len(s) \in Int
    OBVIOUS
<1> QED
    BY <1>1, <1>2, SubSeqProperties DEF Rest

\* The first n elements.
LEMMA TakenIs ==
    ASSUME NEW S, NEW s \in Seq(S), NEW n \in 0..Len(s)
    PROVE  LET t == SubSeq(s, 1, n) IN
           /\ t \in Seq(S) /\ Len(t) = n /\ \A i \in 1..n : t[i] = s[i]
<1>1. \A i \in 1..n : s[i] \in S
    OBVIOUS
<1> QED
    BY <1>1, SubSeqProperties

\* Taking the first n elements and the rest leaves the sequence as it was.
LEMMA SplitIs ==
    ASSUME NEW S, NEW s \in Seq(S), NEW n \in 0..Len(s)
    PROVE  SubSeq(s, 1, n) \o Rest(s, n) = s
<1> DEFINE a == SubSeq(s, 1, n)
           b == Rest(s, n)
<1>1. /\ a \in Seq(S) /\ Len(a) = n /\ \A i \in 1..n : a[i] = s[i]
      /\ b \in Seq(S) /\ Len(b) = Len(s) - n
      /\ \A i \in 1..(Len(s) - n) : b[i] = s[n + i]
    BY RestIs, TakenIs
<1> HIDE DEF a, b
<1>2. a \o b \in Seq(S) /\ Len(a \o b) = Len(s)
    BY <1>1, Joined
<1>3. ASSUME NEW i \in 1..Len(s) PROVE (a \o b)[i] = s[i]
  <2>1. (a \o b)[i] = IF i <= Len(a) THEN a[i] ELSE b[i - Len(a)]
    BY <1>1, <1>3, ConcatProperties
  <2> QED
    BY <1>1, <2>1
<1>4. a \o b = s
    BY <1>2, <1>3, SeqEqual
<1> QED
    BY <1>4 DEF a, b

\* A slice is advanced by as much as it has.
LEMMA SkipIs ==
    ASSUME NEW S, NEW s \in Seq(S), NEW n \in Int
    PROVE  /\ n <= 0 => Skip(s, n) = s
           /\ 0 <= n /\ n <= Len(s) => Skip(s, n) = Rest(s, n)
           /\ Len(s) <= n => Skip(s, n) = <<>>
<1>1. n <= 0 => Skip(s, n) = s
    BY DEF Skip
<1>2. ASSUME 0 <= n, n <= Len(s) PROVE Skip(s, n) = Rest(s, n)
  <2>1. CASE n = 0
    <3>1. Rest(s, 0) \in Seq(S) /\ Len(Rest(s, 0)) = Len(s)
          /\ \A i \in 1..Len(s) : Rest(s, 0)[i] = s[i]
      BY RestIs
    <3>2. Rest(s, 0) = s
      BY <3>1, SeqEqual
    <3> QED
      BY <1>1, <2>1, <3>2
  <2>2. CASE n > 0
    BY <2>2 DEF Skip
  <2> QED
    BY <1>2, <2>1, <2>2
<1>3. ASSUME Len(s) <= n PROVE Skip(s, n) = <<>>
  <2>1. CASE n <= 0
    BY <1>1, <1>3, <2>1
  <2>2. CASE n > 0
    BY <1>3, <2>2, SubSeqEmpty DEF Skip, Rest
  <2> QED
    BY <2>1, <2>2
<1> QED
    BY <1>1, <1>2, <1>3

\* The rest of two slices.
LEMMA RestOfJoined ==
    ASSUME NEW S, NEW s \in Seq(S), NEW t \in Seq(S), NEW n \in 0..(Len(s) + Len(t))
    PROVE  /\ n <= Len(s) => Rest(s \o t, n) = Rest(s, n) \o t
           /\ Len(s) <= n => Rest(s \o t, n) = Rest(t, n - Len(s))
<1> DEFINE st == s \o t
<1>1. /\ st \in Seq(S) /\ Len(st) = Len(s) + Len(t)
      /\ \A i \in 1..Len(s) : st[i] = s[i]
      /\ \A i \in 1..Len(t) : st[Len(s) + i] = t[i]
    BY Joined
<1> HIDE DEF st
<1>2. /\ Rest(st, n) \in Seq(S) /\ Len(Rest(st, n)) = Len(s) + Len(t) - n
      /\ \A i \in 1..(Len(s) + Len(t) - n) : Rest(st, n)[i] = st[n + i]
  <2>1. n \in 0..Len(st)
    BY <1>1
  <2>2. /\ Rest(st, n) \in Seq(S) /\ Len(Rest(st, n)) = Len(st) - n
        /\ \A i \in 1..(Len(st) - n) : Rest(st, n)[i] = st[n + i]
    BY <1>1, <2>1, RestIs
  <2> QED
    BY <1>1, <2>2
<1>3. ASSUME n <= Len(s) PROVE Rest(st, n) = Rest(s, n) \o t
  <2> DEFINE r == Rest(s, n)
             u == r \o t
  <2>1. /\ r \in Seq(S) /\ Len(r) = Len(s) - n
        /\ \A i \in 1..(Len(s) - n) : r[i] = s[n + i]
    BY <1>3, RestIs
  <2> HIDE DEF r
  <2>2. u \in Seq(S) /\ Len(u) = Len(r) + Len(t)
    BY <2>1, Joined
  <2>3. ASSUME NEW i \in 1..Len(u) PROVE u[i] = Rest(st, n)[i]
    <3>1. u[i] = IF i <= Len(r) THEN r[i] ELSE t[i - Len(r)]
      BY <2>1, <2>2, ConcatProperties
    <3>2. Rest(st, n)[i] = st[n + i]
      BY <1>2, <2>1, <2>2
    <3>3. CASE i <= Len(r)
      BY <1>1, <2>1, <3>1, <3>2, <3>3
    <3>4. CASE i > Len(r)
      <4>1. i - Len(r) \in 1..Len(t) /\ n + i = Len(s) + (i - Len(r))
        BY <2>1, <2>2, <3>4
      <4> QED
        BY <1>1, <3>1, <3>2, <3>4, <4>1
    <3> QED
      BY <3>3, <3>4, <2>1, <2>2
  <2>4. Len(u) = Len(Rest(st, n))
    BY <1>2, <2>1, <2>2
  <2> HIDE DEF u
  <2>5. u = Rest(st, n)
    BY <1>2, <2>2, <2>3, <2>4, SeqEqual
  <2> QED
    BY <2>5 DEF u, r
<1>4. ASSUME Len(s) <= n PROVE Rest(st, n) = Rest(t, n - Len(s))
  <2> DEFINE r == Rest(t, n - Len(s))
  <2>1. /\ r \in Seq(S) /\ Len(r) = Len(t) - (n - Len(s))
        /\ \A i \in 1..(Len(t) - (n - Len(s))) : r[i] = t[(n - Len(s)) + i]
    <3>1. n - Len(s) \in 0..Len(t)
      BY <1>4
    <3> QED
      BY <3>1, RestIs
  <2> HIDE DEF r
  <2>2. ASSUME NEW i \in 1..Len(r) PROVE r[i] = Rest(st, n)[i]
    <3>1. (n - Len(s)) + i \in 1..Len(t) /\ n + i = Len(s) + ((n - Len(s)) + i)
      BY <1>4, <2>1
    <3>2. st[Len(s) + ((n - Len(s)) + i)] = t[(n - Len(s)) + i]
      BY <1>1, <3>1
    <3> QED
      BY <1>2, <2>1, <3>1, <3>2
  <2>3. Len(r) = Len(Rest(st, n))
    BY <1>2, <2>1
  <2>4. r = Rest(st, n)
    BY <1>2, <2>1, <2>2, <2>3, SeqEqual
  <2> QED
    BY <2>4 DEF r
<1> QED
    BY <1>3, <1>4 DEF st

\* Three slices of b.
SlicesOf(v, b) == \E x, y, z \in Seq(Byte) : v = <<x, y, z>> /\ (x \o y) \o z = b

\* Advancing the slices by what was written leaves what was not.
LEMMA AdvanceIs ==
    ASSUME NEW a \in Seq(Byte), NEW b \in Seq(Byte), NEW c \in Seq(Byte),
           NEW n \in 0..(Len(a) + Len(b) + Len(c))
    PROVE  SlicesOf(Advance(<<a, b, c>>, n), Rest((a \o b) \o c, n))
<1> DEFINE x == Skip(a, n)
           y == Skip(b, n - Len(a))
           z == Skip(c, n - Len(a) - Len(b))
           ab == a \o b
           bytes == ab \o c
<1>0. Len(a) \in Nat /\ Len(b) \in Nat /\ Len(c) \in Nat /\ <<>> \in Seq(Byte)
    BY EmptySeq, LenProperties
<1>1. ab \in Seq(Byte) /\ Len(ab) = Len(a) + Len(b)
    BY Joined
<1>2. Advance(<<a, b, c>>, n) = <<x, y, z>>
    BY DEF Advance
<1> SUFFICES /\ x \in Seq(Byte) /\ y \in Seq(Byte) /\ z \in Seq(Byte)
             /\ (x \o y) \o z = Rest(bytes, n)
  <2> HIDE DEF x, y, z
  <2> QED
    BY <1>2 DEF SlicesOf
<1>3. /\ n <= Len(ab) => Rest(bytes, n) = Rest(ab, n) \o c
      /\ Len(ab) <= n => Rest(bytes, n) = Rest(c, n - Len(ab))
  <2> HIDE DEF ab
  <2>1. n \in 0..(Len(ab) + Len(c))
    BY <1>1
  <2> QED
    BY <1>1, <2>1, RestOfJoined
<1>4. n <= Len(ab) => /\ n <= Len(a) => Rest(ab, n) = Rest(a, n) \o b
                      /\ Len(a) <= n => Rest(ab, n) = Rest(b, n - Len(a))
  <2>1. n <= Len(ab) => n \in 0..(Len(a) + Len(b))
    BY <1>0, <1>1
  <2> QED
    BY <2>1, RestOfJoined
<1> HIDE DEF ab, bytes
<1>5. CASE n <= Len(a)
  <2>1. n - Len(a) <= 0 /\ n - Len(a) - Len(b) <= 0 /\ n \in 0..Len(a) /\ n <= Len(ab)
    BY <1>0, <1>1, <1>5
  <2>2. y = b /\ z = c
    BY <2>1 DEF Skip
  <2>3. x = Rest(a, n) /\ x \in Seq(Byte)
    BY <2>1, SkipIs, RestIs
  <2> HIDE DEF x, y, z
  <2> QED
    BY <1>3, <1>4, <1>5, <2>1, <2>2, <2>3
<1>6. CASE Len(a) < n /\ n <= Len(ab)
  <2> DEFINE m == n - Len(a)
  <2>1. m - Len(b) <= 0 /\ m \in 0..Len(b) /\ Len(a) <= n
    BY <1>0, <1>1, <1>6
  <2>2. x = <<>> /\ z = c
    BY <2>1, <1>6, SkipIs DEF Skip
  <2>3. y = Rest(b, m) /\ y \in Seq(Byte)
    <3> HIDE DEF m
    <3>1. Skip(b, m) = Rest(b, m) /\ Rest(b, m) \in Seq(Byte)
      BY <2>1, SkipIs, RestIs
    <3> QED
      BY <3>1 DEF m
  <2>4. <<>> \o y = y
    BY <2>3, ConcatEmptySeq
  <2> HIDE DEF x, y, z
  <2> QED
    BY <1>0, <1>3, <1>4, <1>6, <2>1, <2>2, <2>3, <2>4
<1>7. CASE Len(ab) < n
  <2> DEFINE m == n - Len(ab)
  <2>1. /\ m \in 0..Len(c) /\ n - Len(a) - Len(b) = m
        /\ Len(a) <= n /\ Len(b) <= n - Len(a) /\ n - Len(a) \in Int
    BY <1>0, <1>1, <1>7
  <2>2. x = <<>> /\ y = <<>>
    BY <2>1, SkipIs
  <2>3. z = Rest(c, m) /\ z \in Seq(Byte)
    <3> HIDE DEF m
    <3>1. Skip(c, m) = Rest(c, m) /\ Rest(c, m) \in Seq(Byte)
      BY <2>1, SkipIs, RestIs
    <3> QED
      BY <3>1, <2>1
  <2>4. (<<>> \o <<>>) \o z = z
    BY <1>0, <2>3, ConcatEmptySeq
  <2> HIDE DEF x, y, z
  <2> QED
    BY <1>0, <1>1, <1>3, <1>7, <2>1, <2>2, <2>3, <2>4
<1>8. n <= Len(a) \/ (Len(a) < n /\ n <= Len(ab)) \/ Len(ab) < n
    BY <1>0, <1>1
<1> HIDE DEF x, y, z
<1> QED
    BY <1>5, <1>6, <1>7, <1>8

\* What follows the first of two slices, and what was read when it has been read.
LEMMA PeelIs ==
    ASSUME NEW S, NEW w \in Seq(S), NEW p \in Seq(S), NEW h \in Seq(S), NEW c \in Seq(S),
           w \o p = h \o c, Len(h) <= Len(w)
    PROVE  At(w, 0, Len(h)) = h /\ Rest(w, Len(h)) \o p = c /\ Rest(w, Len(h)) \in Seq(S)
<1> DEFINE n == Len(h)
           a == SubSeq(w, 1, n)
<1>1. n \in Nat /\ n \in 0..Len(w) /\ Len(p) \in Nat /\ Len(c) \in Nat /\ n \in 0..(Len(w) + Len(p))
      /\ n \in 0..(Len(h) + Len(c)) /\ At(w, 0, Len(h)) = a
  <2>1. Len(w) \in Nat /\ Len(p) \in Nat /\ Len(c) \in Nat /\ Len(h) \in Nat
    BY LenProperties
  <2> QED
    BY <2>1 DEF At
<1>2. a \in Seq(S) /\ Len(a) = n /\ \A i \in 1..n : a[i] = w[i]
  <2> HIDE DEF n
  <2> QED
    BY <1>1, TakenIs
<1>3. a = h
  <2>1. /\ \A i \in 1..Len(w) : (w \o p)[i] = w[i]
        /\ \A i \in 1..Len(h) : (h \o c)[i] = h[i]
    BY Joined
  <2>2. \A i \in 1..Len(h) : a[i] = h[i]
    BY <1>1, <1>2, <2>1
  <2> HIDE DEF a
  <2> QED
    BY <1>2, <2>2, SeqEqual
<1>4. Rest(w \o p, n) = Rest(w, n) \o p /\ Rest(w, n) \in Seq(S)
  <2> HIDE DEF n
  <2>1. n <= Len(w)
    BY <1>1
  <2> QED
    BY <1>1, <2>1, RestOfJoined, RestIs
<1>5. Rest(h \o c, n) = c
  <2>1. Rest(h \o c, n) = Rest(c, n - Len(h))
    <3>1. Len(h) <= n
      BY <1>1
    <3> HIDE DEF n
    <3> QED
      BY <1>1, <3>1, RestOfJoined
  <2>2. n - Len(h) = 0 /\ 0 <= Len(c)
    BY <1>1
  <2>3. Skip(c, 0) = c /\ Skip(c, 0) = Rest(c, 0)
    BY <2>2, SkipIs
  <2> QED
    BY <2>1, <2>2, <2>3
<1> QED
    BY <1>1, <1>3, <1>4, <1>5

\* Slices of bytes may be joined in any order.
LEMMA Reassociated ==
    \A a, b, c \in Seq(Byte) : (a \o b) \o c = a \o (b \o c)
    BY ConcatAssociative

\* A part of a sequence.
LEMMA AtIs ==
    ASSUME NEW S, NEW s \in Seq(S), NEW off \in Nat, NEW n \in Nat, off + n <= Len(s)
    PROVE  /\ At(s, off, n) \in Seq(S) /\ Len(At(s, off, n)) = n
           /\ \A i \in 1..n : At(s, off, n)[i] = s[off + i]
<1>1. \A i \in (off + 1)..(off + n) : s[i] \in S
    BY LenProperties
<1>2. off + 1 \in Int /\ off + n \in Int
    OBVIOUS
<1> QED
    BY <1>1, <1>2, SubSeqProperties DEF At

\* All of a sequence, and its rest.
LEMMA AtAll ==
    ASSUME NEW S, NEW s \in Seq(S)
    PROVE  At(s, 0, Len(s)) = s /\ Rest(s, 0) = s /\ \A off \in Nat : Rest(s, off) = At(s, off, Len(s) - off)
<1>1. Len(s) \in Nat /\ 0 \in Nat
    BY LenProperties
<1> DEFINE n == Len(s)
           a == At(s, 0, n)
<1>2. a \in Seq(S) /\ Len(a) = n /\ \A i \in 1..n : a[i] = s[0 + i]
  <2>1. 0 + n <= Len(s) /\ n \in Nat
    BY <1>1
  <2> HIDE DEF n
  <2> QED
    BY <1>1, <2>1, AtIs
<1> HIDE DEF a
<1>3. \A i \in 1..Len(s) : a[i] = s[i]
    BY <1>1, <1>2
<1>4. a = s
    BY <1>2, <1>3, SeqEqual
<1>5. \A off \in Nat : Rest(s, off) = At(s, off, Len(s) - off)
    BY <1>1 DEF Rest, At
<1>6. Rest(s, 0) = At(s, 0, Len(s))
    BY <1>1 DEF Rest, At
<1> QED
    BY <1>4, <1>5, <1>6 DEF a

\* Two parts of a sequence side by side.
LEMMA AtTwo ==
    ASSUME NEW S, NEW s \in Seq(S), NEW off \in Nat, NEW n \in Nat, NEW k \in Nat,
           off + n + k <= Len(s)
    PROVE  At(s, off, n) \o At(s, off + n, k) = At(s, off, n + k)
<1> DEFINE a == At(s, off, n)
           b == At(s, off + n, k)
           c == At(s, off, n + k)
           ab == a \o b
<1>1. a \in Seq(S) /\ Len(a) = n /\ \A i \in 1..n : a[i] = s[off + i]
  <2>1. off + n <= Len(s)
    BY LenProperties
  <2> QED
    BY <2>1, AtIs
<1>2. b \in Seq(S) /\ Len(b) = k /\ \A i \in 1..k : b[i] = s[(off + n) + i]
  <2>1. off + n \in Nat
    OBVIOUS
  <2> QED
    BY <2>1, AtIs
<1>3. c \in Seq(S) /\ Len(c) = n + k /\ \A i \in 1..(n + k) : c[i] = s[off + i]
  <2>1. n + k \in Nat /\ off + (n + k) <= Len(s)
    BY LenProperties
  <2> QED
    BY <2>1, AtIs
<1> HIDE DEF a, b, c
<1>4. ab \in Seq(S) /\ Len(ab) = n + k
    BY <1>1, <1>2, Joined
<1>5. ASSUME NEW i \in 1..Len(ab) PROVE ab[i] = c[i]
  <2>1. ab[i] = IF i <= Len(a) THEN a[i] ELSE b[i - Len(a)]
    BY <1>1, <1>2, <1>4, ConcatProperties
  <2>2. CASE i <= n
    <3>1. i \in 1..n /\ i \in 1..(n + k)
      BY <1>4, <2>2
    <3> QED
      BY <1>1, <1>3, <2>1, <2>2, <3>1
  <2>3. CASE i > n
    <3>1. i - n \in 1..k /\ (off + n) + (i - n) = off + i /\ i \in 1..(n + k) /\ ~(i <= n)
      BY <1>4, <2>3
    <3>2. ab[i] = b[i - n]
      BY <1>1, <2>1, <3>1
    <3>3. b[i - n] = s[off + i] /\ c[i] = s[off + i]
      BY <1>2, <1>3, <3>1
    <3> QED
      BY <3>2, <3>3
  <2> QED
    BY <1>4, <2>2, <2>3
<1>6. ab = c
  <2> HIDE DEF ab
  <2> QED
    BY <1>3, <1>4, <1>5, SeqEqual
<1> QED
    BY <1>6 DEF a, b, c

\* A part of what comes first.
LEMMA AtFirst ==
    ASSUME NEW S, NEW u \in Seq(S), NEW t \in Seq(S), NEW off \in Nat, NEW n \in Nat,
           off + n <= Len(u)
    PROVE  At(u \o t, off, n) = At(u, off, n)
<1> DEFINE ut == u \o t
           a == At(u, off, n)
           b == At(ut, off, n)
<1>1. ut \in Seq(S) /\ Len(ut) = Len(u) + Len(t) /\ \A i \in 1..Len(u) : ut[i] = u[i]
    BY Joined
<1> HIDE DEF ut
<1>2. a \in Seq(S) /\ Len(a) = n /\ \A i \in 1..n : a[i] = u[off + i]
    BY AtIs
<1>3. b \in Seq(S) /\ Len(b) = n /\ \A i \in 1..n : b[i] = ut[off + i]
  <2>1. ut \in Seq(S) /\ off + n <= Len(ut)
    BY <1>1, LenProperties
  <2> QED
    BY <2>1, AtIs
<1> HIDE DEF a, b
<1>4. ASSUME NEW i \in 1..Len(b) PROVE b[i] = a[i]
  <2>1. i \in 1..n /\ off + i \in 1..Len(u)
    BY <1>3, LenProperties
  <2> QED
    BY <1>1, <1>2, <1>3, <2>1
<1>5. b = a
    BY <1>2, <1>3, <1>4, SeqEqual
<1> QED
    BY <1>5 DEF a, b, ut

\* A part of what comes behind.
LEMMA AtBehind ==
    ASSUME NEW S, NEW u \in Seq(S), NEW t \in Seq(S), NEW off \in Nat, NEW n \in Nat,
           off + n <= Len(t)
    PROVE  At(u \o t, Len(u) + off, n) = At(t, off, n)
<1> DEFINE ut == u \o t
           a == At(t, off, n)
           l == Len(u)
           b == At(ut, l + off, n)
<1>0. l \in Nat /\ l + off \in Nat /\ Len(t) \in Nat
    BY LenProperties
<1>1. ut \in Seq(S) /\ Len(ut) = l + Len(t) /\ \A i \in 1..Len(t) : ut[l + i] = t[i]
    BY Joined
<1> HIDE DEF ut, l
<1>2. a \in Seq(S) /\ Len(a) = n /\ \A i \in 1..n : a[i] = t[off + i]
    BY AtIs
<1>3. b \in Seq(S) /\ Len(b) = n /\ \A i \in 1..n : b[i] = ut[(l + off) + i]
  <2> DEFINE o == l + off
  <2>1. o \in Nat /\ ut \in Seq(S) /\ o + n <= Len(ut)
    BY <1>0, <1>1
  <2> HIDE DEF o
  <2>2. At(ut, o, n) \in Seq(S) /\ Len(At(ut, o, n)) = n
        /\ \A i \in 1..n : At(ut, o, n)[i] = ut[o + i]
    BY <2>1, AtIs
  <2> QED
    BY <2>2 DEF o
<1> HIDE DEF a, b
<1>4. ASSUME NEW i \in 1..Len(b) PROVE b[i] = a[i]
  <2>1. i \in 1..n
    BY <1>3
  <2>2. off + i \in 1..Len(t) /\ (l + off) + i = l + (off + i)
    BY <1>0, <2>1
  <2> QED
    BY <1>1, <1>2, <1>3, <2>1, <2>2
<1>5. b = a
    BY <1>2, <1>3, <1>4, SeqEqual
<1> QED
    BY <1>5 DEF a, b, ut, l

\* Two sequences joined, and each of them in it.
LEMMA TwoParts ==
    ASSUME NEW S, NEW u \in Seq(S), NEW t \in Seq(S)
    PROVE  /\ At(u \o t, 0, Len(u)) = u /\ At(u \o t, Len(u), Len(t)) = t
           /\ Rest(u \o t, Len(u)) = t
<1>1. Len(u) \in Nat /\ Len(t) \in Nat /\ 0 \in Nat /\ Len(u) + 0 = Len(u)
    BY LenProperties
<1>2. At(u \o t, 0, Len(u)) = At(u, 0, Len(u)) /\ At(u \o t, Len(u) + 0, Len(t)) = At(t, 0, Len(t))
  <2> DEFINE k == Len(u)
             n == Len(t)
  <2>1. k \in Nat /\ n \in Nat /\ 0 + n <= Len(t) /\ 0 + k <= Len(u)
    BY <1>1
  <2> HIDE DEF n, k
  <2>2. At(u \o t, 0, k) = At(u, 0, k) /\ At(u \o t, Len(u) + 0, n) = At(t, 0, n)
    BY <1>1, <2>1, AtFirst, AtBehind
  <2> QED
    BY <2>2 DEF n, k
<1>3. At(t, 0, Len(t)) = t /\ At(u, 0, Len(u)) = u
    BY AtAll
<1>4. Rest(u \o t, Len(u)) = Rest(t, 0)
  <2> DEFINE n == Len(u)
  <2>1. n \in 0..(Len(u) + Len(t)) /\ Len(u) <= n /\ n - Len(u) = 0
    BY <1>1
  <2> HIDE DEF n
  <2>2. Rest(u \o t, n) = Rest(t, n - Len(u))
    BY <2>1, RestOfJoined
  <2> QED
    BY <2>1, <2>2 DEF n
<1>5. Rest(t, 0) = t
    BY AtAll
<1> QED
    BY <1>1, <1>2, <1>3, <1>4, <1>5

-----------------------------------------------------------------------------
(* Numbers and their bytes.                                                *)

\* from_be_bytes reads byte after byte.
LEMMA ValueIs ==
    ASSUME NEW b \in Seq(Byte)
    PROVE  \E f \in [0..Len(b) -> Nat] :
              /\ f[0] = 0 /\ \A k \in 1..Len(b) : f[k] = f[k - 1] * Base + b[k]
              /\ FromBytes(b) = f[Len(b)]
<1> DEFINE N == Len(b)
           step == [k \in 1..N |-> [x \in Nat |-> x * Base + b[k]]]
           value[k \in 0..Len(b)] == IF k = 0 THEN 0 ELSE value[k - 1] * Base + b[k]
<1>1. N \in Nat /\ 0 \in Nat /\ \A k \in 1..N : b[k] \in Nat
    BY WidthsAssumption DEF Byte
<1>2. step \in [1..N -> [Nat -> Nat]]
    BY <1>1, WidthsAssumption
<1>3. \A k \in 1..N : \A x \in Nat : step[k][x] = x * Base + b[k]
    OBVIOUS
<1> HIDE DEF N, step, value
<1>4. PICK f \in [0..N -> Nat] : f[0] = 0 /\ \A k \in 1..N : f[k] = step[k][f[k - 1]]
  <2>1. \E f \in [0..N -> Nat] : Runs(f, 0, step, N)
    BY <1>1, <1>2, Recursion
  <2> QED
    BY <2>1 DEF Runs
<1>5. ASSUME NEW k \in 0..N PROVE f[k] = (IF k = 0 THEN 0 ELSE f[k - 1] * Base + b[k])
  <2>1. CASE k # 0
    <3>1. k \in 1..N /\ k - 1 \in 0..N /\ f[k - 1] \in Nat
      BY <1>1, <2>1
    <3> QED
      BY <1>3, <1>4, <2>1, <3>1
  <2> QED
    BY <1>4, <2>1
<1> USE DEF N, value
<1>6. f = [k \in 0..Len(b) |-> IF k = 0 THEN 0 ELSE f[k - 1] * Base + b[k]]
    BY <1>5
<1>7. value = [k \in 0..Len(b) |-> IF k = 0 THEN 0 ELSE value[k - 1] * Base + b[k]]
    BY <1>6 DEF value
<1>8. FromBytes(b) = value[Len(b)]
    BY DEF FromBytes
<1> HIDE DEF value, N
<1>9. value[0] = 0 /\ \A k \in 1..N : value[k] = value[k - 1] * Base + b[k]
    BY <1>1, <1>7 DEF N
<1> DEFINE T == {k \in 0..N : value[k] \in Nat}
<1>10. \A k \in 0..N : k \in T
  <2>1. 0 \in T
    BY <1>1, <1>9
  <2>2. ASSUME NEW k \in 0..(N - 1), k \in T PROVE k + 1 \in T
    <3>1. k + 1 \in 1..N /\ (k + 1) - 1 = k
      BY <1>1
    <3>2. value[k + 1] = value[k] * Base + b[k + 1]
      BY <1>9, <3>1
    <3> QED
        <4>1. value[k] \in Nat /\ b[k + 1] \in Nat /\ Base \in Nat
        BY <1>1, <2>2, <3>1, WidthsAssumption
      <4> HIDE DEF T
      <4>2. value[k + 1] \in Nat
        BY <3>2, <4>1
      <4> QED
        BY <1>1, <3>1, <4>2 DEF T
  <2> HIDE DEF T
  <2> QED
    BY <1>1, <2>1, <2>2, UpTo
<1>11. value \in [0..N -> Nat]
    BY <1>1, <1>7, <1>10 DEF N
<1> QED
    BY <1>8, <1>9, <1>11 DEF N

\* The last byte of a number, and the number without it.
LEMMA Division ==
    ASSUME NEW n \in Nat
    PROVE  /\ n \div Base \in Nat /\ n % Base \in Byte
           /\ (n \div Base) * Base + (n % Base) = n
<1>1. Base \in Nat \ {0}
    BY WidthsAssumption
<1>2. n \div Base \in Nat /\ n % Base \in 0..(Base - 1)
    BY <1>1
<1>3. (n \div Base) * Base + (n % Base) = n
    BY <1>1
<1> QED
    BY <1>2, <1>3 DEF Byte

\* A number and its last byte, put together and taken apart.
LEMMA DivisionUnique ==
    ASSUME NEW q \in Nat, NEW d \in Byte
    PROVE  LET n == q * Base + d IN n \in Nat /\ n \div Base = q /\ n % Base = d
<1> DEFINE n == q * Base + d
<1>1. Base \in Nat \ {0} /\ d \in 0..(Base - 1)
    BY WidthsAssumption DEF Byte
<1>2. n \in Nat
    BY <1>1
<1> DEFINE x == n \div Base
           y == n % Base
<1>3. x \in Nat /\ y \in 0..(Base - 1) /\ x * Base + y = n
  <2> HIDE DEF n
  <2>1. n \div Base \in Nat /\ n % Base \in Byte /\ (n \div Base) * Base + (n % Base) = n
    BY <1>2, Division
  <2> QED
    BY <2>1 DEF Byte
<1>4. x * Base + y = q * Base + d
    BY <1>3
<1> HIDE DEF x, y
<1>5. x = q /\ y = d
    BY <1>1, <1>3, <1>4
<1> QED
    BY <1>2, <1>5 DEF x, y

\* to_be_bytes takes off byte after byte.
LEMMA LeftIs ==
    ASSUME NEW n \in Nat, NEW w \in Nat
    PROVE  /\ Left(n, w) \in [0..w -> Nat] /\ Left(n, w)[0] = n
           /\ \A k \in 1..w : Left(n, w)[k] = Left(n, w)[k - 1] \div Base
<1> DEFINE step == [k \in 1..w |-> [x \in Nat |-> x \div Base]]
           left[k \in 0..w] == IF k = 0 THEN n ELSE left[k - 1] \div Base
<1>1. step \in [1..w -> [Nat -> Nat]]
    BY Division
<1>2. \A k \in 1..w : \A x \in Nat : step[k][x] = x \div Base
    OBVIOUS
<1> HIDE DEF step, left
<1>3. PICK f \in [0..w -> Nat] : f[0] = n /\ \A k \in 1..w : f[k] = step[k][f[k - 1]]
  <2>1. \E f \in [0..w -> Nat] : Runs(f, n, step, w)
    BY <1>1, Recursion
  <2> QED
    BY <2>1 DEF Runs
<1>4. ASSUME NEW k \in 0..w PROVE f[k] = (IF k = 0 THEN n ELSE f[k - 1] \div Base)
  <2>1. CASE k # 0
    <3>1. k \in 1..w /\ k - 1 \in 0..w /\ f[k - 1] \in Nat
      BY <2>1
    <3> QED
      BY <1>2, <1>3, <2>1, <3>1
  <2> QED
    BY <1>3, <2>1
<1>5. f = [k \in 0..w |-> IF k = 0 THEN n ELSE f[k - 1] \div Base]
    BY <1>4
<1>6. left = [k \in 0..w |-> IF k = 0 THEN n ELSE left[k - 1] \div Base]
    BY <1>5 DEF left
<1>7. Left(n, w) = left
    BY DEF Left, left
<1>8. left[0] = n /\ \A k \in 1..w : left[k] = left[k - 1] \div Base
    BY <1>6
<1> DEFINE T == {k \in 0..w : left[k] \in Nat}
<1>9. \A k \in 0..w : k \in T
  <2>1. 0 \in T
    BY <1>8
  <2>2. ASSUME NEW k \in 0..(w - 1), k \in T PROVE k + 1 \in T
    <3>1. k + 1 \in 1..w /\ (k + 1) - 1 = k
      OBVIOUS
    <3>2. left[k + 1] = left[k] \div Base /\ left[k] \in Nat
      BY <1>8, <2>2, <3>1
    <3>3. left[k + 1] \in Nat
      BY <3>2, Division
    <3> QED
      BY <3>1, <3>3
  <2> HIDE DEF T
  <2> QED
    BY <2>1, <2>2, UpTo
<1>10. left \in [0..w -> Nat]
    BY <1>6, <1>9
<1> QED
    BY <1>7, <1>8, <1>10

\* The bytes written for a number.
LEMMA ToBytesIs ==
    ASSUME NEW n \in Nat, NEW w \in Nat
    PROVE  /\ ToBytes(n, w) \in Seq(Byte) /\ Len(ToBytes(n, w)) = w
           /\ \A k \in 1..w : ToBytes(n, w)[k] = Left(n, w)[w - k] % Base
<1> DEFINE b == [k \in 1..w |-> Left(n, w)[w - k] % Base]
<1>1. \A k \in 1..w : Left(n, w)[w - k] % Base \in Byte
  <2> TAKE k \in 1..w
  <2>1. w - k \in 0..w
    OBVIOUS
  <2>2. Left(n, w)[w - k] \in Nat
    BY <2>1, LeftIs
  <2> QED
    BY <2>2, Division
<1>2. b \in [1..w -> Byte]
    BY <1>1
<1>3. b \in Seq(Byte) /\ Len(b) = w
    BY <1>2
<1>4. ToBytes(n, w) = b
    BY DEF ToBytes
<1>5. \A k \in 1..w : b[k] = Left(n, w)[w - k] % Base
    OBVIOUS
<1> HIDE DEF b
<1> QED
    BY <1>3, <1>4, <1>5

\* A number that fits its width comes back from its bytes.
LEMMA NumberReturns ==
    ASSUME NEW n \in Nat, NEW w \in Nat, FitsIn(n, w)
    PROVE  FromBytes(ToBytes(n, w)) = n
<1> DEFINE L == Left(n, w)
           b == ToBytes(n, w)
<1>1. /\ L \in [0..w -> Nat] /\ L[0] = n /\ L[w] = 0
      /\ \A k \in 1..w : L[k] = L[k - 1] \div Base
    BY LeftIs DEF FitsIn
<1>2. b \in Seq(Byte) /\ Len(b) = w /\ \A k \in 1..w : b[k] = L[w - k] % Base
    BY ToBytesIs
<1> HIDE DEF L, b
<1>3. PICK f \in [0..w -> Nat] :
          /\ f[0] = 0 /\ \A k \in 1..w : f[k] = f[k - 1] * Base + b[k]
          /\ FromBytes(b) = f[w]
    BY <1>2, ValueIs
<1> DEFINE T == {k \in 0..w : f[k] = L[w - k]}
<1>4. \A k \in 0..w : k \in T
  <2>1. 0 \in T
    BY <1>1, <1>3
  <2>2. ASSUME NEW k \in 0..(w - 1), k \in T PROVE k + 1 \in T
    <3> DEFINE j == w - (k + 1)
    <3>1. /\ k + 1 \in 1..w /\ (k + 1) - 1 = k /\ j \in 0..w /\ j + 1 \in 1..w
          /\ (j + 1) - 1 = j /\ j + 1 = w - k
      OBVIOUS
    <3>2. L[j] \in Nat /\ f[k] = L[j + 1] /\ L[j + 1] = L[j] \div Base
      BY <1>1, <2>2, <3>1
    <3>3. f[k + 1] = (L[j] \div Base) * Base + (L[j] % Base)
      <4>1. f[k + 1] = f[k] * Base + b[k + 1]
        BY <1>3, <3>1
      <4>2. b[k + 1] = L[j] % Base
        BY <1>2, <3>1
      <4> QED
        BY <3>2, <4>1, <4>2
    <3>4. f[k + 1] = L[j]
      BY <3>2, <3>3, Division
    <3> QED
      BY <3>1, <3>4
  <2> HIDE DEF T
  <2> QED
    BY <2>1, <2>2, UpTo
<1>5. f[w] = L[0]
  <2>1. w \in T /\ w - w = 0
    BY <1>4
  <2> QED
    BY <2>1
<1> QED
    BY <1>1, <1>3, <1>5 DEF b

\* Bytes come back from their number, and it fits as many of them.
LEMMA BytesReturned ==
    ASSUME NEW b \in Seq(Byte)
    PROVE  /\ FromBytes(b) \in Nat /\ FitsIn(FromBytes(b), Len(b))
           /\ ToBytes(FromBytes(b), Len(b)) = b
<1> DEFINE w == Len(b)
           n == FromBytes(b)
<1>1. PICK f \in [0..w -> Nat] :
          /\ f[0] = 0 /\ \A k \in 1..w : f[k] = f[k - 1] * Base + b[k]
          /\ n = f[w]
    BY ValueIs
<1>2. w \in Nat /\ \A k \in 1..w : b[k] \in Byte
    OBVIOUS
<1> HIDE DEF w, n
<1>3. n \in Nat
    BY <1>1, <1>2
<1> DEFINE L == Left(n, w)
<1>4. L \in [0..w -> Nat] /\ L[0] = n /\ \A k \in 1..w : L[k] = L[k - 1] \div Base
    BY <1>2, <1>3, LeftIs
<1> HIDE DEF L
<1>5. ASSUME NEW k \in 1..w PROVE f[k] \div Base = f[k - 1] /\ f[k] % Base = b[k]
  <2>1. k - 1 \in 0..w
    BY <1>2
  <2>2. f[k - 1] \in Nat /\ f[k] = f[k - 1] * Base + b[k] /\ b[k] \in Byte
    BY <1>1, <1>2, <2>1
  <2> QED
    BY <2>2, DivisionUnique
<1> DEFINE T == {j \in 0..w : L[j] = f[w - j]}
<1>6. \A j \in 0..w : j \in T
  <2>1. 0 \in T
    BY <1>1, <1>2, <1>4
  <2>2. ASSUME NEW j \in 0..(w - 1), j \in T PROVE j + 1 \in T
    <3>1. j + 1 \in 1..w /\ (j + 1) - 1 = j /\ w - j \in 1..w /\ (w - j) - 1 = w - (j + 1)
      BY <1>2
    <3>2. L[j + 1] = f[w - j] \div Base
      BY <1>4, <2>2, <3>1
    <3> QED
      BY <1>5, <3>1, <3>2
  <2> HIDE DEF T
  <2> QED
    BY <1>2, <2>1, <2>2, UpTo
<1>7. FitsIn(n, w)
  <2>1. w \in T /\ w - w = 0
    BY <1>2, <1>6
  <2>2. L[w] = 0
    BY <1>1, <2>1
  <2> QED
    BY <1>3, <2>2 DEF FitsIn, L
<1> DEFINE c == ToBytes(n, w)
<1>8. c \in Seq(Byte) /\ Len(c) = w /\ \A k \in 1..w : c[k] = L[w - k] % Base
    BY <1>2, <1>3, ToBytesIs DEF L
<1> HIDE DEF c
<1>9. ASSUME NEW k \in 1..w PROVE c[k] = b[k]
  <2>1. w - k \in 0..w /\ w - (w - k) = k
    BY <1>2
  <2>2. L[w - k] = f[k]
    BY <1>6, <2>1
  <2> QED
    BY <1>5, <1>8, <2>2
<1>10. c = b
    BY <1>8, <1>9, SeqEqual DEF w
<1> QED
    BY <1>3, <1>7, <1>10 DEF n, w, c

\* Zero fits every width.
LEMMA ZeroFits ==
    ASSUME NEW w \in Nat
    PROVE  FitsIn(0, w)
<1> DEFINE L == Left(0, w)
           T == {k \in 0..w : L[k] = 0}
<1>1. L[0] = 0 /\ \A k \in 1..w : L[k] = L[k - 1] \div Base
    BY LeftIs
<1>2. 0 \div Base = 0
    BY WidthsAssumption
<1> HIDE DEF L
<1>3. \A k \in 0..w : k \in T
  <2>1. 0 \in T
    BY <1>1
  <2>2. ASSUME NEW k \in 0..(w - 1), k \in T PROVE k + 1 \in T
    <3>1. k + 1 \in 1..w /\ (k + 1) - 1 = k
      OBVIOUS
    <3>2. L[k + 1] = L[k] \div Base /\ L[k] = 0
      BY <1>1, <2>2, <3>1
    <3> QED
      BY <1>2, <3>1, <3>2
  <2> HIDE DEF T
  <2> QED
    BY <2>1, <2>2, UpTo
<1>4. L[w] = 0
    BY <1>3
<1> QED
    BY <1>4 DEF FitsIn, L

\* The bytes of a number that fits.
LEMMA WrittenNumber ==
    ASSUME NEW w \in Nat, NEW n \in Nat, FitsIn(n, w)
    PROVE  /\ ToBytes(n, w) \in Seq(Byte) /\ Len(ToBytes(n, w)) = w
           /\ FromBytes(ToBytes(n, w)) = n
    BY ToBytesIs, NumberReturns

\* A number that is read.
LEMMA NumberIs ==
    ASSUME NEW p \in Seq(Byte), NEW off \in Nat, NEW w \in Nat, off + w <= Len(p)
    PROVE  /\ Number(p, off, w) \in Nat /\ FitsIn(Number(p, off, w), w)
           /\ ToBytes(Number(p, off, w), w) = At(p, off, w)
<1> DEFINE a == At(p, off, w)
<1>1. a \in Seq(Byte) /\ Len(a) = w
    BY AtIs
<1> HIDE DEF a
<1>2. FromBytes(a) \in Nat /\ FitsIn(FromBytes(a), Len(a)) /\ ToBytes(FromBytes(a), Len(a)) = a
    BY <1>1, BytesReturned
<1> QED
    BY <1>1, <1>2 DEF a, Number

-----------------------------------------------------------------------------
(* Messages of a fixed layout.                                             *)

\* A frame is its type byte and its payload.
LEMMA FrameParts ==
    ASSUME NEW t \in 1..7, NEW p \in Seq(Byte)
    PROVE  LET f == <<t>> \o p IN
           f \in Seq(Byte) \ {<<>>} /\ Len(f) = 1 + Len(p) /\ f[1] = t /\ Tail(f) = p
<1> DEFINE h == <<t>>
           f == h \o p
<1>1. h \in Seq(Byte) /\ Len(h) = 1 /\ h[1] = t
    BY WidthsAssumption DEF Byte
<1>2. Len(p) \in Nat
    BY LenProperties
<1> HIDE DEF h
<1>3. f \in Seq(Byte) /\ Len(f) = 1 + Len(p) /\ f[1] = t /\ \A i \in 1..Len(p) : f[1 + i] = p[i]
  <2>1. /\ f \in Seq(Byte) /\ Len(f) = Len(h) + Len(p)
        /\ \A i \in 1..Len(h) : f[i] = h[i]
        /\ \A i \in 1..Len(p) : f[Len(h) + i] = p[i]
    <3>1. h \in Seq(Byte)
      BY <1>1
    <3> QED
      BY <3>1, Joined
  <2> QED
    BY <1>1, <2>1
<1> HIDE DEF f
<1>4. f # <<>>
    BY <1>2, <1>3
<1>5. Tail(f) \in Seq(Byte) /\ Len(Tail(f)) = Len(p) /\ \A i \in 1..Len(p) : Tail(f)[i] = p[i]
  <2>1. Tail(f) \in Seq(Byte) /\ Len(Tail(f)) = Len(f) - 1
        /\ \A i \in 1..Len(Tail(f)) : Tail(f)[i] = f[i + 1]
    BY <1>3, <1>4, HeadTailProperties
  <2>2. Len(Tail(f)) = Len(p)
    BY <1>2, <1>3, <2>1
  <2>3. ASSUME NEW i \in 1..Len(p) PROVE Tail(f)[i] = p[i]
    <3>1. i + 1 = 1 + i
      OBVIOUS
    <3> QED
      BY <1>3, <2>1, <2>2, <3>1
  <2> QED
    BY <2>1, <2>2, <2>3
<1>6. Tail(f) = p
    BY <1>5, SeqEqual
<1> QED
    BY <1>3, <1>4, <1>6 DEF f, h

\* A frame taken apart.
LEMMA FrameOfParts ==
    ASSUME NEW f \in Seq(Byte), f # <<>>
    PROVE  f[1] \in Byte /\ Tail(f) \in Seq(Byte) /\ <<f[1]>> \o Tail(f) = f
<1> DEFINE h == <<f[1]>>
           p == Tail(f)
           g == h \o p
<1>1. Len(f) \in Nat /\ Len(f) # 0 /\ f[1] \in Byte
    BY LenProperties, EmptySeq
<1>2. h \in Seq(Byte) /\ Len(h) = 1 /\ h[1] = f[1]
    BY <1>1
<1>3. p \in Seq(Byte) /\ Len(p) = Len(f) - 1 /\ \A i \in 1..Len(p) : p[i] = f[i + 1]
    BY HeadTailProperties
<1> HIDE DEF h, p
<1>4. g \in Seq(Byte) /\ Len(g) = Len(f)
  <2>1. h \in Seq(Byte) /\ p \in Seq(Byte)
    BY <1>2, <1>3
  <2>2. g \in Seq(Byte) /\ Len(g) = Len(h) + Len(p)
    BY <2>1, Joined
  <2> QED
    BY <1>1, <1>2, <1>3, <2>2
<1>5. ASSUME NEW i \in 1..Len(g) PROVE g[i] = f[i]
  <2>1. g[i] = IF i <= Len(h) THEN h[i] ELSE p[i - Len(h)]
    BY <1>2, <1>3, <1>4, <1>5, ConcatProperties
  <2>2. CASE i = 1
    BY <1>2, <2>1, <2>2
  <2>3. CASE i # 1
    <3>1. i - 1 \in 1..Len(p) /\ (i - 1) + 1 = i /\ ~(i <= 1)
      BY <1>1, <1>3, <1>4, <2>3
    <3>2. g[i] = p[i - 1]
      BY <1>2, <2>1, <3>1
    <3>3. p[i - 1] = f[(i - 1) + 1]
      BY <1>3, <3>1
    <3> QED
      BY <3>1, <3>2, <3>3
  <2> QED
    BY <2>2, <2>3
<1>6. g = f
  <2> HIDE DEF g
  <2> QED
    BY <1>4, <1>5, SeqEqual
<1> QED
    BY <1>1, <1>3, <1>6 DEF h, p

\* The messages of one type.
OfType(type) == {m \in Message : m.type = type}

\* A hello.
LEMMA HelloReturns ==
    ASSUME NEW m \in OfType("Hello")
    PROVE  Payload(m) \in Seq(Byte) /\ ParseHello(Payload(m)) = m
<1>1. m \in [type : {"Hello"}, public_key : Keys, nonce : Keys]
    BY DEF OfType, Message
<1> DEFINE u == m.public_key
           t == m.nonce
           p == u \o t
<1>2. /\ u \in Seq(Byte) /\ t \in Seq(Byte) /\ Len(u) = KeySize /\ Len(t) = KeySize
      /\ m = [type |-> "Hello", public_key |-> u, nonce |-> t] /\ m.type = "Hello"
    BY <1>1 DEF Keys
<1>3. Payload(m) = p
    BY <1>2 DEF Payload
<1> HIDE DEF u, t
<1>4. p \in Seq(Byte) /\ Len(p) = KeySize + KeySize
    BY <1>2, Joined
<1>5. At(p, 0, KeySize) = u /\ At(p, KeySize, KeySize) = t
    BY <1>2, TwoParts
<1>6. Len(p) = 2 * KeySize
    BY <1>4, WidthsAssumption
<1> HIDE DEF p
<1> QED
    BY <1>2, <1>3, <1>4, <1>5, <1>6 DEF ParseHello

\* A proof.
LEMMA ProofReturns ==
    ASSUME NEW m \in OfType("HelloProof")
    PROVE  Payload(m) \in Seq(Byte) /\ ParseProof(Payload(m)) = m
<1>1. m \in [type : {"HelloProof"}, signature : {s \in Seq(Byte) : Len(s) = 2 * KeySize}]
    BY DEF OfType, Message
<1>2. /\ m = [type |-> "HelloProof", signature |-> m.signature] /\ m.type = "HelloProof"
      /\ m.signature \in Seq(Byte) /\ Len(m.signature) = 2 * KeySize
    BY <1>1
<1>3. Payload(m) = m.signature
    BY <1>2 DEF Payload
<1> QED
    BY <1>2, <1>3 DEF ParseProof

\* A request id that was written.
LEMMA IdWritten ==
    ASSUME NEW n \in Ids
    PROVE  U32(n) \in Seq(Byte) /\ Len(U32(n)) = Width32 /\ FromBytes(U32(n)) = n
<1>1. n \in Nat /\ FitsIn(n, Width32) /\ Width32 \in Nat
    BY WidthsAssumption DEF Ids
<1> QED
    BY <1>1, WrittenNumber DEF U32

\* A request for the list.
LEMMA RequestReturns ==
    ASSUME NEW m \in OfType("ListResources")
    PROVE  Payload(m) \in Seq(Byte) /\ ParseListResources(Payload(m)) = m
<1>1. m \in [type : {"ListResources"}, request_id : Ids]
    BY DEF OfType, Message
<1> DEFINE p == U32(m.request_id)
<1>2. /\ m = [type |-> "ListResources", request_id |-> m.request_id] /\ m.type = "ListResources"
      /\ m.request_id \in Ids
    BY <1>1
<1>3. Payload(m) = p
    BY <1>2 DEF Payload
<1>4. p \in Seq(Byte) /\ Len(p) = Width32 /\ FromBytes(p) = m.request_id
    BY <1>2, IdWritten
<1> HIDE DEF p
<1>5. At(p, 0, Width32) = p
    BY <1>4, AtAll
<1> QED
    BY <1>2, <1>3, <1>4, <1>5 DEF ParseListResources, Number

\* A request for a resource, or the end of it.
LEMMA IdAndKeyReturns ==
    ASSUME NEW m \in OfType("DownloadResource") \cup OfType("ResourceEnd")
    PROVE  Payload(m) \in Seq(Byte) /\ ParseIdAndKey(m.type, Payload(m)) = m
<1>1. m \in [type : {"DownloadResource", "ResourceEnd"}, request_id : Ids, id : Keys]
    BY DEF OfType, Message
<1> DEFINE u == U32(m.request_id)
           t == m.id
           p == u \o t
<1>2. /\ t \in Seq(Byte) /\ Len(t) = KeySize /\ m.request_id \in Ids
      /\ m = [type |-> m.type, request_id |-> m.request_id, id |-> t]
      /\ m.type \in {"DownloadResource", "ResourceEnd"}
    BY <1>1 DEF Keys
<1>3. Payload(m) = p
    BY <1>2 DEF Payload
<1>4. u \in Seq(Byte) /\ Len(u) = Width32 /\ FromBytes(u) = m.request_id
    BY <1>2, IdWritten
<1> HIDE DEF u, t
<1>5. p \in Seq(Byte) /\ Len(p) = Width32 + KeySize
    BY <1>2, <1>4, Joined
<1>6. At(p, 0, Width32) = u /\ At(p, Width32, KeySize) = t
    BY <1>2, <1>4, TwoParts
<1> HIDE DEF p
<1> QED
    BY <1>2, <1>3, <1>4, <1>5, <1>6 DEF ParseIdAndKey, Number

\* A chunk.
LEMMA ChunkReturns ==
    ASSUME NEW m \in OfType("ResourceChunk")
    PROVE  Payload(m) \in Seq(Byte) /\ ParseChunk(Payload(m)) = m
<1>1. m \in [type : {"ResourceChunk"}, request_id : Ids, id : Keys,
             offset : {n \in Nat : FitsIn(n, Width64)}, data : Seq(Byte)]
    BY DEF OfType, Message
<1> DEFINE a == U32(m.request_id)
           b == m.id
           c == U64(m.offset)
           d == m.data
           ab == a \o b
           q == ab \o c
           p == q \o d
<1>2. /\ b \in Seq(Byte) /\ Len(b) = KeySize /\ m.request_id \in Ids
      /\ d \in Seq(Byte) /\ m.offset \in Nat /\ FitsIn(m.offset, Width64)
      /\ m = [type |-> "ResourceChunk", request_id |-> m.request_id, id |-> b,
              offset |-> m.offset, data |-> d]
      /\ m.type = "ResourceChunk"
    BY <1>1 DEF Keys
<1>3. Payload(m) = p
    BY <1>2 DEF Payload
<1>4. a \in Seq(Byte) /\ Len(a) = Width32 /\ FromBytes(a) = m.request_id
    BY <1>2, IdWritten
<1>5. c \in Seq(Byte) /\ Len(c) = Width64 /\ FromBytes(c) = m.offset
  <2>1. Width64 \in Nat
    BY WidthsAssumption
  <2> QED
    BY <1>2, <2>1, WrittenNumber DEF U64
<1>6. Width32 \in Nat /\ KeySize \in Nat /\ Width64 \in Nat /\ Len(d) \in Nat
    BY <1>2, WidthsAssumption, LenProperties
<1> HIDE DEF a, b, c, d
<1>7. ab \in Seq(Byte) /\ Len(ab) = Width32 + KeySize
    BY <1>2, <1>4, Joined
<1>8. At(ab, 0, Width32) = a /\ At(ab, Width32, KeySize) = b
    BY <1>2, <1>4, TwoParts
<1> HIDE DEF ab
<1>9. q \in Seq(Byte) /\ Len(q) = Width32 + KeySize + Width64
    BY <1>5, <1>7, Joined
<1>10. At(q, 0, Width32) = a /\ At(q, Width32, KeySize) = b /\ At(q, Width32 + KeySize, Width64) = c
  <2>1. At(q, 0, Width32) = At(ab, 0, Width32) /\ At(q, Width32, KeySize) = At(ab, Width32, KeySize)
    <3>1. 0 \in Nat /\ 0 + Width32 <= Len(ab) /\ Width32 + KeySize <= Len(ab)
      BY <1>6, <1>7
    <3> QED
      BY <1>5, <1>6, <1>7, <3>1, AtFirst
  <2>2. At(q, Len(ab), Len(c)) = c
    BY <1>5, <1>7, TwoParts
  <2> QED
    BY <1>5, <1>7, <1>8, <2>1, <2>2
<1> HIDE DEF q
<1>11. p \in Seq(Byte) /\ Len(p) = Width32 + KeySize + Width64 + Len(d)
    BY <1>2, <1>9, Joined
<1>12. /\ At(p, 0, Width32) = a /\ At(p, Width32, KeySize) = b
       /\ At(p, Width32 + KeySize, Width64) = c /\ Rest(p, Width32 + KeySize + Width64) = d
  <2>1. /\ At(p, 0, Width32) = At(q, 0, Width32) /\ At(p, Width32, KeySize) = At(q, Width32, KeySize)
        /\ At(p, Width32 + KeySize, Width64) = At(q, Width32 + KeySize, Width64)
    <3> DEFINE o == Width32 + KeySize
    <3>1. /\ 0 \in Nat /\ 0 + Width32 <= Len(q) /\ Width32 + KeySize <= Len(q)
          /\ o \in Nat /\ o + Width64 <= Len(q)
      BY <1>6, <1>9
    <3> HIDE DEF o
    <3>2. /\ At(p, 0, Width32) = At(q, 0, Width32) /\ At(p, Width32, KeySize) = At(q, Width32, KeySize)
          /\ At(p, o, Width64) = At(q, o, Width64)
      <4>1. q \in Seq(Byte) /\ d \in Seq(Byte)
        BY <1>2, <1>9
      <4> QED
        BY <1>6, <3>1, <4>1, AtFirst
    <3> QED
      BY <3>2 DEF o
  <2>2. Rest(p, Len(q)) = d
    BY <1>2, <1>9, TwoParts
  <2> QED
    BY <1>9, <1>10, <2>1, <2>2
<1> HIDE DEF p
<1>13. ~(Len(p) < Width32 + KeySize + Width64)
    BY <1>6, <1>11
<1> QED
    BY <1>2, <1>3, <1>4, <1>5, <1>11, <1>12, <1>13 DEF ParseChunk, Number

\* What is read is a message, and its payload is what was read.
LEMMA HelloIsWritten ==
    ASSUME NEW p \in Seq(Byte), ParseHello(p) # Bad
    PROVE  ParseHello(p) \in OfType("Hello") /\ Payload(ParseHello(p)) = p
<1> DEFINE u == At(p, 0, KeySize)
           t == At(p, KeySize, KeySize)
           m == [type |-> "Hello", public_key |-> u, nonce |-> t]
<1>1. Len(p) = 2 * KeySize /\ ParseHello(p) = m
    BY DEF ParseHello
<1>2. KeySize \in Nat /\ 0 \in Nat /\ Len(p) = KeySize + KeySize
    BY <1>1, WidthsAssumption
<1>3. u \in Seq(Byte) /\ Len(u) = KeySize /\ t \in Seq(Byte) /\ Len(t) = KeySize
  <2>1. 0 + KeySize <= Len(p) /\ KeySize + KeySize <= Len(p)
    BY <1>2
  <2> QED
    BY <1>2, <2>1, AtIs
<1>4. u \o t = p
  <2>1. At(p, 0, KeySize) \o At(p, 0 + KeySize, KeySize) = At(p, 0, KeySize + KeySize)
    <3>1. 0 + KeySize + KeySize <= Len(p)
      BY <1>2
    <3> QED
      BY <1>2, <3>1, AtTwo
  <2>2. At(p, 0, Len(p)) = p
    BY AtAll
  <2>3. 0 + KeySize = KeySize
    BY <1>2
  <2> QED
    BY <1>2, <2>1, <2>2, <2>3
<1> HIDE DEF u, t
<1>5. m \in OfType("Hello") /\ m.type = "Hello" /\ m.public_key = u /\ m.nonce = t
    BY <1>3 DEF OfType, Message, Keys
<1> HIDE DEF m
<1> QED
    BY <1>1, <1>4, <1>5 DEF Payload

\* The same of a proof.
LEMMA ProofIsWritten ==
    ASSUME NEW p \in Seq(Byte), ParseProof(p) # Bad
    PROVE  ParseProof(p) \in OfType("HelloProof") /\ Payload(ParseProof(p)) = p
<1> DEFINE m == [type |-> "HelloProof", signature |-> p]
<1>1. Len(p) = 2 * KeySize /\ ParseProof(p) = m
    BY DEF ParseProof
<1>2. m \in OfType("HelloProof") /\ m.type = "HelloProof" /\ m.signature = p
    BY <1>1 DEF OfType, Message
<1> HIDE DEF m
<1> QED
    BY <1>1, <1>2 DEF Payload

\* A request id that was read.
LEMMA IdRead ==
    ASSUME NEW p \in Seq(Byte), Width32 <= Len(p)
    PROVE  LET n == Number(p, 0, Width32) IN n \in Ids /\ U32(n) = At(p, 0, Width32)
<1>1. Width32 \in Nat /\ 0 \in Nat /\ 0 + Width32 <= Len(p)
    BY WidthsAssumption
<1> QED
    BY <1>1, NumberIs DEF Ids, U32

\* The same of a request for the list.
LEMMA RequestIsWritten ==
    ASSUME NEW p \in Seq(Byte), ParseListResources(p) # Bad
    PROVE  /\ ParseListResources(p) \in OfType("ListResources")
           /\ Payload(ParseListResources(p)) = p
<1> DEFINE n == Number(p, 0, Width32)
           m == [type |-> "ListResources", request_id |-> n]
<1>1. Len(p) = Width32 /\ ParseListResources(p) = m
    BY DEF ParseListResources
<1>2. n \in Ids /\ U32(n) = p
  <2>1. At(p, 0, Len(p)) = p
    BY AtAll
  <2>2. Width32 <= Len(p)
    BY <1>1, WidthsAssumption
  <2> QED
    BY <1>1, <2>1, <2>2, IdRead
<1> HIDE DEF n
<1>3. m \in OfType("ListResources") /\ m.type = "ListResources" /\ m.request_id = n
    BY <1>2 DEF OfType, Message
<1> HIDE DEF m
<1> QED
    BY <1>1, <1>2, <1>3 DEF Payload

\* The same of a request for a resource and of the end of it.
LEMMA IdAndKeyIsWritten ==
    ASSUME NEW type \in {"DownloadResource", "ResourceEnd"},
           NEW p \in Seq(Byte), ParseIdAndKey(type, p) # Bad
    PROVE  ParseIdAndKey(type, p) \in OfType(type) /\ Payload(ParseIdAndKey(type, p)) = p
<1> DEFINE n == Number(p, 0, Width32)
           t == At(p, Width32, KeySize)
           m == [type |-> type, request_id |-> n, id |-> t]
<1>1. Len(p) = Width32 + KeySize /\ ParseIdAndKey(type, p) = m
    BY DEF ParseIdAndKey
<1>2. KeySize \in Nat /\ Width32 \in Nat /\ 0 \in Nat
    BY WidthsAssumption
<1>3. t \in Seq(Byte) /\ Len(t) = KeySize
  <2>1. Width32 + KeySize <= Len(p)
    BY <1>1, <1>2
  <2> QED
    BY <1>2, <2>1, AtIs
<1>4. n \in Ids /\ U32(n) = At(p, 0, Width32)
  <2>1. Width32 <= Len(p)
    BY <1>1, <1>2
  <2> QED
    BY <2>1, IdRead
<1>5. U32(n) \o t = p
  <2>1. At(p, 0, Width32) \o At(p, 0 + Width32, KeySize) = At(p, 0, Width32 + KeySize)
    <3>1. 0 + Width32 + KeySize <= Len(p)
      BY <1>1, <1>2
    <3> QED
      BY <1>2, <3>1, AtTwo
  <2>2. At(p, 0, Len(p)) = p
    BY AtAll
  <2>3. 0 + Width32 = Width32
    BY <1>2
  <2> QED
    BY <1>1, <1>4, <2>1, <2>2, <2>3
<1> HIDE DEF n, t
<1>6. m \in OfType(type) /\ m.type = type /\ m.request_id = n /\ m.id = t
    BY <1>3, <1>4 DEF OfType, Message, Keys
<1> HIDE DEF m
<1> QED
    BY <1>1, <1>5, <1>6 DEF Payload

\* The same of a chunk.
LEMMA ChunkIsWritten ==
    ASSUME NEW p \in Seq(Byte), ParseChunk(p) # Bad
    PROVE  ParseChunk(p) \in OfType("ResourceChunk") /\ Payload(ParseChunk(p)) = p
<1> DEFINE head == Width32 + KeySize + Width64
           n == Number(p, 0, Width32)
           b == At(p, Width32, KeySize)
           o == Number(p, Width32 + KeySize, Width64)
           d == Rest(p, head)
           m == [type |-> "ResourceChunk", request_id |-> n, id |-> b, offset |-> o, data |-> d]
<1>1. ~(Len(p) < head) /\ ParseChunk(p) = m
    BY DEF ParseChunk
<1>2. /\ KeySize \in Nat /\ Width32 \in Nat /\ Width64 \in Nat /\ 0 \in Nat
      /\ Len(p) \in Nat /\ head \in Nat /\ Width32 + KeySize \in Nat
    BY WidthsAssumption, LenProperties
<1>3. head <= Len(p) /\ head \in 0..Len(p) /\ Width32 + KeySize <= Len(p) /\ Width32 <= Len(p)
    BY <1>1, <1>2
<1>4. b \in Seq(Byte) /\ Len(b) = KeySize
    BY <1>2, <1>3, AtIs
<1>5. n \in Ids /\ U32(n) = At(p, 0, Width32)
    BY <1>3, IdRead
<1>6. o \in Nat /\ FitsIn(o, Width64) /\ U64(o) = At(p, Width32 + KeySize, Width64)
  <2> DEFINE off == Width32 + KeySize
  <2>1. off \in Nat /\ off + Width64 <= Len(p)
    BY <1>2, <1>3
  <2> HIDE DEF off
  <2>2. /\ Number(p, off, Width64) \in Nat /\ FitsIn(Number(p, off, Width64), Width64)
        /\ ToBytes(Number(p, off, Width64), Width64) = At(p, off, Width64)
    BY <1>2, <2>1, NumberIs
  <2> QED
    BY <2>2 DEF off, U64
<1>7. d \in Seq(Byte) /\ At(p, 0, head) \o d = p
  <2> HIDE DEF head
  <2>1. d \in Seq(Byte) /\ SubSeq(p, 1, head) \o Rest(p, head) = p
    BY <1>3, RestIs, SplitIs
  <2>2. SubSeq(p, 1, head) = At(p, 0, head)
    BY <1>2 DEF At
  <2> QED
    BY <2>1, <2>2
<1>8. (U32(n) \o b) \o U64(o) = At(p, 0, head)
  <2>1. At(p, 0, Width32) \o At(p, 0 + Width32, KeySize) = At(p, 0, Width32 + KeySize)
    <3>1. 0 + Width32 + KeySize <= Len(p)
      BY <1>2, <1>3
    <3> QED
      BY <1>2, <3>1, AtTwo
  <2> DEFINE off == Width32 + KeySize
  <2>2. At(p, 0, off) \o At(p, 0 + off, Width64) = At(p, 0, off + Width64)
    <3>1. off \in Nat /\ 0 + off + Width64 <= Len(p)
      BY <1>2, <1>3
    <3> HIDE DEF off
    <3> QED
      BY <1>2, <3>1, AtTwo
  <2>3. 0 + Width32 = Width32 /\ 0 + off = off /\ off + Width64 = head
    BY <1>2
  <2>4. U32(n) \o b = At(p, 0, off)
    BY <1>5, <2>1, <2>3
  <2>5. U64(o) = At(p, 0 + off, Width64)
    BY <1>6, <2>3
  <2> HIDE DEF n, b, o, off
  <2> QED
    BY <2>2, <2>3, <2>4, <2>5
<1> HIDE DEF n, b, o, d, head
<1>9. ((U32(n) \o b) \o U64(o)) \o d = p
    BY <1>7, <1>8
<1>10. /\ m \in OfType("ResourceChunk") /\ m.type = "ResourceChunk" /\ m.request_id = n /\ m.id = b
       /\ m.offset = o /\ m.data = d
    BY <1>4, <1>5, <1>6, <1>7 DEF OfType, Message, Keys
<1> HIDE DEF m
<1> QED
    BY <1>1, <1>9, <1>10 DEF Payload

-----------------------------------------------------------------------------
(* Lists.                                                                  *)

\* An entry of a list, and where its fields are.
LEMMA EntryIs ==
    ASSUME NEW r \in Infos
    PROVE  LET e == Entry(r)
               n == Len(r.name)
               at == KeySize + Width32
           IN  /\ e \in Seq(Byte) /\ n \in Nat /\ Len(e) = EntrySize + n
               /\ At(e, 0, KeySize) = r.id /\ At(e, KeySize, Width32) = U32(n)
               /\ At(e, at, n) = r.name /\ At(e, at + n, Width64) = U64(r.size)
<1> DEFINE a == r.id
           b == U32(Len(r.name))
           c == r.name
           d == U64(r.size)
           n == Len(c)
           at == KeySize + Width32
           ab == a \o b
           q == ab \o c
           e == q \o d
<1>1. /\ a \in Seq(Byte) /\ Len(a) = KeySize /\ c \in Seq(Byte) /\ n \in Nat /\ n \in Ids
      /\ r.size \in Nat /\ FitsIn(r.size, Width64)
  <2>1. TextBytes \subseteq Byte
    BY WidthsAssumption DEF Byte
  <2>2. c \in Seq(TextBytes) /\ FitsIn(Len(c), Width32) /\ r.id \in Keys
        /\ r.size \in Nat /\ FitsIn(r.size, Width64)
    BY DEF Infos, Names
  <2>3. n \in Nat
    BY <2>2, LenProperties
  <2>4. c \in Seq(Byte)
    <3>1. c \in [1..Len(c) -> TextBytes]
      BY <2>2, LenProperties
    <3>2. c \in [1..Len(c) -> Byte]
      BY <2>1, <3>1
    <3> QED
      BY <2>3, <3>2
  <2> QED
    BY <2>2, <2>3, <2>4 DEF Ids, Keys
<1>2. b \in Seq(Byte) /\ Len(b) = Width32
    BY <1>1, IdWritten
<1>3. d \in Seq(Byte) /\ Len(d) = Width64
  <2>1. Width64 \in Nat
    BY WidthsAssumption
  <2> QED
    BY <1>1, <2>1, WrittenNumber DEF U64
<1>4. Width32 \in Nat /\ KeySize \in Nat /\ Width64 \in Nat /\ at \in Nat /\ 0 \in Nat
    BY WidthsAssumption
<1>5. Entry(r) = e
    BY DEF Entry
<1> HIDE DEF a, b, c, d, n, at
<1>0. n = Len(c)
    BY DEF n
<1>6. ab \in Seq(Byte) /\ Len(ab) = at
    BY <1>1, <1>2, Joined DEF at
<1>7. At(ab, 0, KeySize) = a /\ At(ab, KeySize, Width32) = b
    BY <1>1, <1>2, TwoParts
<1> HIDE DEF ab
<1>8. q \in Seq(Byte) /\ Len(q) = at + n
    BY <1>1, <1>6, <1>0, Joined
<1>9. At(q, 0, KeySize) = a /\ At(q, KeySize, Width32) = b /\ At(q, at, n) = c
  <2>1. At(q, 0, KeySize) = At(ab, 0, KeySize) /\ At(q, KeySize, Width32) = At(ab, KeySize, Width32)
    <3>1. 0 + KeySize <= Len(ab) /\ KeySize + Width32 <= Len(ab)
      BY <1>4, <1>6 DEF at
    <3>2. c \in Seq(Byte)
      BY <1>1
    <3> QED
      BY <1>4, <1>6, <3>1, <3>2, AtFirst
  <2>2. At(q, Len(ab), Len(c)) = c
    BY <1>1, <1>6, TwoParts
  <2> QED
    BY <1>6, <1>7, <1>0, <2>1, <2>2
<1> HIDE DEF q
<1>10. e \in Seq(Byte) /\ Len(e) = at + n + Width64
    BY <1>3, <1>8, Joined
<1>11. /\ At(e, 0, KeySize) = a /\ At(e, KeySize, Width32) = b /\ At(e, at, n) = c
       /\ At(e, at + n, Width64) = d
  <2>1. /\ At(e, 0, KeySize) = At(q, 0, KeySize) /\ At(e, KeySize, Width32) = At(q, KeySize, Width32)
        /\ At(e, at, n) = At(q, at, n)
    <3>1. 0 + KeySize <= Len(q) /\ KeySize + Width32 <= Len(q) /\ at + n <= Len(q)
      BY <1>1, <1>4, <1>8 DEF at
    <3> QED
      BY <1>1, <1>3, <1>4, <1>8, <3>1, AtFirst
  <2>2. At(e, Len(q), Len(d)) = d
    BY <1>3, <1>8, TwoParts
  <2> QED
    BY <1>3, <1>8, <1>9, <2>1, <2>2
<1>12. Len(e) = EntrySize + n
    BY <1>1, <1>4, <1>10 DEF at, EntrySize
<1> HIDE DEF e
<1>13. Entry(r) = e /\ r.id = a /\ U32(n) = b /\ r.name = c /\ U64(r.size) = d
    BY <1>5 DEF a, b, c, d, n
<1> QED
    BY <1>1, <1>10, <1>11, <1>12, <1>13 DEF n, at, c

\* E[k] is the first k entries of rs, one behind the other.
Grows(E, rs, n) ==
    /\ E[0] = <<>>
    /\ \A k \in 1..n : E[k] = E[k - 1] \o Entry(rs[k])

\* Entries builds them by going from each to the next.
LEMMA EntriesAre ==
    ASSUME NEW rs \in Seq(Infos)
    PROVE  \E E \in [0..Len(rs) -> Seq(Byte)] : Grows(E, rs, Len(rs)) /\ Entries(rs) = E[Len(rs)]
<1> DEFINE N == Len(rs)
           step == [k \in 1..N |-> [b \in Seq(Byte) |-> b \o Entry(rs[k])]]
           upTo[k \in 0..Len(rs)] == IF k = 0 THEN <<>> ELSE upTo[k - 1] \o Entry(rs[k])
<1>1. N \in Nat /\ \A k \in 1..N : Entry(rs[k]) \in Seq(Byte)
    BY EntryIs
<1>2. <<>> \in Seq(Byte)
    BY EmptySeq
<1>3. step \in [1..N -> [Seq(Byte) -> Seq(Byte)]]
  <2> SUFFICES ASSUME NEW k \in 1..N PROVE [b \in Seq(Byte) |-> b \o Entry(rs[k])] \in [Seq(Byte) -> Seq(Byte)]
    OBVIOUS
  <2>1. Entry(rs[k]) \in Seq(Byte)
    BY <1>1
  <2> DEFINE e == Entry(rs[k])
  <2> HIDE DEF e
  <2>2. ASSUME NEW b \in Seq(Byte) PROVE b \o e \in Seq(Byte)
    BY <2>1, Joined DEF e
  <2> QED
    BY <2>2 DEF e
<1>4. \A k \in 1..N : \A b \in Seq(Byte) : step[k][b] = b \o Entry(rs[k])
    OBVIOUS
<1> HIDE DEF N, step, upTo
<1>5. PICK f \in [0..N -> Seq(Byte)] : f[0] = <<>> /\ \A k \in 1..N : f[k] = step[k][f[k - 1]]
  <2>1. \E f \in [0..N -> Seq(Byte)] : Runs(f, <<>>, step, N)
    BY <1>1, <1>2, <1>3, Recursion
  <2> QED
    BY <2>1 DEF Runs
<1>6. ASSUME NEW k \in 0..N PROVE f[k] = (IF k = 0 THEN <<>> ELSE f[k - 1] \o Entry(rs[k]))
  <2>1. CASE k # 0
    <3>1. k \in 1..N /\ k - 1 \in 0..N
      BY <1>1, <2>1
    <3>2. f[k - 1] \in Seq(Byte) /\ f[k] = step[k][f[k - 1]]
      BY <1>5, <3>1
    <3>3. step[k][f[k - 1]] = f[k - 1] \o Entry(rs[k])
      BY <1>4, <3>1, <3>2
    <3> QED
      BY <2>1, <3>2, <3>3
  <2> QED
    BY <1>5, <2>1
<1>7. f = [k \in 0..Len(rs) |-> IF k = 0 THEN <<>> ELSE f[k - 1] \o Entry(rs[k])]
    BY <1>6 DEF N
<1>8. upTo = [k \in 0..Len(rs) |-> IF k = 0 THEN <<>> ELSE upTo[k - 1] \o Entry(rs[k])]
    BY <1>7 DEF upTo
<1>9. Entries(rs) = upTo[Len(rs)]
    BY DEF Entries, upTo
<1>10. upTo[0] = <<>> /\ \A k \in 1..N : upTo[k] = upTo[k - 1] \o Entry(rs[k])
  <2>1. \A k \in 0..N : upTo[k] = (IF k = 0 THEN <<>> ELSE upTo[k - 1] \o Entry(rs[k]))
    BY <1>8 DEF N
  <2>2. upTo[0] = <<>>
    BY <1>1, <2>1
  <2>3. ASSUME NEW k \in 1..N PROVE upTo[k] = upTo[k - 1] \o Entry(rs[k])
    <3>1. k \in 0..N /\ k # 0
      BY <1>1
    <3> QED
      BY <2>1, <3>1
  <2> QED
    BY <2>2, <2>3
<1> DEFINE T == {k \in 0..N : upTo[k] \in Seq(Byte)}
<1>11. \A k \in 0..N : k \in T
  <2>1. 0 \in T
    BY <1>1, <1>2, <1>10
  <2>2. ASSUME NEW k \in 0..(N - 1), k \in T PROVE k + 1 \in T
    <3>1. k + 1 \in 1..N /\ (k + 1) - 1 = k
      BY <1>1
    <3>2. upTo[k + 1] = upTo[k] \o Entry(rs[k + 1])
      BY <1>10, <3>1
    <3>3. upTo[k] \in Seq(Byte) /\ Entry(rs[k + 1]) \in Seq(Byte)
      BY <1>1, <2>2, <3>1
    <3>4. upTo[k] \o Entry(rs[k + 1]) \in Seq(Byte)
      BY <3>3, Joined
    <3>5. upTo[k + 1] \in Seq(Byte)
      BY <3>2, <3>4
    <3> QED
      BY <1>1, <3>1, <3>5
  <2> HIDE DEF T
  <2> QED
    BY <1>1, <2>1, <2>2, UpTo
<1>12. upTo \in [0..N -> Seq(Byte)]
    BY <1>8, <1>11 DEF N
<1>13. Grows(upTo, rs, N)
    BY <1>10 DEF Grows
<1> QED
    BY <1>9, <1>12, <1>13 DEF N

\* The entries of a list with another one behind.
LEMMA EntriesAppend ==
    ASSUME NEW rs \in Seq(Infos), NEW r \in Infos
    PROVE  Entries(Append(rs, r)) = Entries(rs) \o Entry(r) /\ Entries(rs) \in Seq(Byte)
<1> DEFINE ss == Append(rs, r)
           n == Len(rs)
<1>1. /\ ss \in Seq(Infos) /\ Len(ss) = n + 1 /\ ss[n + 1] = r /\ n \in Nat
      /\ \A k \in 1..n : ss[k] = rs[k]
    BY AppendProperties, LenProperties
<1> HIDE DEF ss
<1>2. PICK E \in [0..n -> Seq(Byte)] : Grows(E, rs, n) /\ Entries(rs) = E[n]
    BY EntriesAre
<1> HIDE DEF n
<1>3. PICK F \in [0..(n + 1) -> Seq(Byte)] : Grows(F, ss, n + 1) /\ Entries(ss) = F[n + 1]
  <2>1. \E F \in [0..Len(ss) -> Seq(Byte)] : Grows(F, ss, Len(ss)) /\ Entries(ss) = F[Len(ss)]
    BY <1>1, EntriesAre
  <2> QED
    BY <1>1, <2>1
<1> DEFINE T == {k \in 0..n : F[k] = E[k]}
<1>4. \A k \in 0..n : k \in T
  <2>1. 0 \in T
    BY <1>1, <1>2, <1>3 DEF Grows
  <2>2. ASSUME NEW k \in 0..(n - 1), k \in T PROVE k + 1 \in T
    <3>1. k + 1 \in 1..n /\ k + 1 \in 1..(n + 1) /\ (k + 1) - 1 = k
      BY <1>1
    <3>2. E[k + 1] = E[k] \o Entry(rs[k + 1])
      BY <1>2, <3>1 DEF Grows
    <3>3. F[k + 1] = F[k] \o Entry(ss[k + 1])
      BY <1>3, <3>1 DEF Grows
    <3>4. F[k] = E[k] /\ ss[k + 1] = rs[k + 1]
      BY <1>1, <2>2, <3>1
    <3>5. F[k + 1] = E[k + 1]
      BY <3>2, <3>3, <3>4
    <3> QED
      BY <1>1, <3>1, <3>5
  <2> HIDE DEF T
  <2> QED
    BY <1>1, <2>1, <2>2, UpTo
<1>5. F[n] = E[n]
    BY <1>1, <1>4
<1>6. F[n + 1] = F[n] \o Entry(ss[n + 1])
  <2>1. n + 1 \in 1..(n + 1) /\ (n + 1) - 1 = n
    BY <1>1
  <2> QED
    BY <1>3, <2>1 DEF Grows
<1>7. E[n] \in Seq(Byte)
    BY <1>1, <1>2
<1> QED
    BY <1>1, <1>2, <1>3, <1>5, <1>6, <1>7 DEF ss

\* No entries are no bytes.
LEMMA EntriesEmpty == Entries(<<>>) = <<>>
<1>1. <<>> \in Seq(Infos) /\ Len(<<>>) = 0
    BY EmptySeq
<1>2. PICK E : Grows(E, <<>>, 0) /\ Entries(<<>>) = E[0]
    BY <1>1, EntriesAre
<1> QED
    BY <1>2 DEF Grows

\* How far a list has been read.
Got(p) == [type : {"Entries"}, off : 0..Len(p), resources : Seq(Infos)]

Reached(off, rs) == [type |-> "Entries", off |-> off, resources |-> rs]

\* An entry that is read is the bytes it was read from.
LEMMA EntryRead ==
    ASSUME NEW p \in Seq(Byte), NEW got \in Got(p), ParseEntry(p, got) # Bad
    PROVE  \E r \in Infos :
              /\ ParseEntry(p, got) = Reached(got.off + Len(Entry(r)), Append(got.resources, r))
              /\ ParseEntry(p, got) \in Got(p)
              /\ Entry(r) = At(p, got.off, Len(Entry(r)))
<1> DEFINE off == got.off
           rs == got.resources
           nameAt == off + KeySize + Width32
           nl == Number(p, off + KeySize, Width32)
           name == At(p, nameAt, nl)
           id == At(p, off, KeySize)
           size == Number(p, nameAt + nl, Width64)
           r == [id |-> id, name |-> name, size |-> size]
           g == [type |-> "Entries", off |-> nameAt + nl + Width64, resources |-> Append(rs, r)]
<1>1. /\ Fits(p, off, KeySize + Width32) /\ Fits(p, nameAt, nl)
      /\ \A k \in DOMAIN name : name[k] \in TextBytes
      /\ Fits(p, nameAt + nl, Width64)
      /\ ParseEntry(p, got) = g
    BY DEF ParseEntry
<1>2. /\ off \in Nat /\ rs \in Seq(Infos) /\ Len(p) \in Nat /\ KeySize \in Nat
      /\ Width32 \in Nat /\ Width64 \in Nat /\ 0 \in Nat
    BY WidthsAssumption, LenProperties DEF Got
<1> HIDE DEF off, rs
<1>3. off + KeySize \in Nat /\ nameAt \in Nat /\ (off + KeySize) + Width32 <= Len(p)
      /\ off + KeySize <= Len(p)
    BY <1>1, <1>2 DEF Fits
<1>4. nl \in Nat /\ FitsIn(nl, Width32) /\ U32(nl) = At(p, off + KeySize, Width32)
  <2> DEFINE o == off + KeySize
  <2>1. o \in Nat /\ o + Width32 <= Len(p)
    BY <1>3
  <2> HIDE DEF o
  <2>2. /\ Number(p, o, Width32) \in Nat /\ FitsIn(Number(p, o, Width32), Width32)
        /\ ToBytes(Number(p, o, Width32), Width32) = At(p, o, Width32)
    BY <1>2, <2>1, NumberIs
  <2> QED
    BY <2>2 DEF o, U32
<1>5. nameAt + nl \in Nat /\ nameAt + nl <= Len(p) /\ (nameAt + nl) + Width64 <= Len(p)
    BY <1>1, <1>3, <1>4 DEF Fits
<1> HIDE DEF nl
<1>6. size \in Nat /\ FitsIn(size, Width64) /\ U64(size) = At(p, nameAt + nl, Width64)
  <2> DEFINE o == nameAt + nl
  <2>1. o \in Nat /\ o + Width64 <= Len(p)
    BY <1>5
  <2> HIDE DEF o
  <2>2. /\ Number(p, o, Width64) \in Nat /\ FitsIn(Number(p, o, Width64), Width64)
        /\ ToBytes(Number(p, o, Width64), Width64) = At(p, o, Width64)
    BY <1>2, <2>1, NumberIs
  <2> QED
    BY <2>2 DEF o, U64
<1> HIDE DEF nameAt
<1>7. id \in Seq(Byte) /\ Len(id) = KeySize
    BY <1>2, <1>3, AtIs
<1>8. name \in Seq(Byte) /\ Len(name) = nl
    BY <1>3, <1>4, <1>5, AtIs
<1> HIDE DEF name, id, size
<1>9. name \in Seq(TextBytes)
  <2>1. DOMAIN name = 1..nl /\ name \in [1..nl -> Byte]
    BY <1>4, <1>8
  <2>2. name \in [1..nl -> TextBytes]
    BY <1>1, <2>1
  <2> QED
    BY <1>4, <2>2
<1>10. r \in Infos
    BY <1>4, <1>6, <1>7, <1>8, <1>9 DEF Infos, Names, Keys
<1>11. Entry(r) = ((id \o U32(nl)) \o name) \o U64(size)
    BY <1>8 DEF Entry
<1>12. Len(Entry(r)) = KeySize + Width32 + Width64 + nl
  <2>1. Len(Entry(r)) = EntrySize + Len(r.name) /\ r.name = name
    BY <1>10, EntryIs
  <2> QED
    BY <1>2, <1>4, <1>8, <2>1 DEF EntrySize
<1>13. Entry(r) = At(p, off, KeySize + Width32 + Width64 + nl)
  <2> DEFINE a == KeySize + Width32
             b == a + nl
  <2>0. a \in Nat /\ b \in Nat /\ nameAt = off + a /\ nameAt + nl = off + b
        /\ b + Width64 = KeySize + Width32 + Width64 + nl
    BY <1>2, <1>4 DEF nameAt
  <2>1. At(p, off, KeySize) \o At(p, off + KeySize, Width32) = At(p, off, a)
    <3>1. off \in Nat /\ KeySize \in Nat /\ Width32 \in Nat /\ off + KeySize + Width32 <= Len(p)
      BY <1>2, <1>3
    <3> QED
      BY <3>1, AtTwo
  <2> HIDE DEF a
  <2>2. At(p, off, a) \o At(p, off + a, nl) = At(p, off, b)
    <3>1. off \in Nat /\ a \in Nat /\ nl \in Nat /\ off + a + nl <= Len(p)
      BY <1>2, <1>4, <1>5, <2>0
    <3> QED
      BY <3>1, AtTwo
  <2> HIDE DEF b
  <2>3. At(p, off, b) \o At(p, off + b, Width64) = At(p, off, b + Width64)
    <3>1. off \in Nat /\ b \in Nat /\ Width64 \in Nat /\ off + b + Width64 <= Len(p)
      BY <1>2, <1>5, <2>0
    <3> QED
      BY <3>1, AtTwo
  <2>4. id \o U32(nl) = At(p, off, a)
    BY <1>4, <2>1 DEF id
  <2>5. At(p, off, a) \o name = At(p, off, b)
    BY <2>0, <2>2 DEF name
  <2>6. At(p, off, b) \o U64(size) = At(p, off, b + Width64)
    BY <1>6, <2>0, <2>3
  <2> QED
    BY <1>11, <2>0, <2>4, <2>5, <2>6
<1> DEFINE n == Len(Entry(r))
<1>14. n = KeySize + Width32 + Width64 + nl
    BY <1>12
<1> HIDE DEF r, n
<1>15. nameAt + nl + Width64 = off + n
    BY <1>2, <1>4, <1>14 DEF nameAt
<1>16. Append(rs, r) \in Seq(Infos)
    BY <1>2, <1>10, AppendProperties
<1>17. g = Reached(off + n, Append(rs, r)) /\ g \in Got(p)
  <2>1. off + n \in 0..Len(p)
    BY <1>2, <1>4, <1>5, <1>14, <1>15
  <2> QED
    BY <1>15, <1>16, <2>1 DEF Reached, Got
<1>18. Entry(r) = At(p, off, n)
    BY <1>13, <1>14
<1> HIDE DEF g
<1> QED
    BY <1>1, <1>10, <1>17, <1>18 DEF n, off, rs

\* An entry that was written is read, wherever it is.
LEMMA EntryReturns ==
    ASSUME NEW u \in Seq(Byte), NEW r \in Infos, NEW t \in Seq(Byte), NEW rs \in Seq(Infos)
    PROVE  LET p == (u \o Entry(r)) \o t IN
           ParseEntry(p, Reached(Len(u), rs)) = Reached(Len(u) + Len(Entry(r)), Append(rs, r))
<1> DEFINE e == Entry(r)
           ue == u \o e
           p == ue \o t
           off == Len(u)
           n == Len(r.name)
           at == KeySize + Width32
           got == Reached(off, rs)
<1>1. /\ e \in Seq(Byte) /\ n \in Nat /\ Len(e) = EntrySize + n
      /\ At(e, 0, KeySize) = r.id /\ At(e, KeySize, Width32) = U32(n)
      /\ At(e, at, n) = r.name /\ At(e, at + n, Width64) = U64(r.size)
    BY EntryIs
<1>2. /\ r = [id |-> r.id, name |-> r.name, size |-> r.size] /\ r.name \in Seq(TextBytes)
      /\ n \in Ids /\ r.size \in Nat /\ FitsIn(r.size, Width64)
    BY <1>1 DEF Infos, Names, Ids
<1> HIDE DEF e, n
<1>3. /\ off \in Nat /\ Len(t) \in Nat /\ KeySize \in Nat /\ Width32 \in Nat /\ Width64 \in Nat
      /\ 0 \in Nat /\ at \in Nat /\ at + n \in Nat /\ off + 0 = off
      /\ off + KeySize \in Nat /\ off + at \in Nat /\ off + (at + n) \in Nat
  <2>1. off \in Nat /\ Len(t) \in Nat /\ n \in Nat
    BY <1>1, LenProperties
  <2>2. KeySize \in Nat /\ Width32 \in Nat /\ Width64 \in Nat /\ at \in Nat
    BY WidthsAssumption
  <2> HIDE DEF off, at
  <2> QED
    BY <2>1, <2>2
<1>4. /\ 0 + KeySize <= Len(e) /\ KeySize + Width32 <= Len(e) /\ at + n <= Len(e)
      /\ (at + n) + Width64 <= Len(e) /\ Len(e) = (at + n) + Width64
    BY <1>1, <1>3 DEF EntrySize
<1> HIDE DEF off, at
<1>5. /\ ue \in Seq(Byte) /\ Len(ue) = off + Len(e)
  <2>1. ue \in Seq(Byte) /\ Len(ue) = Len(u) + Len(e)
    BY <1>1, Joined
  <2> QED
    BY <2>1 DEF off
<1>6. /\ At(ue, off + 0, KeySize) = At(e, 0, KeySize)
      /\ At(ue, off + KeySize, Width32) = At(e, KeySize, Width32)
      /\ At(ue, off + at, n) = At(e, at, n)
      /\ At(ue, off + (at + n), Width64) = At(e, at + n, Width64)
  <2>1. /\ At(ue, Len(u) + 0, KeySize) = At(e, 0, KeySize)
        /\ At(ue, Len(u) + KeySize, Width32) = At(e, KeySize, Width32)
        /\ At(ue, Len(u) + at, n) = At(e, at, n)
    <3>1. /\ e \in Seq(Byte) /\ 0 \in Nat /\ KeySize \in Nat /\ Width32 \in Nat
          /\ 0 + KeySize <= Len(e) /\ KeySize + Width32 <= Len(e)
      BY <1>1, <1>3, <1>4
    <3>2. at \in Nat /\ n \in Nat /\ at + n <= Len(e)
      BY <1>1, <1>3, <1>4
    <3>3. /\ At(ue, Len(u) + 0, KeySize) = At(e, 0, KeySize)
          /\ At(ue, Len(u) + KeySize, Width32) = At(e, KeySize, Width32)
      BY <3>1, AtBehind
    <3>4. At(ue, Len(u) + at, n) = At(e, at, n)
      BY <3>1, <3>2, AtBehind
    <3> QED
      BY <3>3, <3>4
  <2>2. At(ue, Len(u) + (at + n), Width64) = At(e, at + n, Width64)
    <3> DEFINE o == at + n
    <3>1. o \in Nat /\ o + Width64 <= Len(e)
      BY <1>3, <1>4
    <3> HIDE DEF o
    <3>2. At(ue, Len(u) + o, Width64) = At(e, o, Width64)
      BY <1>1, <1>3, <3>1, AtBehind
    <3> QED
      BY <3>2 DEF o
  <2> QED
    BY <2>1, <2>2 DEF off
<1> HIDE DEF ue
<1>7. p \in Seq(Byte) /\ Len(p) = off + Len(e) + Len(t)
    BY <1>5, Joined
<1>8. /\ At(p, off, KeySize) = r.id
      /\ At(p, off + KeySize, Width32) = U32(n)
      /\ At(p, off + at, n) = r.name
      /\ At(p, off + (at + n), Width64) = U64(r.size)
  <2>1. off + KeySize <= Len(ue) /\ (off + KeySize) + Width32 <= Len(ue)
        /\ (off + at) + n <= Len(ue) /\ (off + (at + n)) + Width64 <= Len(ue)
    <3>1. Len(ue) = off + Len(e) /\ n \in Nat /\ Len(e) \in Nat
      BY <1>1, <1>5, LenProperties
    <3>2. KeySize <= Len(e) /\ KeySize + Width32 <= Len(e)
      BY <1>3, <1>4
    <3> QED
      BY <1>3, <1>4, <3>1, <3>2
  <2>2. At(p, off, KeySize) = At(ue, off, KeySize)
    BY <1>3, <1>5, <2>1, AtFirst
  <2>3. At(p, off + KeySize, Width32) = At(ue, off + KeySize, Width32)
    <3> DEFINE o == off + KeySize
    <3>1. o \in Nat /\ o + Width32 <= Len(ue)
      BY <1>3, <2>1
    <3> HIDE DEF o
    <3>2. At(p, o, Width32) = At(ue, o, Width32)
      BY <1>3, <1>5, <3>1, AtFirst
    <3> QED
      BY <3>2 DEF o
  <2>4. At(p, off + at, n) = At(ue, off + at, n)
    <3> DEFINE o == off + at
    <3>1. o \in Nat /\ o + n <= Len(ue)
      BY <1>3, <2>1
    <3> HIDE DEF o
    <3>2. At(p, o, n) = At(ue, o, n)
      BY <1>1, <1>5, <3>1, AtFirst
    <3> QED
      BY <3>2 DEF o
  <2>5. At(p, off + (at + n), Width64) = At(ue, off + (at + n), Width64)
    <3> DEFINE o == off + (at + n)
    <3>1. o \in Nat /\ o + Width64 <= Len(ue)
      BY <1>3, <2>1
    <3> HIDE DEF o
    <3>2. At(p, o, Width64) = At(ue, o, Width64)
      BY <1>3, <1>5, <3>1, AtFirst
    <3> QED
      BY <3>2 DEF o
  <2> HIDE DEF p
  <2> QED
    BY <1>1, <1>3, <1>6, <2>2, <2>3, <2>4, <2>5
<1> HIDE DEF p
<1> DEFINE nameAt == off + KeySize + Width32
<1>9. nameAt = off + at /\ nameAt + n = off + (at + n) /\ nameAt \in Nat
    BY <1>1, <1>3 DEF at
<1>10. Number(p, off + KeySize, Width32) = n
    BY <1>2, <1>8, IdWritten DEF Number
<1>11. At(p, nameAt, n) = r.name
    BY <1>8, <1>9
<1>12. Number(p, nameAt + n, Width64) = r.size
  <2>1. FromBytes(U64(r.size)) = r.size
    BY <1>2, <1>3, WrittenNumber DEF U64
  <2>2. At(p, nameAt + n, Width64) = U64(r.size)
    BY <1>8, <1>9
  <2> QED
    BY <2>1, <2>2 DEF Number
<1>13. Fits(p, off, KeySize + Width32) /\ Fits(p, nameAt, n) /\ Fits(p, nameAt + n, Width64)
  <2>1. n \in Nat /\ Len(e) \in Nat
    BY <1>1, LenProperties
  <2>2. /\ off + (KeySize + Width32) <= Len(p) /\ (off + at) + n <= Len(p)
        /\ (off + (at + n)) + Width64 <= Len(p)
    BY <1>3, <1>4, <1>7, <2>1
  <2> HIDE DEF nameAt
  <2> QED
    BY <1>9, <2>2 DEF Fits
<1>14. \A k \in DOMAIN r.name : r.name[k] \in TextBytes
    BY <1>2
<1>15. got.off = off /\ got.resources = rs
    BY DEF Reached
<1> HIDE DEF got
<1>16. ParseEntry(p, got) = [type |-> "Entries", off |-> nameAt + n + Width64,
                             resources |-> Append(rs, r)]
  <2> HIDE DEF nameAt
  <2>1. ~ \/ ~Fits(p, off, KeySize + Width32)
          \/ ~Fits(p, nameAt, n)
          \/ \E k \in DOMAIN r.name : r.name[k] \notin TextBytes
          \/ ~Fits(p, nameAt + n, Width64)
    BY <1>13, <1>14
  <2>2. [id |-> At(p, off, KeySize), name |-> r.name, size |-> Number(p, nameAt + n, Width64)] = r
    BY <1>2, <1>8, <1>12
  <2> QED
    BY <1>10, <1>11, <1>15, <2>1, <2>2 DEF ParseEntry, nameAt
<1>17. nameAt + n + Width64 = off + Len(e)
  <2>1. n \in Nat
    BY <1>1
  <2> HIDE DEF nameAt
  <2>2. nameAt + n + Width64 = (off + (at + n)) + Width64
    BY <1>9
  <2> QED
    BY <1>3, <1>4, <2>1, <2>2
<1> QED
    BY <1>16, <1>17 DEF Reached, got, p, ue, e, off

\* R[k] is what has been read after k entries of the n behind off.
Reads(R, p, off, n) ==
    /\ R[0] = Reached(off, <<>>)
    /\ \A k \in 1..n : R[k] = IF R[k - 1] = Bad THEN Bad ELSE ParseEntry(p, R[k - 1])

Listed(p, rs) ==
    [type |-> "ResourceList", request_id |-> Number(p, 0, Width32), resources |-> rs]

\* parse_resource_list reads entry after entry.
LEMMA ListReads ==
    ASSUME NEW p \in Seq(Byte), Fits(p, 0, 2 * Width32)
    PROVE  LET head == 2 * Width32
               count == Number(p, Width32, Width32)
           IN  /\ count \in Ids /\ U32(count) = At(p, Width32, Width32)
               /\ \E R \in [0..count -> Got(p) \cup {Bad}] :
                     /\ Reads(R, p, head, count)
                     /\ ParseList(p) = IF ~CountFits(p, head, count) \/ R[count] = Bad THEN Bad
                                       ELSE Listed(p, R[count].resources)
<1> DEFINE head == 2 * Width32
           count == Number(p, Width32, Width32)
           S == Got(p) \cup {Bad}
           start == [type |-> "Entries", off |-> head, resources |-> <<>>]
           step == [k \in 1..count |-> [g \in S |-> IF g = Bad THEN Bad ELSE ParseEntry(p, g)]]
           read[k \in 0..count] ==
             IF k = 0 THEN start
             ELSE IF read[k - 1] = Bad THEN Bad
             ELSE ParseEntry(p, read[k - 1])
<1>1. Width32 \in Nat /\ Len(p) \in Nat /\ head \in 0..Len(p) /\ Width32 + Width32 <= Len(p)
    BY WidthsAssumption, LenProperties DEF Fits
<1>2. count \in Nat /\ count \in Ids /\ U32(count) = At(p, Width32, Width32)
    BY <1>1, NumberIs DEF Ids, U32
<1>3. start \in S /\ start = Reached(head, <<>>)
    BY <1>1, EmptySeq DEF Got, Reached
<1>4. ASSUME NEW g \in S PROVE (IF g = Bad THEN Bad ELSE ParseEntry(p, g)) \in S
  <2>1. CASE g = Bad
    BY <2>1
  <2>2. CASE g # Bad
    <3>1. g \in Got(p)
      BY <2>2
    <3>2. ParseEntry(p, g) = Bad \/ ParseEntry(p, g) \in Got(p)
      BY <3>1, EntryRead
    <3> QED
      BY <2>2, <3>2
  <2> QED
    BY <2>1, <2>2
<1> HIDE DEF head, count, S, start, read
<1>5. step \in [1..count -> [S -> S]]
    BY <1>4
<1>6. \A k \in 1..count : \A g \in S : step[k][g] = IF g = Bad THEN Bad ELSE ParseEntry(p, g)
    OBVIOUS
<1> HIDE DEF step
<1>7. PICK f \in [0..count -> S] : f[0] = start /\ \A k \in 1..count : f[k] = step[k][f[k - 1]]
  <2>1. \E f \in [0..count -> S] : Runs(f, start, step, count)
    BY <1>2, <1>3, <1>5, Recursion
  <2> QED
    BY <2>1 DEF Runs
<1>8. ASSUME NEW k \in 0..count
      PROVE f[k] = (IF k = 0 THEN start
                    ELSE IF f[k - 1] = Bad THEN Bad
                    ELSE ParseEntry(p, f[k - 1]))
  <2>1. CASE k # 0
    <3>1. k \in 1..count /\ k - 1 \in 0..count
      BY <1>2, <2>1
    <3>2. f[k - 1] \in S /\ f[k] = step[k][f[k - 1]]
      BY <1>7, <3>1
    <3> QED
      BY <1>6, <2>1, <3>1, <3>2
  <2> QED
    BY <1>7, <2>1
<1>9. f = [k \in 0..count |-> IF k = 0 THEN start
                              ELSE IF f[k - 1] = Bad THEN Bad
                              ELSE ParseEntry(p, f[k - 1])]
    BY <1>8
<1>10. read = [k \in 0..count |-> IF k = 0 THEN start
                                  ELSE IF read[k - 1] = Bad THEN Bad
                                  ELSE ParseEntry(p, read[k - 1])]
    BY <1>9 DEF read
<1>11. ASSUME NEW k \in 0..count
       PROVE read[k] = (IF k = 0 THEN start
                        ELSE IF read[k - 1] = Bad THEN Bad
                        ELSE ParseEntry(p, read[k - 1]))
    BY <1>10
<1>12. read[0] = start /\ \A k \in 1..count : read[k] = IF read[k - 1] = Bad THEN Bad
                                                       ELSE ParseEntry(p, read[k - 1])
  <2>1. read[0] = start
    BY <1>2, <1>11
  <2>2. ASSUME NEW k \in 1..count
        PROVE read[k] = IF read[k - 1] = Bad THEN Bad ELSE ParseEntry(p, read[k - 1])
    <3>1. k \in 0..count /\ k # 0
      BY <1>2
    <3> QED
      BY <1>11, <3>1
  <2> QED
    BY <2>1, <2>2
<1> DEFINE T == {k \in 0..count : read[k] \in S}
<1>13. \A k \in 0..count : k \in T
  <2>1. 0 \in T
    BY <1>2, <1>3, <1>12
  <2>2. ASSUME NEW k \in 0..(count - 1), k \in T PROVE k + 1 \in T
    <3>1. k + 1 \in 1..count /\ (k + 1) - 1 = k /\ k + 1 \in 0..count
      BY <1>2
    <3>2. read[k + 1] = IF read[k] = Bad THEN Bad ELSE ParseEntry(p, read[k])
      BY <1>12, <3>1
    <3>3. read[k + 1] \in S
      BY <1>4, <2>2, <3>2
    <3> QED
      BY <3>1, <3>3
  <2> HIDE DEF T
  <2> QED
    BY <1>2, <2>1, <2>2, UpTo
<1>14. read \in [0..count -> S]
    BY <1>10, <1>13
<1>15. Reads(read, p, head, count)
    BY <1>3, <1>12 DEF Reads
<1>16. ParseList(p) = IF ~CountFits(p, head, count) \/ read[count] = Bad THEN Bad
                      ELSE Listed(p, read[count].resources)
    BY DEF ParseList, read, start, head, count, Listed
<1> QED
    BY <1>2, <1>14, <1>15, <1>16 DEF head, count, S

\* A list that is read is a message; its payload is what was read, and what is
\* behind it was ignored.
LEMMA ListIsWritten ==
    ASSUME NEW p \in Seq(Byte), ParseList(p) # Bad
    PROVE  /\ ParseList(p) \in OfType("ResourceList")
           /\ \E t \in Seq(Byte) : p = Payload(ParseList(p)) \o t
<1> DEFINE head == 2 * Width32
           count == Number(p, Width32, Width32)
           n == Number(p, 0, Width32)
           m == ParseList(p)
<1>1. Fits(p, 0, head)
    BY DEF ParseList
<1>2. count \in Ids /\ U32(count) = At(p, Width32, Width32)
    BY <1>1, ListReads
<1>3. PICK R \in [0..count -> Got(p) \cup {Bad}] :
          /\ Reads(R, p, head, count)
          /\ m = IF ~CountFits(p, head, count) \/ R[count] = Bad THEN Bad
                 ELSE Listed(p, R[count].resources)
    BY <1>1, ListReads
<1>4. Width32 \in Nat /\ Len(p) \in Nat /\ head \in Nat /\ head <= Len(p) /\ 0 \in Nat
      /\ count \in Nat /\ Width32 <= Len(p)
    BY <1>1, <1>2, WidthsAssumption, LenProperties DEF Fits, Ids
<1>5. n \in Ids /\ U32(n) = At(p, 0, Width32)
    BY <1>4, IdRead
<1>6. U32(n) \o U32(count) = At(p, 0, head)
  <2>1. At(p, 0, Width32) \o At(p, 0 + Width32, Width32) = At(p, 0, Width32 + Width32)
    <3>1. 0 \in Nat /\ Width32 \in Nat /\ 0 + Width32 + Width32 <= Len(p)
      BY <1>4
    <3> QED
      BY <3>1, AtTwo
  <2>2. 0 + Width32 = Width32 /\ Width32 + Width32 = head
    BY <1>4
  <2> HIDE DEF head, n, count
  <2> QED
    BY <1>2, <1>5, <2>1, <2>2
<1> HIDE DEF head, count, n, m
<1> DEFINE Right(g, k) ==
             /\ g \in Got(p) /\ Len(g.resources) = k /\ head <= g.off
             /\ Entries(g.resources) = At(p, head, g.off - head)
           T == {k \in 0..count : R[k] # Bad => Right(R[k], k)}
<1>7. \A k \in 0..count : k \in T
  <2>1. 0 \in T
    <3> DEFINE g == Reached(head, <<>>)
    <3>1. g \in Got(p) /\ g.resources = <<>> /\ g.off = head /\ Len(<<>>) = 0
      BY <1>4, EmptySeq DEF Reached, Got
    <3>2. At(p, head, g.off - head) = <<>>
      <4>1. g.off - head = 0
        BY <1>4, <3>1
      <4>2. At(p, head, 0) = <<>>
        BY <1>4, SubSeqEmpty DEF At
      <4> QED
        BY <4>1, <4>2
    <3>3. Right(g, 0)
      BY <1>4, <3>1, <3>2, EntriesEmpty
    <3>4. R[0] = g
      BY <1>3 DEF Reads
    <3> QED
      BY <1>4, <3>3, <3>4
  <2>2. ASSUME NEW k \in 0..(count - 1), k \in T PROVE k + 1 \in T
    <3>1. k + 1 \in 1..count /\ k + 1 \in 0..count /\ (k + 1) - 1 = k
      BY <1>4
    <3> SUFFICES ASSUME R[k + 1] # Bad PROVE Right(R[k + 1], k + 1)
      BY <3>1
    <3>2. R[k + 1] = IF R[k] = Bad THEN Bad ELSE ParseEntry(p, R[k])
      BY <1>3, <3>1 DEF Reads
    <3> DEFINE g == R[k]
    <3>3. g # Bad /\ ParseEntry(p, g) # Bad /\ Right(g, k)
      BY <2>2, <3>2
    <3>4. PICK r \in Infos :
             /\ ParseEntry(p, g) = Reached(g.off + Len(Entry(r)), Append(g.resources, r))
             /\ ParseEntry(p, g) \in Got(p)
             /\ Entry(r) = At(p, g.off, Len(Entry(r)))
      BY <3>3, EntryRead
    <3> HIDE DEF g
    <3> DEFINE h == R[k + 1]
               l == Len(Entry(r))
               rs == g.resources
               off == g.off
    <3>5. h \in Got(p) /\ h.off = off + l /\ h.resources = Append(rs, r)
      BY <3>2, <3>3, <3>4 DEF Reached, g
    <3>6. /\ rs \in Seq(Infos) /\ off \in Nat /\ off <= Len(p) /\ Len(rs) = k /\ head <= off
          /\ Entries(rs) = At(p, head, off - head) /\ l \in Nat
      BY <1>4, <3>3, EntryIs, LenProperties DEF Got
    <3>7. h.off <= Len(p)
      BY <1>4, <3>5 DEF Got
    <3> HIDE DEF h, l, rs, off
    <3>8. Len(Append(rs, r)) = k + 1
      BY <3>6, AppendProperties
    <3>9. Entries(Append(rs, r)) = At(p, head, h.off - head)
      <4>1. Entries(Append(rs, r)) = Entries(rs) \o Entry(r)
        BY <3>6, EntriesAppend
      <4>2. Entry(r) = At(p, off, l)
        BY <3>4 DEF off, l
      <4> DEFINE a == off - head
      <4>3. a \in Nat /\ head + a = off /\ a + l = h.off - head /\ head + a + l <= Len(p)
        BY <1>4, <3>5, <3>6, <3>7
      <4>4. At(p, head, a) \o At(p, head + a, l) = At(p, head, a + l)
        <5>1. a \in Nat /\ head \in Nat /\ l \in Nat /\ head + a + l <= Len(p)
          BY <1>4, <3>6, <4>3
        <5> HIDE DEF a
        <5> QED
          BY <5>1, AtTwo
      <4>5. Entries(rs) = At(p, head, a)
        BY <3>6
      <4> HIDE DEF a
      <4> QED
        BY <4>1, <4>2, <4>3, <4>4, <4>5
    <3>10. head <= h.off
      BY <1>4, <3>5, <3>6
    <3>11. Right(h, k + 1)
      BY <3>5, <3>8, <3>9, <3>10
    <3> QED
      BY <3>11 DEF h
  <2> HIDE DEF T
  <2> QED
    BY <1>4, <2>1, <2>2, UpTo
<1> DEFINE g == R[count]
           rs == g.resources
<1>8. g # Bad /\ m = Listed(p, rs)
    BY <1>3 DEF m
<1>9. Right(g, count)
    BY <1>4, <1>7, <1>8
<1> HIDE DEF g
<1>10. rs \in Seq(Infos) /\ g.off \in Nat /\ g.off <= Len(p) /\ g.off \in 0..Len(p)
    BY <1>4, <1>9 DEF Got
<1>11. /\ m \in OfType("ResourceList") /\ m.type = "ResourceList" /\ m.request_id = n
       /\ m.resources = rs
  <2>1. FitsIn(Len(rs), Width32)
    BY <1>2, <1>9 DEF Ids
  <2> QED
    BY <1>5, <1>8, <1>10, <2>1 DEF Listed, OfType, Message, n
<1>12. Payload(m) = (U32(n) \o U32(count)) \o Entries(rs)
    BY <1>9, <1>11 DEF Payload
<1>13. Payload(m) = At(p, 0, g.off)
  <2> DEFINE a == g.off - head
             b == g.off
  <2>1. a \in Nat /\ 0 + head + a <= Len(p) /\ 0 + head = head /\ head + a = b
    BY <1>4, <1>9, <1>10
  <2>2. At(p, 0, head) \o At(p, 0 + head, a) = At(p, 0, head + a)
    <3>1. 0 \in Nat /\ head \in Nat /\ a \in Nat /\ 0 + head + a <= Len(p)
      BY <1>4, <2>1
    <3> HIDE DEF a
    <3> QED
      BY <3>1, AtTwo
  <2>3. Entries(rs) = At(p, head, a)
    BY <1>9
  <2> HIDE DEF a, rs
  <2> QED
    BY <1>6, <1>12, <2>1, <2>2, <2>3
<1>14. p = At(p, 0, g.off) \o Rest(p, g.off) /\ Rest(p, g.off) \in Seq(Byte)
  <2> DEFINE b == g.off
  <2>1. At(p, 0, b) = SubSeq(p, 1, b)
    BY <1>10 DEF At
  <2>2. b \in 0..Len(p)
    BY <1>10
  <2> HIDE DEF b
  <2>3. SubSeq(p, 1, b) \o Rest(p, b) = p /\ Rest(p, b) \in Seq(Byte)
    BY <2>2, SplitIs, RestIs
  <2> QED
    BY <2>1, <2>3 DEF b
<1> QED
    BY <1>11, <1>13, <1>14 DEF m

\* The first k of some entries, with the next one.
LEMMA NextTaken ==
    ASSUME NEW S, NEW rs \in Seq(S), NEW k \in Nat, k + 1 <= Len(rs)
    PROVE  LET a == SubSeq(rs, 1, k)
               b == SubSeq(rs, 1, k + 1)
           IN  /\ a \in Seq(S) /\ Len(a) = k /\ b = Append(a, rs[k + 1]) /\ rs[k + 1] \in S
<1> DEFINE a == At(rs, 0, k)
           b == At(rs, 0, k + 1)
           r == rs[k + 1]
           c == Append(a, r)
<1>1. /\ Len(rs) \in Nat /\ 0 \in Nat /\ k + 1 \in Nat /\ 0 + k <= Len(rs) /\ 0 + (k + 1) <= Len(rs)
      /\ r \in S
    BY LenProperties
<1>2. /\ a \in Seq(S) /\ Len(a) = k /\ \A i \in 1..k : a[i] = rs[0 + i]
    BY <1>1, AtIs
<1>3. /\ b \in Seq(S) /\ Len(b) = k + 1 /\ \A i \in 1..(k + 1) : b[i] = rs[0 + i]
  <2> DEFINE j == k + 1
  <2>1. j \in Nat /\ 0 + j <= Len(rs)
    BY <1>1
  <2> HIDE DEF j
  <2>2. At(rs, 0, j) \in Seq(S) /\ Len(At(rs, 0, j)) = j /\ \A i \in 1..j : At(rs, 0, j)[i] = rs[0 + i]
    BY <1>1, <2>1, AtIs
  <2> QED
    BY <2>2 DEF j
<1>4. SubSeq(rs, 1, k) = a /\ SubSeq(rs, 1, k + 1) = b
    BY <1>1 DEF At
<1> HIDE DEF a, b
<1>5. c \in Seq(S) /\ Len(c) = k + 1 /\ c[k + 1] = r /\ \A i \in 1..k : c[i] = a[i]
    BY <1>1, <1>2, AppendProperties
<1> HIDE DEF c
<1>6. \A i \in 1..Len(c) : c[i] = b[i]
  <2> TAKE i \in 1..Len(c)
  <2>1. i \in 1..(k + 1) /\ 0 + i = i
    BY <1>5
  <2>2. CASE i = k + 1
    BY <1>3, <1>5, <2>1, <2>2
  <2>3. CASE i # k + 1
    <3>1. i \in 1..k
      BY <2>1, <2>3
    <3> QED
      BY <1>2, <1>3, <1>5, <2>1, <3>1
  <2> QED
    BY <2>2, <2>3
<1>7. c = b
    BY <1>3, <1>5, <1>6, SeqEqual
<1> QED
    BY <1>1, <1>2, <1>4, <1>7 DEF c

\* Whatever is behind the first k entries.
Begins(rs, k, b) == \E t \in Seq(Byte) : b = Entries(SubSeq(rs, 1, k)) \o t

\* The entries begin with the first k of them.
LEMMA EntriesBegin ==
    ASSUME NEW rs \in Seq(Infos)
    PROVE  \A k \in 0..Len(rs) : Begins(rs, k, Entries(rs))
<1> DEFINE N == Len(rs)
           b == Entries(rs)
           T == {j \in 0..N : Begins(rs, N - j, b)}
<1>1. N \in Nat
    BY LenProperties
<1>2. 0 \in T
  <2>1. SubSeq(rs, 1, N) = rs
    <3>1. At(rs, 0, Len(rs)) = rs
      BY AtAll
    <3> QED
      BY <1>1, <3>1 DEF At
  <2>2. b \o <<>> = b /\ <<>> \in Seq(Byte)
    <3>1. b \in Seq(Byte)
      <4>1. PICK E \in [0..N -> Seq(Byte)] : b = E[N]
        BY EntriesAre
      <4> QED
        BY <1>1, <4>1
    <3> HIDE DEF b
    <3> QED
      BY <3>1, ConcatEmptySeq, EmptySeq
  <2>3. N - 0 = N /\ 0 \in 0..N
    BY <1>1
  <2>4. Begins(rs, N, b)
    BY <2>1, <2>2 DEF Begins
  <2> QED
    BY <2>3, <2>4
<1>3. ASSUME NEW j \in 0..(N - 1), j \in T PROVE j + 1 \in T
  <2> DEFINE k == N - (j + 1)
             s == SubSeq(rs, 1, k)
             r == rs[k + 1]
             e == Entry(r)
  <2>1. k \in Nat /\ k + 1 <= N /\ k + 1 = N - j /\ j + 1 \in 0..N
    BY <1>1
  <2>2. PICK t \in Seq(Byte) : b = Entries(SubSeq(rs, 1, k + 1)) \o t
    BY <1>3, <2>1 DEF Begins
  <2>3. s \in Seq(Infos) /\ SubSeq(rs, 1, k + 1) = Append(s, r) /\ r \in Infos
    <3> HIDE DEF k
    <3> QED
      BY <2>1, NextTaken
  <2> HIDE DEF r, s, k, b
  <2>4. Entries(Append(s, r)) = Entries(s) \o e /\ Entries(s) \in Seq(Byte) /\ e \in Seq(Byte)
    BY <2>3, EntriesAppend, EntryIs
  <2> HIDE DEF e
  <2>5. e \o t \in Seq(Byte) /\ (Entries(s) \o e) \o t = Entries(s) \o (e \o t)
    <3>1. e \o t \in Seq(Byte)
      BY <2>4, Joined
    <3>2. (Entries(s) \o e) \o t = Entries(s) \o (e \o t)
      BY <2>4, Reassociated, Zenon
    <3> QED
      BY <3>1, <3>2
  <2>6. b = Entries(s) \o (e \o t)
    BY <2>2, <2>3, <2>4, <2>5
  <2>7. Begins(rs, k, b)
    BY <2>5, <2>6 DEF Begins, s
  <2> QED
    BY <2>1, <2>7 DEF k
<1> HIDE DEF T
<1>4. \A j \in 0..N : j \in T
    BY <1>1, <1>2, <1>3, UpTo
<1>5. ASSUME NEW k \in 0..N PROVE Begins(rs, k, b)
  <2>1. N - k \in 0..N /\ N - (N - k) = k
    BY <1>1
  <2>2. N - k \in T
    BY <1>4, <2>1
  <2>3. Begins(rs, N - (N - k), b)
    BY <2>2 DEF T
  <2> QED
    BY <2>1, <2>3
<1> QED
    BY <1>5

\* The entries take as much as so many with empty names at least.
LEMMA EntriesSize ==
    ASSUME NEW rs \in Seq(Infos)
    PROVE  Entries(rs) \in Seq(Byte) /\ Len(rs) * EntrySize <= Len(Entries(rs))
<1> DEFINE N == Len(rs)
           size == EntrySize
<1>1. N \in Nat /\ size \in Nat /\ 0 \in Nat
    BY LenProperties, WidthsAssumption DEF EntrySize
<1>2. PICK E \in [0..N -> Seq(Byte)] : Grows(E, rs, N) /\ Entries(rs) = E[N]
    BY EntriesAre
<1> HIDE DEF N, size
<1> DEFINE T == {k \in 0..N : k * size <= Len(E[k])}
<1>3. \A k \in 0..N : k \in T
  <2>1. 0 \in T
    <3>1. E[0] = <<>> /\ Len(<<>>) = 0 /\ 0 * size = 0
      BY <1>1, <1>2 DEF Grows
    <3> QED
      BY <1>1, <3>1
  <2>2. ASSUME NEW k \in 0..(N - 1), k \in T PROVE k + 1 \in T
    <3> DEFINE e == Entry(rs[k + 1])
               a == E[k]
    <3>1. k + 1 \in 1..N /\ (k + 1) - 1 = k /\ k \in 0..N
      BY <1>1
    <3>2. rs[k + 1] \in Infos
      BY <3>1 DEF N
    <3>3. e \in Seq(Byte) /\ Len(e) = size + Len(rs[k + 1].name) /\ Len(rs[k + 1].name) \in Nat
      BY <3>2, EntryIs DEF size
    <3>4. a \in Seq(Byte) /\ E[k + 1] = a \o e
      BY <1>2, <3>1 DEF Grows
    <3>5. k * size <= Len(a) /\ Len(a) \in Nat
      BY <2>2, <3>4, LenProperties
    <3> HIDE DEF e, a
    <3>6. Len(a \o e) = Len(a) + Len(e)
      BY <3>3, <3>4, Joined
    <3>7. (k + 1) * size = k * size + size /\ k * size \in Nat
      BY <1>1
    <3>8. (k + 1) * size <= Len(E[k + 1])
      <4> DEFINE x == k * size
                 y == (k + 1) * size
      <4>1. y = x + size /\ x \in Nat /\ x <= Len(a)
        BY <3>5, <3>7
      <4> HIDE DEF x, y
      <4>2. Len(E[k + 1]) = Len(a) + Len(e) /\ size <= Len(e) /\ Len(e) \in Nat
        <5>1. Len(E[k + 1]) = Len(a) + Len(e)
          BY <3>4, <3>6
        <5> DEFINE l == Len(rs[k + 1].name)
        <5>2. Len(e) = size + l /\ l \in Nat
          BY <3>3
        <5> HIDE DEF l
        <5>3. size <= Len(e) /\ Len(e) \in Nat
          BY <1>1, <5>2
        <5> QED
          BY <5>1, <5>3
      <4>3. y <= Len(E[k + 1])
        BY <1>1, <3>5, <4>1, <4>2
      <4> QED
        BY <4>3 DEF y
    <3> QED
      BY <3>1, <3>8
  <2> HIDE DEF T
  <2> QED
    BY <1>1, <2>1, <2>2, UpTo
<1>4. N * size <= Len(E[N]) /\ E[N] \in Seq(Byte)
    BY <1>1, <1>3
<1> QED
    BY <1>2, <1>4 DEF N, size

\* As many entries as were written always fit.
LEMMA CountFitting ==
    ASSUME NEW n \in Nat, NEW a \in Nat, NEW b \in Nat \ {0}, n * b <= a
    PROVE  n <= a \div b
<1> DEFINE q == a \div b
           d == a % b
<1>1. q \in Nat /\ d \in 0..(b - 1) /\ q * b + d = a
    OBVIOUS
<1> HIDE DEF q, d
<1>2. ASSUME q < n PROVE FALSE
  <2>1. (q + 1) * b <= n * b
    BY <1>1, <1>2
  <2>2. (q + 1) * b = q * b + b
    BY <1>1
  <2> QED
    BY <1>1, <2>1, <2>2
<1> QED
    BY <1>1, <1>2 DEF q

\* A list.
LEMMA ListReturns ==
    ASSUME NEW m \in OfType("ResourceList")
    PROVE  Payload(m) \in Seq(Byte) /\ ParseList(Payload(m)) = m
<1>1. m \in [type : {"ResourceList"}, request_id : Ids,
             resources : {s \in Seq(Infos) : FitsIn(Len(s), Width32)}]
    BY DEF OfType, Message
<1> DEFINE rs == m.resources
           N == Len(rs)
           a == U32(m.request_id)
           b == U32(N)
           u == a \o b
           c == Entries(rs)
           p == u \o c
           head == 2 * Width32
<1>2. /\ rs \in Seq(Infos) /\ N \in Ids /\ N \in Nat /\ m.request_id \in Ids
      /\ m = [type |-> "ResourceList", request_id |-> m.request_id, resources |-> rs]
      /\ m.type = "ResourceList"
    BY <1>1, LenProperties DEF Ids
<1>3. Payload(m) = p
    BY <1>2 DEF Payload
<1> HIDE DEF rs
<1>0. N = Len(rs)
    OBVIOUS
<1> HIDE DEF N
<1>4. /\ a \in Seq(Byte) /\ Len(a) = Width32 /\ FromBytes(a) = m.request_id
      /\ b \in Seq(Byte) /\ Len(b) = Width32 /\ FromBytes(b) = N
    BY <1>2, IdWritten
<1>5. c \in Seq(Byte) /\ N * EntrySize <= Len(c)
    BY <1>2, EntriesSize DEF N
<1>6. /\ Width32 \in Nat /\ 0 \in Nat /\ head \in Nat /\ Width32 + Width32 = head
      /\ Len(c) \in Nat /\ EntrySize \in Nat \ {0}
    BY <1>5, WidthsAssumption, LenProperties DEF EntrySize
<1> HIDE DEF a, b, c, head
<1>7. u \in Seq(Byte) /\ Len(u) = head /\ At(u, 0, Width32) = a /\ At(u, Width32, Width32) = b
  <2>1. u \in Seq(Byte) /\ Len(u) = Len(a) + Len(b)
    BY <1>4, Joined
  <2>2. At(u, 0, Len(a)) = a /\ At(u, Len(a), Len(b)) = b
    BY <1>4, TwoParts
  <2> HIDE DEF u
  <2> QED
    BY <1>4, <1>6, <2>1, <2>2
<1> HIDE DEF u
<1>8. p \in Seq(Byte) /\ Len(p) = head + Len(c)
    BY <1>5, <1>7, Joined
<1>9. At(p, 0, Width32) = a /\ At(p, Width32, Width32) = b
  <2>1. 0 + Width32 <= Len(u) /\ Width32 + Width32 <= Len(u)
    BY <1>6, <1>7
  <2> QED
    BY <1>5, <1>6, <1>7, <2>1, AtFirst
<1>10. p = u \o c
    OBVIOUS
<1> HIDE DEF p
<1>11. Number(p, 0, Width32) = m.request_id /\ Number(p, Width32, Width32) = N
    BY <1>4, <1>9 DEF Number
<1>12. Fits(p, 0, head)
    BY <1>6, <1>8 DEF Fits
<1>13. PICK R : /\ Reads(R, p, head, N)
                /\ ParseList(p) = IF ~CountFits(p, head, N) \/ R[N] = Bad THEN Bad
                                  ELSE Listed(p, R[N].resources)
    BY <1>8, <1>11, <1>12, ListReads DEF head
<1> DEFINE Part(k) == SubSeq(rs, 1, k)
           Expected(k) == Reached(head + Len(Entries(Part(k))), Part(k))
           T == {k \in 0..N : R[k] = Expected(k)}
<1>14. \A k \in 0..N : k \in T
  <2>1. 0 \in T
    <3>1. Part(0) = <<>>
      BY <1>6, SubSeqEmpty
    <3>2. Entries(Part(0)) = <<>> /\ Len(<<>>) = 0
      BY <3>1, EntriesEmpty
    <3>3. head + Len(Entries(Part(0))) = head
      BY <1>6, <3>2
    <3>4. R[0] = Expected(0)
      BY <1>13, <3>1, <3>3 DEF Reads
    <3> QED
      BY <1>2, <3>4
  <2>2. ASSUME NEW k \in 0..(N - 1), k \in T PROVE k + 1 \in T
    <3> DEFINE s == Part(k)
               r == rs[k + 1]
               f == Entries(s)
               e == Entry(r)
               v == u \o f
    <3>1. k \in Nat /\ k + 1 <= N /\ k + 1 \in 1..N /\ k + 1 \in 0..N /\ (k + 1) - 1 = k
      BY <1>2
    <3>2. s \in Seq(Infos) /\ Part(k + 1) = Append(s, r) /\ r \in Infos
      BY <1>2, <1>0, <3>1, NextTaken
    <3>3. Begins(rs, k + 1, c)
      <4>1. k + 1 \in 0..Len(rs)
        BY <1>0, <3>1
      <4> QED
        BY <1>2, <4>1, EntriesBegin DEF c
    <3>4. PICK t \in Seq(Byte) : c = Entries(Part(k + 1)) \o t
      BY <3>3 DEF Begins
    <3> HIDE DEF s, r
    <3>5. Entries(Append(s, r)) = f \o e /\ f \in Seq(Byte) /\ e \in Seq(Byte)
      BY <3>2, EntriesAppend, EntryIs
    <3> HIDE DEF f, e
    <3>6. /\ v \in Seq(Byte) /\ Len(v) = head + Len(f)
          /\ f \o e \in Seq(Byte) /\ Len(f \o e) = Len(f) + Len(e)
      BY <1>7, <3>5, Joined
    <3>7. p = (v \o e) \o t
      <4>0. u \in Seq(Byte) /\ f \in Seq(Byte) /\ e \in Seq(Byte) /\ t \in Seq(Byte)
        BY <1>7, <3>5
      <4>1. u \o ((f \o e) \o t) = (u \o (f \o e)) \o t
        <5> DEFINE fe == f \o e
        <5>1. fe \in Seq(Byte)
          BY <3>6
        <5> HIDE DEF fe
        <5>2. (u \o fe) \o t = u \o (fe \o t)
          BY <4>0, <5>1, Reassociated, Zenon
        <5> QED
          BY <5>2 DEF fe
      <4>2. (u \o f) \o e = u \o (f \o e)
        BY <4>0, Reassociated, Zenon
      <4> QED
        BY <1>10, <3>2, <3>4, <3>5, <4>1, <4>2
    <3> HIDE DEF v
    <3>8. ParseEntry((v \o e) \o t, Reached(Len(v), s)) = Reached(Len(v) + Len(e), Append(s, r))
      <4>1. v \in Seq(Byte)
        BY <3>6
      <4> QED
        BY <3>2, <4>1, EntryReturns DEF e
    <3>9. R[k] = Reached(Len(v), s)
      BY <2>2, <3>6 DEF s, f
    <3>10. R[k] # Bad
      BY <3>9 DEF Reached, Bad
    <3>11. R[k + 1] = ParseEntry(p, R[k])
      BY <1>13, <3>1, <3>10 DEF Reads
    <3>12. R[k + 1] = Reached(Len(v) + Len(e), Append(s, r))
      BY <3>7, <3>8, <3>9, <3>11
    <3>13. Len(v) + Len(e) = head + Len(Entries(Part(k + 1)))
      <4>1. Len(f) \in Nat /\ Len(e) \in Nat
        BY <3>5, LenProperties
      <4>2. Len(Entries(Part(k + 1))) = Len(f) + Len(e)
        BY <3>2, <3>5, <3>6
      <4>3. Len(v) = head + Len(f)
        BY <3>6
      <4> DEFINE z == Len(Entries(Part(k + 1)))
      <4>4. z = Len(f) + Len(e)
        BY <4>2
      <4> HIDE DEF z
      <4>5. Len(v) + Len(e) = head + z
        BY <1>6, <4>1, <4>3, <4>4
      <4> QED
        BY <4>5 DEF z
    <3>14. R[k + 1] = Expected(k + 1)
      BY <3>2, <3>12, <3>13
    <3> QED
      BY <3>1, <3>14
  <2> HIDE DEF T
  <2> QED
    BY <1>2, <2>1, <2>2, UpTo
<1>15. R[N] # Bad /\ R[N].resources = rs
  <2>1. R[N] = Expected(N)
    BY <1>2, <1>14
  <2>2. Part(N) = rs
    <3>1. At(rs, 0, Len(rs)) = rs
      BY <1>2, AtAll
    <3> QED
      BY <1>2, <1>0, <3>1 DEF At
  <2> QED
    BY <2>1, <2>2 DEF Reached, Bad
<1>16. CountFits(p, head, N)
  <2>1. Len(p) - head = Len(c)
    BY <1>6, <1>8
  <2>2. N <= Len(c) \div EntrySize
    BY <1>2, <1>5, <1>6, CountFitting
  <2> QED
    BY <2>1, <2>2 DEF CountFits
<1> QED
    BY <1>2, <1>3, <1>8, <1>11, <1>13, <1>15, <1>16 DEF Listed

-----------------------------------------------------------------------------
(* The parser.                                                             *)

\* A message comes back from its frame.
LEMMA EveryMessageReturns ==
    ASSUME NEW m \in Message
    PROVE  FrameOf(m) \in Seq(Byte) \ {<<>>} /\ Returns(m)
<1> DEFINE p == Payload(m)
           t == MessageType[m.type]
           f == <<t>> \o p
<1>1. m \in OfType(m.type) /\ m.type \in DOMAIN MessageType
    BY DEF OfType, Message, MessageType
<1>2. t \in 1..7 /\ p \in Seq(Byte)
  <2>1. t \in 1..7
    BY <1>1 DEF MessageType
  <2>2. p \in Seq(Byte)
    BY <1>1, HelloReturns, ProofReturns, RequestReturns, ListReturns, IdAndKeyReturns,
       ChunkReturns DEF MessageType
  <2> QED
    BY <2>1, <2>2
<1>3. f \in Seq(Byte) \ {<<>>} /\ f[1] = t /\ Tail(f) = p
  <2> HIDE DEF p, t
  <2> QED
    BY <1>2, FrameParts
<1>4. FrameOf(m) = f
    BY DEF FrameOf
<1>5. TryFrom(f) = m
  <2> HIDE DEF f, p, t
  <2>1. CASE m.type = "Hello"
    <3>1. f[1] = 1 /\ ParseHello(p) = m
      BY <1>3, <1>1, <2>1, HelloReturns DEF MessageType, p, t
    <3>2. TryFrom(f) = ParseHello(Tail(f))
      BY <3>1 DEF TryFrom
    <3> QED
      BY <1>3, <3>1, <3>2
  <2>2. CASE m.type = "HelloProof"
    <3>1. f[1] = 2 /\ ParseProof(p) = m
      BY <1>3, <1>1, <2>2, ProofReturns DEF MessageType, p, t
    <3>2. TryFrom(f) = ParseProof(Tail(f))
      BY <3>1 DEF TryFrom
    <3> QED
      BY <1>3, <3>1, <3>2
  <2>3. CASE m.type = "ListResources"
    <3>1. f[1] = 3 /\ ParseListResources(p) = m
      BY <1>3, <1>1, <2>3, RequestReturns DEF MessageType, p, t
    <3>2. TryFrom(f) = ParseListResources(Tail(f))
      BY <3>1 DEF TryFrom
    <3> QED
      BY <1>3, <3>1, <3>2
  <2>4. CASE m.type = "ResourceList"
    <3>1. f[1] = 4 /\ ParseList(p) = m
      BY <1>3, <1>1, <2>4, ListReturns DEF MessageType, p, t
    <3>2. TryFrom(f) = ParseList(Tail(f))
      BY <3>1 DEF TryFrom
    <3> QED
      BY <1>3, <3>1, <3>2
  <2>5. CASE m.type = "DownloadResource"
    <3>1. f[1] = 5 /\ ParseIdAndKey("DownloadResource", p) = m
      BY <1>3, <1>1, <2>5, IdAndKeyReturns DEF MessageType, p, t
    <3>2. TryFrom(f) = ParseIdAndKey("DownloadResource", Tail(f))
      BY <3>1 DEF TryFrom
    <3> QED
      BY <1>3, <3>1, <3>2
  <2>6. CASE m.type = "ResourceChunk"
    <3>1. f[1] = 6 /\ ParseChunk(p) = m
      BY <1>3, <1>1, <2>6, ChunkReturns DEF MessageType, p, t
    <3>2. TryFrom(f) = ParseChunk(Tail(f))
      BY <3>1 DEF TryFrom
    <3> QED
      BY <1>3, <3>1, <3>2
  <2>7. CASE m.type = "ResourceEnd"
    <3>1. f[1] = 7 /\ ParseIdAndKey("ResourceEnd", p) = m
      BY <1>3, <1>1, <2>7, IdAndKeyReturns DEF MessageType, p, t
    <3>2. TryFrom(f) = ParseIdAndKey("ResourceEnd", Tail(f))
      BY <3>1 DEF TryFrom
    <3> QED
      BY <1>3, <3>1, <3>2
  <2> QED
    BY <1>1, <2>1, <2>2, <2>3, <2>4, <2>5, <2>6, <2>7 DEF MessageType
<1> QED
    BY <1>3, <1>4, <1>5 DEF Returns

\* What is read from a frame is a message, its frame is what was read, and only a
\* list may have something behind it.
LEMMA FrameRead ==
    ASSUME NEW frame \in Seq(Byte), frame # <<>>, TryFrom(frame) # Bad
    PROVE  LET m == TryFrom(frame) IN
           /\ m \in Message
           /\ \/ FrameOf(m) = frame
              \/ m.type = "ResourceList" /\ \E t \in Seq(Byte) : frame = FrameOf(m) \o t
<1> DEFINE b == frame[1]
           p == Tail(frame)
           m == TryFrom(frame)
<1>1. b \in Byte /\ p \in Seq(Byte) /\ <<b>> \o p = frame
    BY FrameOfParts
<1>2. b \in 1..7
    BY <1>1 DEF TryFrom
<1>3. ASSUME b # 4
      PROVE  m \in Message /\ MessageType[m.type] = b /\ Payload(m) = p
  <2> HIDE DEF b, p, m
  <2>1. CASE b = 1
    <3>1. m = ParseHello(p)
      BY <2>1 DEF TryFrom, m, b, p
    <3> QED
      BY <1>1, <2>1, <3>1, HelloIsWritten DEF OfType, MessageType, m
  <2>2. CASE b = 2
    <3>1. m = ParseProof(p)
      BY <2>2 DEF TryFrom, m, b, p
    <3> QED
      BY <1>1, <2>2, <3>1, ProofIsWritten DEF OfType, MessageType, m
  <2>3. CASE b = 3
    <3>1. m = ParseListResources(p)
      BY <2>3 DEF TryFrom, m, b, p
    <3> QED
      BY <1>1, <2>3, <3>1, RequestIsWritten DEF OfType, MessageType, m
  <2>5. CASE b = 5
    <3>1. m = ParseIdAndKey("DownloadResource", p)
      BY <2>5 DEF TryFrom, m, b, p
    <3> QED
      BY <1>1, <2>5, <3>1, IdAndKeyIsWritten DEF OfType, MessageType, m
  <2>6. CASE b = 6
    <3>1. m = ParseChunk(p)
      BY <2>6 DEF TryFrom, m, b, p
    <3> QED
      BY <1>1, <2>6, <3>1, ChunkIsWritten DEF OfType, MessageType, m
  <2>7. CASE b = 7
    <3>1. m = ParseIdAndKey("ResourceEnd", p)
      BY <2>7 DEF TryFrom, m, b, p
    <3> QED
      BY <1>1, <2>7, <3>1, IdAndKeyIsWritten DEF OfType, MessageType, m
  <2> QED
    BY <1>2, <1>3, <2>1, <2>2, <2>3, <2>5, <2>6, <2>7
<1>4. ASSUME b = 4
      PROVE  /\ m \in Message /\ m.type = "ResourceList" /\ MessageType[m.type] = b
             /\ \E t \in Seq(Byte) : frame = FrameOf(m) \o t
  <2>1. m = ParseList(p)
    BY <1>4 DEF TryFrom
  <2> HIDE DEF p, m
  <2>2. m \in OfType("ResourceList") /\ \E t \in Seq(Byte) : p = Payload(m) \o t
    BY <1>1, <2>1, ListIsWritten DEF m
  <2>3. m \in Message /\ m.type = "ResourceList"
    BY <2>2 DEF OfType
  <2>4. MessageType[m.type] = b
    BY <1>4, <2>3 DEF MessageType
  <2>5. PICK t \in Seq(Byte) : p = Payload(m) \o t
    BY <2>2
  <2> DEFINE h == <<b>>
             q == Payload(m)
  <2>6. h \in Seq(Byte) /\ q \in Seq(Byte)
    BY <1>1, <2>2, ListReturns
  <2> HIDE DEF h, q
  <2>7. (h \o q) \o t = h \o (q \o t)
    BY <2>6, ConcatAssociative
  <2>8. frame = FrameOf(m) \o t
    BY <1>1, <2>4, <2>5, <2>7 DEF FrameOf, h, q
  <2> QED
    BY <2>3, <2>4, <2>8
<1>5. ASSUME b # 4 PROVE FrameOf(m) = frame
  <2> HIDE DEF b, p, m
  <2> QED
    BY <1>1, <1>3, <1>5 DEF FrameOf
<1> QED
    BY <1>3, <1>4, <1>5

\* A frame of any peer is refused, or read as exactly what its bytes say.
LEMMA EveryFrameReadAsWritten ==
    ASSUME NEW frame \in Seq(Byte), frame # <<>>
    PROVE  ReadAsWritten(frame)
<1> DEFINE m == TryFrom(frame)
           f == FrameOf(m)
<1> SUFFICES ASSUME m # Bad, f # frame PROVE m.type = "ResourceList" /\ IsStrictPrefix(f, frame)
    BY DEF ReadAsWritten
<1>1. m \in Message /\ m.type = "ResourceList" /\ \E t \in Seq(Byte) : frame = f \o t
    BY FrameRead
<1> HIDE DEF m
<1>2. f \in Seq(Byte)
    BY <1>1, EveryMessageReturns
<1> HIDE DEF f
<1>3. PICK t \in Seq(Byte) : frame = f \o t
    BY <1>1
<1>4. Len(f) \in Nat /\ Len(t) \in Nat /\ Len(frame) = Len(f) + Len(t)
    BY <1>2, <1>3, Joined, LenProperties
<1>5. At(f \o t, 0, Len(f)) = f /\ At(f, 0, Len(f)) = f
    BY <1>2, TwoParts, AtAll
<1>6. SubSeq(f, 1, Len(f)) = SubSeq(frame, 1, Len(f))
  <2>1. At(frame, 0, Len(f)) = f /\ 0 + 1 = 1 /\ 0 + Len(f) = Len(f)
    BY <1>3, <1>4, <1>5
  <2> QED
    BY <1>5, <2>1 DEF At
<1>7. IsPrefix(f, frame)
    BY <1>4, <1>6 DEF IsPrefix
<1> QED
    BY <1>1, <1>7 DEF IsStrictPrefix

\* The parser is the inverse of the writer: every message there is comes back from
\* its frame, and every frame a peer may write is refused or is, but for what is
\* behind a list, the frame of the message read from it.
THEOREM ParserInverse ==
    /\ \A m \in Message : Returns(m)
    /\ \A f \in Seq(Byte) \ {<<>>} : ReadAsWritten(f) /\ TryFrom(f) \in Message \cup {Bad}
    BY EveryMessageReturns, EveryFrameReadAsWritten, FrameRead

\* An item is written as bytes; what the other end makes of them is the item if it is
\* of the session, and nothing it accepts if not.
LEMMA ItemIs ==
    ASSUME NEW m \in Items
    PROVE  /\ Written(m) \in Seq(Byte) /\ Len(Written(m)) \in Nat \ {0}
           /\ FitsIn(Len(Written(m)), Width32)
           /\ m \in Session => TryFrom(Written(m)) = m /\ Accepts(m)
           /\ m \notin Session => ~Accepts(TryFrom(Written(m)))
<1>1. FitsIn(Len(Written(m)), Width32)
    BY ItemsAssumption
<1>2. CASE m.type = "Foreign"
  <2>1. m \notin Message
    BY <1>2 DEF Message
  <2>2. m.frame \in Seq(Byte) \ {<<>>} /\ ~Accepts(TryFrom(m.frame))
    BY <2>1, ItemsAssumption
  <2>3. Written(m) = m.frame /\ m \notin Session
    BY <1>2 DEF Written, Session
  <2>4. Len(Written(m)) \in Nat \ {0}
    BY <2>2, <2>3, EmptySeq, LenProperties
  <2> QED
    BY <1>1, <2>2, <2>3, <2>4
<1>3. CASE m.type # "Foreign"
  <2>1. m \in Message
    BY <1>3, ItemsAssumption
  <2>2. Written(m) \in Seq(Byte) \ {<<>>} /\ TryFrom(Written(m)) = m
    BY <1>3, <2>1, EveryMessageReturns DEF Written, Returns
  <2>3. Len(Written(m)) \in Nat \ {0}
    BY <2>2, EmptySeq, LenProperties
  <2>4. Accepts(m) <=> m \in Session
    <3>1. m # Bad
      BY <2>1 DEF Message, Bad
    <3> QED
      BY <1>3, <3>1 DEF Accepts, Session
  <2> QED
    BY <1>1, <2>2, <2>3, <2>4
<1> QED
    BY <1>2, <1>3

\* The prefix has its width, and is read as the length.
LEMMA PrefixIs ==
    ASSUME NEW n \in Nat
    PROVE  /\ U32(n) \in Seq(Byte) /\ Len(U32(n)) = Width32
           /\ FitsIn(n, Width32) => FromBytes(U32(n)) = n
<1>1. Width32 \in Nat
    BY WidthsAssumption
<1> QED
    BY <1>1, ToBytesIs, NumberReturns DEF U32

-----------------------------------------------------------------------------
(* The frames in a stream.                                                 *)

Packed(m) == U32(Len(Written(m))) \o Written(m)

\* A frame, and a frame whose prefix was read, with what follows.
Framed(m, rest) == Packed(m) \o rest
Unprefixed(m, rest) == Written(m) \o rest

\* after[k] is the stream from the k-th of the frames of s on; to is the last one.
Afters(after, s, from, to) ==
    /\ after \in [Nat -> Seq(Byte)]
    /\ after[to + 1] = <<>>
    /\ \A k \in from..to : after[k] = Framed(s[k], after[k + 1])

\* b holds the frames of s between two of them, of the first one the prefix may
\* be read.
IsStream(b, s, from, to, inside) ==
    \E after : /\ Afters(after, s, from, to)
              /\ b = IF inside THEN Unprefixed(s[from], after[from + 1]) ELSE after[from]

\* A frame is made of bytes and is as long as its prefix says.
LEMMA PackedIs ==
    ASSUME NEW m \in Items
    PROVE  /\ Written(m) \in Seq(Byte) /\ Len(Written(m)) \in Nat \ {0}
           /\ U32(Len(Written(m))) \in Seq(Byte) /\ Len(U32(Len(Written(m)))) = Width32
           /\ Packed(m) \in Seq(Byte) /\ Len(Packed(m)) = Width32 + Len(Written(m))
<1>1. Written(m) \in Seq(Byte) /\ Len(Written(m)) \in Nat \ {0}
    BY ItemIs
<1>2. U32(Len(Written(m))) \in Seq(Byte) /\ Len(U32(Len(Written(m)))) = Width32
    BY <1>1, PrefixIs
<1> QED
    BY <1>1, <1>2, Joined DEF Packed

\* What the stream is from each of its frames on.
LEMMA AftersAre ==
    ASSUME NEW s, NEW from \in Nat, NEW to \in Nat, NEW after, Afters(after, s, from, to)
    PROVE  /\ \A k \in Nat : after[k] \in Seq(Byte)
           /\ after[to + 1] = <<>>
           /\ \A k \in Nat : from <= k /\ k <= to => after[k] = Framed(s[k], after[k + 1])
<1>1. (\A k \in Nat : after[k] \in Seq(Byte)) /\ after[to + 1] = <<>>
    BY DEF Afters
<1>2. ASSUME NEW k \in Nat, from <= k, k <= to
      PROVE  after[k] = Framed(s[k], after[k + 1])
  <2>1. k \in from..to
    BY <1>2
  <2> QED
    BY <2>1 DEF Afters
<1> QED
    BY <1>1, <1>2

\* A stream grows by a frame at its end.
LEMMA StreamGrows ==
    ASSUME NEW s \in Seq(Items), NEW from \in Nat \ {0}, NEW to \in Nat, NEW inside \in BOOLEAN,
           NEW b, to < Len(s), from <= to + 1, inside => from <= to,
           IsStream(b, s, from, to, inside)
    PROVE  IsStream(b \o Packed(s[to + 1]), s, from, to + 1, inside)
<1> DEFINE p == Packed(s[to + 1])
<1>1. p \in Seq(Byte)
  <2>1. s[to + 1] \in Items
    BY LenProperties
  <2> QED
    BY <2>1, PackedIs
<1>2. PICK after : /\ Afters(after, s, from, to)
                  /\ b = IF inside THEN Unprefixed(s[from], after[from + 1]) ELSE after[from]
    BY DEF IsStream
<1> DEFINE more == [k \in Nat |-> IF k <= to + 1 THEN after[k] \o p ELSE <<>>]
<1>3. /\ \A k \in Nat : after[k] \in Seq(Byte)
      /\ after[to + 1] = <<>>
      /\ \A k \in Nat : from <= k /\ k <= to => after[k] = Framed(s[k], after[k + 1])
  <2>1. Afters(after, s, from, to) /\ from \in Nat
    BY <1>2
  <2> QED
    BY <2>1, AftersAre
<1>4. \A k \in Nat : after[k] \o p \in Seq(Byte)
    BY <1>1, <1>3, Joined
<1>5. more \in [Nat -> Seq(Byte)]
    BY <1>4, EmptySeq
<1>6. more[(to + 1) + 1] = <<>>
    OBVIOUS
<1>7. ASSUME NEW k \in from..(to + 1) PROVE more[k] = Framed(s[k], more[k + 1])
  <2> HIDE DEF p
  <2>1. k \in Nat /\ k + 1 \in Nat
    OBVIOUS
  <2>2. CASE k <= to
    <3>1. after[k] = Framed(s[k], after[k + 1]) /\ k + 1 <= to + 1
      BY <1>3, <2>1, <2>2
    <3>2. s[k] \in Items
      BY <2>1, <2>2, LenProperties
    <3>3. Packed(s[k]) \in Seq(Byte) /\ after[k + 1] \in Seq(Byte)
      BY <1>3, <2>1, <3>2, PackedIs
    <3>4. (Packed(s[k]) \o after[k + 1]) \o p = Packed(s[k]) \o (after[k + 1] \o p)
      BY <1>1, <3>3, Reassociated, Zenon
    <3>6. Framed(s[k], after[k + 1]) \o p = Framed(s[k], after[k + 1] \o p)
      BY <3>4 DEF Framed
    <3>5. more[k] = after[k] \o p /\ more[k + 1] = after[k + 1] \o p
      BY <2>1, <2>2
    <3> HIDE DEF more
    <3> QED
      BY <3>1, <3>5, <3>6
  <2>3. CASE k = to + 1
    <3>1. more[k] = after[to + 1] \o p /\ more[k + 1] = <<>>
      BY <2>1, <2>3
    <3>2. <<>> \o p = p /\ p \o <<>> = p
      BY <1>1, ConcatEmptySeq
    <3>3. Framed(s[k], <<>>) = p
      BY <2>3, <3>2 DEF Framed, p
    <3> HIDE DEF more
    <3> QED
      BY <1>3, <3>1, <3>2, <3>3
  <2> QED
    BY <2>2, <2>3
<1>8. Afters(more, s, from, to + 1)
  <2> HIDE DEF more
  <2> QED
    BY <1>5, <1>6, <1>7 DEF Afters
<1>9. b \o p = IF inside THEN Unprefixed(s[from], more[from + 1]) ELSE more[from]
  <2> HIDE DEF p
  <2>1. CASE inside
    <3>1. more[from + 1] = after[from + 1] \o p
      BY <2>1
    <3>2. s[from] \in Items
      BY <2>1, LenProperties
    <3>3. Written(s[from]) \in Seq(Byte) /\ after[from + 1] \in Seq(Byte)
      <4>1. from + 1 \in Nat
        OBVIOUS
      <4> QED
        BY <1>3, <3>2, <4>1, PackedIs, Zenon
    <3>4. (Written(s[from]) \o after[from + 1]) \o p = Written(s[from]) \o (after[from + 1] \o p)
      BY <1>1, <3>3, Reassociated, Zenon
    <3> HIDE DEF more
    <3> QED
      BY <1>2, <2>1, <3>1, <3>4 DEF Unprefixed
  <2>2. CASE ~inside
    BY <1>2, <2>2
  <2> QED
    BY <2>1, <2>2
<1> HIDE DEF more
<1> QED
    BY <1>8, <1>9 DEF IsStream

\* Handing over another message leaves the stream as it is.
LEMMA StreamKept ==
    ASSUME NEW s \in Seq(Items), NEW m \in Items, NEW from \in Nat \ {0}, NEW to \in Nat,
           NEW inside \in BOOLEAN, NEW b, to <= Len(s), inside => from <= to,
           IsStream(b, s, from, to, inside)
    PROVE  IsStream(b, Append(s, m), from, to, inside)
<1>1. \A k \in from..to : Append(s, m)[k] = s[k]
    BY AppendProperties
<1>2. PICK after : /\ Afters(after, s, from, to)
                  /\ b = IF inside THEN Unprefixed(s[from], after[from + 1]) ELSE after[from]
    BY DEF IsStream
<1>3. Afters(after, Append(s, m), from, to)
    BY <1>1, <1>2 DEF Afters
<1>4. inside => Append(s, m)[from] = s[from]
    BY <1>1
<1> QED
    BY <1>2, <1>3, <1>4 DEF IsStream

\* Before a prefix, the stream is empty or starts with the next frame's.
LEMMA StreamStarts ==
    ASSUME NEW s \in Seq(Items), NEW from \in Nat \ {0}, NEW to \in Nat, NEW b,
           to <= Len(s), from <= to + 1, IsStream(b, s, from, to, FALSE)
    PROVE  /\ b \in Seq(Byte)
           /\ from = to + 1 => b = <<>>
           /\ from <= to => \E c \in Seq(Byte) :
                 /\ b = U32(Len(Written(s[from]))) \o c
                 /\ IsStream(c, s, from, to, TRUE)
<1>1. PICK after : Afters(after, s, from, to) /\ b = after[from]
    BY DEF IsStream
<1>2. (\A k \in Nat : after[k] \in Seq(Byte)) /\ after[to + 1] = <<>>
    BY <1>1 DEF Afters
<1>3. b \in Seq(Byte) /\ (from = to + 1 => b = <<>>) /\ after[from + 1] \in Seq(Byte)
  <2>1. after[from] \in Seq(Byte) /\ after[from + 1] \in Seq(Byte)
    BY <1>2
  <2> QED
    BY <1>1, <1>2, <2>1
<1>4. ASSUME from <= to
      PROVE  \E c \in Seq(Byte) : /\ b = U32(Len(Written(s[from]))) \o c
                                  /\ IsStream(c, s, from, to, TRUE)
  <2> DEFINE w == Written(s[from])
             c == w \o after[from + 1]
  <2>1. s[from] \in Items
    BY <1>4, LenProperties
  <2>2. w \in Seq(Byte) /\ U32(Len(w)) \in Seq(Byte)
    BY <2>1, PackedIs
  <2>3. b = (U32(Len(w)) \o w) \o after[from + 1]
    <3>1. after[from] = Framed(s[from], after[from + 1])
      <4>1. from \in from..to
        BY <1>4
      <4> QED
        BY <1>1, <4>1 DEF Afters
    <3> QED
      BY <1>1, <3>1 DEF Framed, Packed
  <2>4. b = U32(Len(w)) \o c /\ c \in Seq(Byte)
    <3> HIDE DEF w
    <3>1. (U32(Len(w)) \o w) \o after[from + 1] = U32(Len(w)) \o (w \o after[from + 1])
      BY <1>3, <2>2, Reassociated, Zenon
    <3>2. w \o after[from + 1] \in Seq(Byte)
      BY <1>3, <2>2, Joined
    <3> QED
      BY <2>3, <3>1, <3>2
  <2>5. IsStream(c, s, from, to, TRUE)
    <3>1. c = Unprefixed(s[from], after[from + 1])
      BY DEF Unprefixed
    <3> HIDE DEF c
    <3> QED
      BY <1>1, <3>1 DEF IsStream
  <2> QED
    BY <2>4, <2>5
<1> QED
    BY <1>3, <1>4

\* With no frame left, the stream is empty.
LEMMA StreamEnds ==
    ASSUME NEW s \in Seq(Items), NEW to \in Nat, NEW b, IsStream(b, s, to + 1, to, FALSE)
    PROVE  b = <<>>
    BY DEF IsStream, Afters

\* After a prefix, it starts with the rest of the frame.
LEMMA StreamGoesOn ==
    ASSUME NEW s \in Seq(Items), NEW from \in Nat \ {0}, NEW to \in Nat, NEW b,
           to <= Len(s), from <= to, IsStream(b, s, from, to, TRUE)
    PROVE  \E c \in Seq(Byte) :
              b = Written(s[from]) \o c /\ IsStream(c, s, from + 1, to, FALSE)
<1>1. PICK after : Afters(after, s, from, to) /\ b = Unprefixed(s[from], after[from + 1])
    BY DEF IsStream
<1>2. Afters(after, s, from + 1, to) /\ after[from + 1] \in Seq(Byte)
  <2>1. (from + 1)..to \subseteq from..to /\ from + 1 \in Nat
    OBVIOUS
  <2> QED
    BY <1>1, <2>1 DEF Afters
<1>3. IsStream(after[from + 1], s, from + 1, to, FALSE)
    BY <1>2 DEF IsStream
<1> QED
    BY <1>1, <1>2, <1>3 DEF Unprefixed

-----------------------------------------------------------------------------
(* The invariant.                                                          *)

\* Bytes taken from the queue and not written; those on their way.
Pending == IF iov = <<>> THEN <<>> ELSE Bytes(iov)
Stream == wire \o Pending

\* How many frames were taken from the queue; the next the reader returns.
Begun == Len(sent) - Len(queue)
First == Len(delivered) + 1

ChannelTypes ==
    /\ sent \in Seq(Items) /\ delivered \in Seq(Items) /\ queue \in Seq(Seq(Byte))
    /\ iov = <<>> \/ \E a, b, c \in Seq(Byte) : iov = <<a, b, c>>
    /\ writer \in {"running", "done", "failed"}
    /\ wire \in Seq(Byte)
    /\ reader \in {"prefix", "body", "eof", "error", "refused"} /\ need \in Nat

\* The queue holds the frames of the last messages handed over.
QueueInv ==
    /\ Len(queue) <= Len(sent)
    /\ \A k \in 1..Len(queue) : queue[k] = Written(sent[Begun + k])

\* The messages returned are the first ones whose frames were taken.
PrefixInv ==
    /\ Len(delivered) <= Begun
    /\ \A k \in 1..Len(delivered) : delivered[k] = sent[k]

\* Where the two threads are, and what an orderly end has seen.
PlaceInv ==
    /\ writer = "done" => iov = <<>> /\ queue = <<>>
    /\ reader = "body" => First <= Begun /\ need = Len(Written(sent[First]))
    /\ reader = "eof" => writer # "running" /\ (writer = "done" => Len(delivered) = Len(sent))

\* What is on its way are the frames taken and not returned.
StreamInv == Reading => IsStream(Stream, sent, First, Begun, reader = "body")

ChannelInv == ChannelTypes /\ QueueInv /\ PrefixInv /\ PlaceInv /\ StreamInv

\* The lengths are numbers.
LEMMA Lengths ==
    ASSUME ChannelInv
    PROVE  /\ Len(sent) \in Nat /\ Len(queue) \in Nat /\ Len(delivered) \in Nat
           /\ Begun \in Nat /\ First \in Nat \ {0} /\ First <= Begun + 1 /\ Begun <= Len(sent)
<1>1. Len(sent) \in Nat /\ Len(queue) \in Nat /\ Len(delivered) \in Nat
    BY LenProperties DEF ChannelInv, ChannelTypes
<1> QED
    BY <1>1 DEF ChannelInv, QueueInv, PrefixInv, Begun, First

\* What is pending are bytes.
LEMMA PendingIs ==
    ASSUME ChannelTypes
    PROVE  Pending \in Seq(Byte) /\ Stream \in Seq(Byte)
<1>1. CASE iov = <<>>
  <2>1. Pending = <<>> /\ <<>> \in Seq(Byte)
    BY <1>1, EmptySeq DEF Pending
  <2> QED
    BY <2>1, Joined DEF ChannelTypes, Stream
<1>2. ASSUME NEW a \in Seq(Byte), NEW b \in Seq(Byte), NEW c \in Seq(Byte), iov = <<a, b, c>>
      PROVE  Pending \in Seq(Byte)
  <2>1. Pending = (a \o b) \o c
    BY <1>2 DEF Pending, Bytes
  <2>2. a \o b \in Seq(Byte)
    BY Joined
  <2> HIDE DEF Pending
  <2>3. (a \o b) \o c \in Seq(Byte)
    BY <2>2, Joined
  <2> QED
    BY <2>1, <2>3
<1>3. CASE \E a, b, c \in Seq(Byte) : iov = <<a, b, c>>
  <2>1. Pending \in Seq(Byte)
    BY <1>2, <1>3
  <2> QED
    BY <2>1, Joined DEF ChannelTypes, Stream
<1> QED
    BY <1>1, <1>3 DEF ChannelTypes

\* Nothing was sent yet.
LEMMA ChannelInit ==
    ASSUME Init
    PROVE  ChannelInv
<1>1. ChannelTypes
    BY EmptySeq DEF Init, ChannelTypes
<1>2. QueueInv /\ PrefixInv /\ PlaceInv
    BY DEF Init, QueueInv, PrefixInv, PlaceInv, Begun, First
<1>3. Stream = <<>> /\ First = 1 /\ Begun = 0 /\ reader = "prefix"
  <2>1. wire = <<>> /\ Pending = <<>>
    BY DEF Init, Pending
  <2>2. <<>> \o <<>> = <<>>
    BY EmptySeq, ConcatEmptySeq
  <2> QED
    BY <2>1, <2>2 DEF Init, Stream, First, Begun
<1>4. IsStream(<<>>, sent, 1, 0, FALSE)
  <2> DEFINE after == [k \in Nat |-> <<>>]
  <2>1. after \in [Nat -> Seq(Byte)]
    BY EmptySeq
  <2>2. after[1] = <<>>
    OBVIOUS
  <2>3. \A k \in 1..0 : FALSE
    OBVIOUS
  <2> HIDE DEF after
  <2>4. Afters(after, sent, 1, 0)
    BY <2>1, <2>2, <2>3 DEF Afters
  <2> QED
    BY <2>2, <2>4 DEF IsStream
<1>5. StreamInv
    BY <1>3, <1>4 DEF StreamInv
<1> QED
    BY <1>1, <1>2, <1>5 DEF ChannelInv

-----------------------------------------------------------------------------
(* The steps of the writer.                                                *)

\* A message is handed over.
LEMMA SendKeeps ==
    ASSUME ChannelInv, NEW m \in Items, Send(m)
    PROVE  ChannelInv'
<1> DEFINE f == Written(m)
<1>1. f \in Seq(Byte)
    BY PackedIs
<1>2. /\ sent \in Seq(Items) /\ queue \in Seq(Seq(Byte))
      /\ sent' = Append(sent, m) /\ queue' = Append(queue, f)
      /\ UNCHANGED <<iov, writer, wire, reader, need, delivered>>
    BY DEF ChannelInv, ChannelTypes, Send, readerVars
<1> HIDE DEF f
<1>3. /\ Len(sent) \in Nat /\ Len(queue) \in Nat /\ Len(delivered) \in Nat
      /\ Begun \in Nat /\ First \in Nat \ {0} /\ First <= Begun + 1 /\ Begun <= Len(sent)
    BY Lengths
<1>4. /\ sent' \in Seq(Items) /\ Len(sent') = Len(sent) + 1 /\ sent'[Len(sent) + 1] = m
      /\ \A i \in 1..Len(sent) : sent'[i] = sent[i]
      /\ queue' \in Seq(Seq(Byte)) /\ Len(queue') = Len(queue) + 1
      /\ queue'[Len(queue) + 1] = f /\ \A i \in 1..Len(queue) : queue'[i] = queue[i]
    BY <1>1, <1>2, AppendProperties
<1>5. Begun' = Begun /\ First' = First /\ Stream' = Stream
    BY <1>2, <1>3, <1>4 DEF Begun, First, Stream, Pending
<1>6. ChannelTypes'
    BY <1>2, <1>4 DEF ChannelInv, ChannelTypes
<1>7. QueueInv'
  <2>1. ASSUME NEW k \in 1..Len(queue') PROVE queue'[k] = Written(sent'[Begun + k])
    <3>1. CASE k <= Len(queue)
      <4>1. k \in 1..Len(queue) /\ Begun + k \in 1..Len(sent)
        BY <1>3, <3>1 DEF Begun
      <4> QED
        BY <1>4, <4>1 DEF ChannelInv, QueueInv
    <3>2. CASE k = Len(queue) + 1
      <4>1. Begun + k = Len(sent) + 1
        BY <1>3, <3>2 DEF Begun
      <4> QED
        BY <1>4, <3>2, <4>1 DEF f
    <3> QED
      BY <1>3, <1>4, <3>1, <3>2
  <2>2. Len(queue') <= Len(sent')
    BY <1>3, <1>4 DEF ChannelInv, QueueInv
  <2> QED
    BY <1>5, <2>1, <2>2 DEF QueueInv
<1>8. PrefixInv'
  <2>1. ASSUME NEW k \in 1..Len(delivered) PROVE delivered[k] = sent'[k]
    <3>1. k \in 1..Len(sent)
      BY <1>3 DEF First
    <3> QED
      BY <1>4, <3>1 DEF ChannelInv, PrefixInv
  <2>2. delivered' = delivered /\ Len(delivered) <= Begun
    BY <1>2 DEF ChannelInv, PrefixInv
  <2> QED
    BY <1>5, <2>1, <2>2 DEF PrefixInv
<1>9. PlaceInv'
  <2>1. writer = "running"
    BY DEF Send
  <2>2. First <= Begun => sent'[First] = sent[First]
    <3>1. First <= Begun => First \in 1..Len(sent)
      BY <1>3
    <3>2. \A i \in 1..Len(sent) : sent'[i] = sent[i]
      BY <1>4
    <3> QED
      BY <3>1, <3>2
  <2>3. writer # "done" /\ reader # "eof"
    <3>1. reader = "eof" => writer # "running"
      BY DEF ChannelInv, PlaceInv
    <3> QED
      BY <2>1, <3>1
  <2>4. reader = "body" => First <= Begun /\ need = Len(Written(sent'[First]))
    BY <2>2 DEF ChannelInv, PlaceInv
  <2>5. writer' # "done" /\ reader' # "eof" /\ reader' = reader /\ need' = need
    BY <1>2, <2>3
  <2>6. reader' = "body" => First' <= Begun' /\ need' = Len(Written(sent'[First']))
    BY <1>5, <2>4, <2>5
  <2> QED
    BY <2>5, <2>6 DEF PlaceInv
<1>10. StreamInv'
  <2>1. ASSUME Reading PROVE IsStream(Stream, sent', First, Begun, reader = "body")
    <3>1. IsStream(Stream, sent, First, Begun, reader = "body")
      BY <2>1 DEF ChannelInv, StreamInv
    <3>2. (reader = "body") => First <= Begun
      BY DEF ChannelInv, PlaceInv
    <3> QED
      BY <1>2, <1>3, <3>1, <3>2, StreamKept
  <2> QED
    BY <1>2, <1>5, <2>1 DEF StreamInv, Reading
<1> QED
    BY <1>6, <1>7, <1>8, <1>9, <1>10 DEF ChannelInv

\* A frame joins the stream.
LEMMA StartFrameKeeps ==
    ASSUME ChannelInv, StartFrame
    PROVE  ChannelInv'
<1> DEFINE f == Head(queue)
           m == sent[Begun + 1]
<1>1. /\ sent \in Seq(Items) /\ queue \in Seq(Seq(Byte)) /\ queue # <<>> /\ iov = <<>>
      /\ queue' = Tail(queue) /\ iov' = <<U32(Len(f)), <<f[1]>>, Tail(f)>>
      /\ writer = "running"
      /\ UNCHANGED <<sent, writer, wire, reader, need, delivered>>
    BY DEF ChannelInv, ChannelTypes, StartFrame, readerVars
<1>2. /\ Len(sent) \in Nat /\ Len(queue) \in Nat /\ Len(delivered) \in Nat
      /\ Begun \in Nat /\ First \in Nat \ {0} /\ First <= Begun + 1 /\ Begun <= Len(sent)
    BY Lengths
<1>3. /\ Len(queue) # 0 /\ f = queue[1] /\ Len(queue') = Len(queue) - 1
      /\ queue' \in Seq(Seq(Byte)) /\ \A i \in 1..(Len(queue) - 1) : queue'[i] = queue[i + 1]
    BY <1>1, HeadTailProperties, LenProperties
<1>4. Begun < Len(sent) /\ m \in Items /\ f = Written(m)
  <2>1. Begun < Len(sent) /\ 1 \in 1..Len(queue)
    BY <1>2, <1>3 DEF Begun
  <2>2. m \in Items
    BY <1>1, <1>2, <2>1, LenProperties
  <2> QED
    BY <1>3, <2>1, <2>2 DEF ChannelInv, QueueInv
<1>5. Begun' = Begun + 1 /\ First' = First
    BY <1>1, <1>2, <1>3 DEF Begun, First
<1>6. f \in Seq(Byte) /\ U32(Len(f)) \in Seq(Byte) /\ Packed(m) = U32(Len(f)) \o f
      /\ Packed(m) \in Seq(Byte) /\ Len(f) \in Nat \ {0}
    BY <1>4, PackedIs DEF Packed
<1> HIDE DEF f
<1>7. <<f[1]>> \in Seq(Byte) /\ Tail(f) \in Seq(Byte) /\ <<f[1]>> \o Tail(f) = f
    BY <1>6
<1>8. (U32(Len(f)) \o <<f[1]>>) \o Tail(f) = Packed(m)
    BY <1>6, <1>7, Reassociated
<1>9. Stream' = Stream \o Packed(m)
  <2>1. Stream = wire
    <3>1. Pending = <<>>
      BY <1>1 DEF Pending
    <3> QED
      BY <3>1, ConcatEmptySeq DEF Stream, ChannelInv, ChannelTypes
  <2>2. Pending' = Packed(m)
    BY <1>1, <1>8 DEF Pending, Bytes
  <2> QED
    BY <1>1, <2>1, <2>2 DEF Stream
<1>10. ChannelTypes'
  <2>1. \E a, b, c \in Seq(Byte) : iov' = <<a, b, c>>
    BY <1>1, <1>6, <1>7
  <2> QED
    BY <1>1, <1>3, <2>1 DEF ChannelInv, ChannelTypes
<1>11. QueueInv'
  <2>1. ASSUME NEW k \in 1..Len(queue') PROVE queue'[k] = Written(sent[(Begun + 1) + k])
    <3>1. k + 1 \in 1..Len(queue) /\ k \in 1..(Len(queue) - 1) /\ Begun + (k + 1) = (Begun + 1) + k
      BY <1>2, <1>3
    <3> QED
      BY <1>3, <3>1 DEF ChannelInv, QueueInv
  <2> QED
    BY <1>1, <1>2, <1>3, <1>5, <2>1 DEF ChannelInv, QueueInv
<1>12. PrefixInv'
    BY <1>1, <1>2, <1>5 DEF ChannelInv, PrefixInv
<1>13. PlaceInv'
    BY <1>1, <1>2, <1>5 DEF ChannelInv, PlaceInv
<1>14. StreamInv'
  <2>1. ASSUME Reading PROVE IsStream(Stream \o Packed(m), sent, First, Begun + 1, reader = "body")
    <3>1. IsStream(Stream, sent, First, Begun, reader = "body")
      BY <2>1 DEF ChannelInv, StreamInv
    <3>2. (reader = "body") => First <= Begun
      BY DEF ChannelInv, PlaceInv
    <3> QED
      BY <1>1, <1>2, <1>4, <3>1, <3>2, StreamGrows
  <2> QED
    BY <1>1, <1>5, <1>9, <2>1 DEF StreamInv, Reading
<1> QED
    BY <1>10, <1>11, <1>12, <1>13, <1>14 DEF ChannelInv

\* However many bytes are written, the stream is the same.
LEMMA WriteSomeKeeps ==
    ASSUME ChannelInv, WriteSome
    PROVE  ChannelInv'
<1>1. /\ wire \in Seq(Byte) /\ iov # <<>> /\ writer = "running"
      /\ UNCHANGED <<sent, queue, writer, reader, need, delivered>>
    BY DEF ChannelInv, ChannelTypes, WriteSome, readerVars
<1>2. \A u, v \in Seq(Byte) : (wire \o u) \o v = wire \o (u \o v)
    BY <1>1, Reassociated
<1>3. PICK a \in Seq(Byte), b \in Seq(Byte), c \in Seq(Byte) : iov = <<a, b, c>>
    BY <1>1 DEF ChannelInv, ChannelTypes
<1> DEFINE bytes == (a \o b) \o c
<1>4. bytes \in Seq(Byte) /\ Len(bytes) = Len(a) + Len(b) + Len(c)
  <2>1. a \o b \in Seq(Byte) /\ Len(a \o b) = Len(a) + Len(b)
    BY Joined
  <2> DEFINE ab == a \o b
  <2> HIDE DEF ab
  <2>2. ab \o c \in Seq(Byte) /\ Len(ab \o c) = Len(ab) + Len(c)
    BY <2>1, Joined DEF ab
  <2> QED
    BY <2>1, <2>2 DEF ab
<1>5. Pending = bytes /\ Bytes(iov) = bytes
    BY <1>1, <1>3 DEF Pending, Bytes
<1> HIDE DEF bytes
<1>6. PICK n \in 1..Len(bytes) :
         /\ wire' = wire \o SubSeq(bytes, 1, n)
         /\ iov' = IF n = Len(bytes) THEN <<>> ELSE Advance(iov, n)
    BY <1>5 DEF WriteSome
<1>7. n \in 0..Len(bytes) /\ n \in 0..(Len(a) + Len(b) + Len(c))
    BY <1>4, <1>6
<1>8. PICK x \in Seq(Byte), y \in Seq(Byte), z \in Seq(Byte) :
         /\ Advance(<<a, b, c>>, n) = <<x, y, z>>
         /\ (x \o y) \o z = Rest(bytes, n)
  <2>1. n \in 0..(Len(a) + Len(b) + Len(c))
    BY <1>7
  <2>2. SlicesOf(Advance(<<a, b, c>>, n), Rest((a \o b) \o c, n))
    BY <2>1, AdvanceIs
  <2> QED
    BY <2>2 DEF SlicesOf, bytes
<1> DEFINE t == SubSeq(bytes, 1, n)
           r == Rest(bytes, n)
<1>9. t \in Seq(Byte) /\ r \in Seq(Byte) /\ Len(r) = Len(bytes) - n /\ t \o r = bytes
    BY <1>4, <1>7, TakenIs, RestIs, SplitIs
<1> HIDE DEF t, r
<1>10. Pending' = r
  <2>1. CASE n = Len(bytes)
    <3>1. Pending' = <<>>
      BY <1>6, <2>1 DEF Pending
    <3>2. Len(r) = 0
      BY <1>4, <1>9, <2>1
    <3> QED
      BY <1>9, <3>1, <3>2, EmptySeq
  <2>2. CASE n # Len(bytes)
    <3>1. iov' = <<x, y, z>>
      BY <1>3, <1>6, <1>8, <2>2
    <3> QED
      BY <1>8, <3>1 DEF Pending, Bytes, r
  <2> QED
    BY <2>1, <2>2
<1>11. Stream' = Stream
  <2>1. (wire \o t) \o r = wire \o (t \o r)
    BY <1>2, <1>9, Zenon
  <2>2. wire' = wire \o t
    BY <1>6 DEF t
  <2> QED
    BY <1>5, <1>9, <1>10, <2>1, <2>2 DEF Stream
<1>12. ChannelTypes'
  <2>1. wire' \in Seq(Byte)
    BY <1>1, <1>6, <1>9, Joined DEF t
  <2>2. iov' = <<>> \/ \E u, v, w \in Seq(Byte) : iov' = <<u, v, w>>
    BY <1>3, <1>6, <1>8
  <2> QED
    BY <1>1, <2>1, <2>2 DEF ChannelInv, ChannelTypes
<1>13. Begun' = Begun /\ First' = First /\ Reading' = Reading
    BY <1>1 DEF Begun, First, Reading
<1>14. QueueInv' /\ PrefixInv' /\ PlaceInv'
    BY <1>1, <1>13 DEF ChannelInv, QueueInv, PrefixInv, PlaceInv
<1>15. StreamInv'
    BY <1>1, <1>11, <1>13 DEF ChannelInv, StreamInv
<1> QED
    BY <1>12, <1>14, <1>15 DEF ChannelInv

\* The writer thread ends.
LEMMA WriterEndsKeeps ==
    ASSUME ChannelInv, WriteFails \/ WriterDone
    PROVE  ChannelInv'
<1>1. /\ UNCHANGED <<sent, queue, iov, wire, reader, need, delivered>>
      /\ writer = "running" /\ writer' \in {"done", "failed"}
      /\ writer' = "done" => iov = <<>> /\ queue = <<>>
    BY DEF WriteFails, WriterDone, readerVars
<1>2. Begun' = Begun /\ First' = First /\ Reading' = Reading /\ Stream' = Stream
    BY <1>1 DEF Begun, First, Reading, Stream, Pending
<1>3. ChannelTypes' /\ QueueInv' /\ PrefixInv' /\ PlaceInv'
    BY <1>1, <1>2 DEF ChannelInv, ChannelTypes, QueueInv, PrefixInv, PlaceInv
<1>4. StreamInv'
    BY <1>1, <1>2 DEF ChannelInv, StreamInv
<1> QED
    BY <1>3, <1>4 DEF ChannelInv

-----------------------------------------------------------------------------
(* The steps of the reader.                                                *)

\* A whole prefix is the next frame's, and what follows it is the frame.
LEMMA PrefixRead ==
    ASSUME ChannelInv, ReadPrefix
    PROVE  LET size == Len(Written(sent[First])) IN
           /\ First <= Begun /\ size \in Nat
           /\ need' = size /\ reader' = (IF ValidLength(size) THEN "body" ELSE "error")
           /\ wire' \in Seq(Byte) /\ IsStream(wire' \o Pending, sent, First, Begun, TRUE)
<1>1. /\ sent \in Seq(Items) /\ wire \in Seq(Byte) /\ Pending \in Seq(Byte)
      /\ reader = "prefix" /\ Len(wire) >= Width32
    BY PendingIs DEF ChannelInv, ChannelTypes, ReadPrefix
<1>2. /\ Len(sent) \in Nat /\ Begun \in Nat /\ First \in Nat \ {0}
      /\ First <= Begun + 1 /\ Begun <= Len(sent)
    BY Lengths
<1>3. IsStream(Stream, sent, First, Begun, FALSE)
    BY <1>1 DEF ChannelInv, StreamInv, Reading
<1>4. Len(Stream) = Len(wire) + Len(Pending) /\ Len(wire) \in Nat /\ Len(Pending) \in Nat
    BY <1>1, Joined, LenProperties DEF Stream
<1>5. First <= Begun
  <2>1. Width32 \in Nat \ {0}
    BY WidthsAssumption
  <2>2. Len(Stream) # 0
    BY <1>1, <1>4, <2>1
  <2>3. Stream # <<>>
    BY <2>2, EmptySeq
  <2>4. First # Begun + 1
    BY <1>1, <1>2, <1>3, <2>3, StreamEnds
  <2> QED
    BY <1>2, <2>4
<1> DEFINE w == Written(sent[First])
           h == U32(Len(w))
<1>6. sent[First] \in Items
    BY <1>1, <1>2, <1>5, LenProperties
<1>7. h \in Seq(Byte) /\ Len(h) = Width32 /\ Len(w) \in Nat /\ FromBytes(h) = Len(w)
    BY <1>6, PackedIs, ItemIs, PrefixIs
<1>8. PICK c \in Seq(Byte) : Stream = h \o c /\ IsStream(c, sent, First, Begun, TRUE)
    BY <1>1, <1>2, <1>3, <1>5, StreamStarts
<1> HIDE DEF h
<1>9. /\ At(wire, 0, Width32) = h /\ Rest(wire, Width32) \o Pending = c
      /\ Rest(wire, Width32) \in Seq(Byte)
  <2>1. Len(h) <= Len(wire)
    BY <1>1, <1>4, <1>7
  <2>2. wire \o Pending = h \o c
    BY <1>8 DEF Stream
  <2>3. At(wire, 0, Len(h)) = h /\ Rest(wire, Len(h)) \o Pending = c
        /\ Rest(wire, Len(h)) \in Seq(Byte)
    BY <1>1, <1>7, <2>1, <2>2, PeelIs
  <2> QED
    BY <1>7, <2>3
<1>10. /\ need' = Len(w) /\ reader' = (IF ValidLength(Len(w)) THEN "body" ELSE "error")
       /\ wire' = Rest(wire, Width32)
    BY <1>7, <1>9 DEF ReadPrefix
<1> QED
    BY <1>5, <1>7, <1>8, <1>9, <1>10

\* The bytes the prefix announced are the frame's.
LEMMA BodyRead ==
    ASSUME ChannelInv, ReadBody
    PROVE  LET m == sent[First] IN
           /\ First <= Begun /\ m \in Items
           /\ At(wire, 0, need) = Written(m)
           /\ wire' \in Seq(Byte) /\ IsStream(wire' \o Pending, sent, First + 1, Begun, FALSE)
<1>1. /\ sent \in Seq(Items) /\ wire \in Seq(Byte) /\ Pending \in Seq(Byte)
      /\ reader = "body" /\ Len(wire) >= need /\ wire' = Rest(wire, need)
    BY PendingIs DEF ChannelInv, ChannelTypes, ReadBody
<1>2. /\ Len(sent) \in Nat /\ Begun \in Nat /\ First \in Nat \ {0}
      /\ First <= Begun + 1 /\ Begun <= Len(sent)
    BY Lengths
<1> DEFINE w == Written(sent[First])
<1>3. First <= Begun /\ need = Len(w)
    BY <1>1 DEF ChannelInv, PlaceInv
<1>4. sent[First] \in Items
    BY <1>1, <1>2, <1>3, LenProperties
<1>5. w \in Seq(Byte) /\ Len(w) \in Nat /\ Len(wire) \in Nat
    BY <1>1, <1>4, PackedIs, LenProperties
<1>6. IsStream(Stream, sent, First, Begun, TRUE)
    BY <1>1 DEF ChannelInv, StreamInv, Reading
<1>7. PICK c : Stream = w \o c /\ IsStream(c, sent, First + 1, Begun, FALSE)
    BY <1>1, <1>2, <1>3, <1>6, StreamGoesOn
<1>8. c \in Seq(Byte)
  <2>1. First + 1 \in Nat \ {0} /\ First + 1 <= Begun + 1
    BY <1>2, <1>3
  <2> QED
    BY <1>1, <1>2, <1>7, <2>1, StreamStarts
<1> HIDE DEF w
<1>9. At(wire, 0, Len(w)) = w /\ Rest(wire, Len(w)) \o Pending = c
      /\ Rest(wire, Len(w)) \in Seq(Byte)
  <2>1. Len(w) <= Len(wire)
    BY <1>1, <1>3, <1>5
  <2>2. wire \o Pending = w \o c
    BY <1>7 DEF Stream
  <2> QED
    BY <1>1, <1>5, <1>8, <2>1, <2>2, PeelIs
<1> QED
    BY <1>1, <1>3, <1>4, <1>7, <1>9 DEF w

\* A prefix is read.
LEMMA ReadPrefixKeeps ==
    ASSUME ChannelInv, ReadPrefix
    PROVE  ChannelInv'
<1> DEFINE size == Len(Written(sent[First]))
<1>1. /\ First <= Begun /\ size \in Nat
      /\ need' = size /\ reader' = (IF ValidLength(size) THEN "body" ELSE "error")
      /\ wire' \in Seq(Byte) /\ IsStream(wire' \o Pending, sent, First, Begun, TRUE)
    BY PrefixRead
<1>2. UNCHANGED <<sent, queue, iov, writer, delivered>>
    BY DEF ReadPrefix, writerVars
<1>3. Begun' = Begun /\ First' = First /\ Pending' = Pending
    BY <1>2 DEF Begun, First, Pending
<1>4. ChannelTypes' /\ QueueInv' /\ PrefixInv' /\ PlaceInv'
    BY <1>1, <1>2, <1>3 DEF ChannelInv, ChannelTypes, QueueInv, PrefixInv, PlaceInv
<1>5. StreamInv'
    BY <1>1, <1>2, <1>3 DEF StreamInv, Stream, Reading
<1> QED
    BY <1>4, <1>5 DEF ChannelInv

\* A body is read: the next message is returned, or the connection is refused.
LEMMA BodyReturns ==
    ASSUME ChannelInv, ReadBody
    PROVE  \/ /\ sent[First] \in Session /\ delivered' = Append(delivered, sent[First])
              /\ reader' = "prefix"
           \/ reader' = "refused" /\ UNCHANGED delivered
<1>1. sent[First] \in Items /\ At(wire, 0, need) = Written(sent[First])
    BY BodyRead
<1>2. CASE sent[First] \in Session
  <2>1. TryFrom(Written(sent[First])) = sent[First]
    BY <1>1, <1>2, ItemIs
  <2>2. Accepts(sent[First])
    BY <1>1, <1>2, ItemIs
  <2> QED
    BY <1>1, <1>2, <2>1, <2>2 DEF ReadBody
<1>3. CASE sent[First] \notin Session
    BY <1>1, <1>3, ItemIs DEF ReadBody
<1> QED
    BY <1>2, <1>3

LEMMA ReadBodyKeeps ==
    ASSUME ChannelInv, ReadBody
    PROVE  ChannelInv'
<1> DEFINE m == sent[First]
<1>1. /\ First <= Begun /\ m \in Items
      /\ wire' \in Seq(Byte) /\ IsStream(wire' \o Pending, sent, First + 1, Begun, FALSE)
    BY BodyRead
<1>2. UNCHANGED <<sent, queue, iov, writer, need>>
    BY DEF ReadBody, writerVars
<1>3. Begun' = Begun /\ Pending' = Pending
    BY <1>2 DEF Begun, Pending
<1>4. QueueInv'
    BY <1>2, <1>3 DEF ChannelInv, QueueInv
<1>5. CASE delivered' = Append(delivered, m) /\ reader' = "prefix"
  <2>1. /\ Len(sent) \in Nat /\ Len(delivered) \in Nat /\ Begun \in Nat
        /\ First \in Nat \ {0} /\ Begun <= Len(sent) /\ First = Len(delivered) + 1
    BY Lengths DEF First
  <2>2. /\ delivered' \in Seq(Items) /\ Len(delivered') = First /\ delivered'[First] = m
        /\ \A i \in 1..Len(delivered) : delivered'[i] = delivered[i]
    <3>1. delivered \in Seq(Items)
      BY DEF ChannelInv, ChannelTypes
    <3> QED
      BY <1>1, <1>5, <2>1, <3>1, AppendProperties
  <2>3. First' = First + 1
    BY <2>2 DEF First
  <2>4. ChannelTypes' /\ PlaceInv'
    BY <1>1, <1>2, <1>5, <2>2 DEF ChannelInv, ChannelTypes, PlaceInv
  <2>5. PrefixInv'
    <3>1. ASSUME NEW k \in 1..First PROVE delivered'[k] = sent[k]
      <4>1. CASE k \in 1..Len(delivered)
        BY <2>2, <4>1 DEF ChannelInv, PrefixInv
      <4>2. CASE k = First
        BY <2>2, <4>2
      <4> QED
        BY <2>1, <4>1, <4>2
    <3> QED
      BY <1>1, <1>2, <1>3, <2>2, <3>1 DEF PrefixInv
  <2>6. StreamInv'
    BY <1>1, <1>2, <1>3, <1>5, <2>3 DEF StreamInv, Stream
  <2> QED
    BY <1>4, <2>4, <2>5, <2>6 DEF ChannelInv
<1>6. CASE reader' = "refused" /\ UNCHANGED delivered
  <2>1. ChannelTypes' /\ PrefixInv' /\ PlaceInv' /\ StreamInv'
    BY <1>1, <1>2, <1>3, <1>6
    DEF ChannelInv, ChannelTypes, PrefixInv, PlaceInv, StreamInv, Reading
  <2> QED
    BY <1>4, <2>1 DEF ChannelInv
<1> QED
    BY <1>5, <1>6, BodyReturns

\* The reader gives up; at the end of the stream it has returned all of it.
LEMMA ReaderEndsKeeps ==
    ASSUME ChannelInv, ReadEof \/ ReadFails
    PROVE  ChannelInv' /\ ~Reading'
<1>1. /\ UNCHANGED <<sent, queue, iov, writer, need, delivered>>
      /\ wire' = wire \/ wire' = <<>>
      /\ reader' \in {"eof", "error"}
      /\ reader' = "eof" => reader = "prefix" /\ writer # "running" /\ Len(wire) < Width32
    BY DEF ReadEof, ReadFails, writerVars, Wanted
<1>2. Begun' = Begun /\ First' = First
    BY <1>1 DEF Begun, First
<1>3. ~Reading' /\ StreamInv'
    BY <1>1 DEF Reading, StreamInv
<1>4. ChannelTypes' /\ QueueInv' /\ PrefixInv'
    BY <1>1, <1>2, EmptySeq DEF ChannelInv, ChannelTypes, QueueInv, PrefixInv
<1>5. ASSUME reader' = "eof", writer = "done" PROVE Len(delivered) = Len(sent)
  <2>1. iov = <<>> /\ queue = <<>> /\ sent \in Seq(Items) /\ wire \in Seq(Byte)
    BY <1>5 DEF ChannelInv, ChannelTypes, PlaceInv
  <2>2. /\ Len(sent) \in Nat /\ Len(delivered) \in Nat /\ Begun \in Nat
        /\ First \in Nat \ {0} /\ First <= Begun + 1 /\ Begun <= Len(sent)
    BY Lengths
  <2>3. Begun = Len(sent)
    BY <2>1, <2>2, EmptySeq DEF Begun
  <2>4. Stream = wire /\ IsStream(wire, sent, First, Begun, FALSE)
    <3>1. Pending = <<>>
      BY <2>1 DEF Pending
    <3>2. Stream = wire
      BY <2>1, <3>1, ConcatEmptySeq DEF Stream
    <3> QED
      BY <1>1, <1>5, <3>2 DEF ChannelInv, StreamInv, Reading
  <2>5. ASSUME First <= Begun PROVE FALSE
    <3>1. sent[First] \in Items
      BY <2>1, <2>2, <2>5, LenProperties
    <3> DEFINE h == U32(Len(Written(sent[First])))
    <3>2. h \in Seq(Byte) /\ Len(h) = Width32
      BY <3>1, PackedIs
    <3>3. PICK c \in Seq(Byte) : wire = h \o c /\ IsStream(c, sent, First, Begun, TRUE)
      <4>1. IsStream(wire, sent, First, Begun, FALSE)
        BY <2>4
      <4> QED
        BY <2>1, <2>2, <2>5, <4>1, StreamStarts
    <3> HIDE DEF h
    <3>4. Len(wire) = Width32 + Len(c) /\ Len(c) \in Nat /\ Width32 \in Nat
      BY <3>2, <3>3, Joined, LenProperties, WidthsAssumption
    <3> QED
      BY <1>1, <1>5, <3>4
  <2> QED
    BY <2>2, <2>3, <2>5 DEF First
<1>6. PlaceInv'
    BY <1>1, <1>2, <1>5 DEF ChannelInv, PlaceInv
<1> QED
    BY <1>3, <1>4, <1>6 DEF ChannelInv

-----------------------------------------------------------------------------
(* The theorems.                                                           *)

LEMMA ChannelStep ==
    ASSUME ChannelInv, [Next]_vars
    PROVE  ChannelInv'
<1>1. CASE UNCHANGED vars
  <2>1. UNCHANGED <<sent, queue, iov, writer, wire, reader, need, delivered>>
    BY <1>1 DEF vars, writerVars, readerVars
  <2>2. Begun' = Begun /\ First' = First /\ Reading' = Reading /\ Stream' = Stream
    BY <2>1 DEF Begun, First, Reading, Stream, Pending
  <2>3. ChannelTypes' /\ QueueInv' /\ PrefixInv' /\ PlaceInv'
    BY <2>1, <2>2 DEF ChannelInv, ChannelTypes, QueueInv, PrefixInv, PlaceInv
  <2>4. StreamInv'
    BY <2>1, <2>2 DEF ChannelInv, StreamInv
  <2> QED
    BY <2>3, <2>4 DEF ChannelInv
<1>2. CASE Next
    BY <1>2, SendKeeps, StartFrameKeeps, WriteSomeKeeps, WriterEndsKeeps,
       ReadPrefixKeeps, ReadBodyKeeps, ReaderEndsKeeps DEF Next, Writer, Reader
<1> QED
    BY <1>1, <1>2

\* The invariant of the stream holds in every reachable state.
THEOREM SpecChannelInv ==
    Spec => []ChannelInv
<1>1. Init => ChannelInv
    BY ChannelInit
<1>2. ChannelInv /\ [Next]_vars => ChannelInv'
    BY ChannelStep
<1> QED
    BY <1>1, <1>2, PTL DEF Spec

\* Each step keeps the types: what is returned is of the session, and what is read as
\* a length fits the prefix.
LEMMA TypesStep ==
    ASSUME TypeOK, ChannelInv, [Next]_vars
    PROVE  TypeOK'
<1>1. /\ sent \in Seq(Items) /\ delivered \in Seq(Session)
      /\ \A k \in DOMAIN queue : \E m \in Items : queue[k] = Written(m)
      /\ wire \in Seq(Byte) /\ FitsIn(need, Width32)
    BY DEF TypeOK
<1>2. ChannelInv'
    BY ChannelStep
<1>3. /\ sent' \in Seq(Items) /\ wire' \in Seq(Byte) /\ queue \in Seq(Seq(Byte))
      /\ writer' \in {"running", "done", "failed"}
      /\ reader' \in {"prefix", "body", "eof", "error", "refused"}
    BY <1>2 DEF ChannelInv, ChannelTypes
<1> DEFINE Frames == \A k \in DOMAIN queue' : \E m \in Items : queue'[k] = Written(m)
<1>4. Frames
  <2>1. CASE UNCHANGED queue
    BY <1>1, <2>1
  <2>2. ASSUME NEW m \in Items, Send(m) PROVE Frames
    <3>1. queue' = Append(queue, Written(m)) /\ Written(m) \in Seq(Byte)
      BY <2>2, ItemIs DEF Send
    <3>2. /\ Len(queue) \in Nat /\ DOMAIN queue = 1..Len(queue)
          /\ queue' \in Seq(Seq(Byte)) /\ Len(queue') = Len(queue) + 1
          /\ \A k \in 1..Len(queue) : queue'[k] = queue[k]
          /\ queue'[Len(queue) + 1] = Written(m)
      BY <1>3, <3>1, AppendProperties, LenProperties
    <3>3. ASSUME NEW k \in DOMAIN queue' PROVE \E x \in Items : queue'[k] = Written(x)
      <4>1. k \in 1..(Len(queue) + 1)
        BY <3>2
      <4>2. CASE k = Len(queue) + 1
        BY <3>2, <4>2
      <4>3. CASE k # Len(queue) + 1
        <5>1. k \in 1..Len(queue)
          BY <3>2, <4>1, <4>3
        <5> QED
          BY <1>1, <3>2, <5>1
      <4> QED
        BY <4>2, <4>3
    <3> QED
      BY <3>3
  <2>3. CASE StartFrame
    <3>1. queue # <<>> /\ queue' = Tail(queue)
      BY <2>3 DEF StartFrame
    <3>2. /\ Len(queue) \in Nat /\ DOMAIN queue = 1..Len(queue)
          /\ queue' \in Seq(Seq(Byte)) /\ Len(queue') = Len(queue) - 1
          /\ \A k \in 1..Len(queue') : queue'[k] = queue[k + 1]
      BY <1>3, <3>1, HeadTailProperties, LenProperties
    <3>3. ASSUME NEW k \in DOMAIN queue' PROVE \E x \in Items : queue'[k] = Written(x)
      <4>1. k \in 1..Len(queue') /\ k + 1 \in DOMAIN queue
        BY <3>2
      <4> QED
        BY <1>1, <3>2, <4>1
    <3> QED
      BY <3>3
  <2>4. (\E m \in Items : Send(m)) \/ StartFrame \/ UNCHANGED queue
    BY DEF Next, Writer, Reader, WriteSome, WriteFails, WriterDone, ReadPrefix, ReadBody,
       ReadEof, ReadFails, vars, writerVars
  <2> QED
    BY <2>1, <2>2, <2>3, <2>4
<1>5. delivered' \in Seq(Session)
  <2>1. CASE ReadBody
    <3>1. CASE sent[First] \in Session /\ delivered' = Append(delivered, sent[First])
      BY <1>1, <3>1, AppendProperties
    <3>2. CASE UNCHANGED delivered
      BY <1>1, <3>2
    <3> QED
      BY <2>1, <3>1, <3>2, BodyReturns
  <2>2. CASE ~ReadBody
    <3>1. UNCHANGED delivered
      BY <2>2 DEF Next, Writer, Reader, Send, StartFrame, WriteSome, WriteFails, WriterDone,
         ReadPrefix, ReadEof, ReadFails, vars, readerVars
    <3> QED
      BY <1>1, <3>1
  <2> QED
    BY <2>1, <2>2
<1>6. FitsIn(need', Width32)
  <2>1. CASE ReadPrefix
    <3> DEFINE b == At(wire, 0, Width32)
    <3>1. Len(wire) >= Width32 /\ need' = FromBytes(b)
      BY <2>1 DEF ReadPrefix
    <3>2. Width32 \in Nat /\ 0 \in Nat /\ 0 + Width32 <= Len(wire)
      BY <1>1, <3>1, WidthsAssumption, LenProperties
    <3>3. b \in Seq(Byte) /\ Len(b) = Width32
      BY <1>1, <3>2, AtIs
    <3> HIDE DEF b
    <3> QED
      BY <3>1, <3>3, BytesReturned
  <2>2. CASE ~ReadPrefix
    <3>1. UNCHANGED need
      BY <2>2 DEF Next, Writer, Reader, Send, StartFrame, WriteSome, WriteFails, WriterDone,
         ReadBody, ReadEof, ReadFails, vars, readerVars
    <3> QED
      BY <1>1, <3>1
  <2> QED
    BY <2>1, <2>2
<1>7. faults' \in BOOLEAN
  <2>1. faults' = faults \/ faults' = TRUE
    BY DEF Next, Writer, Reader, Send, StartFrame, WriteSome, WriteFails, WriterDone,
       ReadPrefix, ReadBody, ReadEof, ReadFails, vars
  <2> QED
    BY <2>1 DEF TypeOK
<1> QED
    BY <1>3, <1>4, <1>5, <1>6, <1>7 DEF TypeOK

\* Nothing that is not of the session is returned, and every length is read within
\* its prefix.
THEOREM SpecTypeOK ==
    Spec => []TypeOK
<1>1. Init => TypeOK
  <2> SUFFICES ASSUME Init PROVE TypeOK
    OBVIOUS
  <2>1. FitsIn(0, Width32)
    BY ZeroFits, WidthsAssumption
  <2>2. <<>> \in Seq(Items) /\ <<>> \in Seq(Session) /\ <<>> \in Seq(Byte) /\ DOMAIN <<>> = {}
    BY EmptySeq
  <2> QED
    BY <2>1, <2>2 DEF Init, TypeOK
<1>2. TypeOK /\ ChannelInv /\ ChannelInv' /\ [Next]_vars => TypeOK'
    BY TypesStep
<1> QED
    BY <1>1, <1>2, SpecChannelInv, PTL DEF Spec

\* Both ends stay within their types, and the parser between them is the inverse of
\* the writer, whatever messages and frames it is tried with.
THEOREM SpecCodecInv ==
    Spec => []CodecInv
<1>1. ParserInvertsWriter
    BY ParserInverse, ProbesAssumption DEF ParserInvertsWriter
<1>2. TypeOK => CodecInv
    BY <1>1 DEF CodecInv
<1> QED
    BY <1>2, SpecTypeOK, PTL

\* An orderly close loses nothing, for any messages and any splitting of the
\* writes: when the reader gets Ok(None) it has returned every message.
THEOREM SpecCleanCloseLosesNothing ==
    Spec => []CleanCloseLosesNothing
<1>1. ASSUME ChannelInv PROVE CleanCloseLosesNothing
  <2>1. ASSUME reader = "eof", writer = "done" PROVE delivered = sent
    <3>1. Len(delivered) = Len(sent) /\ delivered \in Seq(Items) /\ sent \in Seq(Items)
      BY <1>1, <2>1 DEF ChannelInv, ChannelTypes, PlaceInv
    <3>2. \A k \in 1..Len(delivered) : delivered[k] = sent[k]
      BY <1>1 DEF ChannelInv, PrefixInv
    <3> QED
      BY <3>1, <3>2, SeqEqual
  <2> QED
    BY <2>1 DEF CleanCloseLosesNothing
<1>2. ChannelInv => CleanCloseLosesNothing
    BY <1>1
<1> QED
    BY <1>2, SpecChannelInv, PTL

\* Every step is one of the channel's, or none: the next message of the session is
\* returned, a message is handed over, or the reader is over.
LEMMA StepRefines ==
    ASSUME ChannelInv, [Next]_vars
    PROVE  [Channel!Next]_(Channel!vars)
<1>1. CASE UNCHANGED vars
    BY <1>1 DEF vars, readerVars, Channel!vars, Reading
<1>2. ASSUME NEW m \in Items, Send(m) PROVE Channel!Next
  <2>1. sent' = Append(sent, m) /\ UNCHANGED <<reader, delivered>>
    BY <1>2 DEF Send, readerVars
  <2> QED
    BY <2>1 DEF Channel!Next, Channel!Send, Reading
<1>3. CASE StartFrame \/ WriteSome \/ WriteFails \/ WriterDone
  <2>1. UNCHANGED <<sent, reader, delivered>>
    BY <1>3 DEF StartFrame, WriteSome, WriteFails, WriterDone, readerVars
  <2> QED
    BY <2>1 DEF Channel!vars, Reading
<1>4. CASE ReadPrefix
  <2>1. reader = "prefix" /\ reader' \in {"body", "error"} /\ UNCHANGED <<sent, delivered>>
    BY <1>4 DEF ReadPrefix
  <2> QED
    BY <2>1 DEF Channel!Next, Channel!End, Channel!vars, Reading
<1>5. CASE ReadBody
  <2>1. reader = "body" /\ UNCHANGED sent
    BY <1>5 DEF ReadBody
  <2>2. Len(delivered) < Len(sent)
    <3>1. First <= Begun
      BY <1>5, BodyRead
    <3> QED
      BY <3>1, Lengths DEF First
  <2>3. CASE /\ sent[First] \in Session /\ delivered' = Append(delivered, sent[First])
             /\ reader' = "prefix"
    BY <2>1, <2>2, <2>3 DEF Channel!Next, Channel!Deliver, Reading, First
  <2>4. CASE reader' = "refused" /\ UNCHANGED delivered
    BY <2>1, <2>4 DEF Channel!Next, Channel!End, Reading
  <2> QED
    BY <1>5, <2>3, <2>4, BodyReturns
<1>6. CASE ReadEof \/ ReadFails
  <2>1. Reading /\ UNCHANGED <<sent, delivered>>
    BY <1>6 DEF ReadEof, ReadFails
  <2>2. ~Reading'
    BY <1>6, ReaderEndsKeeps
  <2> QED
    BY <2>1, <2>2 DEF Channel!Next, Channel!End
<1> QED
    BY <1>1, <1>2, <1>3, <1>4, <1>5, <1>6 DEF Next, Writer, Reader

\* However the kernel splits the writes, and wherever a write or a read fails, the
\* messages returned are those sent, whole, in order and once, and none of, or
\* behind, a frame that is not of the session.
THEOREM SpecImplementsMessageChannel ==
    Spec => ImplementsMessageChannel
<1>1. Init => Channel!Init
    BY DEF Init, Channel!Init, Reading
<1>2. ChannelInv /\ [Next]_vars => [Channel!Next]_(Channel!vars)
    BY StepRefines
<1> QED
    BY <1>1, <1>2, SpecChannelInv, PTL DEF Spec, ImplementsMessageChannel, Channel!Spec
=============================================================================
