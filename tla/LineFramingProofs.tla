-------------------------- MODULE LineFramingProofs --------------------------
(***************************************************************************)
(* Proofs about LineFraming, for any bytes, any lines, any size of the     *)
(* buffer, and any sizes of the pieces that TCP hands on.                  *)
(***************************************************************************)
EXTENDS LineFraming, SequenceTheorems, WellFoundedInduction, TLAPS

----------------------------------------------------------------------------
(* Natural numbers.                                                        *)

Less == {mn \in Nat \X Nat : mn[1] < mn[2]}

\* Every set of natural numbers has a least one.
LEMMA LeastNatural ==
    ASSUME NEW T, T \subseteq Nat, T # {}
    PROVE  \E n \in T : \A m \in T : n <= m
<1>1. IsWellFoundedOn(Less, Nat)
  BY NatLessThanWellFounded DEF OpToRel, Less
<1>2. PICK n \in T : \A m \in T : <<m, n>> \notin Less
  BY <1>1, WFMin
<1>3. \A m \in T : ~(m < n)
  BY <1>2 DEF Less
<1> QED
  BY <1>3

\* Induction, by a set: what holds of 0 and, with n, of n + 1, holds of all.
LEMMA Induction ==
    ASSUME NEW N \in Nat, NEW T, 0 \in T, \A n \in 0 .. N - 1 : n \in T => n + 1 \in T
    PROVE  0 .. N \subseteq T
<1> DEFINE U == (0 .. N) \ T
<1>1. ASSUME U # {} PROVE FALSE
  <2>1. PICK n \in U : \A m \in U : n <= m
    <3>1. U \subseteq Nat
      OBVIOUS
    <3> QED
      BY <1>1, <3>1, LeastNatural
  <2>2. n # 0 /\ n \in 1 .. N
    OBVIOUS
  <2>3. n - 1 \in 0 .. N - 1 /\ n - 1 \notin U /\ (n - 1) + 1 = n
    BY <2>1, <2>2
  <2> QED
    BY <2>3
<1> QED
  BY <1>1

\* Min() is the least.
LEMMA MinIs ==
    ASSUME NEW T, T \subseteq Nat, T # {}
    PROVE  Min(T) \in T /\ \A m \in T : Min(T) <= m
<1>1. \E n \in T : \A m \in T : n =< m
  BY LeastNatural
<1> QED
  BY <1>1 DEF Min

\* Max() is the greatest of a set that has a bound.
LEMMA MaxIs ==
    ASSUME NEW N \in Nat, NEW T, T \subseteq 1 .. N, T # {}
    PROVE  Max(T) \in T /\ \A m \in T : Max(T) >= m
<1> DEFINE U == {N - m : m \in T}
<1>1. U \subseteq Nat /\ U # {}
  <2>1. \A m \in 1 .. N : N - m \in Nat
    OBVIOUS
  <2>2. U \subseteq Nat
    BY <2>1
  <2>3. U # {}
    OBVIOUS
  <2> QED
    BY <2>2, <2>3
<1>2. PICK u \in U : \A v \in U : u <= v
  BY <1>1, LeastNatural
<1>3. PICK n \in T : u = N - n
  OBVIOUS
<1>4. \A m \in T : N - n <= N - m
  BY <1>2, <1>3
<1>5. \A m \in T : n >= m
  BY <1>4
<1> QED
  BY <1>5 DEF Max

----------------------------------------------------------------------------
(* Sequences.                                                              *)

\* A sequence over a set is one over every larger set.
LEMMA SequencesOver ==
    ASSUME NEW S, NEW T, S \subseteq T, NEW s \in Seq(S)
    PROVE  s \in Seq(T)
OBVIOUS

\* A part of a sequence.
LEMMA Part ==
    ASSUME NEW S, NEW s \in Seq(S), NEW m \in 1 .. Len(s) + 1,
           NEW n \in m - 1 .. Len(s)
    PROVE  /\ SubSeq(s, m, n) \in Seq(S)
           /\ Len(SubSeq(s, m, n)) = n - m + 1
           /\ \A i \in 1 .. n - m + 1 : SubSeq(s, m, n)[i] = s[m + i - 1]
BY SubSeqProperties

\* Two sequences, one behind the other.
LEMMA Joined ==
    ASSUME NEW S, NEW s \in Seq(S), NEW t \in Seq(S)
    PROVE  /\ s \o t \in Seq(S)
           /\ Len(s \o t) = Len(s) + Len(t)
           /\ \A i \in 1 .. Len(s) : (s \o t)[i] = s[i]
           /\ \A i \in 1 .. Len(t) : (s \o t)[Len(s) + i] = t[i]
BY ConcatProperties

\* A sequence is its first n elements and the others.
LEMMA Cut ==
    ASSUME NEW S, NEW s \in Seq(S), NEW n \in 0 .. Len(s)
    PROVE  /\ SubSeq(s, 1, n) \in Seq(S) /\ Len(SubSeq(s, 1, n)) = n
           /\ \A i \in 1 .. n : SubSeq(s, 1, n)[i] = s[i]
           /\ SubSeq(s, n + 1, Len(s)) \in Seq(S)
           /\ Len(SubSeq(s, n + 1, Len(s))) = Len(s) - n
           /\ \A i \in 1 .. Len(s) - n : SubSeq(s, n + 1, Len(s))[i] = s[n + i]
           /\ SubSeq(s, 1, n) \o SubSeq(s, n + 1, Len(s)) = s
<1> DEFINE p == SubSeq(s, 1, n)
           q == SubSeq(s, n + 1, Len(s))
<1>1. Len(s) \in Nat /\ n \in Nat /\ n <= Len(s)
  BY LenProperties
<1>2. /\ p \in Seq(S) /\ Len(p) = n /\ \A i \in 1 .. n : p[i] = s[i]
  <2>1. 1 \in 1 .. Len(s) + 1 /\ n \in 1 - 1 .. Len(s)
    BY <1>1
  <2>2. /\ p \in Seq(S) /\ Len(p) = n - 1 + 1
        /\ \A i \in 1 .. n - 1 + 1 : p[i] = s[1 + i - 1]
    BY <2>1, Part
  <2>3. n - 1 + 1 = n /\ \A i \in 1 .. n : 1 + i - 1 = i
    BY <1>1
  <2> QED
    BY <2>2, <2>3
<1>3. /\ q \in Seq(S) /\ Len(q) = Len(s) - n
      /\ \A i \in 1 .. Len(s) - n : q[i] = s[n + i]
  <2>1. n + 1 \in 1 .. Len(s) + 1 /\ Len(s) \in (n + 1) - 1 .. Len(s)
    BY <1>1
  <2>2. /\ q \in Seq(S) /\ Len(q) = Len(s) - (n + 1) + 1
        /\ \A i \in 1 .. Len(s) - (n + 1) + 1 : q[i] = s[(n + 1) + i - 1]
    BY <2>1, Part
  <2>3. /\ Len(s) - (n + 1) + 1 = Len(s) - n
        /\ \A i \in 1 .. Len(s) - n : (n + 1) + i - 1 = n + i
    BY <1>1
  <2> QED
    BY <2>2, <2>3
<1> HIDE DEF p, q
<1>4. /\ p \o q \in Seq(S) /\ Len(p \o q) = Len(p) + Len(q)
      /\ \A i \in 1 .. Len(p) : (p \o q)[i] = p[i]
      /\ \A i \in 1 .. Len(q) : (p \o q)[Len(p) + i] = q[i]
  BY <1>2, <1>3, Joined
<1>5. Len(p \o q) = Len(s)
  BY <1>1, <1>2, <1>3, <1>4
<1>6. ASSUME NEW i \in 1 .. Len(p \o q)
      PROVE  (p \o q)[i] = s[i]
  <2>1. CASE i \in 1 .. n
    BY <1>2, <1>4, <2>1
  <2>2. CASE i \notin 1 .. n
    <3> DEFINE j == i - n
    <3>1. j \in 1 .. Len(s) - n /\ i = n + j
      BY <1>1, <1>5, <2>2
    <3> HIDE DEF j
    <3> QED
      BY <1>2, <1>3, <1>4, <3>1
  <2> QED
    BY <2>1, <2>2
<1>7. p \o q = s
  BY <1>4, <1>5, <1>6, SeqEqual
<1> QED
  BY <1>2, <1>3, <1>7 DEF p, q

\* What agrees with t in all its places begins t.
LEMMA Prefixed ==
    ASSUME NEW S, NEW s \in Seq(S), NEW t \in Seq(S), Len(s) <= Len(t),
           \A i \in 1 .. Len(s) : t[i] = s[i]
    PROVE  IsPrefix(s, t)
<1>1. /\ Len(s) \in Nat /\ Len(t) \in Nat
      /\ Len(s) \in 0 .. Len(s) /\ Len(s) \in 0 .. Len(t)
  BY LenProperties
<1>2. /\ SubSeq(s, 1, Len(s)) \in Seq(S) /\ Len(SubSeq(s, 1, Len(s))) = Len(s)
      /\ \A i \in 1 .. Len(s) : SubSeq(s, 1, Len(s))[i] = s[i]
  BY <1>1, Cut
<1>3. /\ SubSeq(t, 1, Len(s)) \in Seq(S) /\ Len(SubSeq(t, 1, Len(s))) = Len(s)
      /\ \A i \in 1 .. Len(s) : SubSeq(t, 1, Len(s))[i] = t[i]
  BY <1>1, Cut
<1>4. SubSeq(s, 1, Len(s)) = SubSeq(t, 1, Len(s))
  <2> DEFINE p == SubSeq(s, 1, Len(s))
             q == SubSeq(t, 1, Len(s))
  <2>1. /\ p \in Seq(S) /\ q \in Seq(S) /\ Len(p) = Len(q)
        /\ \A i \in 1 .. Len(p) : p[i] = q[i]
    BY <1>2, <1>3
  <2> HIDE DEF p, q
  <2> QED
    BY <2>1, SeqEqual DEF p, q
<1> QED
  BY <1>4 DEF IsPrefix

----------------------------------------------------------------------------
(* Lines in a stream of bytes.                                             *)

\* b is the lines of ls after the c-th up to the n-th, each with its delimiter;
\* st[k] is where the k-th ends.
Framed(b, ls, c, n, st) ==
    /\ st \in [c .. n -> Nat] /\ st[c] = 0 /\ st[n] = Len(b)
    /\ \A j, k \in c .. n : j <= k => st[j] <= st[k]
    /\ \A k \in c + 1 .. n :
          /\ st[k] = st[k - 1] + Len(ls[k]) + 2
          /\ \A i \in 1 .. Len(ls[k]) : b[st[k - 1] + i] = ls[k][i]
          /\ b[st[k] - 1] = CR /\ b[st[k]] = LF

\* No bytes are no lines.
LEMMA FramedNone ==
    ASSUME NEW ls, NEW c \in Nat
    PROVE  Framed(<<>>, ls, c, c, [k \in c .. c |-> 0])
<1>1. \A k \in c .. c : k = c
  OBVIOUS
<1>2. c + 1 .. c = {}
  OBVIOUS
<1>3. c \in c .. c /\ Len(<<>>) = 0
  OBVIOUS
<1> QED
  BY <1>1, <1>2, <1>3 DEF Framed

\* A line is sent.
LEMMA FramedSend ==
    ASSUME NEW b \in Seq(Bytes \cup {CR, LF}), NEW c \in Nat, NEW n \in Nat, c <= n,
           NEW ls \in Seq(Seq(Bytes)), n + 1 <= Len(ls),
           NEW st, Framed(b, ls, c, n, st)
    PROVE  \E su : Framed(b \o ls[n + 1] \o m_delim, ls, c, n + 1, su)
<1> DEFINE B == Bytes \cup {CR, LF}
           l == ls[n + 1]
           d == b \o l \o m_delim
           L == Len(b) + Len(l) + 2
           su == [k \in c .. n + 1 |-> IF k = n + 1 THEN L ELSE st[k]]
<1>1. /\ l \in Seq(B) /\ m_delim \in Seq(B) /\ Len(m_delim) = 2
      /\ m_delim[1] = CR /\ m_delim[2] = LF
  <2>1. n + 1 \in 1 .. Len(ls)
    BY LenProperties
  <2>2. l \in Seq(Bytes)
    BY <2>1
  <2> QED
    BY <2>2, SequencesOver DEF m_delim
<1>2. /\ b \o l \in Seq(B) /\ Len(b \o l) = Len(b) + Len(l)
      /\ \A i \in 1 .. Len(b) : (b \o l)[i] = b[i]
      /\ \A i \in 1 .. Len(l) : (b \o l)[Len(b) + i] = l[i]
  BY <1>1, Joined
<1>3. /\ d \in Seq(B) /\ Len(d) = Len(b \o l) + 2
      /\ \A i \in 1 .. Len(b \o l) : d[i] = (b \o l)[i]
      /\ \A i \in 1 .. 2 : d[Len(b \o l) + i] = m_delim[i]
  <2>1. /\ d \in Seq(B) /\ Len(d) = Len(b \o l) + Len(m_delim)
        /\ \A i \in 1 .. Len(b \o l) : d[i] = (b \o l)[i]
        /\ \A i \in 1 .. Len(m_delim) : d[Len(b \o l) + i] = m_delim[i]
    <3>1. \A t \in Seq(B) :
             /\ (b \o l) \o t \in Seq(B) /\ Len((b \o l) \o t) = Len(b \o l) + Len(t)
             /\ \A i \in 1 .. Len(b \o l) : ((b \o l) \o t)[i] = (b \o l)[i]
             /\ \A i \in 1 .. Len(t) : ((b \o l) \o t)[Len(b \o l) + i] = t[i]
      BY <1>2, ConcatProperties
    <3> QED
      BY <1>1, <3>1
  <2> HIDE DEF d, l
  <2> QED
    BY <1>1, <2>1
<1> HIDE DEF d, l
<1>4. Len(b) \in Nat /\ Len(l) \in Nat
  BY <1>1, LenProperties
<1>5. /\ Len(d) = L
      /\ \A i \in 1 .. Len(b) : d[i] = b[i]
      /\ \A i \in 1 .. Len(l) : d[Len(b) + i] = l[i]
      /\ d[L - 1] = CR /\ d[L] = LF
  <2>1. Len(d) = L
    BY <1>2, <1>3, <1>4
  <2>2. \A i \in 1 .. Len(b) : i \in 1 .. Len(b \o l)
    BY <1>2, <1>4
  <2>3. \A i \in 1 .. Len(l) : Len(b) + i \in 1 .. Len(b \o l)
    BY <1>2, <1>4
  <2>4. L - 1 = Len(b \o l) + 1 /\ L = Len(b \o l) + 2
    BY <1>2, <1>4
  <2>5. d[Len(b \o l) + 1] = CR /\ d[Len(b \o l) + 2] = LF
    BY <1>1, <1>3
  <2> QED
    BY <1>2, <1>3, <2>1, <2>2, <2>3, <2>4, <2>5
<1>6. /\ st \in [c .. n -> Nat] /\ st[c] = 0 /\ st[n] = Len(b)
      /\ \A j, k \in c .. n : j <= k => st[j] <= st[k]
      /\ \A k \in c + 1 .. n :
            /\ st[k] = st[k - 1] + Len(ls[k]) + 2
            /\ \A i \in 1 .. Len(ls[k]) : b[st[k - 1] + i] = ls[k][i]
            /\ b[st[k] - 1] = CR /\ b[st[k]] = LF
  BY DEF Framed
<1>7. /\ \A k \in c .. n : k \in c .. n + 1 /\ k # n + 1 /\ su[k] = st[k]
      /\ su[n + 1] = L /\ n + 1 \in c .. n + 1
      /\ \A k \in c .. n + 1 : k \in c .. n \/ k = n + 1
      /\ n \in c .. n /\ c \in c .. n
  OBVIOUS
<1>8. L \in Nat /\ L >= Len(b)
  BY <1>4
<1> HIDE DEF L, su
<1>9. su \in [c .. n + 1 -> Nat]
  <2>1. \A k \in c .. n + 1 : su[k] \in Nat
    BY <1>6, <1>7, <1>8
  <2> QED
    BY <2>1 DEF su
<1>10. su[c] = 0 /\ su[n + 1] = Len(d)
  BY <1>5, <1>6, <1>7
<1>11. ASSUME NEW j \in c .. n + 1, NEW k \in c .. n + 1, j <= k
       PROVE  su[j] <= su[k]
  <2>1. CASE k \in c .. n
    <3>1. j \in c .. n
      BY <1>11, <2>1
    <3> QED
      BY <1>6, <1>7, <1>11, <2>1, <3>1
  <2>2. CASE k = n + 1
    <3>1. CASE j = n + 1
      BY <1>7, <1>8, <2>2, <3>1
    <3>2. CASE j \in c .. n
      <4>1. j <= n /\ st[j] \in Nat
        BY <1>6, <3>2
      <4>2. st[j] <= Len(b)
        BY <1>6, <1>7, <3>2, <4>1
      <4> QED
        BY <1>4, <1>7, <1>8, <2>2, <3>2, <4>1, <4>2
    <3> QED
      BY <1>7, <3>1, <3>2
  <2> QED
    BY <1>7, <2>1, <2>2
<1>12. ASSUME NEW k \in c + 1 .. n + 1
       PROVE  /\ su[k] = su[k - 1] + Len(ls[k]) + 2
              /\ \A i \in 1 .. Len(ls[k]) : d[su[k - 1] + i] = ls[k][i]
              /\ d[su[k] - 1] = CR /\ d[su[k]] = LF
  <2>1. CASE k = n + 1
    <3>1. k - 1 = n /\ su[k - 1] = Len(b) /\ su[k] = L /\ ls[k] = l
      BY <1>6, <1>7, <2>1 DEF l
    <3> QED
      BY <1>5, <3>1 DEF L
  <2>2. CASE k # n + 1
    <3>1. k \in c + 1 .. n /\ k \in c .. n /\ k - 1 \in c .. n /\ k <= n
      BY <2>2
    <3>2. /\ su[k] = st[k] /\ su[k - 1] = st[k - 1]
          /\ st[k] \in Nat /\ st[k - 1] \in Nat /\ st[k] <= Len(b)
      BY <1>6, <1>7, <3>1
    <3>3. /\ st[k] = st[k - 1] + Len(ls[k]) + 2
          /\ \A i \in 1 .. Len(ls[k]) : b[st[k - 1] + i] = ls[k][i]
          /\ b[st[k] - 1] = CR /\ b[st[k]] = LF
      BY <1>6, <3>1
    <3>4. Len(ls[k]) \in Nat
      <4>1. k \in 1 .. Len(ls)
        BY <3>1, LenProperties
      <4> QED
        BY <4>1
    <3>5. \A a, v, e, z \in Nat : e = a + v + 2 /\ e <= z =>
             /\ e \in 1 .. z /\ e - 1 \in 1 .. z
             /\ \A i \in 1 .. v : a + i \in 1 .. z
      OBVIOUS
    <3>6. /\ st[k] \in 1 .. Len(b) /\ st[k] - 1 \in 1 .. Len(b)
          /\ \A i \in 1 .. Len(ls[k]) : st[k - 1] + i \in 1 .. Len(b)
      BY <1>4, <3>2, <3>3, <3>4, <3>5
    <3> QED
      BY <1>5, <3>2, <3>3, <3>6
  <2> QED
    BY <2>1, <2>2
<1>13. Framed(d, ls, c, n + 1, su)
  BY <1>9, <1>10, <1>11, <1>12 DEF Framed
<1> QED
  BY <1>13 DEF d, l

\* The first line begins the bytes; no delimiter comes before its own.
LEMMA FramedFirst ==
    ASSUME NEW b \in Seq(Bytes \cup {CR, LF}), NEW c \in Nat, NEW n \in Nat, c < n,
           NEW ls \in Seq(Seq(Bytes)), n <= Len(ls), NEW st, Framed(b, ls, c, n, st)
    PROVE  /\ ls[c + 1] \in Seq(Bytes) /\ Len(ls[c + 1]) \in Nat
           /\ st[c + 1] = Len(ls[c + 1]) + 2 /\ st[c + 1] <= Len(b)
           /\ \A i \in 1 .. Len(ls[c + 1]) : b[i] = ls[c + 1][i] /\ b[i] \in Bytes
           /\ b[Len(ls[c + 1]) + 1] = CR /\ b[Len(ls[c + 1]) + 2] = LF
           /\ n = c + 1 => Len(b) = Len(ls[c + 1]) + 2
<1> DEFINE l == ls[c + 1]
<1>1. c + 1 \in 1 .. Len(ls) /\ Len(b) \in Nat
  BY LenProperties
<1>2. l \in Seq(Bytes) /\ Len(l) \in Nat
  BY <1>1, LenProperties
<1>3. c + 1 \in c + 1 .. n /\ c + 1 \in c .. n /\ c \in c .. n /\ n \in c .. n /\ (c + 1) - 1 = c
  OBVIOUS
<1>4. /\ st[c] = 0 /\ st[n] = Len(b) /\ st[c + 1] <= st[n]
      /\ st[c + 1] = st[c] + Len(l) + 2
      /\ \A i \in 1 .. Len(l) : b[st[c] + i] = l[i]
      /\ b[st[c + 1] - 1] = CR /\ b[st[c + 1]] = LF
  <2>1. /\ st[c + 1] = st[(c + 1) - 1] + Len(l) + 2
        /\ \A i \in 1 .. Len(l) : b[st[(c + 1) - 1] + i] = l[i]
        /\ b[st[c + 1] - 1] = CR /\ b[st[c + 1]] = LF
    BY <1>3 DEF Framed
  <2>2. st[c] = 0 /\ st[n] = Len(b) /\ st[c + 1] <= st[n]
    BY <1>3 DEF Framed
  <2> QED
    BY <1>3, <2>1, <2>2
<1>5. st[c + 1] = Len(l) + 2 /\ st[c + 1] - 1 = Len(l) + 1
  BY <1>2, <1>4
<1>6. \A i \in 1 .. Len(l) : b[i] = l[i] /\ l[i] \in Bytes
  <2>1. \A i \in 1 .. Len(l) : 0 + i = i
    BY <1>2
  <2>2. \A i \in 1 .. Len(l) : l[i] \in Bytes
    BY <1>2
  <2> QED
    BY <1>4, <2>1, <2>2
<1> QED
  BY <1>2, <1>4, <1>5, <1>6

\* The first line is taken away.
LEMMA FramedNext ==
    ASSUME NEW b \in Seq(Bytes \cup {CR, LF}), NEW c \in Nat, NEW n \in Nat, c < n,
           NEW ls \in Seq(Seq(Bytes)), n <= Len(ls), NEW st, Framed(b, ls, c, n, st),
           NEW d, Len(d) = Len(b) - (Len(ls[c + 1]) + 2),
           \A i \in 1 .. Len(d) : d[i] = b[(Len(ls[c + 1]) + 2) + i]
    PROVE  \E su : Framed(d, ls, c + 1, n, su)
<1> DEFINE m == Len(ls[c + 1]) + 2
           su == [k \in c + 1 .. n |-> st[k] - m]
<1>1. m \in Nat /\ m >= 2 /\ st[c + 1] = m /\ Len(b) \in Nat /\ m <= Len(b)
  <2>1. /\ Len(ls[c + 1]) \in Nat
        /\ st[c + 1] = Len(ls[c + 1]) + 2 /\ st[c + 1] <= Len(b)
    <3>1. Len(ls[c + 1]) \in Nat
      BY FramedFirst
    <3>2. st[c + 1] = Len(ls[c + 1]) + 2
      BY FramedFirst
    <3>3. st[c + 1] <= Len(b)
      BY FramedFirst
    <3> QED
      BY <3>1, <3>2, <3>3
  <2>2. Len(b) \in Nat
    BY LenProperties
  <2> QED
    BY <2>1, <2>2, SMTT(30)
<1>2. /\ st \in [c .. n -> Nat] /\ st[n] = Len(b)
      /\ \A j, k \in c .. n : j <= k => st[j] <= st[k]
      /\ \A k \in c + 1 .. n :
            /\ st[k] = st[k - 1] + Len(ls[k]) + 2
            /\ \A i \in 1 .. Len(ls[k]) : b[st[k - 1] + i] = ls[k][i]
            /\ b[st[k] - 1] = CR /\ b[st[k]] = LF
  BY DEF Framed
<1>3. Len(d) = Len(b) - m /\ \A i \in 1 .. Len(d) : d[i] = b[m + i]
  OBVIOUS
<1> HIDE DEF m
<1>4. \A k \in c + 1 .. n : /\ k \in c .. n /\ st[k] \in Nat /\ su[k] = st[k] - m
                            /\ m <= st[k] /\ st[k] <= Len(b)
  <2> SUFFICES ASSUME NEW k \in c + 1 .. n
               PROVE  /\ k \in c .. n /\ st[k] \in Nat /\ su[k] = st[k] - m
                      /\ m <= st[k] /\ st[k] <= Len(b)
    OBVIOUS
  <2>1. k \in c .. n /\ c + 1 \in c .. n /\ c + 1 <= k /\ n \in c .. n /\ k <= n
    OBVIOUS
  <2>2. st[c + 1] <= st[k] /\ st[k] <= st[n]
    BY <1>2, <2>1
  <2> QED
    BY <1>1, <1>2, <2>1, <2>2
<1> HIDE DEF su
<1>5. \A k \in c + 1 .. n : su[k] \in Nat
  <2>1. \A e \in Nat : m <= e => e - m \in Nat
    BY <1>1
  <2> QED
    BY <1>4, <2>1
<1>6. su \in [c + 1 .. n -> Nat]
  BY <1>5 DEF su
<1>7. su[c + 1] = 0 /\ su[n] = Len(d)
  <2>1. c + 1 \in c + 1 .. n /\ n \in c + 1 .. n
    OBVIOUS
  <2>2. su[c + 1] = st[c + 1] - m /\ su[n] = st[n] - m
    BY <1>4, <2>1
  <2>3. su[c + 1] = 0
    BY <1>1, <2>2
  <2> QED
    BY <1>2, <1>3, <2>2, <2>3
<1>8. ASSUME NEW j \in c + 1 .. n, NEW k \in c + 1 .. n, j <= k
      PROVE  su[j] <= su[k]
  <2>1. st[j] <= st[k]
    BY <1>2, <1>4, <1>8
  <2> QED
    BY <1>1, <1>4, <2>1
<1>9. ASSUME NEW k \in (c + 1) + 1 .. n
      PROVE  /\ su[k] = su[k - 1] + Len(ls[k]) + 2
             /\ \A i \in 1 .. Len(ls[k]) : d[su[k - 1] + i] = ls[k][i]
             /\ d[su[k] - 1] = CR /\ d[su[k]] = LF
  <2>1. k \in c + 1 .. n /\ k - 1 \in c + 1 .. n /\ k \in 1 .. Len(ls)
    BY LenProperties
  <2>2. Len(ls[k]) \in Nat
    BY <2>1
  <2>3. /\ st[k] \in Nat /\ st[k - 1] \in Nat
        /\ su[k] = st[k] - m /\ su[k - 1] = st[k - 1] - m
        /\ m <= st[k] /\ m <= st[k - 1] /\ st[k] <= Len(b)
    BY <1>4, <2>1
  <2>4. /\ st[k] = st[k - 1] + Len(ls[k]) + 2
        /\ \A i \in 1 .. Len(ls[k]) : b[st[k - 1] + i] = ls[k][i]
        /\ b[st[k] - 1] = CR /\ b[st[k]] = LF
    BY <1>2, <2>1
  <2>5. \A a, v, e, z, x \in Nat : e = a + v + 2 /\ e <= z /\ x <= a =>
           /\ e - x \in 1 .. z - x /\ (e - x) - 1 \in 1 .. z - x
           /\ x + (e - x) = e /\ x + ((e - x) - 1) = e - 1
           /\ e - x = (a - x) + v + 2
           /\ \A i \in 1 .. v : (a - x) + i \in 1 .. z - x /\ x + ((a - x) + i) = a + i
    OBVIOUS
  <2>6. /\ st[k] - m \in 1 .. Len(b) - m /\ (st[k] - m) - 1 \in 1 .. Len(b) - m
        /\ m + (st[k] - m) = st[k] /\ m + ((st[k] - m) - 1) = st[k] - 1
        /\ st[k] - m = (st[k - 1] - m) + Len(ls[k]) + 2
        /\ \A i \in 1 .. Len(ls[k]) : /\ (st[k - 1] - m) + i \in 1 .. Len(b) - m
                                      /\ m + ((st[k - 1] - m) + i) = st[k - 1] + i
    <3>1. PICK a \in Nat : a = st[k - 1]
      BY <2>3
    <3>2. PICK e \in Nat : e = st[k]
      BY <2>3
    <3>3. PICK v \in Nat : v = Len(ls[k])
      BY <2>2
    <3>4. PICK z \in Nat : z = Len(b)
      BY <1>1
    <3>5. PICK x \in Nat : x = m
      BY <1>1
    <3>6. e = a + v + 2 /\ e <= z /\ x <= a
      BY <2>3, <2>4, <3>1, <3>2, <3>3, <3>4, <3>5
    <3>7. /\ e - x \in 1 .. z - x /\ (e - x) - 1 \in 1 .. z - x
          /\ x + (e - x) = e /\ x + ((e - x) - 1) = e - 1
          /\ e - x = (a - x) + v + 2
          /\ \A i \in 1 .. v : (a - x) + i \in 1 .. z - x /\ x + ((a - x) + i) = a + i
      BY <2>5, <3>6
    <3> QED
      BY <3>1, <3>2, <3>3, <3>4, <3>5, <3>7
  <2>7. /\ su[k] \in 1 .. Len(d) /\ su[k] - 1 \in 1 .. Len(d)
        /\ m + su[k] = st[k] /\ m + (su[k] - 1) = st[k] - 1
        /\ su[k] = su[k - 1] + Len(ls[k]) + 2
        /\ \A i \in 1 .. Len(ls[k]) :
              su[k - 1] + i \in 1 .. Len(d) /\ m + (su[k - 1] + i) = st[k - 1] + i
    BY <1>3, <2>3, <2>6
  <2> QED
    BY <1>3, <2>4, <2>7, ZenonT(60)
<1>10. Framed(d, ls, c + 1, n, su)
  BY <1>6, <1>7, <1>8, <1>9 DEF Framed
<1> QED
  BY <1>10

----------------------------------------------------------------------------
(* What FlattenSeq() returns: a recursive function exists, by induction.   *)

\* g[i] is the first i sequences of s, one behind the other.
Flat(g, s) == g = [i \in 1 .. Len(s) |-> IF i = 1 THEN s[i] ELSE g[i - 1] \o s[i]]

\* There is such a function, of sequences.
LEMMA FlatExists ==
    ASSUME NEW S, NEW s \in Seq(Seq(S))
    PROVE  \E g \in [1 .. Len(s) -> Seq(S)] : Flat(g, s)
<1> DEFINE Upto(n, g) == \A i \in 1 .. n : g[i] = IF i = 1 THEN s[i] ELSE g[i - 1] \o s[i]
           T == {n \in 0 .. Len(s) : \E g \in [1 .. n -> Seq(S)] : Upto(n, g)}
<1>1. Len(s) \in Nat /\ \A i \in 1 .. Len(s) : s[i] \in Seq(S)
  BY LenProperties
<1>2. 0 \in T
  <2>1. [i \in 1 .. 0 |-> <<>>] \in [1 .. 0 -> Seq(S)] /\ 0 \in 0 .. Len(s)
    BY <1>1
  <2>2. Upto(0, [i \in 1 .. 0 |-> <<>>])
    OBVIOUS
  <2> QED
    BY <2>1, <2>2
<1>3. ASSUME NEW n \in 0 .. Len(s) - 1, n \in T
      PROVE  n + 1 \in T
  <2>1. PICK g \in [1 .. n -> Seq(S)] : Upto(n, g)
    BY <1>3
  <2> DEFINE x == IF n = 0 THEN s[1] ELSE g[n] \o s[n + 1]
             h == [i \in 1 .. n + 1 |-> IF i = n + 1 THEN x ELSE g[i]]
  <2>2. n \in Nat /\ n + 1 \in 1 .. Len(s) /\ n + 1 \in 0 .. Len(s) /\ (n # 0 => n \in 1 .. n)
    BY <1>1
  <2>3. x \in Seq(S)
    <3>1. CASE n = 0
      BY <1>1, <2>2, <3>1
    <3>2. CASE n # 0
      <4>1. g[n] \in Seq(S) /\ s[n + 1] \in Seq(S)
        BY <1>1, <2>2, <3>2
      <4> QED
        BY <3>2, <4>1, Joined
    <3> QED
      BY <3>1, <3>2
  <2> HIDE DEF x
  <2>4. \A i \in 1 .. n + 1 : i \in 1 .. n \/ i = n + 1
    BY <2>2
  <2>5. /\ \A i \in 1 .. n : h[i] = g[i]
        /\ h[n + 1] = x /\ n + 1 \in 1 .. n + 1
    BY <2>2
  <2>6. h \in [1 .. n + 1 -> Seq(S)]
    BY <2>3, <2>4
  <2> HIDE DEF h
  <2>7. Upto(n + 1, h)
    <3> SUFFICES ASSUME NEW i \in 1 .. n + 1
                 PROVE  h[i] = IF i = 1 THEN s[i] ELSE h[i - 1] \o s[i]
      OBVIOUS
    <3>1. CASE i \in 1 .. n
      <4>1. i # 1 => i - 1 \in 1 .. n
        BY <2>2, <3>1
      <4>2. g[i] = IF i = 1 THEN s[i] ELSE g[i - 1] \o s[i]
        BY <2>1, <3>1
      <4> QED
        BY <2>5, <3>1, <4>1, <4>2
    <3>2. CASE i = n + 1
      <4>1. i - 1 = n /\ (i = 1 <=> n = 0)
        BY <2>2, <3>2
      <4>2. CASE n = 0
        BY <2>5, <3>2, <4>2 DEF x
      <4>3. CASE n # 0
        <5>1. h[n] = g[n]
          BY <2>2, <2>5, <4>3
        <5> QED
          BY <2>5, <3>2, <4>1, <4>3, <5>1 DEF x
      <4> QED
        BY <4>2, <4>3
    <3> QED
      BY <2>4, <3>1, <3>2
  <2> QED
    BY <2>2, <2>6, <2>7
<1>4. Len(s) \in T
  <2> HIDE DEF T
  <2>1. 0 .. Len(s) \subseteq T
    BY <1>1, <1>2, <1>3, Induction
  <2> QED
    BY <1>1, <2>1
<1>5. PICK g \in [1 .. Len(s) -> Seq(S)] : Upto(Len(s), g)
  BY <1>4
<1>6. Flat(g, s)
  BY <1>5 DEF Flat
<1> QED
  BY <1>6

\* And its last value is what FlattenSeq() returns.
LEMMA FlattenIs ==
    ASSUME NEW S, NEW s \in Seq(Seq(S)), s # <<>>
    PROVE  \E g : Flat(g, s) /\ FlattenSeq(s) = g[Len(s)]
<1> DEFINE f == CHOOSE g : Flat(g, s)
<1>1. Len(s) # 0
  BY EmptySeq
<1>2. FlattenSeq(s) = f[Len(s)]
  BY <1>1 DEF FlattenSeq, Flat
<1>3. Flat(f, s)
  BY FlatExists
<1> QED
  BY <1>2, <1>3

\* Such a function is one of sequences.
LEMMA FlatTyped ==
    ASSUME NEW S, NEW s \in Seq(Seq(S)), NEW g, Flat(g, s)
    PROVE  \A i \in 1 .. Len(s) : g[i] \in Seq(S)
<1> DEFINE T == {n \in 0 .. Len(s) : n = 0 \/ g[n] \in Seq(S)}
<1>1. Len(s) \in Nat /\ \A i \in 1 .. Len(s) : s[i] \in Seq(S)
  BY LenProperties
<1>2. \A i \in 1 .. Len(s) : g[i] = IF i = 1 THEN s[i] ELSE g[i - 1] \o s[i]
  BY DEF Flat
<1>3. ASSUME NEW n \in 0 .. Len(s) - 1, n \in T
      PROVE  n + 1 \in T
  <2>1. /\ n + 1 \in 1 .. Len(s) /\ (n + 1) - 1 = n /\ n + 1 \in 0 .. Len(s)
        /\ n # 0 => n + 1 # 1
    BY <1>1
  <2>2. s[n + 1] \in Seq(S)
    BY <1>1, <2>1
  <2>3. CASE n = 0
    BY <1>2, <2>1, <2>2, <2>3
  <2>4. CASE n # 0
    <3>1. g[n + 1] = g[n] \o s[n + 1]
      BY <1>2, <2>1, <2>4
    <3>2. g[n] \in Seq(S)
      BY <1>3, <2>4
    <3>3. g[n + 1] \in Seq(S)
      BY <2>2, <3>1, <3>2, Joined
    <3> QED
      BY <2>1, <3>3
  <2> QED
    BY <2>3, <2>4
<1>4. 0 \in T
  BY <1>1
<1>5. 0 .. Len(s) \subseteq T
  <2> HIDE DEF T
  <2> QED
    BY <1>1, <1>3, <1>4, Induction
<1>6. \A i \in 1 .. Len(s) : i \in 0 .. Len(s) /\ i # 0
  BY <1>1
<1> QED
  BY <1>5, <1>6

\* Sequences of elements of S, one behind the other, are such a sequence.
LEMMA FlattenTyped ==
    ASSUME NEW S, NEW s \in Seq(Seq(S))
    PROVE  FlattenSeq(s) \in Seq(S)
<1>1. CASE s = <<>>
  <2>1. Len(s) = 0
    BY <1>1
  <2> QED
    BY <1>1, <2>1 DEF FlattenSeq
<1>2. CASE s # <<>>
  <2>1. PICK g : Flat(g, s) /\ FlattenSeq(s) = g[Len(s)]
    BY <1>2, FlattenIs
  <2>2. Len(s) \in 1 .. Len(s)
    <3>1. Len(s) \in Nat \ {0}
      BY <1>2, EmptySeq
    <3> QED
      BY <3>1
  <2> QED
    BY <2>1, <2>2, FlatTyped
<1> QED
  BY <1>1, <1>2

\* No sequences flatten to none.
LEMMA FlattenNone == FlattenSeq(<<>>) = <<>>
<1>1. Len(<<>>) = 0
  OBVIOUS
<1> QED
  BY <1>1 DEF FlattenSeq

\* One sequence more.
LEMMA FlattenAppend ==
    ASSUME NEW S, NEW s \in Seq(Seq(S)), NEW x \in Seq(S)
    PROVE  FlattenSeq(Append(s, x)) = FlattenSeq(s) \o x
<1> DEFINE a == Append(s, x)
           N == Len(s)
<1>1. /\ a \in Seq(Seq(S)) /\ Len(a) = N + 1 /\ a[N + 1] = x
      /\ \A i \in 1 .. N : a[i] = s[i]
  BY AppendProperties
<1>2. N \in Nat
  BY LenProperties
<1>3. a # <<>>
  <2>1. Len(a) # Len(<<>>)
    BY <1>1, <1>2
  <2> QED
    BY <2>1
<1> HIDE DEF a
<1>4. PICK h : Flat(h, a) /\ FlattenSeq(a) = h[N + 1]
  BY <1>1, <1>3, FlattenIs
<1>5. \A i \in 1 .. N + 1 : h[i] = IF i = 1 THEN a[i] ELSE h[i - 1] \o a[i]
  BY <1>1, <1>4 DEF Flat
<1>6. CASE s = <<>>
  <2>1. N = 0 /\ 1 \in 1 .. N + 1 /\ N + 1 = 1
    BY <1>6
  <2>2. FlattenSeq(a) = x
    BY <1>1, <1>4, <1>5, <2>1
  <2>3. FlattenSeq(s) \o x = x
    BY <1>6, FlattenNone, ConcatEmptySeq
  <2> QED
    BY <2>2, <2>3 DEF a
<1>7. CASE s # <<>>
  <2>1. PICK g : Flat(g, s) /\ FlattenSeq(s) = g[N]
    BY <1>7, FlattenIs
  <2>2. \A i \in 1 .. N : g[i] = IF i = 1 THEN s[i] ELSE g[i - 1] \o s[i]
    BY <2>1 DEF Flat
  <2>3. N # 0
    BY <1>7, EmptySeq
  <2> HIDE DEF N
  <2> DEFINE T == {n \in 0 .. N : n = 0 \/ h[n] = g[n]}
  <2>4. ASSUME NEW n \in 0 .. N - 1, n \in T
        PROVE  n + 1 \in T
    <3>1. /\ n + 1 \in 1 .. N /\ n + 1 \in 1 .. N + 1 /\ (n + 1) - 1 = n
          /\ n + 1 \in 0 .. N /\ (n = 0 <=> n + 1 = 1)
      BY <1>2
    <3>2. h[n + 1] = IF n = 0 THEN s[n + 1] ELSE h[n] \o s[n + 1]
      BY <1>1, <1>5, <3>1
    <3>3. g[n + 1] = IF n = 0 THEN s[n + 1] ELSE g[n] \o s[n + 1]
      BY <2>2, <3>1
    <3>4. h[n + 1] = g[n + 1]
      BY <2>4, <3>2, <3>3
    <3> QED
      BY <3>1, <3>4
  <2>5. 0 \in T
    BY <1>2
  <2>6. 0 .. N \subseteq T
    <3> HIDE DEF T
    <3> QED
      BY <1>2, <2>4, <2>5, Induction
  <2>7. h[N] = g[N]
    BY <1>2, <2>3, <2>6
  <2>8. h[N + 1] = h[N] \o x
    <3>1. N + 1 \in 1 .. N + 1 /\ N + 1 # 1 /\ (N + 1) - 1 = N
      BY <1>2, <2>3
    <3> QED
      BY <1>1, <1>5, <3>1
  <2> QED
    BY <1>4, <2>1, <2>7, <2>8 DEF a
<1> QED
  BY <1>6, <1>7

\* More sequences.
LEMMA FlattenJoin ==
    ASSUME NEW S, NEW s \in Seq(Seq(S)), NEW t \in Seq(Seq(S))
    PROVE  FlattenSeq(s \o t) = FlattenSeq(s) \o FlattenSeq(t)
<1> DEFINE N == Len(t)
           u(n) == SubSeq(t, 1, n)
           T == {n \in 0 .. N : FlattenSeq(s \o u(n)) = FlattenSeq(s) \o FlattenSeq(u(n))}
<1>1. N \in Nat
  BY LenProperties
<1>2. 0 \in T
  <2>1. u(0) = <<>>
    <3>1. 0 \in 0 .. Len(t)
      BY <1>1
    <3>2. u(0) \in Seq(Seq(S)) /\ Len(u(0)) = 0
      BY <3>1, Cut
    <3> QED
      BY <3>2, EmptySeq
  <2>2. s \o <<>> = s /\ FlattenSeq(s) \o <<>> = FlattenSeq(s)
    BY ConcatEmptySeq, FlattenTyped
  <2>3. FlattenSeq(s \o u(0)) = FlattenSeq(s) \o FlattenSeq(u(0))
    BY <2>1, <2>2, FlattenNone
  <2> QED
    BY <1>1, <2>3
<1>3. ASSUME NEW n \in 0 .. N - 1, n \in T
      PROVE  n + 1 \in T
  <2>1. n \in 0 .. N /\ n + 1 \in 1 .. N /\ n + 1 \in 0 .. N /\ n \in Nat
    BY <1>1
  <2>2. /\ u(n) \in Seq(Seq(S)) /\ Len(u(n)) = n
        /\ \A i \in 1 .. n : u(n)[i] = t[i]
    BY <2>1, Cut
  <2>3. /\ u(n + 1) \in Seq(Seq(S)) /\ Len(u(n + 1)) = n + 1
        /\ \A i \in 1 .. n + 1 : u(n + 1)[i] = t[i]
    BY <2>1, Cut
  <2>4. t[n + 1] \in Seq(S)
    BY <2>1
  <2>5. FlattenSeq(s \o u(n)) = FlattenSeq(s) \o FlattenSeq(u(n))
    BY <1>3
  <2> DEFINE v == u(n)
             w == u(n + 1)
             x == t[n + 1]
  <2>6. FlattenSeq(s \o v) = FlattenSeq(s) \o FlattenSeq(v) /\ x \in Seq(S)
    BY <2>4, <2>5
  <2>7. /\ v \in Seq(Seq(S)) /\ Len(v) = n /\ w \in Seq(Seq(S)) /\ Len(w) = n + 1
        /\ w[n + 1] = x /\ \A i \in 1 .. n : w[i] = v[i]
    <3>1. n + 1 \in 1 .. n + 1 /\ \A i \in 1 .. n : i \in 1 .. n + 1
      BY <2>1
    <3> QED
      BY <2>2, <2>3, <3>1
  <2> HIDE DEF u, v, x, w
  <2>8. w = Append(v, x)
    <3>1. /\ Append(v, x) \in Seq(Seq(S)) /\ Len(Append(v, x)) = n + 1
          /\ \A i \in 1 .. n : Append(v, x)[i] = v[i]
          /\ Append(v, x)[n + 1] = x
      BY <2>6, <2>7, AppendProperties
    <3>2. ASSUME NEW i \in 1 .. Len(w)
          PROVE  w[i] = Append(v, x)[i]
      <4>1. i \in 1 .. n \/ i = n + 1
        BY <2>1, <2>7
      <4> QED
        BY <2>7, <3>1, <4>1
    <3> QED
      BY <2>7, <3>1, <3>2, SeqEqual
  <2>9. s \o w = Append(s \o v, x)
    <3>1. Append(v, x) = v \o <<x>> /\ v \in Seq(Seq(S)) /\ <<x>> \in Seq(Seq(S))
      BY <2>6, <2>7, AppendIsConcat
    <3>2. (s \o v) \o <<x>> = s \o (v \o <<x>>)
      <4>1. PICK Q : Q = Seq(S)
        OBVIOUS
      <4>2. s \in Seq(Q) /\ v \in Seq(Q) /\ <<x>> \in Seq(Q)
        BY <3>1, <4>1
      <4>3. \A e, f, h \in Seq(Q) : (e \o f) \o h = e \o (f \o h)
        BY ConcatAssociative, SMTT(30)
      <4> QED
        BY <4>2, <4>3
    <3>3. s \o v \in Seq(Seq(S))
      BY <2>7, Joined
    <3>4. Append(s \o v, x) = (s \o v) \o <<x>>
      BY <2>6, <3>3, AppendIsConcat
    <3> QED
      BY <2>8, <3>1, <3>2, <3>4
  <2>10. FlattenSeq(s \o w) = FlattenSeq(s \o v) \o x
    <3>1. s \o v \in Seq(Seq(S))
      BY <2>7, Joined
    <3> QED
      BY <2>6, <2>9, <3>1, FlattenAppend
  <2>11. FlattenSeq(w) = FlattenSeq(v) \o x
    BY <2>6, <2>7, <2>8, FlattenAppend
  <2>12. (FlattenSeq(s) \o FlattenSeq(v)) \o x = FlattenSeq(s) \o (FlattenSeq(v) \o x)
    <3>1. FlattenSeq(s) \in Seq(S) /\ FlattenSeq(v) \in Seq(S)
      BY <2>7, FlattenTyped
    <3>2. \A e, f, h \in Seq(S) : (e \o f) \o h = e \o (f \o h)
      BY ConcatAssociative, SMTT(30)
    <3> QED
      BY <2>6, <3>1, <3>2
  <2>13. FlattenSeq(s \o w) = FlattenSeq(s) \o FlattenSeq(w)
    BY <2>6, <2>10, <2>11, <2>12
  <2> QED
    BY <2>1, <2>13 DEF w
<1>4. N \in T
  <2> HIDE DEF T, N
  <2>1. 0 .. N \subseteq T
    BY <1>1, <1>2, <1>3, Induction
  <2> QED
    BY <1>1, <2>1
<1>5. u(N) = t
  <2>1. N \in 0 .. Len(t)
    BY <1>1
  <2>2. /\ u(N) \in Seq(Seq(S)) /\ Len(u(N)) = N
        /\ \A i \in 1 .. N : u(N)[i] = t[i]
    BY <2>1, Cut, SMTT(30)
  <2> HIDE DEF u
  <2> QED
    BY <2>2, SeqEqual
<1> QED
  BY <1>4, <1>5

----------------------------------------------------------------------------
(* The parts that Split() returns.                                         *)

\* Front() and Last() take a sequence apart.
LEMMA FrontLast ==
    ASSUME NEW S, NEW s \in Seq(S), s # <<>>
    PROVE  /\ Front(s) \in Seq(S) /\ Last(s) \in S
           /\ s = Front(s) \o <<Last(s)>>
<1>1. Len(s) \in Nat \ {0}
  BY EmptySeq
<1>2. Len(s) - 1 \in 0 .. Len(s) /\ (Len(s) - 1) + 1 = Len(s) /\ Len(s) \in 1 .. Len(s)
  BY <1>1, SMTT(30)
<1>3. /\ Front(s) \in Seq(S)
      /\ Front(s) \o SubSeq(s, (Len(s) - 1) + 1, Len(s)) = s
      /\ SubSeq(s, (Len(s) - 1) + 1, Len(s)) \in Seq(S)
      /\ Len(SubSeq(s, (Len(s) - 1) + 1, Len(s))) = Len(s) - (Len(s) - 1)
      /\ \A i \in 1 .. Len(s) - (Len(s) - 1) :
            SubSeq(s, (Len(s) - 1) + 1, Len(s))[i] = s[(Len(s) - 1) + i]
  BY <1>2, Cut, ZenonT(60) DEF Front
<1>4. Last(s) \in S /\ Last(s) = s[Len(s)]
  BY <1>2 DEF Last
<1>5. SubSeq(s, Len(s), Len(s)) = <<Last(s)>>
  <2> DEFINE q == SubSeq(s, Len(s), Len(s))
  <2>1. q \in Seq(S) /\ Len(q) = 1 /\ q[1] = Last(s)
    <3>1. Len(s) - (Len(s) - 1) = 1 /\ (Len(s) - 1) + 1 = Len(s) /\ 1 \in 1 .. 1
      BY <1>1
    <3> QED
      BY <1>3, <1>4, <3>1
  <2>2. /\ <<Last(s)>> \in Seq(S) /\ Len(<<Last(s)>>) = 1 /\ <<Last(s)>>[1] = Last(s)
    BY <1>4
  <2>3. \A i \in 1 .. 1 : i = 1
    OBVIOUS
  <2> HIDE DEF q
  <2> QED
    BY <2>1, <2>2, <2>3, SeqEqual DEF q
<1> QED
  BY <1>2, <1>3, <1>4, <1>5

\* A name for the provers, who then see no more of \o than what is cited.
Cat(x, y) == x \o y

\* It does not matter which two of three are put together first.
LEMMA Associative ==
    ASSUME NEW S, NEW e \in Seq(S), NEW f \in Seq(S), NEW h \in Seq(S)
    PROVE  Cat(Cat(e, f), h) = Cat(e, Cat(f, h)) /\ Cat(e, f) \in Seq(S)
<1>1. Cat(Cat(e, f), h) = Cat(e, Cat(f, h))
  BY ConcatAssociative DEF Cat
<1>2. Cat(e, f) \in Seq(S)
  BY ConcatProperties DEF Cat
<1> QED
  BY <1>1, <1>2

\* Two are one behind the other.
LEMMA PairIs ==
    ASSUME NEW S, NEW y \in S, NEW z \in S
    PROVE  <<y, z>> = <<y>> \o <<z>> /\ <<y, z>> \in Seq(S)
<1>1. <<y>> \in Seq(S) /\ <<z>> \in Seq(S) /\ <<y, z>> \in Seq(S)
  OBVIOUS
<1>2. /\ Len(<<y>> \o <<z>>) = 2 /\ <<y>> \o <<z>> \in Seq(S)
      /\ (<<y>> \o <<z>>)[1] = y /\ (<<y>> \o <<z>>)[2] = z
  <2>1. <<y>> \o <<z>> = Append(<<y>>, z)
    BY <1>1, AppendIsConcat
  <2>2. Len(<<y>>) = 1 /\ <<y>>[1] = y
    OBVIOUS
  <2> QED
    BY <1>1, <2>1, <2>2, AppendProperties
<1>3. Len(<<y, z>>) = 2 /\ <<y, z>>[1] = y /\ <<y, z>>[2] = z
  OBVIOUS
<1>4. \A i \in 1 .. 2 : i = 1 \/ i = 2
  OBVIOUS
<1> QED
  BY <1>1, <1>2, <1>3, <1>4, SeqEqual

\* Two elements more are one more, and one more.
LEMMA TwoMore ==
    ASSUME NEW S, NEW a \in Seq(S), NEW y \in S, NEW z \in S
    PROVE  Cat(a, <<y, z>>) = Cat(Cat(a, <<y>>), <<z>>)
<1>1. <<y, z>> = <<y>> \o <<z>> /\ <<y>> \in Seq(S) /\ <<z>> \in Seq(S)
  BY PairIs
<1>2. PICK e \in Seq(S) : e = <<y>>
  BY <1>1
<1>3. PICK f \in Seq(S) : f = <<z>>
  BY <1>1
<1>4. Cat(Cat(a, e), f) = Cat(a, Cat(e, f))
  BY Associative
<1> QED
  BY <1>1, <1>2, <1>3, <1>4 DEF Cat

\* The last element of a sequence that ends with x.
LEMMA EndsWith ==
    ASSUME NEW S, NEW s \in Seq(S), NEW x \in S
    PROVE  /\ s \o <<x>> \in Seq(S) /\ s \o <<x>> # <<>>
           /\ Last(s \o <<x>>) = x /\ Front(s \o <<x>>) = s
<1>1. <<x>> \in Seq(S) /\ Len(<<x>>) = 1 /\ Len(s) \in Nat
  BY LenProperties
<1> DEFINE t == s \o <<x>>
<1>2. /\ t \in Seq(S) /\ Len(t) = Len(s) + 1 /\ t[Len(s) + 1] = x
      /\ \A i \in 1 .. Len(s) : t[i] = s[i]
  <2>1. /\ t = Append(s, x)
    BY AppendIsConcat
  <2> QED
    BY <2>1, AppendProperties
<1> HIDE DEF t
<1>3. t # <<>> /\ Last(t) = x
  <2>1. Len(t) # Len(<<>>)
    BY <1>1, <1>2
  <2> QED
    BY <1>2, <2>1 DEF Last
<1>4. Front(t) = s
  <2>1. Len(s) \in 0 .. Len(t) /\ Len(t) - 1 = Len(s)
    BY <1>1, <1>2
  <2>2. /\ Front(t) \in Seq(S) /\ Len(Front(t)) = Len(s)
        /\ \A i \in 1 .. Len(s) : Front(t)[i] = t[i]
    BY <1>2, <2>1, Cut DEF Front
  <2> QED
    BY <1>2, <2>2, SeqEqual
<1> QED
  BY <1>2, <1>3, <1>4 DEF t

\* The parts q of the first n - 1 bytes of s become those of the first n.
Grown(q, s, n) == IF n - 1 \in Delims(s)
                  THEN Front(q) \o <<Front(Last(q)), <<>>>>
                  ELSE Front(q) \o <<Append(Last(q), s[n])>>

\* What holds of the parts of the first n bytes: the last ends as they do.
Good(q, s, n, S) ==
    /\ q \in Seq(Seq(S)) /\ q # <<>>
    /\ n # 0 /\ s[n] = CR => Last(q) # <<>> /\ Last(Last(q)) = CR

\* It still holds with a byte more.
LEMMA GoodGrown ==
    ASSUME NEW S, NEW s \in Seq(S), NEW n \in 1 .. Len(s), NEW q, Good(q, s, n - 1, S)
    PROVE  Good(Grown(q, s, n), s, n, S)
<1>1. q \in Seq(Seq(S)) /\ q # <<>> /\ s[n] \in S /\ Len(s) \in Nat
  BY LenProperties DEF Good
<1>2. Front(q) \in Seq(Seq(S)) /\ Last(q) \in Seq(S)
  BY <1>1, FrontLast
<1>3. CASE n - 1 \in Delims(s)
  <2>1. n - 1 # 0 /\ s[n - 1] = CR /\ s[n] = LF
    BY <1>1, <1>3 DEF Delims
  <2>2. Last(q) # <<>>
    BY <2>1 DEF Good
  <2>3. Front(Last(q)) \in Seq(S)
    BY <1>2, <2>2, FrontLast
  <2>4. Grown(q, s, n) = Front(q) \o <<Front(Last(q)), <<>>>>
    BY <1>3 DEF Grown
  <2>5. Grown(q, s, n) = (Front(q) \o <<Front(Last(q))>>) \o <<<<>>>>
    <3> DEFINE a == Front(q)
               y == Front(Last(q))
               z == <<>>
    <3>1. PICK Q : Q = Seq(S)
      OBVIOUS
    <3>2. a \in Seq(Q) /\ y \in Q /\ z \in Q
      BY <1>2, <2>3, <3>1
    <3> HIDE DEF a, y, z
    <3>3. Cat(a, <<y, z>>) = Cat(Cat(a, <<y>>), <<z>>)
      BY <3>2, TwoMore
    <3> QED
      BY <2>4, <3>3 DEF a, y, z, Cat
  <2>6. Front(q) \o <<Front(Last(q))>> \in Seq(Seq(S))
    BY <1>2, <2>3, EndsWith
  <2>7. <<>> \in Seq(S)
    OBVIOUS
  <2>8. Grown(q, s, n) \in Seq(Seq(S)) /\ Grown(q, s, n) # <<>>
    BY <2>5, <2>6, <2>7, EndsWith
  <2> QED
    BY <2>1, <2>8, FramingAssumption DEF Good
<1>4. CASE n - 1 \notin Delims(s)
  <2>1. Grown(q, s, n) = Front(q) \o <<Append(Last(q), s[n])>>
    BY <1>4 DEF Grown
  <2>2. /\ Append(Last(q), s[n]) \in Seq(S)
        /\ Append(Last(q), s[n]) = Last(q) \o <<s[n]>>
    BY <1>1, <1>2, AppendProperties, AppendIsConcat
  <2>3. /\ Append(Last(q), s[n]) # <<>>
        /\ Last(Append(Last(q), s[n])) = s[n]
    BY <1>1, <1>2, <2>2, EndsWith
  <2>4. /\ Grown(q, s, n) \in Seq(Seq(S)) /\ Grown(q, s, n) # <<>>
        /\ Last(Grown(q, s, n)) = Append(Last(q), s[n])
    <3>1. PICK Q : Q = Seq(S)
      OBVIOUS
    <3>2. PICK y : y = Append(Last(q), s[n])
      OBVIOUS
    <3>3. Front(q) \in Seq(Q) /\ y \in Q
      BY <1>2, <2>2, <3>1, <3>2
    <3>4. /\ Front(q) \o <<y>> \in Seq(Q) /\ Front(q) \o <<y>> # <<>>
          /\ Last(Front(q) \o <<y>>) = y
      BY <3>3, EndsWith
    <3> QED
      BY <2>1, <3>1, <3>2, <3>4
  <2> QED
    BY <2>3, <2>4 DEF Good
<1> QED
  BY <1>3, <1>4

\* Split() returns the last of the parts that grow byte by byte.
LEMMA SplitIs ==
    ASSUME NEW S, NEW s \in Seq(S)
    PROVE  \E p : /\ p[0] = <<<<>>>> /\ Split(s) = p[Len(s)]
                  /\ \A n \in 1 .. Len(s) : p[n] = Grown(p[n - 1], s, n)
                  /\ \A n \in 0 .. Len(s) : Good(p[n], s, n, S)
<1> DEFINE Upto(n, p) == /\ p[0] = <<<<>>>>
                         /\ \A i \in 1 .. n : p[i] = Grown(p[i - 1], s, i)
                         /\ \A i \in 0 .. n : Good(p[i], s, i, S)
           Is(p) == p = [n \in 0 .. Len(s) |-> IF n = 0 THEN <<<<>>>>
                                               ELSE Grown(p[n - 1], s, n)]
           T == {n \in 0 .. Len(s) : \E p : p = [i \in 0 .. n |-> p[i]] /\ Upto(n, p)}
<1>1. Len(s) \in Nat
  BY LenProperties
<1>2. 0 \in T
  <2> DEFINE p == [i \in 0 .. 0 |-> <<<<>>>>]
  <2>1. Good(<<<<>>>>, s, 0, S)
    <3>1. <<<<>>>> \in Seq(Seq(S)) /\ <<<<>>>> # <<>>
      OBVIOUS
    <3> QED
      BY <3>1 DEF Good
  <2>2. p[0] = <<<<>>>> /\ 1 .. 0 = {} /\ (\A i \in 0 .. 0 : i = 0) /\ p = [i \in 0 .. 0 |-> p[i]]
    OBVIOUS
  <2> HIDE DEF p
  <2>3. Upto(0, p)
    BY <2>1, <2>2
  <2> QED
    BY <1>1, <2>2, <2>3
<1>3. ASSUME NEW n \in 0 .. Len(s) - 1, n \in T
      PROVE  n + 1 \in T
  <2>1. PICK p : p = [i \in 0 .. n |-> p[i]] /\ Upto(n, p)
    BY <1>3
  <2> DEFINE h == [i \in 0 .. n + 1 |-> IF i = n + 1 THEN Grown(p[n], s, n + 1) ELSE p[i]]
  <2>2. /\ n \in Nat /\ n + 1 \in 1 .. Len(s) /\ n + 1 \in 0 .. Len(s) /\ n \in 0 .. n
        /\ (n + 1) - 1 = n
        /\ \A i \in 1 .. n + 1 : i \in 1 .. n \/ i = n + 1
        /\ \A i \in 0 .. n + 1 : i \in 0 .. n \/ i = n + 1
        /\ \A i \in 1 .. n : i - 1 \in 0 .. n /\ i \in 0 .. n
    BY <1>1
  <2>3. /\ \A i \in 0 .. n : h[i] = p[i]
        /\ h[n + 1] = Grown(p[n], s, n + 1) /\ 0 \in 0 .. n
        /\ h = [i \in 0 .. n + 1 |-> h[i]]
    BY <2>2
  <2> HIDE DEF h
  <2>4. Good(h[n + 1], s, n + 1, S)
    BY <2>1, <2>2, <2>3, GoodGrown
  <2>5. Upto(n + 1, h)
    BY <2>1, <2>2, <2>3, <2>4
  <2> QED
    BY <2>2, <2>3, <2>5
<1>4. Len(s) \in T
  <2> HIDE DEF T
  <2>1. 0 .. Len(s) \subseteq T
    BY <1>1, <1>2, <1>3, Induction
  <2> QED
    BY <1>1, <2>1
<1>5. \E p : Is(p)
  <2>1. PICK p : p = [i \in 0 .. Len(s) |-> p[i]] /\ Upto(Len(s), p)
    BY <1>4
  <2>2. \A i \in 0 .. Len(s) : i = 0 \/ i \in 1 .. Len(s)
    BY <1>1
  <2>3. Is(p)
    BY <2>1, <2>2
  <2> QED
    BY <2>3
<1> DEFINE f == CHOOSE p : Is(p)
<1>6. Is(f)
  BY <1>5
<1>7. Split(s) = f[Len(s)]
  BY DEF Split, Grown
<1> HIDE DEF f
<1>8. /\ f[0] = <<<<>>>>
      /\ \A n \in 1 .. Len(s) : f[n] = Grown(f[n - 1], s, n)
  <2>1. 0 \in 0 .. Len(s) /\ \A n \in 1 .. Len(s) : n \in 0 .. Len(s) /\ n # 0
    BY <1>1
  <2> QED
    BY <1>6, <2>1
<1> HIDE DEF Is
<1>9. \A n \in 0 .. Len(s) : Good(f[n], s, n, S)
  <2> DEFINE V == {n \in 0 .. Len(s) : Good(f[n], s, n, S)}
  <2>1. 0 \in V
    <3>1. <<<<>>>> \in Seq(Seq(S)) /\ <<<<>>>> # <<>>
      OBVIOUS
    <3>2. 0 \in 0 .. Len(s)
      BY <1>1
    <3> QED
      BY <1>8, <3>1, <3>2 DEF Good
  <2>2. ASSUME NEW n \in 0 .. Len(s) - 1, n \in V
        PROVE  n + 1 \in V
    <3>1. n + 1 \in 1 .. Len(s) /\ n + 1 \in 0 .. Len(s) /\ (n + 1) - 1 = n
      BY <1>1
    <3>2. f[n + 1] = Grown(f[n], s, n + 1) /\ Good(f[n], s, n, S)
      BY <1>8, <2>2, <3>1
    <3> QED
      BY <3>1, <3>2, GoodGrown
  <2> HIDE DEF V
  <2>3. 0 .. Len(s) \subseteq V
    BY <1>1, <2>1, <2>2, Induction
  <2> QED
    BY <2>3 DEF V
<1> QED
  BY <1>7, <1>8, <1>9

\* What recieving_msg() makes of a read are sequences of bytes.
LEMMA InboxTyped ==
    ASSUME NEW S, NEW s \in Seq(S)
    PROVE  Inbox(s) \in Seq(Seq(S))
<1>1. Split(s) \in Seq(Seq(S)) /\ Split(s) # <<>>
  <2>1. Len(s) \in 0 .. Len(s)
    BY LenProperties
  <2> QED
    BY <2>1, SplitIs DEF Good
<1>2. Front(Split(s)) \in Seq(Seq(S))
  BY <1>1, FrontLast
<1> QED
  BY <1>1, <1>2 DEF Inbox

----------------------------------------------------------------------------
(* The inductive invariant: what has left the sender and was not consumed  *)
(* is whole lines, in their order.                                         *)

AllBytes == Bytes \cup {CR, LF}

\* Bytes and the mark of half a character; and those of them that are no part of
\* a delimiter.
Chars   == Bytes \cup {CR, LF, Bad}
Letters == Bytes \cup {Bad}

\* What is on its way to the receiver.
Over(S) == [byte : S, ends : BOOLEAN, live : BOOLEAN]
Items   == [byte : Chars, ends : BOOLEAN, live : BOOLEAN]

\* In the buffer and on their way are the lines sent that were not consumed.
InFlight == \E st : Framed(read_msg \o toServer, lines, Consumed, sent, st)

\* Before the password is read there is nothing behind it; a client that waits
\* has one line under way; and what was forwarded so far is in order.
Order ==
    /\ ~admitted => forwarded = <<>> /\ sent <= 1
    /\ Consumed <= sent
    /\ ~pipelined => sent <= Consumed + 1
    /\ \A k \in DOMAIN forwarded :
          /\ IsPrefix(lines[k + 1], forwarded[k])
          /\ ~pipelined => forwarded[k] = lines[k + 1]

IInv == TypeOK /\ InFlight /\ Order /\ ShortLinesSurvive

\* The types, part by part.
LEMMA Types ==
    ASSUME TypeOK
    PROVE  /\ lines \in Scripts /\ lines \in Seq(Seq(Bytes))
           /\ Len(lines) \in Nat /\ sent \in Nat /\ sent <= Len(lines)
           /\ toServer \in Seq(AllBytes) /\ read_msg \in Seq(AllBytes)
           /\ Len(toServer) \in Nat /\ Len(read_msg) \in Nat
           /\ Len(read_msg) <= m_read_buff_len
           /\ forwarded \in Seq(Seq(AllBytes)) /\ forwarded \in Seq(Seq(Chars))
           /\ Len(forwarded) \in Nat
           /\ toClient \in Seq(Over(AllBytes)) /\ toClient \in Seq(Items)
           /\ given \in Seq(Seq(AllBytes)) /\ given \in Seq(Seq(Chars))
           /\ shown \in Seq(Seq(Chars))
           /\ m_read_buff_len \in Nat \ {0}
           /\ Bytes \subseteq AllBytes /\ m_delim \in Seq(AllBytes) /\ Len(m_delim) = 2
<1>1. lines \in Scripts /\ sent \in 0 .. Len(lines)
  BY DEF TypeOK
<1>2. lines \in Seq(Seq(Bytes)) /\ Len(lines) \in Nat
  BY <1>1, FramingAssumption
<1>3. sent \in Nat /\ sent <= Len(lines)
  BY <1>1, <1>2
<1>4. Bytes \subseteq AllBytes /\ m_delim \in Seq(AllBytes) /\ Len(m_delim) = 2
  BY DEF AllBytes, m_delim
<1>5. /\ toServer \in Seq(AllBytes) /\ read_msg \in Seq(AllBytes)
      /\ Len(toServer) \in Nat /\ Len(read_msg) \in Nat
      /\ Len(read_msg) <= m_read_buff_len /\ m_read_buff_len \in Nat \ {0}
      /\ shown \in Seq(Seq(Chars))
  <2>1. {CR, LF, Bad} = {CR, LF} \cup {Bad} /\ Chars = Bytes \cup {CR, LF, Bad}
    BY DEF Chars
  <2> QED
    BY <2>1, FramingAssumption DEF TypeOK, AllBytes
<1>6. /\ forwarded \in Seq(Seq(AllBytes)) /\ Len(forwarded) \in Nat
      /\ toClient \in Seq(Over(AllBytes)) /\ given \in Seq(Seq(AllBytes))
  BY DEF TypeOK, AllBytes, Over
<1>7. Seq(AllBytes) \subseteq Seq(Chars) /\ Over(AllBytes) \subseteq Items
  <2>1. AllBytes \subseteq Chars
    BY DEF AllBytes, Chars
  <2> QED
    BY <2>1, SequencesOver DEF Over, Items
<1>8. /\ forwarded \in Seq(Seq(Chars)) /\ given \in Seq(Seq(Chars))
      /\ toClient \in Seq(Items)
  BY <1>6, <1>7, SequencesOver
<1> QED
  BY <1>1, <1>2, <1>3, <1>4, <1>5, <1>6, <1>8

\* How many lines were consumed.
LEMMA ConsumedIs ==
    ASSUME TypeOK
    PROVE  /\ Consumed \in Nat
           /\ admitted => Consumed = Len(forwarded) + 1
           /\ ~admitted => Consumed = Len(forwarded)
<1>1. Len(forwarded) \in Nat
  BY Types
<1> QED
  BY <1>1 DEF Consumed

\* The first line that was not consumed, seen from the buffer.
LEMMA FirstLine ==
    ASSUME IInv, read_msg # <<>>
    PROVE  LET l == lines[Consumed + 1]
               L == Len(l)
           IN  /\ Consumed < sent /\ Consumed + 1 \in 1 .. Len(lines)
               /\ l \in Seq(Bytes) /\ L \in Nat
               /\ \A i \in 1 .. Len(read_msg) :
                     /\ i \in 1 .. L => read_msg[i] = l[i] /\ read_msg[i] \in Bytes
                     /\ i = L + 1 => read_msg[i] = CR
                     /\ i = L + 2 => read_msg[i] = LF
               /\ L + 2 <= Len(read_msg) + Len(toServer)
               /\ sent = Consumed + 1 => Len(read_msg) + Len(toServer) = L + 2
<1> DEFINE b == read_msg \o toServer
<1>1. /\ Consumed \in Nat /\ sent \in Nat /\ sent <= Len(lines) /\ Len(lines) \in Nat
      /\ Consumed <= sent /\ lines \in Seq(Seq(Bytes))
      /\ Len(read_msg) \in Nat /\ Len(toServer) \in Nat
  BY Types, ConsumedIs DEF IInv, Order
<1>2. /\ b \in Seq(AllBytes) /\ Len(b) = Len(read_msg) + Len(toServer)
      /\ \A i \in 1 .. Len(read_msg) : b[i] = read_msg[i]
  BY Types, Joined DEF IInv
<1>3. PICK st : Framed(b, lines, Consumed, sent, st)
  BY DEF IInv, InFlight
<1> HIDE DEF b
<1>4. Len(read_msg) > 0
  <2>1. Len(read_msg) # 0
    BY Types, EmptySeq DEF IInv
  <2> QED
    BY <1>1, <2>1
<1>5. Consumed < sent
  <2>1. Consumed # sent
    <3>1. st[Consumed] = 0 /\ st[sent] = Len(b)
      BY <1>3 DEF Framed
    <3> QED
      BY <1>1, <1>2, <1>4, <3>1
  <2> QED
    BY <1>1, <2>1
<1> DEFINE l == lines[Consumed + 1]
<1>6. /\ l \in Seq(Bytes) /\ Len(l) \in Nat
      /\ st[Consumed + 1] = Len(l) + 2 /\ st[Consumed + 1] <= Len(b)
      /\ \A i \in 1 .. Len(l) : b[i] = l[i] /\ b[i] \in Bytes
      /\ b[Len(l) + 1] = CR /\ b[Len(l) + 2] = LF
      /\ sent = Consumed + 1 => Len(b) = Len(l) + 2
  <2>1. PICK c \in Nat : c = Consumed
    BY <1>1
  <2>2. PICK n \in Nat : n = sent
    BY <1>1
  <2>3. PICK d : d = b
    OBVIOUS
  <2>4. PICK ls : ls = lines
    OBVIOUS
  <2>5. /\ d \in Seq(Bytes \cup {CR, LF}) /\ c < n /\ ls \in Seq(Seq(Bytes)) /\ n <= Len(ls)
        /\ Framed(d, ls, c, n, st)
    BY <1>1, <1>2, <1>3, <1>5, <2>1, <2>2, <2>3, <2>4 DEF AllBytes
  <2>6. /\ ls[c + 1] \in Seq(Bytes) /\ Len(ls[c + 1]) \in Nat
        /\ st[c + 1] = Len(ls[c + 1]) + 2 /\ st[c + 1] <= Len(d)
        /\ \A i \in 1 .. Len(ls[c + 1]) : d[i] = ls[c + 1][i] /\ d[i] \in Bytes
        /\ d[Len(ls[c + 1]) + 1] = CR /\ d[Len(ls[c + 1]) + 2] = LF
        /\ n = c + 1 => Len(d) = Len(ls[c + 1]) + 2
    BY <2>5, FramedFirst, ZenonT(60)
  <2> QED
    BY <2>1, <2>2, <2>3, <2>4, <2>6
<1>7. Consumed + 1 \in 1 .. Len(lines)
  BY <1>1, <1>5
<1> QED
  BY <1>1, <1>2, <1>5, <1>6, <1>7

\* A delimiter in the buffer: the first is that of the first line.
LEMMA FirstDelim ==
    ASSUME IInv, Delims(read_msg) # {}
    PROVE  /\ read_msg # <<>>
           /\ Len(lines[Consumed + 1]) + 2 <= Len(read_msg)
           /\ Until(read_msg) = Len(lines[Consumed + 1]) + 2
<1> DEFINE L == Len(lines[Consumed + 1])
           D == Delims(read_msg)
<1>1. Len(read_msg) \in Nat /\ read_msg # <<>>
  <2>1. Len(read_msg) \in Nat
    BY Types DEF IInv
  <2>2. Len(read_msg) # 0
    BY <2>1 DEF Delims
  <2> QED
    BY <2>1, <2>2
<1>2. /\ L \in Nat
      /\ \A i \in 1 .. Len(read_msg) : /\ i \in 1 .. L => read_msg[i] \in Bytes
                                       /\ i = L + 1 => read_msg[i] = CR
                                       /\ i = L + 2 => read_msg[i] = LF
  BY <1>1, FirstLine
<1> HIDE DEF L
<1>3. \A d \in D : /\ d \in 1 .. Len(read_msg) - 1 /\ d + 1 \in 1 .. Len(read_msg)
                   /\ d \in 1 .. Len(read_msg)
                   /\ read_msg[d] = CR /\ read_msg[d + 1] = LF
  BY <1>1 DEF Delims
<1>4. \A d \in D : d \in Nat /\ d >= L + 1
  <2> SUFFICES ASSUME NEW d \in D PROVE d \in Nat /\ d >= L + 1
    OBVIOUS
  <2>1. d \in 1 .. Len(read_msg) /\ read_msg[d] \notin Bytes
    BY <1>3, FramingAssumption
  <2>2. d \notin 1 .. L
    BY <1>2, <2>1
  <2> QED
    BY <1>1, <1>2, <2>1, <2>2
<1>5. L + 2 <= Len(read_msg)
  <2>1. PICK d : d \in D
    OBVIOUS
  <2>2. d \in Nat /\ d >= L + 1 /\ d <= Len(read_msg) - 1
    BY <1>1, <1>3, <1>4, <2>1
  <2> QED
    BY <1>1, <1>2, <2>2
<1>6. L + 1 \in D
  <2>1. L + 1 \in 1 .. Len(read_msg) - 1 /\ L + 1 \in 1 .. Len(read_msg)
        /\ L + 2 \in 1 .. Len(read_msg) /\ (L + 1) + 1 = L + 2
    BY <1>1, <1>2, <1>5
  <2> QED
    BY <1>2, <2>1 DEF Delims
<1>7. Min(D) = L + 1
  <2>1. D \subseteq Nat
    BY <1>4
  <2>2. Min(D) \in D /\ Min(D) <= L + 1
    BY <1>6, <2>1, MinIs
  <2>3. Min(D) >= L + 1 /\ Min(D) \in Nat
    BY <1>4, <2>2
  <2> QED
    BY <1>2, <2>2, <2>3
<1> QED
  <2>1. Until(read_msg) = L + 2
    BY <1>2, <1>7 DEF Until
  <2> QED
    BY <1>1, <1>5, <2>1 DEF L

\* What is taken of the buffer begins with the first line.
LEMMA ResponseIs ==
    ASSUME IInv, Delims(read_msg) # {}
    PROVE  /\ Response(read_msg) \in Seq(AllBytes)
           /\ IsPrefix(lines[Consumed + 1], Response(read_msg))
           /\ Len(read_msg) = Len(lines[Consumed + 1]) + 2
                 => Response(read_msg) = lines[Consumed + 1]
<1> DEFINE l == lines[Consumed + 1]
           L == Len(l)
           ends == {i \in DOMAIN read_msg : read_msg[i] \in {CR, LF}}
           m == LastOf(read_msg)
<1>1. /\ read_msg \in Seq(AllBytes) /\ Len(read_msg) \in Nat /\ Bytes \subseteq AllBytes
      /\ DOMAIN read_msg = 1 .. Len(read_msg)
  BY Types DEF IInv
<1>2. /\ l \in Seq(Bytes) /\ L \in Nat /\ L + 2 <= Len(read_msg)
      /\ \A i \in 1 .. Len(read_msg) : /\ i \in 1 .. L => read_msg[i] = l[i]
                                       /\ i = L + 2 => read_msg[i] = LF
  BY FirstDelim, FirstLine
<1> HIDE DEF L
<1>3. L + 2 \in ends
  <2>1. L + 2 \in 1 .. Len(read_msg)
    BY <1>1, <1>2
  <2> QED
    BY <1>1, <1>2, <2>1
<1>4. m \in 1 .. Len(read_msg) /\ m >= L + 2
  <2>1. ends \subseteq 1 .. Len(read_msg)
    BY <1>1
  <2>2. Max(ends) \in ends /\ Max(ends) >= L + 2
    BY <1>1, <1>3, <2>1, MaxIs
  <2> QED
    BY <2>1, <2>2 DEF LastOf
<1> HIDE DEF m
<1>5. /\ m - 2 \in 0 .. Len(read_msg) /\ m - 2 >= L /\ m - 2 \in Nat
      /\ m \in Nat /\ m <= Len(read_msg)
  BY <1>1, <1>2, <1>4
<1>6. /\ Response(read_msg) \in Seq(AllBytes) /\ Len(Response(read_msg)) = m - 2
      /\ \A i \in 1 .. m - 2 : Response(read_msg)[i] = read_msg[i]
  BY <1>1, <1>5, Cut DEF Response, m
<1>7. \A i \in 1 .. L : Response(read_msg)[i] = l[i]
  <2>1. \A i \in 1 .. L : i \in 1 .. m - 2 /\ i \in 1 .. Len(read_msg)
    BY <1>1, <1>2, <1>5
  <2> QED
    BY <1>2, <1>6, <2>1
<1>8. l \in Seq(AllBytes)
  BY <1>1, <1>2, SequencesOver
<1>9. IsPrefix(l, Response(read_msg))
  BY <1>5, <1>6, <1>7, <1>8, Prefixed DEF L
<1>10. ASSUME Len(read_msg) = L + 2
       PROVE  Response(read_msg) = l
  <2>1. m - 2 = L
    BY <1>2, <1>5, <1>10
  <2> QED
    BY <1>6, <1>7, <1>8, <2>1, SeqEqual DEF L
<1> QED
  BY <1>6, <1>9, <1>10 DEF L

----------------------------------------------------------------------------
(* The bytes of messages: what PlainBytes() keeps of a sequence.           *)

\* The first n + 1 elements are the first n and one more.
LEMMA PrefixGrows ==
    ASSUME NEW S, NEW s \in Seq(S), NEW n \in 0 .. Len(s) - 1
    PROVE  SubSeq(s, 1, n + 1) = Append(SubSeq(s, 1, n), s[n + 1])
<1>1. Len(s) \in Nat
  BY LenProperties
<1>2. n \in 0 .. Len(s) /\ n + 1 \in 0 .. Len(s) /\ n + 1 \in 1 .. Len(s) /\ n \in Nat
  BY <1>1
<1>3. PICK a \in Seq(S) :
         a = SubSeq(s, 1, n) /\ Len(a) = n /\ \A i \in 1 .. n : a[i] = s[i]
  <2>1. /\ SubSeq(s, 1, n) \in Seq(S) /\ Len(SubSeq(s, 1, n)) = n
        /\ \A i \in 1 .. n : SubSeq(s, 1, n)[i] = s[i]
    BY <1>2, Cut
  <2> QED
    BY <2>1
<1>4. PICK b \in Seq(S) :
         b = SubSeq(s, 1, n + 1) /\ Len(b) = n + 1 /\ \A i \in 1 .. n + 1 : b[i] = s[i]
  <2>1. /\ SubSeq(s, 1, n + 1) \in Seq(S) /\ Len(SubSeq(s, 1, n + 1)) = n + 1
        /\ \A i \in 1 .. n + 1 : SubSeq(s, 1, n + 1)[i] = s[i]
    BY <1>2, Cut
  <2> QED
    BY <2>1
<1>5. s[n + 1] \in S
  BY <1>2
<1>6. PICK c \in Seq(S) : /\ c = Append(a, s[n + 1]) /\ Len(c) = n + 1 /\ c[n + 1] = s[n + 1]
                          /\ \A i \in 1 .. n : c[i] = a[i]
  <2>1. /\ Append(a, s[n + 1]) \in Seq(S) /\ Len(Append(a, s[n + 1])) = Len(a) + 1
        /\ Append(a, s[n + 1])[Len(a) + 1] = s[n + 1]
        /\ \A i \in 1 .. Len(a) : Append(a, s[n + 1])[i] = a[i]
    BY <1>5, AppendProperties
  <2> QED
    BY <1>3, <2>1
<1>7. \A i \in 1 .. n + 1 : i \in 1 .. n \/ i = n + 1
  BY <1>2
<1>8. b = c
  BY <1>3, <1>4, <1>6, <1>7, SeqEqual
<1> QED
  BY <1>3, <1>4, <1>6, <1>8

\* Induction over sequences, by a set: what holds of the empty one and of
\* every one that has an element more, holds of all.
LEMMA SequenceInduction ==
    ASSUME NEW S, NEW T, <<>> \in T,
           \A s \in Seq(S) : \A x \in S : s \in T => Append(s, x) \in T
    PROVE  Seq(S) \subseteq T
<1> SUFFICES ASSUME NEW s \in Seq(S) PROVE s \in T
  OBVIOUS
<1> DEFINE p(n) == SubSeq(s, 1, n)
           U == {n \in 0 .. Len(s) : p(n) \in T}
<1>1. Len(s) \in Nat
  BY LenProperties
<1>2. \A n \in 0 .. Len(s) : /\ p(n) \in Seq(S) /\ Len(p(n)) = n
                             /\ \A i \in 1 .. n : p(n)[i] = s[i]
  BY Cut
<1>3. 0 \in U
  <2>1. 0 \in 0 .. Len(s)
    BY <1>1
  <2>2. p(0) \in Seq(S) /\ Len(p(0)) = 0
    BY <1>2, <2>1
  <2>3. p(0) = <<>>
    BY <2>2, EmptySeq
  <2> QED
    BY <2>1, <2>3
<1>4. ASSUME NEW n \in 0 .. Len(s) - 1, n \in U
      PROVE  n + 1 \in U
  <2>1. n \in Nat /\ n \in 0 .. Len(s) /\ n + 1 \in 0 .. Len(s) /\ n + 1 \in 1 .. Len(s)
    BY <1>1
  <2>2. s[n + 1] \in S
    BY <2>1
  <2>4. p(n + 1) = Append(p(n), s[n + 1])
    BY PrefixGrows
  <2> HIDE DEF p
  <2>3. PICK a \in Seq(S) : a = p(n)
    BY <1>2, <2>1
  <2>6. a \in T
    BY <1>4, <2>3
  <2> QED
    BY <2>1, <2>2, <2>3, <2>4, <2>6
<1>5. Len(s) \in U
  <2> HIDE DEF U
  <2>1. 0 .. Len(s) \subseteq U
    BY <1>1, <1>3, <1>4, Induction
  <2> QED
    BY <1>1, <2>1
<1>6. p(Len(s)) = s
  <2>1. Len(s) \in 0 .. Len(s)
    BY <1>1
  <2>2. /\ p(Len(s)) \in Seq(S) /\ Len(p(Len(s))) = Len(s)
        /\ \A i \in 1 .. Len(s) : p(Len(s))[i] = s[i]
    BY <1>2, <2>1
  <2> HIDE DEF p
  <2> QED
    BY <2>2, SeqEqual
<1> QED
  BY <1>5, <1>6
\* What is kept of one byte.
Kept(x) == IF x \in Letters THEN <<x>> ELSE <<>>

\* And of each byte of a sequence.
KeptOf(s) == [i \in DOMAIN s |-> Kept(s[i])]

\* PlainBytes() puts them together.
LEMMA PlainIs == \A s : PlainBytes(s) = FlattenSeq(KeptOf(s))
BY DEF PlainBytes, KeptOf, Kept, Letters

\* The types.
LEMMA KeptTyped ==
    ASSUME NEW s \in Seq(Chars)
    PROVE  /\ KeptOf(s) \in Seq(Seq(Letters)) /\ Len(KeptOf(s)) = Len(s)
           /\ \A i \in 1 .. Len(s) : KeptOf(s)[i] = Kept(s[i])
           /\ PlainBytes(s) \in Seq(Letters)
<1>1. Len(s) \in Nat /\ DOMAIN s = 1 .. Len(s)
  BY LenProperties
<1>2. \A x : Kept(x) \in Seq(Letters)
  BY DEF Kept
<1>3. /\ KeptOf(s) \in Seq(Seq(Letters)) /\ Len(KeptOf(s)) = Len(s)
      /\ \A i \in 1 .. Len(s) : KeptOf(s)[i] = Kept(s[i])
  BY <1>1, <1>2 DEF KeptOf
<1>4. FlattenSeq(KeptOf(s)) \in Seq(Letters)
  BY <1>3, FlattenTyped
<1> QED
  BY <1>3, <1>4, PlainIs

\* No bytes.
LEMMA PlainNone == PlainBytes(<<>>) = <<>>
<1>1. KeptOf(<<>>) = <<>>
  BY DEF KeptOf
<1> QED
  BY <1>1, PlainIs, FlattenNone

\* One byte.
LEMMA PlainOne ==
    ASSUME NEW x \in Chars
    PROVE  PlainBytes(<<x>>) = Kept(x)
<1>1. KeptOf(<<x>>) = Append(<<>>, Kept(x))
  BY DEF KeptOf
<1>2. Kept(x) \in Seq(Letters)
  BY DEF Kept
<1>3. <<>> \in Seq(Seq(Letters))
  OBVIOUS
<1>4. FlattenSeq(Append(<<>>, Kept(x))) = FlattenSeq(<<>>) \o Kept(x)
  BY <1>2, <1>3, FlattenAppend
<1>5. <<>> \o Kept(x) = Kept(x)
  BY <1>2, ConcatEmptySeq
<1> QED
  BY <1>1, <1>4, <1>5, PlainIs, FlattenNone

\* Of two sequences, one behind the other, it keeps what it keeps of each.
LEMMA PlainJoin ==
    ASSUME NEW s \in Seq(Chars), NEW t \in Seq(Chars)
    PROVE  PlainBytes(s \o t) = PlainBytes(s) \o PlainBytes(t)
<1>1. /\ s \o t \in Seq(Chars) /\ Len(s \o t) = Len(s) + Len(t)
      /\ \A i \in 1 .. Len(s) : (s \o t)[i] = s[i]
      /\ \A i \in 1 .. Len(t) : (s \o t)[Len(s) + i] = t[i]
  BY Joined
<1>2. Len(s) \in Nat /\ Len(t) \in Nat
  BY LenProperties
<1>3. PICK u \in Seq(Chars) : u = s \o t
  BY <1>1
<1>4. PICK Q : Q = Seq(Letters)
  OBVIOUS
<1>5. PICK a \in Seq(Q) : a = KeptOf(s)
  BY <1>4, KeptTyped
<1>6. PICK b \in Seq(Q) : b = KeptOf(t)
  BY <1>4, KeptTyped
<1>7. PICK c \in Seq(Q) : c = KeptOf(u)
  BY <1>4, KeptTyped
<1>8. /\ Len(a) = Len(s) /\ \A i \in 1 .. Len(s) : a[i] = Kept(s[i])
      /\ Len(b) = Len(t) /\ \A i \in 1 .. Len(t) : b[i] = Kept(t[i])
      /\ Len(c) = Len(s) + Len(t) /\ \A i \in 1 .. Len(s) + Len(t) : c[i] = Kept(u[i])
  BY <1>1, <1>3, <1>5, <1>6, <1>7, KeptTyped
<1>9. /\ a \o b \in Seq(Q) /\ Len(a \o b) = Len(a) + Len(b)
      /\ \A i \in 1 .. Len(a) : (a \o b)[i] = a[i]
      /\ \A i \in 1 .. Len(b) : (a \o b)[Len(a) + i] = b[i]
  BY Joined
<1>10. ASSUME NEW i \in 1 .. Len(s) + Len(t)
       PROVE  c[i] = (a \o b)[i]
  <2>1. CASE i \in 1 .. Len(s)
    BY <1>1, <1>3, <1>8, <1>9, <2>1
  <2>2. CASE i \notin 1 .. Len(s)
    <3>1. PICK j \in 1 .. Len(t) : i = Len(s) + j
      <4>1. i - Len(s) \in 1 .. Len(t) /\ i = Len(s) + (i - Len(s))
        BY <1>2, <2>2
      <4> QED
        BY <4>1
    <3>2. u[i] = t[j]
      BY <1>1, <1>3, <3>1
    <3> QED
      BY <1>8, <1>9, <3>1, <3>2
  <2> QED
    BY <2>1, <2>2
<1>11. c = a \o b
  <2>1. Len(c) = Len(a \o b)
    BY <1>8, <1>9
  <2> QED
    BY <1>8, <1>9, <1>10, <2>1, SeqEqual
<1>12. FlattenSeq(a \o b) = FlattenSeq(a) \o FlattenSeq(b)
  BY <1>4, <1>5, <1>6, FlattenJoin
<1> QED
  BY <1>3, <1>5, <1>6, <1>7, <1>11, <1>12, PlainIs

\* The bytes of items, without what is noted of them.
BytesOf(t) == [i \in DOMAIN t |-> t[i].byte]

\* They are bytes, as many as there are items.
LEMMA BytesOfTyped ==
    ASSUME NEW t \in Seq(Items)
    PROVE  /\ BytesOf(t) \in Seq(Chars) /\ Len(BytesOf(t)) = Len(t)
           /\ \A i \in 1 .. Len(t) : BytesOf(t)[i] = t[i].byte
<1>1. Len(t) \in Nat /\ DOMAIN t = 1 .. Len(t)
  BY LenProperties
<1>2. \A i \in 1 .. Len(t) : t[i].byte \in Chars
  <2>1. \A z \in Items : z.byte \in Chars
    BY DEF Items
  <2> QED
    BY <2>1, ElementOfSeq
<1> QED
  BY <1>1, <1>2 DEF BytesOf

\* Of no items, none.
LEMMA BytesOfNone == BytesOf(<<>>) = <<>>
BY DEF BytesOf

\* Of two sequences, one behind the other, those of each.
LEMMA BytesOfJoin ==
    ASSUME NEW s \in Seq(Items), NEW t \in Seq(Items)
    PROVE  BytesOf(s \o t) = BytesOf(s) \o BytesOf(t)
<1>1. PICK u \in Seq(Items) :
         /\ u = s \o t /\ Len(u) = Len(s) + Len(t)
         /\ \A i \in 1 .. Len(s) : u[i] = s[i]
         /\ \A i \in 1 .. Len(t) : u[Len(s) + i] = t[i]
  <2>1. /\ s \o t \in Seq(Items) /\ Len(s \o t) = Len(s) + Len(t)
        /\ \A i \in 1 .. Len(s) : (s \o t)[i] = s[i]
        /\ \A i \in 1 .. Len(t) : (s \o t)[Len(s) + i] = t[i]
    BY Joined
  <2> QED
    BY <2>1
<1>2. Len(s) \in Nat /\ Len(t) \in Nat
  BY LenProperties
<1>3. PICK a \in Seq(Chars) :
         a = BytesOf(s) /\ Len(a) = Len(s) /\ \A i \in 1 .. Len(s) : a[i] = s[i].byte
  BY BytesOfTyped
<1>4. PICK b \in Seq(Chars) :
         b = BytesOf(t) /\ Len(b) = Len(t) /\ \A i \in 1 .. Len(t) : b[i] = t[i].byte
  BY BytesOfTyped
<1>5. PICK c \in Seq(Chars) :
         c = BytesOf(u) /\ Len(c) = Len(u) /\ \A i \in 1 .. Len(u) : c[i] = u[i].byte
  BY BytesOfTyped
<1>6. /\ a \o b \in Seq(Chars) /\ Len(a \o b) = Len(a) + Len(b)
      /\ \A i \in 1 .. Len(a) : (a \o b)[i] = a[i]
      /\ \A i \in 1 .. Len(b) : (a \o b)[Len(a) + i] = b[i]
  BY Joined
<1>7. ASSUME NEW i \in 1 .. Len(s) + Len(t)
      PROVE  c[i] = (a \o b)[i]
  <2>0. c[i] = u[i].byte
    BY <1>1, <1>5
  <2>1. CASE i \in 1 .. Len(s)
    <3>1. u[i] = s[i] /\ a[i] = s[i].byte
      BY <1>1, <1>3, <2>1
    <3>2. (a \o b)[i] = a[i]
      BY <1>3, <1>6, <2>1
    <3> QED
      BY <2>0, <3>1, <3>2
  <2>2. CASE i \notin 1 .. Len(s)
    <3>1. PICK j \in 1 .. Len(t) : i = Len(s) + j
      <4>1. i - Len(s) \in 1 .. Len(t) /\ i = Len(s) + (i - Len(s))
        BY <1>2, <2>2
      <4> QED
        BY <4>1
    <3>2. u[i] = t[j]
      BY <1>1, <3>1
    <3>3. b[j] = t[j].byte
      BY <1>4
    <3>4. (a \o b)[i] = b[j]
      BY <1>3, <1>4, <1>6, <3>1
    <3> QED
      BY <2>0, <3>2, <3>3, <3>4
  <2> QED
    BY <2>1, <2>2
<1>8. Len(c) = Len(s) + Len(t) /\ Len(c) = Len(a \o b)
  BY <1>1, <1>3, <1>4, <1>5, <1>6
<1>9. c = a \o b
  BY <1>6, <1>7, <1>8, SeqEqual
<1> QED
  BY <1>1, <1>3, <1>4, <1>5, <1>9

\* The bytes of a live message are the message.
LEMMA BytesOfLive ==
    ASSUME NEW r \in Seq(Chars)
    PROVE  BytesOf(Live(r)) = r
<1>1. DOMAIN Live(r) = DOMAIN r /\ \A i \in DOMAIN r : Live(r)[i].byte = r[i]
  BY DEF Live
<1>2. BytesOf(Live(r)) = [i \in DOMAIN r |-> r[i]]
  BY <1>1 DEF BytesOf
<1>3. [i \in DOMAIN r |-> r[i]] = r
  OBVIOUS
<1> QED
  BY <1>2, <1>3

\* And of what is remembered, with a delimiter.
LEMMA BytesOfRemembered ==
    ASSUME NEW r \in Seq(Chars)
    PROVE  BytesOf(Remembered(r)) = r \o m_delim
<1> DEFINE msg == r \o m_delim
<1>1. msg \in Seq(Chars)
  <2>1. m_delim \in Seq(Chars)
    BY DEF m_delim, Chars
  <2> QED
    BY <2>1, ConcatProperties
<1>2. Remembered(r) = [i \in DOMAIN msg |->
                          [byte |-> msg[i], ends |-> i = Len(msg), live |-> FALSE]]
  BY DEF Remembered
<1> HIDE DEF msg
<1>3. BytesOf(Remembered(r)) = [i \in DOMAIN msg |-> msg[i]]
  BY <1>2 DEF BytesOf
<1>4. [i \in DOMAIN msg |-> msg[i]] = msg
  BY <1>1
<1> QED
  BY <1>3, <1>4 DEF msg

\* The bytes of a delimiter are not kept.
LEMMA PlainEnded ==
    ASSUME NEW r \in Seq(Chars)
    PROVE  PlainBytes(r \o m_delim) = PlainBytes(r)
<1>1. m_delim \in Seq(Chars) /\ m_delim = <<CR>> \o <<LF>>
  <2>1. CR \in Chars /\ LF \in Chars
    BY DEF Chars
  <2> QED
    BY <2>1, PairIs DEF m_delim
<1>2. <<CR>> \in Seq(Chars) /\ <<LF>> \in Seq(Chars)
  BY DEF Chars
<1>3. PlainBytes(m_delim) = PlainBytes(<<CR>>) \o PlainBytes(<<LF>>)
  BY <1>1, <1>2, PlainJoin
<1>4. PlainBytes(<<CR>>) = <<>> /\ PlainBytes(<<LF>>) = <<>>
  BY PlainOne, FramingAssumption DEF Kept, Chars, Letters
<1>5. PlainBytes(m_delim) = <<>>
  BY <1>3, <1>4
<1>6. PlainBytes(r \o m_delim) = PlainBytes(r) \o PlainBytes(m_delim)
  BY <1>1, PlainJoin
<1>7. PlainBytes(r) \o <<>> = PlainBytes(r)
  BY KeptTyped, ConcatEmptySeq
<1> QED
  BY <1>5, <1>6, <1>7

\* A live message is items.
LEMMA LiveItems ==
    ASSUME NEW S, NEW r \in Seq(S)
    PROVE  Live(r) \in Seq(Over(S)) /\ Len(Live(r)) = Len(r)
<1> DEFINE item(i) == [byte |-> r[i], ends |-> i = Len(r), live |-> TRUE]
<1>1. Len(r) \in Nat /\ DOMAIN r = 1 .. Len(r) /\ \A i \in 1 .. Len(r) : r[i] \in S
  BY LenProperties
<1>2. \A i \in 1 .. Len(r) : item(i) \in Over(S)
  <2>1. \A i \in 1 .. Len(r) : (i = Len(r)) \in BOOLEAN
    BY Zenon
  <2> QED
    BY <1>1, <2>1 DEF Over
<1>3. Live(r) = [i \in 1 .. Len(r) |-> item(i)]
  BY <1>1 DEF Live
<1> HIDE DEF item
<1> QED
  BY <1>1, <1>2, <1>3

\* What is remembered is items.
LEMMA RememberedItems ==
    ASSUME NEW S, CR \in S, LF \in S, NEW r \in Seq(S)
    PROVE  Remembered(r) \in Seq(Over(S)) /\ Len(Remembered(r)) = Len(r) + 2
<1> DEFINE msg == r \o m_delim
           item(i) == [byte |-> msg[i], ends |-> i = Len(msg), live |-> FALSE]
<1>1. msg \in Seq(S) /\ Len(msg) = Len(r) + 2
  <2>1. m_delim \in Seq(S) /\ Len(m_delim) = 2
    BY DEF m_delim
  <2>2. \A t \in Seq(S) : r \o t \in Seq(S) /\ Len(r \o t) = Len(r) + Len(t)
    BY ConcatProperties
  <2> QED
    BY <2>1, <2>2
<1>2. Remembered(r) = [i \in DOMAIN msg |-> item(i)]
  BY DEF Remembered
<1> HIDE DEF msg
<1>3. Len(msg) \in Nat /\ DOMAIN msg = 1 .. Len(msg) /\ \A i \in 1 .. Len(msg) : msg[i] \in S
  BY <1>1, LenProperties
<1>4. \A i \in 1 .. Len(msg) : item(i) \in Over(S)
  <2>1. \A i \in 1 .. Len(msg) : (i = Len(msg)) \in BOOLEAN
    BY Zenon
  <2> QED
    BY <1>3, <2>1 DEF Over
<1> HIDE DEF item
<1> QED
  BY <1>1, <1>2, <1>3, <1>4

\* A live message, of the characters that may be shown.
LEMMA LiveTyped ==
    ASSUME NEW r \in Seq(Chars)
    PROVE  Live(r) \in Seq(Items) /\ Len(Live(r)) = Len(r)
<1>1. Live(r) \in Seq(Over(Chars)) /\ Len(Live(r)) = Len(r)
  BY LiveItems
<1>2. Over(Chars) = Items
  BY DEF Over, Items
<1> QED
  BY <1>1, <1>2

\* And what is remembered.
LEMMA RememberedTyped ==
    ASSUME NEW r \in Seq(Chars)
    PROVE  Remembered(r) \in Seq(Items) /\ Len(Remembered(r)) = Len(r) + 2
<1>1. CR \in Chars /\ LF \in Chars
  BY DEF Chars
<1>2. Remembered(r) \in Seq(Over(Chars)) /\ Len(Remembered(r)) = Len(r) + 2
  BY <1>1, RememberedItems
<1>3. Over(Chars) = Items
  BY DEF Over, Items
<1> QED
  BY <1>2, <1>3

\* A message more adds its bytes.
LEMMA MessagesAppend ==
    ASSUME NEW f \in Seq(Seq(Chars)), NEW x \in Seq(Chars)
    PROVE  /\ FlattenSeq(f) \in Seq(Chars)
           /\ PlainBytes(FlattenSeq(Append(f, x))) = PlainBytes(FlattenSeq(f)) \o PlainBytes(x)
<1>1. FlattenSeq(Append(f, x)) = FlattenSeq(f) \o x
  BY FlattenAppend
<1>2. FlattenSeq(f) \in Seq(Chars)
  BY FlattenTyped
<1> QED
  BY <1>1, <1>2, PlainJoin

\* What the room remembers of messages, one behind the other.
RememberedOf(f) == FlattenSeq([k \in DOMAIN f |-> Remembered(f[k])])

\* A message more.
LEMMA RememberedAppend ==
    ASSUME NEW f \in Seq(Seq(Chars)), NEW x \in Seq(Chars)
    PROVE  /\ RememberedOf(f) \in Seq(Items)
           /\ RememberedOf(Append(f, x)) = RememberedOf(f) \o Remembered(x)
<1>1. PICK Q : Q = Seq(Chars)
  OBVIOUS
<1>2. PICK P : P = Seq(Items)
  OBVIOUS
<1>3. \A r \in Q : Remembered(r) \in P
  BY <1>1, <1>2, RememberedTyped
<1>4. f \in Seq(Q) /\ x \in Q /\ Len(f) \in Nat
  BY <1>1, LenProperties
<1>5. PICK h \in Seq(Q) : /\ h = Append(f, x) /\ Len(h) = Len(f) + 1
                          /\ h[Len(f) + 1] = x
                          /\ \A i \in 1 .. Len(f) : h[i] = f[i]
  <2>1. /\ Append(f, x) \in Seq(Q) /\ Len(Append(f, x)) = Len(f) + 1
        /\ Append(f, x)[Len(f) + 1] = x
        /\ \A i \in 1 .. Len(f) : Append(f, x)[i] = f[i]
    BY <1>4, AppendProperties
  <2> QED
    BY <2>1
<1>6. \A e \in Seq(Q) : /\ [k \in DOMAIN e |-> Remembered(e[k])] \in Seq(P)
                        /\ Len([k \in DOMAIN e |-> Remembered(e[k])]) = Len(e)
                        /\ \A k \in 1 .. Len(e) :
                              [i \in DOMAIN e |-> Remembered(e[i])][k] = Remembered(e[k])
  <2> TAKE e \in Seq(Q)
  <2>1. Len(e) \in Nat /\ DOMAIN e = 1 .. Len(e) /\ \A k \in 1 .. Len(e) : e[k] \in Q
    BY LenProperties
  <2>2. \A k \in 1 .. Len(e) : Remembered(e[k]) \in P
    BY <1>3, <2>1
  <2> QED
    BY <2>1, <2>2
<1>7. PICK a \in Seq(P) : /\ a = [k \in DOMAIN f |-> Remembered(f[k])] /\ Len(a) = Len(f)
                          /\ \A k \in 1 .. Len(f) : a[k] = Remembered(f[k])
  BY <1>4, <1>6
<1>8. PICK b \in Seq(P) : /\ b = [k \in DOMAIN h |-> Remembered(h[k])] /\ Len(b) = Len(h)
                          /\ \A k \in 1 .. Len(h) : b[k] = Remembered(h[k])
  BY <1>6
<1>9. PICK y \in P : y = Remembered(x)
  BY <1>3, <1>4
<1>10. /\ Append(a, y) \in Seq(P) /\ Len(Append(a, y)) = Len(a) + 1
       /\ Append(a, y)[Len(a) + 1] = y
       /\ \A i \in 1 .. Len(a) : Append(a, y)[i] = a[i]
  BY AppendProperties
<1>11. ASSUME NEW k \in 1 .. Len(f) + 1
       PROVE  b[k] = Append(a, y)[k]
  <2>1. b[k] = Remembered(h[k])
    BY <1>5, <1>8
  <2>2. CASE k = Len(f) + 1
    BY <1>5, <1>7, <1>9, <1>10, <2>1, <2>2
  <2>3. CASE k # Len(f) + 1
    <3>1. k \in 1 .. Len(f)
      BY <1>4, <2>3
    <3> QED
      BY <1>5, <1>7, <1>10, <2>1, <3>1
  <2> QED
    BY <2>2, <2>3
<1>12. b = Append(a, y)
  <2>1. Len(b) = Len(f) + 1 /\ Len(b) = Len(Append(a, y))
    BY <1>5, <1>7, <1>8, <1>10
  <2> QED
    BY <1>10, <1>11, <2>1, SeqEqual
<1>13. FlattenSeq(Append(a, y)) = FlattenSeq(a) \o y /\ FlattenSeq(a) \in Seq(Items)
  <2>1. a \in Seq(Seq(Items)) /\ y \in Seq(Items)
    BY <1>2
  <2> QED
    BY <2>1, FlattenAppend, FlattenTyped
<1> QED
  BY <1>5, <1>7, <1>8, <1>9, <1>12, <1>13 DEF RememberedOf

\* It holds the bytes of the messages, in their order.
LEMMA RememberedBytes ==
    \A f \in Seq(Seq(Chars)) :
       PlainBytes(BytesOf(RememberedOf(f))) = PlainBytes(FlattenSeq(f))
<1> DEFINE Same(f) == PlainBytes(BytesOf(RememberedOf(f))) = PlainBytes(FlattenSeq(f))
           T == {f \in Seq(Seq(Chars)) : Same(f)}
<1>1. <<>> \in T
  <2>1. [k \in DOMAIN <<>> |-> Remembered(<<>>[k])] = <<>>
    OBVIOUS
  <2>2. RememberedOf(<<>>) = <<>>
    BY <2>1, FlattenNone DEF RememberedOf
  <2>3. Same(<<>>)
    BY <2>2, BytesOfNone, FlattenNone
  <2> HIDE DEF Same
  <2> QED
    BY <2>3
<1>2. ASSUME NEW f \in Seq(Seq(Chars)), NEW x \in Seq(Chars), f \in T
      PROVE  Append(f, x) \in T
  <2>1. Same(f)
    BY <1>2
  <2>2. /\ RememberedOf(f) \in Seq(Items)
        /\ RememberedOf(Append(f, x)) = RememberedOf(f) \o Remembered(x)
    BY RememberedAppend
  <2>3. Remembered(x) \in Seq(Items)
    BY RememberedTyped
  <2>4. BytesOf(RememberedOf(Append(f, x))) = BytesOf(RememberedOf(f)) \o BytesOf(Remembered(x))
    BY <2>2, <2>3, BytesOfJoin
  <2>5. BytesOf(RememberedOf(f)) \in Seq(Chars) /\ BytesOf(Remembered(x)) \in Seq(Chars)
    BY <2>2, <2>3, BytesOfTyped
  <2>6. PlainBytes(BytesOf(Remembered(x))) = PlainBytes(x)
    BY BytesOfRemembered, PlainEnded
  <2>7. PlainBytes(BytesOf(RememberedOf(Append(f, x))))
           = PlainBytes(BytesOf(RememberedOf(f))) \o PlainBytes(x)
    BY <2>4, <2>5, <2>6, PlainJoin
  <2>8. PlainBytes(FlattenSeq(Append(f, x))) = PlainBytes(FlattenSeq(f)) \o PlainBytes(x)
    BY MessagesAppend
  <2>9. Same(Append(f, x))
    BY <2>1, <2>7, <2>8
  <2>10. Append(f, x) \in Seq(Seq(Chars))
    <3>1. PICK Q : Q = Seq(Chars)
      OBVIOUS
    <3>2. f \in Seq(Q) /\ x \in Q
      BY <3>1
    <3> QED
      BY <3>1, <3>2, AppendProperties
  <2> HIDE DEF Same
  <2> QED
    BY <2>9, <2>10
<1>3. Seq(Seq(Chars)) \subseteq T
  <2> HIDE DEF T
  <2>1. PICK Q : Q = Seq(Chars)
    OBVIOUS
  <2>2. \A f \in Seq(Q) : \A x \in Q : f \in T => Append(f, x) \in T
    BY <1>2, <2>1
  <2>3. Seq(Q) \subseteq T
    BY <1>1, <2>2, SequenceInduction
  <2> QED
    BY <2>1, <2>3
<1> QED
  BY <1>3

\* A byte more in the last part, or a part more without the delimiter: what is
\* kept of the parts is what was kept, and what is kept of the byte.
LEMMA GrownBytes ==
    ASSUME NEW x \in Seq(Chars), NEW n \in 1 .. Len(x), NEW q, Good(q, x, n - 1, Chars)
    PROVE  PlainBytes(FlattenSeq(Grown(q, x, n)))
              = PlainBytes(FlattenSeq(q)) \o PlainBytes(<<x[n]>>)
<1>1. PICK Q : Q = Seq(Chars)
  OBVIOUS
<1>2. q \in Seq(Q) /\ q # <<>> /\ Len(x) \in Nat
  BY <1>1, LenProperties DEF Good
<1>3. PICK y \in Chars : y = x[n]
  BY <1>2
<1>4. PICK f \in Seq(Q) : f = Front(q)
  BY <1>2, FrontLast
<1>5. PICK l \in Q : l = Last(q)
  BY <1>2, FrontLast
<1>6. q = Append(f, l)
  <2>1. q = Front(q) \o <<Last(q)>>
    BY <1>2, FrontLast
  <2>2. Append(f, l) = f \o <<l>>
    BY AppendIsConcat
  <2> QED
    BY <1>4, <1>5, <2>1, <2>2
<1>7. PICK a \in Seq(Letters) : a = PlainBytes(FlattenSeq(f))
  BY <1>1, FlattenTyped, KeptTyped
<1>8. \A e \in Q : PlainBytes(FlattenSeq(Append(f, e))) = a \o PlainBytes(e)
  BY <1>1, <1>7, MessagesAppend
<1>9. PlainBytes(FlattenSeq(q)) = a \o PlainBytes(l)
  BY <1>6, <1>8
<1>10. <<y>> \in Q
  BY <1>1
<1>11. PICK b \in Seq(Letters) : b = PlainBytes(l)
  BY <1>1, KeptTyped
<1>12. PICK c \in Seq(Letters) : c = PlainBytes(<<y>>)
  BY <1>1, <1>10, KeptTyped
<1>13. CASE n - 1 \notin Delims(x)
  <2>1. Grown(q, x, n) = f \o <<Append(l, y)>>
    BY <1>3, <1>4, <1>5, <1>13 DEF Grown
  <2>2. Append(l, y) = l \o <<y>> /\ l \o <<y>> \in Q
    BY <1>1, <1>10, AppendIsConcat, ConcatProperties
  <2>3. Grown(q, x, n) = Append(f, l \o <<y>>)
    BY <2>1, <2>2, AppendIsConcat
  <2>4. PlainBytes(l \o <<y>>) = b \o c
    BY <1>1, <1>10, <1>11, <1>12, PlainJoin
  <2>5. PlainBytes(FlattenSeq(Grown(q, x, n))) = a \o (b \o c)
    BY <1>8, <2>2, <2>3, <2>4
  <2>6. Cat(Cat(a, b), c) = Cat(a, Cat(b, c))
    BY Associative
  <2> QED
    BY <1>3, <1>9, <1>11, <1>12, <2>5, <2>6 DEF Cat
<1>14. CASE n - 1 \in Delims(x)
  <2>1. n - 1 # 0 /\ x[n - 1] = CR /\ y = LF
    BY <1>2, <1>3, <1>14 DEF Delims
  <2>2. l # <<>> /\ Last(l) = CR
    BY <1>5, <2>1 DEF Good
  <2>3. PICK h \in Q : h = Front(l)
    BY <1>1, <2>2, FrontLast
  <2>4. l = h \o <<CR>> /\ <<CR>> \in Q /\ <<>> \in Q
    <3>1. l = Front(l) \o <<Last(l)>>
      BY <1>1, <2>2, FrontLast
    <3>2. <<CR>> \in Q /\ <<>> \in Q
      BY <1>1 DEF Chars
    <3> QED
      BY <2>2, <2>3, <3>1, <3>2
  <2>5. PlainBytes(<<CR>>) = <<>> /\ c = <<>>
    BY <1>12, <2>1, PlainOne, FramingAssumption DEF Kept, Chars, Letters
  <2>6. PlainBytes(h) \in Seq(Letters)
    BY <1>1, KeptTyped
  <2>7. b = PlainBytes(h)
    <3>1. b = PlainBytes(h) \o PlainBytes(<<CR>>)
      BY <1>1, <1>11, <2>4, PlainJoin
    <3> QED
      BY <2>5, <2>6, <3>1, ConcatEmptySeq
  <2>8. Grown(q, x, n) = Append(Append(f, h), <<>>)
    <3>1. Grown(q, x, n) = f \o <<h, <<>>>>
      BY <1>4, <1>5, <1>14, <2>3 DEF Grown
    <3>2. PICK z \in Q : z = <<>>
      BY <2>4
    <3>3. Cat(f, <<h, z>>) = Cat(Cat(f, <<h>>), <<z>>)
      BY TwoMore
    <3>4. Append(f, h) = f \o <<h>> /\ Append(f, h) \in Seq(Q)
      BY AppendIsConcat, AppendProperties
    <3>5. Append(Append(f, h), z) = Append(f, h) \o <<z>>
      BY <3>4, AppendIsConcat
    <3> QED
      BY <3>1, <3>2, <3>3, <3>4, <3>5 DEF Cat
  <2>9. PlainBytes(FlattenSeq(Grown(q, x, n))) = a \o b
    <3>1. Append(f, h) \in Seq(Q)
      BY AppendProperties
    <3>2. PlainBytes(FlattenSeq(Append(Append(f, h), <<>>)))
             = PlainBytes(FlattenSeq(Append(f, h))) \o PlainBytes(<<>>)
      BY <1>1, <2>4, <3>1, MessagesAppend
    <3>3. PlainBytes(FlattenSeq(Append(f, h))) = a \o b
      BY <1>8, <2>7
    <3>4. a \o b \in Seq(Letters)
      BY ConcatProperties
    <3> QED
      BY <2>8, <3>2, <3>3, <3>4, PlainNone, ConcatEmptySeq
  <2>10. (a \o b) \o c = a \o b
    <3>1. a \o b \in Seq(Letters)
      BY ConcatProperties
    <3> QED
      BY <2>5, <3>1, ConcatEmptySeq
  <2> QED
    BY <1>3, <1>9, <1>11, <1>12, <2>9, <2>10
<1> QED
  BY <1>13, <1>14

\* recieving_msg() loses and moves none of the bytes of a read.
LEMMA InboxBytes ==
    ASSUME NEW x \in Seq(Chars)
    PROVE  PlainBytes(FlattenSeq(Inbox(x))) = PlainBytes(x)
<1>1. PICK p : /\ p[0] = <<<<>>>> /\ Split(x) = p[Len(x)]
               /\ \A n \in 1 .. Len(x) : p[n] = Grown(p[n - 1], x, n)
               /\ \A n \in 0 .. Len(x) : Good(p[n], x, n, Chars)
  BY SplitIs
<1> DEFINE Same(n) == PlainBytes(FlattenSeq(p[n])) = PlainBytes(SubSeq(x, 1, n))
           U == {n \in 0 .. Len(x) : Same(n)}
<1>2. Len(x) \in Nat
  BY LenProperties
<1>3. 0 \in U
  <2>1. 0 \in 0 .. Len(x)
    BY <1>2
  <2>2. SubSeq(x, 1, 0) = <<>>
    <3>1. SubSeq(x, 1, 0) \in Seq(Chars) /\ Len(SubSeq(x, 1, 0)) = 0
      BY <2>1, Cut
    <3> QED
      BY <3>1, EmptySeq
  <2>3. FlattenSeq(<<<<>>>>) = <<>>
    <3>1. <<<<>>>> = Append(<<>>, <<>>)
      OBVIOUS
    <3>2. <<>> \in Seq(Seq(Chars)) /\ <<>> \in Seq(Chars)
      OBVIOUS
    <3>3. FlattenSeq(Append(<<>>, <<>>)) = FlattenSeq(<<>>) \o <<>>
      BY <3>2, FlattenAppend
    <3> QED
      BY <3>1, <3>2, <3>3, FlattenNone, ConcatEmptySeq
  <2>4. Same(0)
    BY <1>1, <2>2, <2>3
  <2> HIDE DEF Same
  <2> QED
    BY <2>1, <2>4
<1>4. ASSUME NEW n \in 0 .. Len(x) - 1, n \in U
      PROVE  n + 1 \in U
  <2>1. n + 1 \in 1 .. Len(x) /\ n + 1 \in 0 .. Len(x) /\ (n + 1) - 1 = n /\ n \in 0 .. Len(x)
    BY <1>2
  <2>2. Same(n)
    BY <1>4
  <2>3. p[n + 1] = Grown(p[n], x, n + 1) /\ Good(p[n], x, (n + 1) - 1, Chars)
    BY <1>1, <2>1
  <2>4. PlainBytes(FlattenSeq(p[n + 1])) = PlainBytes(FlattenSeq(p[n])) \o PlainBytes(<<x[n + 1]>>)
    BY <2>1, <2>3, GrownBytes
  <2>5. PICK y \in Chars : y = x[n + 1]
    BY <2>1
  <2>6. PICK a \in Seq(Chars) : a = SubSeq(x, 1, n)
    BY <2>1, Cut
  <2>7. SubSeq(x, 1, n + 1) = Append(a, y)
    BY <2>5, <2>6, PrefixGrows
  <2>8. Append(a, y) = a \o <<y>> /\ <<y>> \in Seq(Chars)
    BY AppendIsConcat
  <2>9. PlainBytes(a \o <<y>>) = PlainBytes(a) \o PlainBytes(<<y>>)
    BY <2>8, PlainJoin
  <2>10. Same(n + 1)
    BY <2>2, <2>4, <2>5, <2>6, <2>7, <2>8, <2>9
  <2> HIDE DEF Same
  <2> QED
    BY <2>1, <2>10
<1>5. Same(Len(x))
  <2> HIDE DEF Same
  <2>1. Len(x) \in U
    <3> HIDE DEF U
    <3>1. 0 .. Len(x) \subseteq U
      BY <1>2, <1>3, <1>4, Induction
    <3> QED
      BY <1>2, <3>1
  <2> QED
    BY <2>1
<1>6. SubSeq(x, 1, Len(x)) = x
  <2>1. Len(x) \in 0 .. Len(x)
    BY <1>2
  <2>2. PICK b \in Seq(Chars) : /\ b = SubSeq(x, 1, Len(x)) /\ Len(b) = Len(x)
                                   /\ \A i \in 1 .. Len(x) : b[i] = x[i]
    BY <2>1, Cut
  <2> QED
    BY <2>2, SeqEqual
<1>7. PlainBytes(FlattenSeq(Split(x))) = PlainBytes(x)
  BY <1>1, <1>5, <1>6
<1>8. CASE Last(Split(x)) # <<>>
  BY <1>7, <1>8 DEF Inbox
<1>9. CASE Last(Split(x)) = <<>>
  <2>1. PICK Q : Q = Seq(Chars)
    OBVIOUS
  <2>2. Split(x) \in Seq(Q) /\ Split(x) # <<>>
    <3>1. Len(x) \in 0 .. Len(x)
      BY <1>2
    <3> QED
      BY <1>1, <2>1, <3>1 DEF Good
  <2>3. PICK f \in Seq(Q) : f = Front(Split(x))
    BY <2>2, FrontLast
  <2>4. PICK e \in Q : e = <<>>
    <3>1. <<>> \in Q
      BY <2>1
    <3> QED
      BY <3>1
  <2>5. Split(x) = Append(f, e)
    <3>1. Split(x) = Front(Split(x)) \o <<Last(Split(x))>>
      BY <2>2, FrontLast
    <3>2. Append(f, e) = f \o <<e>>
      BY AppendIsConcat
    <3> QED
      BY <1>9, <2>3, <2>4, <3>1, <3>2
  <2>6. PlainBytes(FlattenSeq(Append(f, e))) = PlainBytes(FlattenSeq(f)) \o PlainBytes(e)
    BY <2>1, MessagesAppend
  <2>7. PlainBytes(FlattenSeq(f)) \in Seq(Letters)
    BY <2>1, FlattenTyped, KeptTyped
  <2>8. PlainBytes(FlattenSeq(f)) = PlainBytes(FlattenSeq(f)) \o PlainBytes(e)
    BY <2>4, <2>7, PlainNone, ConcatEmptySeq
  <2> QED
    BY <1>7, <1>9, <2>3, <2>5, <2>6, <2>8 DEF Inbox
<1> QED
  BY <1>8, <1>9
----------------------------------------------------------------------------
(* Decoding, and what the receiver is given.                               *)

\* No half of a character is alone.
Sound(s) == \A i \in DOMAIN s : ~Alone(s, i)

\* What is decoded are characters, as many as there are bytes; and they are the
\* bytes if no half is alone.
LEMMA DecodedTyped ==
    ASSUME NEW s \in Seq(Chars)
    PROVE  /\ Decoded(s) \in Seq(Chars) /\ Len(Decoded(s)) = Len(s)
           /\ \A i \in 1 .. Len(s) : Decoded(s)[i] = IF Alone(s, i) THEN Bad ELSE s[i]
           /\ Sound(s) => Decoded(s) = s
<1>1. Len(s) \in Nat /\ DOMAIN s = 1 .. Len(s) /\ \A i \in 1 .. Len(s) : s[i] \in Chars
  BY LenProperties
<1>2. Bad \in Chars
  BY DEF Chars
<1>3. PICK d \in Seq(Chars) :
         /\ d = Decoded(s) /\ Len(d) = Len(s)
         /\ \A i \in 1 .. Len(s) : d[i] = IF Alone(s, i) THEN Bad ELSE s[i]
  <2> DEFINE v(i) == IF Alone(s, i) THEN Bad ELSE s[i]
  <2>1. \A i \in 1 .. Len(s) : v(i) \in Chars
    BY <1>1, <1>2
  <2>2. Decoded(s) = [i \in 1 .. Len(s) |-> v(i)]
    BY <1>1 DEF Decoded
  <2>3. \A i \in 1 .. Len(s) : v(i) = IF Alone(s, i) THEN Bad ELSE s[i]
    OBVIOUS
  <2> HIDE DEF v
  <2> QED
    BY <1>1, <2>1, <2>2, <2>3
<1>4. ASSUME Sound(s)
      PROVE  d = s
  <2>1. \A i \in 1 .. Len(s) : d[i] = s[i]
    BY <1>1, <1>3, <1>4 DEF Sound
  <2> QED
    BY <1>3, <2>1, SeqEqual
<1> QED
  BY <1>3, <1>4

\* What is decoded into itself has no half alone.
LEMMA SoundIs ==
    ASSUME NEW s \in Seq(Bytes), Decoded(s) = s
    PROVE  Sound(s)
<1>1. DOMAIN s = 1 .. Len(s) /\ \A i \in 1 .. Len(s) : s[i] # Bad
  BY LenProperties, FramingAssumption
<1>2. \A i \in DOMAIN s : Decoded(s)[i] = IF Alone(s, i) THEN Bad ELSE s[i]
  BY DEF Decoded
<1> QED
  BY <1>1, <1>2 DEF Sound

\* The session id is bytes, no half of a character among them.
LEMMA SessionIdIs ==
    /\ SessionId \in Seq(Bytes) /\ SessionId \in Seq(AllBytes) /\ SessionId \in Seq(Chars)
    /\ Sound(SessionId)
<1>1. PICK S : S = Bytes \ (Leads \cup Tails)
  OBVIOUS
<1>2. SessionId \in Seq(S)
  BY <1>1, FramingAssumption
<1>3. S \subseteq Bytes /\ S \subseteq AllBytes /\ S \subseteq Chars
  BY <1>1 DEF AllBytes, Chars
<1>4. \A i \in DOMAIN SessionId : SessionId[i] \in S
  BY <1>2, LenProperties
<1> QED
  BY <1>1, <1>2, <1>3, <1>4, SequencesOver DEF Sound, Alone

\* The newest messages are some of them.
LEMMA NewestIs ==
    ASSUME NEW S, NEW f \in Seq(S)
    PROVE  Newest(f) \in Seq(S)
<1> DEFINE m == Max({0, Len(f) - m_max_recent_msgs})
<1>1. Len(f) \in Nat /\ m_max_recent_msgs \in Nat
  BY LenProperties, FramingAssumption
<1>2. m \in 0 .. Len(f)
  <2>1. PICK k \in {0, Len(f) - m_max_recent_msgs} :
           \A y \in {0, Len(f) - m_max_recent_msgs} : k >= y
    BY <1>1
  <2>2. /\ m \in {0, Len(f) - m_max_recent_msgs}
        /\ \A y \in {0, Len(f) - m_max_recent_msgs} : m >= y
    BY <2>1, Zenon DEF Max
  <2> QED
    BY <1>1, <2>2
<1> HIDE DEF m
<1>3. SubSeq(f, m + 1, Len(f)) \in Seq(S)
  BY <1>2, Cut
<1> QED
  BY <1>3 DEF Newest, m

----------------------------------------------------------------------------
(* The steps.                                                              *)

\* A piece more behind two.
LEMMA Behind ==
    ASSUME NEW S, NEW a \in Seq(S), NEW b \in Seq(S), NEW c \in Seq(S), NEW d \in Seq(S)
    PROVE  Cat(a, Cat(Cat(b, c), d)) = Cat(Cat(Cat(a, b), c), d)
<1>1. Cat(b, c) \in Seq(S) /\ Cat(a, b) \in Seq(S)
  BY Associative
<1>2. Cat(Cat(a, Cat(b, c)), d) = Cat(a, Cat(Cat(b, c), d))
  BY <1>1, Associative
<1>3. Cat(Cat(a, b), c) = Cat(a, Cat(b, c))
  BY Associative
<1> QED
  BY <1>2, <1>3

\* A line is sent: it is the last of those in flight.
LEMMA SendsLineKeeps ==
    ASSUME IInv, SendsLine
    PROVE  IInv'
<1>1. /\ sent < Len(lines) /\ (sent = 0 \/ admitted) /\ sent' = sent + 1
      /\ toServer' = toServer \o lines[sent + 1] \o m_delim
      /\ pipelined' = (pipelined \/ sent > Consumed)
      /\ lines' = lines /\ admitted' = admitted /\ read_msg' = read_msg
      /\ reader' = reader /\ forwarded' = forwarded /\ toClient' = toClient
      /\ place' = place /\ given' = given /\ shown' = shown /\ torn' = torn /\ cut' = cut
  BY DEF SendsLine, MaySend, readerVars, outboxVars, receiverVars
<1>2. /\ lines \in Seq(Seq(Bytes)) /\ Len(lines) \in Nat /\ sent \in Nat
      /\ toServer \in Seq(AllBytes) /\ read_msg \in Seq(AllBytes)
      /\ m_delim \in Seq(AllBytes) /\ Bytes \subseteq AllBytes
      /\ Consumed \in Nat /\ Consumed <= sent
  BY Types, ConsumedIs DEF IInv, Order
<1>3. Consumed' = Consumed /\ m_delim' = m_delim
  BY <1>1 DEF Consumed, m_delim
<1>4. lines[sent + 1] \in Seq(AllBytes)
  <2>1. sent + 1 \in 1 .. Len(lines)
    BY <1>1, <1>2
  <2>2. lines[sent + 1] \in Seq(Bytes)
    BY <1>2, <2>1
  <2> QED
    BY <1>2, <2>2, SequencesOver
<1>5. toServer' \in Seq(AllBytes)
  <2>1. toServer \o lines[sent + 1] \in Seq(AllBytes)
    BY <1>2, <1>4, ConcatProperties
  <2> QED
    BY <1>1, <1>2, <2>1, ConcatProperties
<1>6. InFlight'
  <2>1. PICK st : Framed(read_msg \o toServer, lines, Consumed, sent, st)
    BY DEF IInv, InFlight
  <2>2. PICK b : b = read_msg \o toServer
    OBVIOUS
  <2>3. PICK c \in Nat : c = Consumed
    BY <1>2
  <2>4. b \in Seq(Bytes \cup {CR, LF})
    BY <1>2, <2>2, ConcatProperties DEF AllBytes
  <2>5. c <= sent /\ sent + 1 <= Len(lines) /\ Framed(b, lines, c, sent, st)
    BY <1>1, <1>2, <2>1, <2>2, <2>3
  <2>6. \E su : Framed(b \o lines[sent + 1] \o m_delim, lines, c, sent + 1, su)
    BY <1>2, <2>3, <2>4, <2>5, FramedSend
  <2>7. read_msg \o (toServer \o lines[sent + 1] \o m_delim) = b \o lines[sent + 1] \o m_delim
    <3>1. Cat(read_msg, Cat(Cat(toServer, lines[sent + 1]), m_delim))
             = Cat(Cat(Cat(read_msg, toServer), lines[sent + 1]), m_delim)
      BY <1>2, <1>4, Behind
    <3> QED
      BY <2>2, <3>1 DEF Cat
  <2> QED
    BY <1>1, <1>3, <2>3, <2>6, <2>7 DEF InFlight
<1>7. Order'
  <2>1. ~admitted => forwarded = <<>> /\ sent + 1 <= 1
    BY <1>1, <1>2 DEF IInv, Order
  <2>2. Consumed <= sent + 1 /\ (~(pipelined \/ sent > Consumed) => sent + 1 <= Consumed + 1)
    BY <1>2
  <2>3. \A k \in DOMAIN forwarded :
           /\ IsPrefix(lines[k + 1], forwarded[k])
           /\ ~pipelined' => forwarded[k] = lines[k + 1]
    BY <1>1 DEF IInv, Order
  <2> QED
    BY <1>1, <1>3, <2>1, <2>2, <2>3 DEF Order
<1>8. ShortLinesSurvive'
  <2>1. 1 .. sent \subseteq 1 .. sent + 1
    BY <1>2
  <2> QED
    BY <1>1, <1>3, <2>1 DEF IInv, ShortLinesSurvive
<1>9. TypeOK'
  <2>1. sent + 1 \in 0 .. Len(lines)
    BY <1>1, <1>2
  <2>2. pipelined' \in BOOLEAN
    BY <1>1, Zenon
  <2> QED
    BY <1>1, <1>5, <2>1, <2>2 DEF IInv, TypeOK, AllBytes
<1> QED
  BY <1>6, <1>7, <1>8, <1>9 DEF IInv

\* The reader takes some of what is on its way.
LEMMA ReadSomeKeeps ==
    ASSUME IInv, ReadSome
    PROVE  IInv'
<1>1. PICK n \in 1 .. Len(toServer) :
         /\ Len(read_msg) + n <= m_read_buff_len
         /\ read_msg' = read_msg \o SubSeq(toServer, 1, n)
         /\ toServer' = SubSeq(toServer, n + 1, Len(toServer))
  BY DEF ReadSome
<1>2. /\ lines' = lines /\ sent' = sent /\ admitted' = admitted
      /\ reader' = reader /\ forwarded' = forwarded /\ toClient' = toClient
      /\ place' = place /\ given' = given /\ shown' = shown /\ torn' = torn /\ cut' = cut
      /\ pipelined' = pipelined
  BY DEF ReadSome, senderVars, outboxVars, receiverVars
<1>3. /\ toServer \in Seq(AllBytes) /\ read_msg \in Seq(AllBytes)
      /\ Len(toServer) \in Nat /\ Len(read_msg) \in Nat
  BY Types DEF IInv
<1>4. Consumed' = Consumed /\ m_delim' = m_delim
  BY <1>2 DEF Consumed, m_delim
<1> DEFINE p == SubSeq(toServer, 1, n)
           q == SubSeq(toServer, n + 1, Len(toServer))
<1>5. p \in Seq(AllBytes) /\ q \in Seq(AllBytes) /\ p \o q = toServer /\ Len(p) = n
  <2>1. n \in 0 .. Len(toServer)
    BY <1>3
  <2> QED
    BY <1>3, <2>1, Cut
<1>6. read_msg' = read_msg \o p /\ toServer' = q
  BY <1>1
<1> HIDE DEF p, q
<1>7. /\ read_msg' \in Seq(AllBytes) /\ toServer' \in Seq(AllBytes)
      /\ Len(read_msg') = Len(read_msg) + n
      /\ read_msg' \o toServer' = read_msg \o toServer
  <2>1. read_msg \o p \in Seq(AllBytes) /\ Len(read_msg \o p) = Len(read_msg) + Len(p)
    BY <1>3, <1>5, Joined
  <2>2. Cat(Cat(read_msg, p), q) = Cat(read_msg, Cat(p, q))
    BY <1>3, <1>5, Associative
  <2>3. (read_msg \o p) \o q = read_msg \o (p \o q)
    BY <2>2 DEF Cat
  <2> QED
    BY <1>5, <1>6, <2>1, <2>3
<1>8. InFlight'
  BY <1>2, <1>4, <1>7 DEF IInv, InFlight
<1>9. Order'
  BY <1>2, <1>4 DEF IInv, Order
<1>10. ShortLinesSurvive'
  BY <1>2, <1>4 DEF IInv, ShortLinesSurvive
<1>11. TypeOK'
  <2>1. Len(read_msg') <= m_read_buff_len
    BY <1>1, <1>7
  <2> QED
    BY <1>2, <1>7, <2>1 DEF IInv, TypeOK, AllBytes
<1> QED
  BY <1>8, <1>9, <1>10, <1>11 DEF IInv

\* A full buffer without a delimiter: its first line does not fit.
LEMMA ReadFailsKeeps ==
    ASSUME IInv, ReadFails
    PROVE  IInv'
<1>1. /\ Len(read_msg) = m_read_buff_len /\ Delims(read_msg) = {} /\ reader' = "ended"
      /\ lines' = lines /\ sent' = sent /\ admitted' = admitted /\ toServer' = toServer
      /\ read_msg' = read_msg /\ forwarded' = forwarded /\ toClient' = toClient
      /\ place' = place /\ given' = given /\ shown' = shown /\ torn' = torn /\ cut' = cut
      /\ pipelined' = pipelined
  BY DEF ReadFails, NotFound, senderVars, outboxVars, receiverVars
<1>2. /\ read_msg \in Seq(AllBytes) /\ Len(read_msg) \in Nat /\ Len(m_delim) = 2
      /\ Len(read_msg) # 0 /\ Consumed \in Nat /\ sent \in Nat
  <2>1. m_read_buff_len # 0
    BY FramingAssumption
  <2> QED
    BY <1>1, <2>1, Types, ConsumedIs DEF IInv
<1>3. Consumed' = Consumed /\ m_delim' = m_delim
  BY <1>1 DEF Consumed, m_delim
<1> DEFINE L == Len(lines[Consumed + 1])
<1>4. read_msg # <<>>
  <2>1. Len(<<>>) = 0
    OBVIOUS
  <2> QED
    BY <1>2, <2>1
<1>5. /\ Consumed < sent /\ L \in Nat
      /\ \A i \in 1 .. Len(read_msg) : /\ i = L + 1 => read_msg[i] = CR
                                       /\ i = L + 2 => read_msg[i] = LF
  BY <1>4, FirstLine
<1> HIDE DEF L
<1>6. L + 2 > Len(read_msg)
  <2> SUFFICES ASSUME L + 2 <= Len(read_msg) PROVE FALSE
    BY <1>2, <1>5
  <2>1. /\ L + 1 \in 1 .. Len(read_msg) - 1 /\ L + 1 \in 1 .. Len(read_msg)
        /\ L + 2 \in 1 .. Len(read_msg) /\ (L + 1) + 1 = L + 2
    BY <1>2, <1>5
  <2>2. L + 1 \in Delims(read_msg)
    BY <1>5, <2>1 DEF Delims
  <2> QED
    BY <1>1, <2>2
<1>7. ShortLinesSurvive'
  <2>1. Consumed + 1 \in 1 .. sent
    BY <1>2, <1>5
  <2>2. Len(lines[Consumed + 1]) + Len(m_delim) > m_read_buff_len
    BY <1>1, <1>2, <1>6 DEF L
  <2> QED
    BY <1>1, <1>3, <2>1, <2>2 DEF ShortLinesSurvive
<1>8. InFlight'
  BY <1>1, <1>3 DEF IInv, InFlight
<1>9. Order'
  BY <1>1, <1>3 DEF IInv, Order
<1>10. TypeOK'
  BY <1>1 DEF IInv, TypeOK
<1> QED
  BY <1>7, <1>8, <1>9, <1>10 DEF IInv

\* The password is read: nothing comes behind it.
LEMMA ReadsPasswordKeeps ==
    ASSUME IInv, ReadsPassword
    PROVE  IInv'
<1>1. /\ ~admitted /\ Delims(read_msg) # {} /\ admitted' = TRUE /\ read_msg' = <<>>
      /\ lines' = lines /\ sent' = sent /\ toServer' = toServer
      /\ reader' = reader /\ forwarded' = forwarded /\ toClient' = toClient
      /\ place' = place /\ given' = given /\ shown' = shown /\ torn' = torn /\ cut' = cut
      /\ pipelined' = pipelined
  BY DEF ReadsPassword, senderVars, outboxVars, receiverVars
<1>2. /\ toServer \in Seq(AllBytes) /\ Len(toServer) \in Nat /\ Len(read_msg) \in Nat
      /\ m_read_buff_len \in Nat /\ sent \in Nat /\ forwarded = <<>> /\ sent <= 1
  BY <1>1, Types DEF IInv, Order
<1>3. Consumed = 0 /\ Consumed' = 1 /\ m_delim' = m_delim
  <2>1. Len(<<>>) = 0
    OBVIOUS
  <2> QED
    BY <1>1, <1>2, <2>1 DEF Consumed, m_delim
<1> DEFINE L == Len(lines[Consumed + 1])
<1>4. read_msg # <<>> /\ L + 2 <= Len(read_msg)
  BY <1>1, FirstDelim
<1>5. /\ Consumed < sent /\ L \in Nat
      /\ sent = Consumed + 1 => Len(read_msg) + Len(toServer) = L + 2
  BY <1>4, FirstLine
<1> HIDE DEF L
<1>6. sent = 1 /\ toServer = <<>>
  <2>1. sent = 1
    BY <1>2, <1>3, <1>5
  <2>2. Len(toServer) = 0
    BY <1>2, <1>3, <1>4, <1>5, <2>1
  <2> QED
    BY <1>2, <2>1, <2>2, EmptySeq
<1>7. InFlight'
  <2>1. <<>> \o <<>> = <<>>
    <3>1. <<>> \in Seq(AllBytes)
      OBVIOUS
    <3> QED
      BY <3>1, ConcatEmptySeq
  <2>2. \E st : Framed(<<>>, lines, 1, 1, st)
    BY FramedNone
  <2> QED
    BY <1>1, <1>3, <1>6, <2>1, <2>2 DEF InFlight
<1>8. Order'
  BY <1>1, <1>2, <1>3, <1>6 DEF IInv, Order
<1>9. ShortLinesSurvive'
  BY <1>1, <1>3 DEF IInv, ShortLinesSurvive
<1>10. TypeOK'
  <2>1. <<>> \in Seq(AllBytes) /\ Len(<<>>) <= m_read_buff_len
    BY <1>2
  <2> QED
    BY <1>1, <2>1 DEF IInv, TypeOK, AllBytes
<1> QED
  BY <1>7, <1>8, <1>9, <1>10 DEF IInv

\* A text is given to the receiver's session: it is items.
LEMMA OneDelivered ==
    ASSUME NEW t \in Seq(Over(AllBytes)), NEW g \in Seq(Seq(AllBytes)), NEW x \in Seq(AllBytes)
    PROVE  t \o Live(x) \in Seq(Over(AllBytes)) /\ g \o <<x>> \in Seq(Seq(AllBytes))
<1>1. Live(x) \in Seq(Over(AllBytes))
  BY LiveItems
<1>2. t \o Live(x) \in Seq(Over(AllBytes))
  BY <1>1, ConcatProperties
<1>3. PICK Q : Q = Seq(AllBytes)
  OBVIOUS
<1>4. <<x>> \in Seq(Q) /\ g \in Seq(Q)
  BY <1>3
<1>5. g \o <<x>> \in Seq(Q)
  BY <1>4, ConcatProperties
<1> QED
  BY <1>2, <1>3, <1>5

\* The first line in flight is forwarded, and taken out of the buffer.
LEMMA ForwardsKeeps ==
    ASSUME IInv, Forwards
    PROVE  IInv'
<1> DEFINE R == Response(read_msg)
           L == Len(lines[Consumed + 1])
           m == L + 2
           p == SubSeq(read_msg, 1, m)
           q == SubSeq(read_msg, m + 1, Len(read_msg))
<1>1. /\ admitted /\ Delims(read_msg) # {}
      /\ forwarded' = Append(forwarded, R) /\ read_msg' = Erased(read_msg)
      /\ \/ toClient' = toClient \o Live(R) /\ given' = given \o <<R>>
         \/ toClient' = toClient /\ given' = given
      /\ lines' = lines /\ sent' = sent /\ toServer' = toServer /\ admitted' = admitted
      /\ reader' = reader /\ pipelined' = pipelined
      /\ place' = place /\ shown' = shown /\ torn' = torn /\ cut' = cut
  BY DEF Forwards, Delivers, senderVars, outboxVars, receiverVars
<1>2. /\ toServer \in Seq(AllBytes) /\ read_msg \in Seq(AllBytes)
      /\ Len(toServer) \in Nat /\ Len(read_msg) \in Nat /\ Len(lines) \in Nat
      /\ m_read_buff_len \in Nat /\ sent \in Nat /\ sent <= Len(lines)
      /\ forwarded \in Seq(Seq(AllBytes)) /\ Len(forwarded) \in Nat
      /\ toClient \in Seq(Over(AllBytes)) /\ given \in Seq(Seq(AllBytes))
      /\ Len(read_msg) <= m_read_buff_len
      /\ lines \in Seq(Seq(Bytes))
  BY Types DEF IInv
<1>3. /\ Consumed \in Nat /\ Consumed = Len(forwarded) + 1
  BY <1>1, ConsumedIs DEF IInv
<1>4. read_msg # <<>> /\ m <= Len(read_msg) /\ Until(read_msg) = m
  BY <1>1, FirstDelim
<1>5. /\ Consumed < sent /\ L \in Nat
      /\ sent = Consumed + 1 => Len(read_msg) + Len(toServer) = m
  BY <1>4, FirstLine
<1>6. /\ R \in Seq(AllBytes) /\ IsPrefix(lines[Consumed + 1], R)
      /\ Len(read_msg) = m => R = lines[Consumed + 1]
  BY <1>1, ResponseIs
<1>7. /\ p \in Seq(AllBytes) /\ Len(p) = m
      /\ q \in Seq(AllBytes) /\ Len(q) = Len(read_msg) - m /\ p \o q = read_msg
      /\ read_msg' = q
  <2>1. m \in 0 .. Len(read_msg)
    BY <1>2, <1>4, <1>5
  <2>2. read_msg' = q
    BY <1>1, <1>4 DEF Erased
  <2> HIDE DEF m
  <2> QED
    BY <1>2, <2>1, <2>2, Cut
<1> HIDE DEF R, p, q
<1>8. forwarded' \in Seq(Seq(AllBytes)) /\ Len(forwarded') = Len(forwarded) + 1
      /\ forwarded'[Len(forwarded) + 1] = R
      /\ \A k \in 1 .. Len(forwarded) : forwarded'[k] = forwarded[k]
  <2>1. PICK Q : Q = Seq(AllBytes)
    OBVIOUS
  <2>2. forwarded \in Seq(Q) /\ R \in Q
    BY <1>2, <1>6, <2>1
  <2> QED
    BY <1>1, <2>1, <2>2, AppendProperties
<1>9. Consumed' = Consumed + 1 /\ m_delim' = m_delim
  BY <1>1, <1>2, <1>3, <1>8 DEF Consumed, m_delim
<1>10. InFlight'
  <2>1. PICK st : Framed(read_msg \o toServer, lines, Consumed, sent, st)
    BY DEF IInv, InFlight
  <2>2. PICK b : b = read_msg \o toServer
    OBVIOUS
  <2>3. PICK d : d = q \o toServer
    OBVIOUS
  <2>4. b = p \o d
    <3>1. Cat(Cat(p, q), toServer) = Cat(p, Cat(q, toServer))
      BY <1>2, <1>7, Associative
    <3> QED
      BY <1>7, <2>2, <2>3, <3>1 DEF Cat
  <2>5. d \in Seq(AllBytes)
    BY <1>2, <1>7, <2>3, ConcatProperties
  <2>6. /\ b \in Seq(AllBytes) /\ Len(b) = m + Len(d)
        /\ \A i \in 1 .. Len(d) : b[m + i] = d[i]
    <3>1. PICK r \in Seq(AllBytes) : r = p
      BY <1>7
    <3>2. /\ r \o d \in Seq(AllBytes) /\ Len(r \o d) = Len(r) + Len(d)
          /\ \A i \in 1 .. Len(d) : (r \o d)[Len(r) + i] = d[i]
      BY <2>5, Joined
    <3> QED
      BY <1>7, <2>4, <3>1, <3>2
  <2>7. PICK c \in Nat : c = Consumed
    BY <1>3
  <2>8. /\ b \in Seq(Bytes \cup {CR, LF}) /\ c < sent
        /\ Framed(b, lines, c, sent, st)
        /\ Len(d) = Len(b) - (Len(lines[c + 1]) + 2)
        /\ \A i \in 1 .. Len(d) : d[i] = b[(Len(lines[c + 1]) + 2) + i]
    <3>1. Len(d) \in Nat /\ m \in Nat
      BY <1>5, <2>5, LenProperties
    <3>2. Len(d) = Len(b) - m
      BY <2>6, <3>1
    <3> QED
      BY <1>5, <2>1, <2>2, <2>6, <2>7, <3>2 DEF AllBytes
  <2>9. \E su : Framed(d, lines, c + 1, sent, su)
    BY <1>2, <2>8, FramedNext
  <2> QED
    BY <1>1, <1>7, <1>9, <2>3, <2>7, <2>9 DEF InFlight
<1> HIDE DEF m, L
<1>11. Order'
  <2>1. Consumed + 1 <= sent
    BY <1>2, <1>3, <1>5
  <2>2. ASSUME ~pipelined
        PROVE  sent = Consumed + 1 /\ R = lines[Consumed + 1]
    <3>1. sent = Consumed + 1
      BY <1>2, <1>3, <1>5, <2>2 DEF IInv, Order
    <3>2. Len(read_msg) = m
      BY <1>2, <1>4, <1>5, <3>1 DEF m
    <3> QED
      BY <1>6, <3>1, <3>2
  <2>3. ASSUME NEW k \in DOMAIN forwarded'
        PROVE  /\ IsPrefix(lines[k + 1], forwarded'[k])
               /\ ~pipelined => forwarded'[k] = lines[k + 1]
    <3>1. k \in 1 .. Len(forwarded) + 1
      BY <1>8, LenProperties
    <3>2. CASE k = Len(forwarded) + 1
      BY <1>3, <1>6, <1>8, <2>2, <3>2
    <3>3. CASE k # Len(forwarded) + 1
      <4>1. k \in 1 .. Len(forwarded) /\ k \in DOMAIN forwarded
        BY <1>2, <3>1, <3>3, LenProperties
      <4> QED
        BY <1>8, <4>1 DEF IInv, Order
    <3> QED
      BY <3>2, <3>3
  <2>4. ~pipelined => sent <= (Consumed + 1) + 1
    BY <1>3, <2>2
  <2> QED
    BY <1>1, <1>9, <2>1, <2>3, <2>4 DEF Order
<1>12. ShortLinesSurvive'
  BY <1>1, <1>9 DEF IInv, ShortLinesSurvive
<1>13. TypeOK'
  <2>1. /\ toClient \o Live(R) \in Seq(Over(AllBytes))
        /\ given \o <<R>> \in Seq(Seq(AllBytes))
    BY <1>2, <1>6, OneDelivered
  <2>2. toClient' \in Seq(Over(AllBytes)) /\ given' \in Seq(Seq(AllBytes))
    BY <1>1, <1>2, <2>1
  <2>3. read_msg' \in Seq(AllBytes) /\ Len(read_msg') <= m_read_buff_len
    <3>1. Len(q) <= m_read_buff_len
      BY <1>2, <1>5, <1>7 DEF m
    <3> QED
      BY <1>7, <3>1
  <2> QED
    BY <1>1, <1>8, <2>2, <2>3 DEF IInv, TypeOK, AllBytes, Over
<1> QED
  BY <1>10, <1>11, <1>12, <1>13 DEF IInv

\* What the receiver's place in the room has nothing to do with.
LEMMA RoomKeeps ==
    ASSUME IInv, UNCHANGED roomOnly,
           place' \in {"out", "member", "answered", "admitted"},
           toClient' \in Seq(Over(AllBytes)), given' \in Seq(Seq(AllBytes))
    PROVE  IInv'
<1>1. /\ lines' = lines /\ sent' = sent /\ toServer' = toServer /\ admitted' = admitted
      /\ read_msg' = read_msg /\ forwarded' = forwarded /\ reader' = reader
      /\ pipelined' = pipelined /\ shown' = shown /\ torn' = torn /\ cut' = cut
  BY DEF roomOnly, senderVars, readerVars, receiverVars
<1>2. Consumed' = Consumed /\ m_delim' = m_delim
  BY <1>1 DEF Consumed, m_delim
<1>3. TypeOK'
  BY <1>1 DEF IInv, TypeOK, AllBytes, Over
<1>4. InFlight' /\ ShortLinesSurvive'
  BY <1>1, <1>2 DEF IInv, InFlight, ShortLinesSurvive
<1>5. Order'
  BY <1>1, <1>2 DEF IInv, Order
<1> QED
  BY <1>3, <1>4, <1>5 DEF IInv

\* The receiver is a member, and has been given nothing yet.
LEMMA JoinsKeeps ==
    ASSUME IInv, Joins
    PROVE  IInv'
<1>1. place' = "member" /\ UNCHANGED roomOnly /\ toClient' = toClient /\ given' = given
  BY DEF Joins, outboxVars
<1>2. toClient' \in Seq(Over(AllBytes)) /\ given' \in Seq(Seq(AllBytes))
  BY <1>1, Types DEF IInv
<1> QED
  BY <1>1, <1>2, RoomKeeps

\* The receiver is given its session id.
LEMMA IsAnsweredKeeps ==
    ASSUME IInv, IsAnswered
    PROVE  IInv'
<1>1. /\ place' = "answered" /\ UNCHANGED roomOnly
      /\ toClient' = toClient \o Live(SessionId) /\ given' = given \o <<SessionId>>
  BY DEF IsAnswered, Delivers
<1>2. SessionId \in Seq(AllBytes)
  BY SessionIdIs
<1>3. toClient' \in Seq(Over(AllBytes)) /\ given' \in Seq(Seq(AllBytes))
  BY <1>1, <1>2, Types, OneDelivered DEF IInv
<1> QED
  BY <1>1, <1>3, RoomKeeps

\* The receiver is given the newest messages.
LEMMA IsAdmittedKeeps ==
    ASSUME IInv, IsAdmitted
    PROVE  IInv'
<1>1. /\ place' = "admitted" /\ UNCHANGED roomOnly
      /\ given' = given \o Newest(forwarded)
      /\ toClient' = toClient \o RememberedOf(Newest(forwarded))
  BY DEF IsAdmitted, Delivers, RememberedOf
<1>2. PICK Q : Q = Seq(AllBytes)
  OBVIOUS
<1>3. forwarded \in Seq(Q) /\ given \in Seq(Q) /\ toClient \in Seq(Over(AllBytes))
  BY <1>2, Types DEF IInv
<1>4. PICK f \in Seq(Q) : f = Newest(forwarded)
  BY <1>3, NewestIs
<1>5. RememberedOf(f) \in Seq(Over(AllBytes))
  <2> DEFINE s == [k \in DOMAIN f |-> Remembered(f[k])]
  <2>1. /\ DOMAIN f = 1 .. Len(f) /\ Len(f) \in Nat
        /\ \A k \in 1 .. Len(f) : f[k] \in Seq(AllBytes)
    BY <1>2, LenProperties
  <2>2. CR \in AllBytes /\ LF \in AllBytes
    BY DEF AllBytes
  <2>3. \A k \in 1 .. Len(f) : Remembered(f[k]) \in Seq(Over(AllBytes))
    BY <2>1, <2>2, RememberedItems
  <2>4. s \in Seq(Seq(Over(AllBytes)))
    BY <2>1, <2>3
  <2> HIDE DEF s
  <2>5. FlattenSeq(s) \in Seq(Over(AllBytes))
    BY <2>4, FlattenTyped
  <2> QED
    BY <2>5 DEF RememberedOf, s
<1>6. given' \in Seq(Q) /\ toClient' \in Seq(Over(AllBytes))
  BY <1>1, <1>3, <1>4, <1>5, ConcatProperties
<1> QED
  BY <1>1, <1>2, <1>6, RoomKeeps

\* The receiver reads.
LEMMA ReceivesKeeps ==
    ASSUME IInv, Receives
    PROVE  IInv'
<1>1. PICK n \in 1 .. Len(toClient) :
         /\ toClient' = SubSeq(toClient, n + 1, Len(toClient))
         /\ shown' = shown \o Inbox(Decoded(BytesOf(SubSeq(toClient, 1, n))))
         /\ torn' = (torn \/ ~Whole(SubSeq(toClient, 1, n)))
         /\ cut' = (cut \/ Last(SubSeq(toClient, 1, n)).byte \in Leads)
         /\ lines' = lines /\ sent' = sent /\ toServer' = toServer /\ admitted' = admitted
         /\ read_msg' = read_msg /\ forwarded' = forwarded
         /\ reader' = reader /\ pipelined' = pipelined /\ place' = place /\ given' = given
  BY DEF Receives, BytesOf, senderVars, readerVars
<1>2. Consumed' = Consumed /\ m_delim' = m_delim
  BY <1>1 DEF Consumed, m_delim
<1>3. /\ toClient \in Seq(Over(AllBytes)) /\ toClient \in Seq(Items)
      /\ shown \in Seq(Seq(Chars)) /\ n \in 0 .. Len(toClient)
  BY Types DEF IInv
<1>4. toClient' \in Seq(Over(AllBytes)) /\ SubSeq(toClient, 1, n) \in Seq(Items)
  BY <1>1, <1>3, Cut
<1>5. torn' \in BOOLEAN /\ cut' \in BOOLEAN
  BY <1>1, Zenon
<1>6. PICK x \in Seq(Chars) : x = Decoded(BytesOf(SubSeq(toClient, 1, n)))
  BY <1>4, BytesOfTyped, DecodedTyped
<1>7. shown' \in Seq(Seq(Chars))
  <2>1. PICK Q : Q = Seq(Chars)
    OBVIOUS
  <2>2. Inbox(x) \in Seq(Q) /\ shown \in Seq(Q)
    BY <1>3, <1>6, <2>1, InboxTyped
  <2> QED
    BY <1>1, <1>6, <2>1, <2>2, ConcatProperties
<1>8. TypeOK'
  <2>1. shown' \in Seq(Seq(Bytes \cup {CR, LF, Bad}))
    BY <1>7 DEF Chars
  <2>2. toClient' \in Seq([byte : Bytes \cup {CR, LF}, ends : BOOLEAN, live : BOOLEAN])
    BY <1>4 DEF Over, AllBytes
  <2> QED
    BY <1>1, <1>5, <2>1, <2>2 DEF IInv, TypeOK
<1>9. InFlight' /\ ShortLinesSurvive'
  BY <1>1, <1>2 DEF IInv, InFlight, ShortLinesSurvive
<1>10. Order'
  BY <1>1, <1>2 DEF IInv, Order
<1> QED
  BY <1>8, <1>9, <1>10 DEF IInv

----------------------------------------------------------------------------
(* The theorems.                                                           *)

\* It holds at the beginning.
LEMMA InitIInv ==
    ASSUME Init
    PROVE  IInv
<1>1. /\ lines \in Scripts /\ sent = 0 /\ toServer = <<>> /\ admitted = FALSE
      /\ read_msg = <<>> /\ reader = "reading" /\ forwarded = <<>> /\ place = "out"
      /\ toClient = <<>> /\ given = <<>> /\ shown = <<>>
      /\ pipelined = FALSE /\ torn = FALSE /\ cut = FALSE
  BY DEF Init
<1>2. Len(<<>>) = 0 /\ DOMAIN <<>> = {} /\ m_read_buff_len \in Nat
  BY FramingAssumption
<1>3. Len(lines) \in Nat
  BY <1>1, FramingAssumption
<1>4. TypeOK
  <2>1. /\ <<>> \in Seq(AllBytes) /\ <<>> \in Seq(Seq(AllBytes))
        /\ <<>> \in Seq(Over(AllBytes)) /\ <<>> \in Seq(Seq(Bytes \cup {CR, LF, Bad}))
    OBVIOUS
  <2>2. sent \in 0 .. Len(lines)
    BY <1>1, <1>3
  <2>3. Len(read_msg) <= m_read_buff_len
    BY <1>1, <1>2
  <2> QED
    BY <1>1, <2>1, <2>2, <2>3 DEF TypeOK, AllBytes, Over
<1>5. Consumed = 0
  BY <1>1, <1>2 DEF Consumed
<1>6. InFlight
  <2>1. <<>> \o <<>> = <<>>
    <3>1. <<>> \in Seq(AllBytes)
      OBVIOUS
    <3> QED
      BY <3>1, ConcatEmptySeq
  <2>2. \E st : Framed(<<>>, lines, 0, 0, st)
    BY FramedNone
  <2> QED
    BY <1>1, <1>5, <2>1, <2>2 DEF InFlight
<1>7. Order
  BY <1>1, <1>2, <1>5 DEF Order
<1>8. ShortLinesSurvive
  BY <1>1 DEF ShortLinesSurvive
<1> QED
  BY <1>4, <1>6, <1>7, <1>8 DEF IInv

\* Every step keeps it.
LEMMA NextIInv ==
    ASSUME IInv, [Next]_vars
    PROVE  IInv'
<1>1. CASE SendsLine
  BY <1>1, SendsLineKeeps
<1>2. CASE ReadSome
  BY <1>2, ReadSomeKeeps
<1>3. CASE ReadFails
  BY <1>3, ReadFailsKeeps
<1>4. CASE ReadsPassword
  BY <1>4, ReadsPasswordKeeps
<1>5. CASE Forwards
  BY <1>5, ForwardsKeeps
<1>6. CASE Joins
  BY <1>6, JoinsKeeps
<1>7. CASE IsAnswered
  BY <1>7, IsAnsweredKeeps
<1>8. CASE IsAdmitted
  BY <1>8, IsAdmittedKeeps
<1>9. CASE Receives
  BY <1>9, ReceivesKeeps
<1>10. CASE UNCHANGED vars
  <2>1. /\ lines' = lines /\ sent' = sent /\ toServer' = toServer /\ admitted' = admitted
        /\ read_msg' = read_msg /\ forwarded' = forwarded /\ reader' = reader
        /\ pipelined' = pipelined /\ place' = place
        /\ toClient' = toClient /\ given' = given
        /\ shown' = shown /\ torn' = torn /\ cut' = cut
    BY <1>10 DEF vars, senderVars, readerVars, outboxVars, receiverVars
  <2>2. Consumed' = Consumed /\ m_delim' = m_delim
    BY <2>1 DEF Consumed, m_delim
  <2>3. TypeOK'
    BY <2>1 DEF IInv, TypeOK
  <2>4. InFlight' /\ ShortLinesSurvive'
    BY <2>1, <2>2 DEF IInv, InFlight, ShortLinesSurvive
  <2>5. Order'
    BY <2>1, <2>2 DEF IInv, Order
  <2> QED
    BY <2>3, <2>4, <2>5 DEF IInv
<1> QED
  BY <1>1, <1>2, <1>3, <1>4, <1>5, <1>6, <1>7, <1>8, <1>9, <1>10 DEF Next, Session, Room

\* The inductive invariant holds in every reachable state.
THEOREM Invariant == Spec => []IInv
<1>1. Init => IInv
  BY InitIInv
<1>2. IInv /\ [Next]_vars => IInv'
  BY NextIInv
<1> QED
  BY <1>1, <1>2, PTL DEF Spec

\* The buffer of async_read_until() never holds more than it may, and nothing
\* but bytes is read, forwarded or shown.
THEOREM TypeCorrect == Spec => []TypeOK
<1>1. IInv => TypeOK
  BY DEF IInv
<1> QED
  BY <1>1, Invariant, PTL

\* However TCP cuts the stream, the k-th broadcast begins with the k-th line
\* after the password, and is that line if the client waits for the server.
THEOREM LinesStayInOrder == Spec => []LinesInOrder
<1>1. IInv => LinesInOrder
  <2> SUFFICES ASSUME IInv PROVE LinesInOrder
    OBVIOUS
  <2>1. Consumed <= sent /\ sent \in Nat /\ Len(forwarded) \in Nat
    BY Types DEF IInv, Order
  <2>2. admitted => Consumed = Len(forwarded) + 1
    BY ConsumedIs DEF IInv
  <2>3. admitted => sent > 0
    BY <2>1, <2>2
  <2>4. ASSUME NEW k \in DOMAIN forwarded
        PROVE  k < sent
    <3>1. k \in 1 .. Len(forwarded)
      BY Types, LenProperties DEF IInv
    <3>2. admitted
      <4>1. Len(<<>>) = 0
        OBVIOUS
      <4> QED
        BY <2>1, <3>1, <4>1 DEF IInv, Order
    <3> QED
      BY <2>1, <2>2, <3>1, <3>2
  <2> QED
    BY <2>3, <2>4 DEF LinesInOrder, IInv, Order
<1> QED
  BY <1>1, Invariant, PTL

\* A read ends for the size of the buffer (error::not_found) only if one line
\* with its delimiter is longer than the buffer.
THEOREM ShortLinesFit == Spec => []ShortLinesSurvive
<1>1. IInv => ShortLinesSurvive
  BY DEF IInv
<1> QED
  BY <1>1, Invariant, PTL

----------------------------------------------------------------------------
(* What becomes of bytes that are read.                                    *)

\* Of two sequences in which no half is alone, one behind the other, none is.
LEMMA SoundJoin ==
    ASSUME NEW s \in Seq(Chars), NEW t \in Seq(Chars), Sound(s), Sound(t)
    PROVE  Sound(s \o t)
<1>1. PICK u \in Seq(Chars) : /\ u = s \o t /\ Len(u) = Len(s) + Len(t)
                              /\ \A i \in 1 .. Len(s) : u[i] = s[i]
                              /\ \A i \in 1 .. Len(t) : u[Len(s) + i] = t[i]
  <2>1. /\ s \o t \in Seq(Chars) /\ Len(s \o t) = Len(s) + Len(t)
        /\ \A i \in 1 .. Len(s) : (s \o t)[i] = s[i]
        /\ \A i \in 1 .. Len(t) : (s \o t)[Len(s) + i] = t[i]
    BY Joined
  <2> QED
    BY <2>1
<1>2. /\ Len(s) \in Nat /\ Len(t) \in Nat
      /\ DOMAIN s = 1 .. Len(s) /\ DOMAIN t = 1 .. Len(t) /\ DOMAIN u = 1 .. Len(u)
  BY LenProperties
<1>3. ASSUME NEW i \in 1 .. Len(u)
      PROVE  ~Alone(u, i)
  <2>1. CASE i \in 1 .. Len(s)
    <3>1. ~Alone(s, i) /\ u[i] = s[i]
      BY <1>1, <1>2, <2>1 DEF Sound
    <3>2. i < Len(s) => i < Len(u) /\ i + 1 \in 1 .. Len(s)
      BY <1>1, <1>2, <2>1
    <3>3. i > 1 => i - 1 \in 1 .. Len(s)
      BY <1>2, <2>1
    <3> QED
      BY <1>1, <3>1, <3>2, <3>3 DEF Alone
  <2>2. CASE i \notin 1 .. Len(s)
    <3>1. PICK j \in 1 .. Len(t) : i = Len(s) + j
      <4>1. i - Len(s) \in 1 .. Len(t) /\ i = Len(s) + (i - Len(s))
        BY <1>1, <1>2, <2>2
      <4> QED
        BY <4>1
    <3>2. ~Alone(t, j) /\ u[i] = t[j]
      BY <1>1, <1>2, <3>1 DEF Sound
    <3>3. j < Len(t) => /\ i < Len(u) /\ j + 1 \in 1 .. Len(t)
                        /\ i + 1 = Len(s) + (j + 1)
      BY <1>1, <1>2, <3>1
    <3>4. j > 1 => i > 1 /\ j - 1 \in 1 .. Len(t) /\ i - 1 = Len(s) + (j - 1)
      BY <1>2, <3>1
    <3> QED
      BY <1>1, <3>2, <3>3, <3>4 DEF Alone
  <2> QED
    BY <2>1, <2>2
<1> QED
  BY <1>1, <1>2, <1>3 DEF Sound

\* Cut behind a byte that does not begin a character, neither part has one.
LEMMA SoundCut ==
    ASSUME NEW s \in Seq(Chars), NEW t \in Seq(Chars), Sound(s \o t),
           Len(s) # 0, s[Len(s)] \notin Leads
    PROVE  Sound(s) /\ Sound(t)
<1>1. PICK u \in Seq(Chars) : /\ u = s \o t /\ Len(u) = Len(s) + Len(t)
                              /\ \A i \in 1 .. Len(s) : u[i] = s[i]
                              /\ \A i \in 1 .. Len(t) : u[Len(s) + i] = t[i]
  <2>1. /\ s \o t \in Seq(Chars) /\ Len(s \o t) = Len(s) + Len(t)
        /\ \A i \in 1 .. Len(s) : (s \o t)[i] = s[i]
        /\ \A i \in 1 .. Len(t) : (s \o t)[Len(s) + i] = t[i]
    BY Joined
  <2> QED
    BY <2>1
<1>2. /\ Len(s) \in Nat /\ Len(t) \in Nat
      /\ DOMAIN s = 1 .. Len(s) /\ DOMAIN t = 1 .. Len(t) /\ DOMAIN u = 1 .. Len(u)
  BY LenProperties
<1>3. \A i \in 1 .. Len(u) : ~Alone(u, i)
  BY <1>1, <1>2 DEF Sound
<1>4. ASSUME NEW i \in 1 .. Len(s)
      PROVE  ~Alone(s, i)
  <2>1. ~Alone(u, i) /\ u[i] = s[i]
    BY <1>1, <1>2, <1>3
  <2>2. s[i] \in Leads => i < Len(s) /\ i + 1 \in 1 .. Len(s)
    BY <1>2
  <2>3. i > 1 => i - 1 \in 1 .. Len(s)
    BY <1>2
  <2> QED
    BY <1>1, <2>1, <2>2, <2>3 DEF Alone
<1>5. ASSUME NEW i \in 1 .. Len(t)
      PROVE  ~Alone(t, i)
  <2>1. ~Alone(u, Len(s) + i) /\ u[Len(s) + i] = t[i]
    BY <1>1, <1>2, <1>3
  <2>2. Len(s) + i < Len(u) => /\ i < Len(t) /\ i + 1 \in 1 .. Len(t)
                               /\ (Len(s) + i) + 1 = Len(s) + (i + 1)
    BY <1>1, <1>2
  <2>3. i > 1 => i - 1 \in 1 .. Len(t) /\ (Len(s) + i) - 1 = Len(s) + (i - 1)
    BY <1>2
  <2>4. i = 1 => u[(Len(s) + i) - 1] \notin Leads
    BY <1>1, <1>2
  <2> QED
    BY <1>1, <1>2, <2>1, <2>2, <2>3, <2>4 DEF Alone
<1> QED
  BY <1>2, <1>4, <1>5 DEF Sound

\* t is what became of s: halves of characters may be marked.
Resembles(s, t) ==
    /\ Len(t) = Len(s)
    /\ \A i \in 1 .. Len(s) : t[i] = s[i] \/ (t[i] = Bad /\ s[i] \in Leads \cup Tails)

\* What is decoded resembles what is read.
LEMMA DecodedResembles ==
    ASSUME NEW s \in Seq(Chars)
    PROVE  Resembles(s, Decoded(s))
<1>1. \A i \in 1 .. Len(s) : Alone(s, i) => s[i] \in Leads \cup Tails
  BY DEF Alone
<1> QED
  BY <1>1, DecodedTyped DEF Resembles

\* What resembles what resembles s resembles s: the mark is no half.
LEMMA ResemblesOn ==
    ASSUME NEW s \in Seq(Chars), NEW t \in Seq(Chars), NEW u \in Seq(Chars),
           Resembles(s, t), Resembles(t, u)
    PROVE  Resembles(s, u)
<1>1. Bad \notin Leads \cup Tails
  BY FramingAssumption
<1> QED
  BY <1>1 DEF Resembles

\* Of two sequences, one behind the other, each may be replaced by what became
\* of it.
LEMMA ResemblesJoin ==
    ASSUME NEW S, NEW s \in Seq(S), NEW t \in Seq(S), NEW u \in Seq(S), NEW v \in Seq(S),
           Resembles(s, t), Resembles(u, v)
    PROVE  Resembles(s \o u, t \o v)
<1>1. /\ Len(s \o u) = Len(s) + Len(u)
      /\ \A i \in 1 .. Len(s) : (s \o u)[i] = s[i]
      /\ \A i \in 1 .. Len(u) : (s \o u)[Len(s) + i] = u[i]
  BY Joined
<1>2. /\ Len(t \o v) = Len(t) + Len(v)
      /\ \A i \in 1 .. Len(t) : (t \o v)[i] = t[i]
      /\ \A i \in 1 .. Len(v) : (t \o v)[Len(t) + i] = v[i]
  BY Joined
<1>3. Len(s) \in Nat /\ Len(u) \in Nat /\ Len(t) = Len(s) /\ Len(v) = Len(u)
  BY LenProperties DEF Resembles
<1>4. ASSUME NEW i \in 1 .. Len(s) + Len(u)
      PROVE  \/ (t \o v)[i] = (s \o u)[i]
             \/ (t \o v)[i] = Bad /\ (s \o u)[i] \in Leads \cup Tails
  <2>1. CASE i \in 1 .. Len(s)
    BY <1>1, <1>2, <1>3, <2>1 DEF Resembles
  <2>2. CASE i \notin 1 .. Len(s)
    <3>1. PICK j \in 1 .. Len(u) : i = Len(s) + j
      <4>1. i - Len(s) \in 1 .. Len(u) /\ i = Len(s) + (i - Len(s))
        BY <1>3, <2>2
      <4> QED
        BY <4>1
    <3>2. (t \o v)[i] = v[j] /\ (s \o u)[i] = u[j]
      BY <1>1, <1>2, <1>3, <3>1
    <3> QED
      BY <3>2 DEF Resembles
  <2> QED
    BY <2>1, <2>2
<1> QED
  BY <1>1, <1>2, <1>3, <1>4 DEF Resembles

\* What is kept of one resembles what is kept of the other.
LEMMA PlainResembles ==
    \A s \in Seq(Chars) : \A t \in Seq(Chars) :
        Resembles(s, t) => Resembles(PlainBytes(s), PlainBytes(t))
<1> DEFINE Ok(s) == \A t \in Seq(Chars) :
                        Resembles(s, t) => Resembles(PlainBytes(s), PlainBytes(t))
           T == {s \in Seq(Chars) : Ok(s)}
<1>1. <<>> \in T
  <2>1. ASSUME NEW t \in Seq(Chars), Resembles(<<>>, t)
        PROVE  Resembles(PlainBytes(<<>>), PlainBytes(t))
    <3>1. t = <<>>
      BY <2>1, EmptySeq DEF Resembles
    <3>2. \A i \in 1 .. Len(PlainBytes(<<>>)) : PlainBytes(<<>>)[i] = PlainBytes(<<>>)[i]
      OBVIOUS
    <3> QED
      BY <3>1, <3>2 DEF Resembles
  <2>2. Ok(<<>>)
    BY <2>1
  <2> HIDE DEF Ok
  <2> QED
    BY <2>2
<1>2. ASSUME NEW s \in Seq(Chars), NEW x \in Chars, s \in T
      PROVE  Append(s, x) \in T
  <2>1. Ok(s)
    BY <1>2
  <2>2. PICK a \in Seq(Chars) : /\ a = Append(s, x) /\ Len(a) = Len(s) + 1
                                /\ a[Len(s) + 1] = x
                                /\ \A i \in 1 .. Len(s) : a[i] = s[i]
    <3>1. /\ Append(s, x) \in Seq(Chars) /\ Len(Append(s, x)) = Len(s) + 1
          /\ Append(s, x)[Len(s) + 1] = x
          /\ \A i \in 1 .. Len(s) : Append(s, x)[i] = s[i]
      BY AppendProperties
    <3> QED
      BY <3>1
  <2>3. ASSUME NEW t \in Seq(Chars), Resembles(a, t)
        PROVE  Resembles(PlainBytes(a), PlainBytes(t))
    <3>1. t # <<>> /\ Len(t) = Len(s) + 1 /\ Len(s) \in Nat
      <4>1. Len(t) = Len(s) + 1 /\ Len(s) \in Nat
        BY <2>2, <2>3, LenProperties DEF Resembles
      <4>2. Len(<<>>) = 0
        OBVIOUS
      <4> QED
        BY <4>1, <4>2
    <3>2. PICK f \in Seq(Chars) : f = Front(t)
      BY <3>1, FrontLast
    <3>3. PICK y \in Chars : y = Last(t)
      BY <3>1, FrontLast
    <3>4. t = f \o <<y>> /\ t = Append(f, y)
      <4>1. t = Front(t) \o <<Last(t)>>
        BY <3>1, FrontLast
      <4> QED
        BY <3>2, <3>3, <4>1, AppendIsConcat
    <3>5. /\ Len(t) = Len(f) + 1 /\ t[Len(f) + 1] = y /\ Len(f) \in Nat
          /\ \A i \in 1 .. Len(f) : t[i] = f[i]
      BY <3>4, AppendProperties, LenProperties
    <3>6. Len(f) = Len(s)
      BY <3>1, <3>5
    <3>7. Resembles(s, f) /\ (y = x \/ (y = Bad /\ x \in Leads \cup Tails))
      <4>1. \A i \in 1 .. Len(s) : i \in 1 .. Len(a)
        BY <2>2, <3>1
      <4>2. Len(s) + 1 \in 1 .. Len(a)
        BY <2>2, <3>1
      <4> QED
        BY <2>2, <2>3, <3>5, <3>6, <4>1, <4>2 DEF Resembles
    <3>8. Resembles(PlainBytes(s), PlainBytes(f))
      BY <2>1, <3>7
    <3>9. Resembles(Kept(x), Kept(y))
      <4>1. x \in Leads \cup Tails => x \in Letters
        BY FramingAssumption DEF Letters
      <4>2. Bad \in Letters
        BY DEF Letters
      <4>3. CASE y = x
        BY <4>3 DEF Resembles, Kept
      <4>4. CASE y = Bad /\ x \in Leads \cup Tails
        <5>1. Kept(x) = <<x>> /\ Kept(y) = <<y>>
          BY <4>1, <4>2, <4>4 DEF Kept
        <5>2. Len(<<x>>) = 1 /\ Len(<<y>>) = 1 /\ <<x>>[1] = x /\ <<y>>[1] = y
          OBVIOUS
        <5> QED
          BY <4>4, <5>1, <5>2 DEF Resembles
      <4> QED
        BY <3>7, <4>3, <4>4
    <3>10. PlainBytes(a) = PlainBytes(s) \o Kept(x) /\ PlainBytes(t) = PlainBytes(f) \o Kept(y)
      <4>1. <<x>> \in Seq(Chars) /\ <<y>> \in Seq(Chars) /\ a = s \o <<x>>
        BY <2>2, AppendIsConcat
      <4> QED
        BY <3>4, <4>1, PlainJoin, PlainOne, ZenonT(60)
    <3>11. /\ PlainBytes(s) \in Seq(Letters) /\ PlainBytes(f) \in Seq(Letters)
           /\ Kept(x) \in Seq(Letters) /\ Kept(y) \in Seq(Letters)
      BY KeptTyped DEF Kept
    <3> QED
      BY <3>8, <3>9, <3>10, <3>11, ResemblesJoin
  <2>4. Ok(Append(s, x))
    BY <2>2, <2>3
  <2> HIDE DEF Ok
  <2> QED
    BY <2>2, <2>4
<1>3. Seq(Chars) \subseteq T
  <2> HIDE DEF T
  <2> QED
    BY <1>1, <1>2, SequenceInduction
<1> QED
  BY <1>3

----------------------------------------------------------------------------
(* The texts that are given to the receiver, while the sender waits.       *)

\* Texts of one sender: no delimiter is in them, and no half of a character.
Plain == {x \in Seq(Bytes) : Sound(x)}

\* The lines that are sent are such texts.
LEMMA LinesPlain ==
    ASSUME NEW script \in Scripts, NEW k \in 1 .. Len(script)
    PROVE  script[k] \in Plain
<1>1. script \in Seq(Seq(Bytes)) /\ DOMAIN script = 1 .. Len(script)
  BY FramingAssumption, LenProperties
<1>2. script[k] \in Seq(Bytes) /\ Decoded(script[k]) = script[k]
  BY <1>1, FramingAssumption
<1> QED
  BY <1>2, SoundIs DEF Plain

\* They are bytes and characters, no text among them.
LEMMA PlainIn ==
    Plain \subseteq Seq(Bytes) /\ Plain \subseteq Seq(Chars) /\ <<>> \in Plain
<1>1. Plain \subseteq Seq(Bytes)
  BY DEF Plain
<1>2. Plain \subseteq Seq(Chars)
  <2>1. Bytes \subseteq Chars
    BY DEF Chars
  <2> QED
    BY <1>1, <2>1, SequencesOver
<1>3. <<>> \in Plain
  <2>1. DOMAIN <<>> = {} /\ <<>> \in Seq(Bytes)
    OBVIOUS
  <2> QED
    BY <2>1 DEF Plain, Sound
<1> QED
  BY <1>1, <1>2, <1>3

\* A line the client sent when the last one was read is forwarded as it is.
LEMMA ForwardedPlain ==
    ASSUME IInv, ~pipelined
    PROVE  forwarded \in Seq(Plain)
<1>1. /\ forwarded \in Seq(Seq(Chars)) /\ lines \in Scripts /\ lines \in Seq(Seq(Bytes))
      /\ sent \in 0 .. Len(lines) /\ Len(lines) \in Nat
  BY Types, LenProperties DEF IInv
<1>2. DOMAIN forwarded = 1 .. Len(forwarded) /\ Len(forwarded) \in Nat
  BY <1>1, LenProperties
<1>3. ASSUME NEW k \in 1 .. Len(forwarded)
      PROVE  forwarded[k] \in Plain
  <2>1. forwarded[k] = lines[k + 1]
    BY <1>2 DEF IInv, Order
  <2>2. k + 1 \in 1 .. Len(lines)
    <3>1. forwarded # <<>>
      BY <1>2
    <3>2. Len(forwarded) + 1 <= sent
      BY <3>1 DEF IInv, Order, Consumed
    <3> QED
      BY <1>1, <1>2, <3>2
  <2> QED
    BY <1>1, <2>1, <2>2, LinesPlain
<1>4. PICK S : S = Seq(Chars)
  OBVIOUS
<1>5. forwarded \in Seq(S)
  BY <1>1, <1>4
<1> QED
  BY <1>2, <1>3, <1>5

\* So is the line that is read.
LEMMA ResponsePlain ==
    ASSUME IInv, ~pipelined, Delims(read_msg) # {}
    PROVE  Response(read_msg) \in Plain
<1> DEFINE L == Len(lines[Consumed + 1])
<1>1. /\ Len(toServer) \in Nat /\ Len(read_msg) \in Nat /\ Len(lines) \in Nat
      /\ sent \in Nat /\ sent <= Len(lines) /\ lines \in Scripts
  BY Types DEF IInv
<1>2. Consumed \in Nat
  BY ConsumedIs DEF IInv
<1>3. read_msg # <<>> /\ L + 2 <= Len(read_msg)
  BY FirstDelim
<1>4. /\ Consumed < sent /\ L \in Nat
      /\ sent = Consumed + 1 => Len(read_msg) + Len(toServer) = L + 2
  BY <1>3, FirstLine
<1>5. sent <= Consumed + 1
  BY DEF IInv, Order
<1>6. Len(read_msg) = L + 2
  BY <1>1, <1>2, <1>3, <1>4, <1>5
<1>7. Response(read_msg) = lines[Consumed + 1]
  BY <1>6, ResponseIs
<1>8. Consumed + 1 \in 1 .. Len(lines)
  BY <1>1, <1>2, <1>4
<1> QED
  BY <1>1, <1>7, <1>8, LinesPlain

\* A delimiter has no half of a character.
LEMMA DelimSound == m_delim \in Seq(Chars) /\ Sound(m_delim)
<1>1. m_delim \in Seq(Chars)
  BY DEF m_delim, Chars
<1>2. DOMAIN m_delim = 1 .. 2 /\ \A i \in 1 .. 2 : m_delim[i] \in {CR, LF}
  BY DEF m_delim
<1>3. {CR, LF} \cap (Leads \cup Tails) = {}
  BY FramingAssumption
<1> QED
  BY <1>1, <1>2, <1>3 DEF Sound, Alone

\* No half of a character is alone in what the room remembers.
LEMMA RememberedSound ==
    \A f \in Seq(Plain) : Sound(BytesOf(RememberedOf(f)))
<1> DEFINE Ok(f) == Sound(BytesOf(RememberedOf(f)))
           T == {f \in Seq(Plain) : Ok(f)}
<1>1. <<>> \in T
  <2>1. [k \in DOMAIN <<>> |-> Remembered(<<>>[k])] = <<>>
    OBVIOUS
  <2>2. RememberedOf(<<>>) = <<>>
    BY <2>1, FlattenNone DEF RememberedOf
  <2>3. Sound(<<>>)
    BY PlainIn DEF Plain
  <2>4. Ok(<<>>)
    BY <2>2, <2>3, BytesOfNone
  <2> HIDE DEF Ok
  <2> QED
    BY <2>4
<1>2. ASSUME NEW f \in Seq(Plain), NEW x \in Plain, f \in T
      PROVE  Append(f, x) \in T
  <2>1. Ok(f)
    BY <1>2
  <2>2. f \in Seq(Seq(Chars)) /\ x \in Seq(Chars)
    BY PlainIn, SequencesOver
  <2>3. /\ RememberedOf(f) \in Seq(Items)
        /\ RememberedOf(Append(f, x)) = RememberedOf(f) \o Remembered(x)
    BY <2>2, RememberedAppend
  <2>4. Remembered(x) \in Seq(Items) /\ BytesOf(Remembered(x)) = x \o m_delim
    BY <2>2, RememberedTyped, BytesOfRemembered
  <2>5. BytesOf(RememberedOf(Append(f, x))) = BytesOf(RememberedOf(f)) \o (x \o m_delim)
    BY <2>3, <2>4, BytesOfJoin
  <2>6. Sound(x \o m_delim) /\ x \o m_delim \in Seq(Chars)
    BY <2>2, DelimSound, SoundJoin, ConcatProperties DEF Plain
  <2>7. BytesOf(RememberedOf(f)) \in Seq(Chars)
    BY <2>3, BytesOfTyped
  <2>8. Ok(Append(f, x))
    BY <2>1, <2>5, <2>6, <2>7, SoundJoin
  <2>9. Append(f, x) \in Seq(Plain)
    BY AppendProperties
  <2> HIDE DEF Ok
  <2> QED
    BY <2>8, <2>9
<1>3. Seq(Plain) \subseteq T
  <2> HIDE DEF T
  <2> QED
    BY <1>1, <1>2, SequenceInduction
<1> QED
  BY <1>3

----------------------------------------------------------------------------
(* What is delivered.                                                      *)

\* What the receiver was shown and what is on its way resembles, byte for byte,
\* what its session was given; and it is the same, nothing on its way with half a
\* character, if no read has cut one and the client waits.
Delivery ==
    LET put == PlainBytes(FlattenSeq(given))
        got == PlainBytes(FlattenSeq(shown)) \o PlainBytes(BytesOf(toClient))
    IN  /\ Resembles(put, got)
        /\ ~cut /\ ~pipelined => got = put /\ Sound(BytesOf(toClient))

\* Texts are given to the session: their bytes come last in both.
LEMMA MoreDelivered ==
    ASSUME IInv, Delivery,
           NEW f \in Seq(Seq(Chars)), NEW u \in Seq(Items),
           PlainBytes(BytesOf(u)) = PlainBytes(FlattenSeq(f)),
           ~pipelined => Sound(BytesOf(u)),
           given' = given \o f, toClient' = toClient \o u,
           shown' = shown, cut' = cut, pipelined' = pipelined
    PROVE  Delivery'
<1>1. PICK g \in Seq(Letters) : g = PlainBytes(FlattenSeq(given))
  BY Types, FlattenTyped, KeptTyped DEF IInv
<1>2. PICK s \in Seq(Letters) : s = PlainBytes(FlattenSeq(shown))
  BY Types, FlattenTyped, KeptTyped DEF IInv
<1>3. PICK t \in Seq(Letters) : t = PlainBytes(BytesOf(toClient))
  BY Types, BytesOfTyped, KeptTyped DEF IInv
<1>4. PICK b \in Seq(Letters) : b = PlainBytes(FlattenSeq(f))
  BY FlattenTyped, KeptTyped
<1>5. PlainBytes(FlattenSeq(given')) = g \o b
  <2>1. given \in Seq(Seq(Chars))
    BY Types DEF IInv
  <2>2. FlattenSeq(given \o f) = FlattenSeq(given) \o FlattenSeq(f)
    BY <2>1, FlattenJoin
  <2>3. FlattenSeq(given) \in Seq(Chars) /\ FlattenSeq(f) \in Seq(Chars)
    BY <2>1, FlattenTyped
  <2> QED
    BY <1>1, <1>4, <2>2, <2>3, PlainJoin
<1>6. /\ BytesOf(toClient') = BytesOf(toClient) \o BytesOf(u)
      /\ BytesOf(toClient) \in Seq(Chars) /\ BytesOf(u) \in Seq(Chars)
  BY Types, BytesOfJoin, BytesOfTyped DEF IInv
<1>7. PlainBytes(BytesOf(toClient')) = t \o b
  BY <1>3, <1>4, <1>6, PlainJoin
<1>8. s \o (t \o b) = (s \o t) \o b /\ s \o t \in Seq(Letters)
  <2>1. Cat(Cat(s, t), b) = Cat(s, Cat(t, b)) /\ Cat(s, t) \in Seq(Letters)
    BY Associative
  <2> QED
    BY <2>1 DEF Cat
<1>9. Resembles(g, s \o t) /\ (~cut /\ ~pipelined => s \o t = g /\ Sound(BytesOf(toClient)))
  BY <1>1, <1>2, <1>3 DEF Delivery
<1>10. Resembles(g \o b, (s \o t) \o b)
  <2>1. Resembles(b, b)
    BY DEF Resembles
  <2> QED
    BY <1>8, <1>9, <2>1, ResemblesJoin
<1>11. ~cut /\ ~pipelined => (s \o t) \o b = g \o b /\ Sound(BytesOf(toClient'))
  BY <1>6, <1>9, SoundJoin
<1> QED
  BY <1>2, <1>5, <1>7, <1>8, <1>10, <1>11 DEF Delivery

\* One live text.
LEMMA OneMoreDelivered ==
    ASSUME IInv, Delivery, NEW x \in Seq(Chars), ~pipelined => Sound(x),
           given' = given \o <<x>>, toClient' = toClient \o Live(x),
           shown' = shown, cut' = cut, pipelined' = pipelined
    PROVE  Delivery'
<1>1. PICK f \in Seq(Seq(Chars)) : f = <<x>>
  <2>1. PICK Q : Q = Seq(Chars)
    OBVIOUS
  <2>2. <<x>> \in Seq(Q)
    BY <2>1
  <2> QED
    BY <2>1, <2>2
<1>2. FlattenSeq(f) = x
  <2>1. f = Append(<<>>, x) /\ <<>> \in Seq(Seq(Chars))
    BY <1>1
  <2>2. FlattenSeq(f) = FlattenSeq(<<>>) \o x
    BY <2>1, FlattenAppend
  <2> QED
    BY <2>2, FlattenNone, ConcatEmptySeq
<1>3. Live(x) \in Seq(Items) /\ BytesOf(Live(x)) = x
  BY LiveTyped, BytesOfLive
<1> QED
  BY <1>1, <1>2, <1>3, MoreDelivered

\* A message is forwarded.
LEMMA ForwardsDelivers ==
    ASSUME IInv, Delivery, Forwards
    PROVE  Delivery'
<1>1. /\ \/ /\ given' = given \o <<Response(read_msg)>>
            /\ toClient' = toClient \o Live(Response(read_msg))
         \/ given' = given /\ toClient' = toClient
      /\ shown' = shown /\ cut' = cut /\ pipelined' = pipelined
      /\ Delims(read_msg) # {}
  BY DEF Forwards, Delivers, outboxVars, receiverVars
<1>2. PICK r \in Seq(Chars) : r = Response(read_msg)
  <2>1. AllBytes \subseteq Chars
    BY DEF AllBytes, Chars
  <2> QED
    BY <1>1, <2>1, ResponseIs, SequencesOver
<1>3. ~pipelined => Sound(r)
  BY <1>1, <1>2, ResponsePlain DEF Plain
<1>4. CASE given' = given /\ toClient' = toClient
  BY <1>1, <1>4 DEF Delivery
<1>5. CASE given' = given \o <<r>> /\ toClient' = toClient \o Live(r)
  BY <1>1, <1>3, <1>5, OneMoreDelivered
<1> QED
  BY <1>1, <1>2, <1>4, <1>5

\* The receiver is given its session id.
LEMMA IsAnsweredDelivers ==
    ASSUME IInv, Delivery, IsAnswered
    PROVE  Delivery'
<1>1. /\ given' = given \o <<SessionId>> /\ toClient' = toClient \o Live(SessionId)
      /\ shown' = shown /\ cut' = cut /\ pipelined' = pipelined
  BY DEF IsAnswered, Delivers, roomOnly, receiverVars
<1> QED
  BY <1>1, SessionIdIs, OneMoreDelivered

\* The receiver is given the newest messages.
LEMMA IsAdmittedDelivers ==
    ASSUME IInv, Delivery, IsAdmitted
    PROVE  Delivery'
<1>1. /\ given' = given \o Newest(forwarded)
      /\ toClient' = toClient \o RememberedOf(Newest(forwarded))
      /\ shown' = shown /\ cut' = cut /\ pipelined' = pipelined
  BY DEF IsAdmitted, Delivers, RememberedOf, roomOnly, receiverVars
<1>2. PICK Q : Q = Seq(Chars)
  OBVIOUS
<1>3. PICK f \in Seq(Q) : f = Newest(forwarded)
  BY <1>2, NewestIs, Types DEF IInv
<1>4. PICK u \in Seq(Items) : u = RememberedOf(f)
  BY <1>2, RememberedAppend, PlainIn
<1>5. PlainBytes(BytesOf(u)) = PlainBytes(FlattenSeq(f))
  BY <1>2, <1>4, RememberedBytes
<1>6. ~pipelined => Sound(BytesOf(u))
  BY <1>3, <1>4, ForwardedPlain, NewestIs, RememberedSound
<1> QED
  BY <1>1, <1>2, <1>3, <1>4, <1>5, <1>6, MoreDelivered

\* The receiver reads: what it is shown was the first on its way, or resembles it.
LEMMA ReceivesDelivers ==
    ASSUME IInv, Delivery, Receives
    PROVE  Delivery'
<1>1. PICK n \in 1 .. Len(toClient) :
         /\ toClient' = SubSeq(toClient, n + 1, Len(toClient))
         /\ shown' = shown \o Inbox(Decoded(BytesOf(SubSeq(toClient, 1, n))))
         /\ cut' = (cut \/ Last(SubSeq(toClient, 1, n)).byte \in Leads)
         /\ given' = given /\ pipelined' = pipelined
  BY DEF Receives, BytesOf
<1>2. /\ toClient \in Seq(Items) /\ Len(toClient) \in Nat /\ n \in 0 .. Len(toClient)
      /\ shown \in Seq(Seq(Chars))
  BY Types, LenProperties DEF IInv
<1>3. /\ SubSeq(toClient, 1, n) \in Seq(Items) /\ Len(SubSeq(toClient, 1, n)) = n
      /\ SubSeq(toClient, n + 1, Len(toClient)) \in Seq(Items)
      /\ SubSeq(toClient, 1, n) \o SubSeq(toClient, n + 1, Len(toClient)) = toClient
  BY <1>2, Cut
<1>4. PICK p \in Seq(Items) : p = SubSeq(toClient, 1, n) /\ Len(p) = n
  BY <1>3
<1>5. PICK q \in Seq(Items) : q = SubSeq(toClient, n + 1, Len(toClient))
  BY <1>3
<1>6. /\ toClient = p \o q /\ toClient' = q
      /\ shown' = shown \o Inbox(Decoded(BytesOf(p)))
      /\ cut' = (cut \/ Last(p).byte \in Leads)
  BY <1>1, <1>3, <1>4, <1>5
<1>7. PICK x \in Seq(Chars) : /\ x = BytesOf(p) /\ Len(x) = n
                              /\ x[n] = p[n].byte
  <2>1. n \in 1 .. Len(p)
    BY <1>2, <1>4
  <2> QED
    BY <1>4, <2>1, BytesOfTyped
<1>8. PICK y \in Seq(Chars) : y = BytesOf(q)
  BY BytesOfTyped
<1>9. PICK d \in Seq(Chars) : d = Decoded(x) /\ (Sound(x) => d = x)
  BY DecodedTyped
<1>10. PICK a \in Seq(Letters) : a = PlainBytes(x)
  BY KeptTyped
<1>11. PICK b \in Seq(Letters) : b = PlainBytes(y)
  BY KeptTyped
<1>12. PICK c \in Seq(Letters) : c = PlainBytes(d)
  BY KeptTyped
<1>13. PICK s \in Seq(Letters) : s = PlainBytes(FlattenSeq(shown))
  BY <1>2, FlattenTyped, KeptTyped
<1>14. PICK g \in Seq(Letters) : g = PlainBytes(FlattenSeq(given))
  BY Types, FlattenTyped, KeptTyped DEF IInv
<1>15. BytesOf(toClient) = x \o y /\ PlainBytes(BytesOf(toClient)) = a \o b
  BY <1>6, <1>7, <1>8, <1>10, <1>11, BytesOfJoin, PlainJoin
<1>16. PlainBytes(FlattenSeq(shown')) = s \o c
  <2>1. PICK i \in Seq(Seq(Chars)) : i = Inbox(d)
    BY InboxTyped
  <2>2. FlattenSeq(shown \o i) = FlattenSeq(shown) \o FlattenSeq(i)
    BY <1>2, FlattenJoin
  <2>3. FlattenSeq(shown) \in Seq(Chars) /\ FlattenSeq(i) \in Seq(Chars)
    BY <1>2, FlattenTyped
  <2>4. PlainBytes(FlattenSeq(i)) = c
    BY <1>12, <2>1, InboxBytes
  <2>5. PlainBytes(FlattenSeq(shown) \o FlattenSeq(i)) = s \o c
    BY <1>13, <2>3, <2>4, PlainJoin
  <2> QED
    BY <1>6, <1>7, <1>9, <2>1, <2>2, <2>5
<1>17. PlainBytes(BytesOf(toClient')) = b
  BY <1>6, <1>8, <1>11
<1>18. /\ s \o (a \o b) \in Seq(Letters) /\ s \o (c \o b) \in Seq(Letters)
       /\ (s \o c) \o b = s \o (c \o b)
  <2>1. Cat(a, b) \in Seq(Letters) /\ Cat(c, b) \in Seq(Letters)
    BY Associative
  <2>2. Cat(s, Cat(a, b)) \in Seq(Letters) /\ Cat(s, Cat(c, b)) \in Seq(Letters)
    BY <2>1, Associative
  <2>3. Cat(Cat(s, c), b) = Cat(s, Cat(c, b))
    BY Associative
  <2> QED
    BY <2>2, <2>3 DEF Cat
<1>19. /\ Resembles(g, s \o (a \o b))
       /\ ~cut /\ ~pipelined => s \o (a \o b) = g /\ Sound(x \o y)
  BY <1>13, <1>14, <1>15 DEF Delivery
<1>20. Resembles(g, s \o (c \o b))
  <2>1. Resembles(a, c)
    <3>1. Resembles(x, d)
      BY <1>9, DecodedResembles
    <3> QED
      BY <1>10, <1>12, <3>1, PlainResembles
  <2>2. Resembles(s, s) /\ Resembles(b, b)
    BY DEF Resembles
  <2>3. Resembles(a \o b, c \o b)
    BY <2>1, <2>2, ResemblesJoin
  <2>4. a \o b \in Seq(Letters) /\ c \o b \in Seq(Letters)
    BY ConcatProperties
  <2>5. Resembles(s \o (a \o b), s \o (c \o b))
    BY <2>2, <2>3, <2>4, ResemblesJoin
  <2>6. Letters \subseteq Chars
    BY DEF Letters, Chars
  <2>7. /\ g \in Seq(Chars) /\ s \o (a \o b) \in Seq(Chars)
        /\ s \o (c \o b) \in Seq(Chars)
    BY <1>18, <2>6, SequencesOver
  <2> QED
    BY <1>19, <2>5, <2>7, ResemblesOn
<1>21. ASSUME ~cut', ~pipelined'
       PROVE  s \o (c \o b) = g /\ Sound(y)
  <2>1. ~cut /\ ~pipelined /\ p[n].byte \notin Leads
    <3>1. Last(p) = p[n]
      BY <1>4 DEF Last
    <3> QED
      BY <1>1, <1>6, <1>21, <3>1, Zenon
  <2>2. Sound(x) /\ Sound(y)
    <3>1. Len(x) # 0
      BY <1>2, <1>7
    <3> QED
      BY <1>7, <1>19, <2>1, <3>1, SoundCut
  <2> QED
    BY <1>9, <1>10, <1>12, <1>19, <2>1, <2>2
<1> QED
  BY <1>1, <1>6, <1>8, <1>14, <1>16, <1>17, <1>18, <1>20, <1>21 DEF Delivery

\* The invariant of what is delivered.
THEOREM Delivered == Spec => []Delivery
<1>1. Init => Delivery
  <2> SUFFICES ASSUME Init PROVE Delivery
    OBVIOUS
  <2>1. given = <<>> /\ shown = <<>> /\ toClient = <<>>
    BY DEF Init
  <2>2. PlainBytes(FlattenSeq(<<>>)) = <<>> /\ PlainBytes(BytesOf(<<>>)) = <<>>
    BY FlattenNone, BytesOfNone, PlainNone
  <2>3. <<>> \o <<>> = <<>>
    BY FlattenNone, ConcatEmptySeq
  <2>4. Resembles(<<>>, <<>>)
    BY DEF Resembles
  <2>5. Sound(BytesOf(<<>>))
    BY BytesOfNone, PlainIn DEF Plain
  <2> QED
    BY <2>1, <2>2, <2>3, <2>4, <2>5 DEF Delivery
<1>2. IInv /\ Delivery /\ [Next]_vars => Delivery'
  <2> SUFFICES ASSUME IInv, Delivery, [Next]_vars PROVE Delivery'
    OBVIOUS
  <2>1. CASE Forwards
    BY <2>1, ForwardsDelivers
  <2>2. CASE IsAnswered
    BY <2>2, IsAnsweredDelivers
  <2>3. CASE IsAdmitted
    BY <2>3, IsAdmittedDelivers
  <2>4. CASE Receives
    BY <2>4, ReceivesDelivers
  <2>5. CASE SendsLine
    <3>1. /\ given' = given /\ shown' = shown /\ toClient' = toClient /\ cut' = cut
          /\ pipelined' = (pipelined \/ sent > Consumed)
      BY <2>5 DEF SendsLine, outboxVars, receiverVars
    <3>2. ~pipelined' => ~pipelined
      BY <3>1, Zenon
    <3> QED
      BY <3>1, <3>2 DEF Delivery
  <2>6. CASE ReadSome \/ ReadFails \/ ReadsPassword \/ Joins \/ UNCHANGED vars
    <3>1. /\ given' = given /\ shown' = shown /\ toClient' = toClient
          /\ cut' = cut /\ pipelined' = pipelined
      BY <2>6 DEF ReadSome, ReadFails, ReadsPassword, Joins, vars, roomOnly,
                  outboxVars, receiverVars
    <3> QED
      BY <3>1 DEF Delivery
  <2> QED
    BY <2>1, <2>2, <2>3, <2>4, <2>5, <2>6 DEF Next, Session, Room
<1> QED
  BY <1>1, <1>2, Invariant, PTL DEF Spec

\* Between ChatSession::deliver() and recieving_msg() no byte is lost or changes
\* its place, whatever pieces readAll() returns: at worst it is half of a
\* character and marked, and never if no read ends within a character.
THEOREM EveryByteArrives == Spec => []NoByteLost
<1>1. IInv /\ Delivery => NoByteLost
  <2> SUFFICES ASSUME IInv, Delivery PROVE NoByteLost
    OBVIOUS
  <2>1. FlattenSeq(shown) \in Seq(Chars) /\ BytesOf(toClient) \in Seq(Chars)
    BY Types, FlattenTyped, BytesOfTyped DEF IInv
  <2>2. PICK put \in Seq(Letters) : put = PlainBytes(FlattenSeq(given))
    BY Types, FlattenTyped, KeptTyped DEF IInv
  <2>3. PlainBytes(FlattenSeq(shown) \o BytesOf(toClient))
           = PlainBytes(FlattenSeq(shown)) \o PlainBytes(BytesOf(toClient))
    BY <2>1, PlainJoin
  <2>4. DOMAIN put = 1 .. Len(put)
    BY LenProperties
  <2> QED
    BY <2>2, <2>3, <2>4 DEF Delivery, Resembles, NoByteLost, BytesOf
<1> QED
  BY <1>1, Invariant, Delivered, PTL

----------------------------------------------------------------------------
(* Something for each element of a sequence, one behind the other.         *)

\* The functions from S to sequences over Q.
Maps(S, Q) == [S -> Seq(Q)]

\* K[x] for each x of s.
EachOf(K, s) == [i \in DOMAIN s |-> K[s[i]]]

\* And these, one behind the other.
Each(K, s) == FlattenSeq(EachOf(K, s))

\* The types of both.
LEMMA EachTyped ==
    ASSUME NEW S, NEW Q, NEW K \in Maps(S, Q), NEW s \in Seq(S)
    PROVE  /\ EachOf(K, s) \in Seq(Seq(Q))
           /\ Len(EachOf(K, s)) = Len(s)
           /\ \A j \in 1 .. Len(s) : EachOf(K, s)[j] = K[s[j]]
           /\ Each(K, s) \in Seq(Q)
<1>1. Len(s) \in Nat /\ DOMAIN s = 1 .. Len(s) /\ \A i \in 1 .. Len(s) : s[i] \in S
  BY LenProperties
<1>2. PICK P : P = Seq(Q)
  OBVIOUS
<1>3. \A i \in 1 .. Len(s) : K[s[i]] \in P
  BY <1>1, <1>2 DEF Maps
<1>4. /\ EachOf(K, s) \in Seq(P)
      /\ Len(EachOf(K, s)) = Len(s)
      /\ \A j \in 1 .. Len(s) : EachOf(K, s)[j] = K[s[j]]
  BY <1>1, <1>3 DEF EachOf
<1> QED
  BY <1>2, <1>4, FlattenTyped DEF Each

\* Of no elements, nothing.
LEMMA EachNone == \A K : Each(K, <<>>) = <<>>
<1> TAKE K
<1>1. EachOf(K, <<>>) = <<>>
  BY DEF EachOf
<1> QED
  BY <1>1, FlattenNone DEF Each

\* Of one element.
LEMMA EachOne ==
    ASSUME NEW S, NEW Q, NEW K \in Maps(S, Q), NEW x \in S
    PROVE  Each(K, <<x>>) = K[x]
<1>1. PICK y \in Seq(Q) : y = K[x]
  BY DEF Maps
<1>2. EachOf(K, <<x>>) = Append(<<>>, y)
  BY <1>1 DEF EachOf
<1>3. <<>> \in Seq(Seq(Q))
  OBVIOUS
<1>4. FlattenSeq(Append(<<>>, y)) = FlattenSeq(<<>>) \o y
  BY <1>3, FlattenAppend
<1>5. <<>> \o y = y
  BY ConcatEmptySeq
<1> QED
  BY <1>1, <1>2, <1>4, <1>5, FlattenNone DEF Each

\* Of two sequences, one behind the other, that of each.
LEMMA EachJoin ==
    ASSUME NEW S, NEW Q, NEW K \in Maps(S, Q), NEW s \in Seq(S), NEW t \in Seq(S)
    PROVE  Each(K, s \o t) = Each(K, s) \o Each(K, t)
<1>1. PICK u \in Seq(S) :
         /\ u = s \o t /\ Len(u) = Len(s) + Len(t)
         /\ \A i \in 1 .. Len(s) : u[i] = s[i]
         /\ \A i \in 1 .. Len(t) : u[Len(s) + i] = t[i]
  <2>1. /\ s \o t \in Seq(S) /\ Len(s \o t) = Len(s) + Len(t)
        /\ \A i \in 1 .. Len(s) : (s \o t)[i] = s[i]
        /\ \A i \in 1 .. Len(t) : (s \o t)[Len(s) + i] = t[i]
    BY Joined
  <2> QED
    BY <2>1
<1>2. Len(s) \in Nat /\ Len(t) \in Nat
  BY LenProperties
<1>3. PICK P : P = Seq(Q)
  OBVIOUS
<1>4. PICK a \in Seq(P) : /\ a = EachOf(K, s) /\ Len(a) = Len(s)
                          /\ \A i \in 1 .. Len(s) : a[i] = K[s[i]]
  <2>1. /\ EachOf(K, s) \in Seq(Seq(Q))
        /\ Len(EachOf(K, s)) = Len(s)
        /\ \A j \in 1 .. Len(s) : EachOf(K, s)[j] = K[s[j]]
    BY EachTyped
  <2> QED
    BY <1>3, <2>1
<1>5. PICK b \in Seq(P) : /\ b = EachOf(K, t) /\ Len(b) = Len(t)
                          /\ \A i \in 1 .. Len(t) : b[i] = K[t[i]]
  <2>1. /\ EachOf(K, t) \in Seq(Seq(Q))
        /\ Len(EachOf(K, t)) = Len(t)
        /\ \A j \in 1 .. Len(t) : EachOf(K, t)[j] = K[t[j]]
    BY EachTyped
  <2> QED
    BY <1>3, <2>1
<1>6. PICK c \in Seq(P) : /\ c = EachOf(K, u) /\ Len(c) = Len(u)
                          /\ \A i \in 1 .. Len(u) : c[i] = K[u[i]]
  <2>1. /\ EachOf(K, u) \in Seq(Seq(Q))
        /\ Len(EachOf(K, u)) = Len(u)
        /\ \A j \in 1 .. Len(u) : EachOf(K, u)[j] = K[u[j]]
    BY EachTyped
  <2> QED
    BY <1>3, <2>1
<1>7. /\ a \o b \in Seq(P) /\ Len(a \o b) = Len(a) + Len(b)
      /\ \A i \in 1 .. Len(a) : (a \o b)[i] = a[i]
      /\ \A i \in 1 .. Len(b) : (a \o b)[Len(a) + i] = b[i]
  BY Joined
<1>8. ASSUME NEW i \in 1 .. Len(s) + Len(t)
      PROVE  c[i] = (a \o b)[i]
  <2>1. c[i] = K[u[i]]
    BY <1>1, <1>6
  <2>2. CASE i \in 1 .. Len(s)
    BY <1>1, <1>4, <1>7, <2>1, <2>2
  <2>3. CASE i \notin 1 .. Len(s)
    <3>1. PICK j \in 1 .. Len(t) : i = Len(s) + j
      <4>1. i - Len(s) \in 1 .. Len(t) /\ i = Len(s) + (i - Len(s))
        BY <1>2, <2>3
      <4> QED
        BY <4>1
    <3>2. u[i] = t[j] /\ b[j] = K[t[j]]
      BY <1>1, <1>5, <3>1
    <3>3. (a \o b)[i] = b[j]
      BY <1>4, <1>5, <1>7, <3>1
    <3> QED
      BY <2>1, <3>2, <3>3
  <2> QED
    BY <2>2, <2>3
<1>9. c = a \o b
  <2>1. Len(c) = Len(s) + Len(t) /\ Len(c) = Len(a \o b)
    BY <1>1, <1>4, <1>5, <1>6, <1>7
  <2> QED
    BY <1>7, <1>8, <2>1, SeqEqual
<1>10. FlattenSeq(a \o b) = FlattenSeq(a) \o FlattenSeq(b)
  BY <1>3, <1>4, <1>5, FlattenJoin
<1> QED
  BY <1>1, <1>4, <1>5, <1>6, <1>9, <1>10 DEF Each

----------------------------------------------------------------------------
(* Texts, and how they are shown, remembered and sent live.                *)

Texts == Seq(Chars)

\* What is left of a text in NonEmpty(), and the items that it is sent as.
Seen   == [x \in Texts |-> IF x = <<>> THEN <<>> ELSE <<x>>]
AsOld  == [x \in Texts |-> Remembered(x)]
AsLive == [x \in Texts |-> Live(x)]

\* The types of these functions.
LEMMA MapsTyped ==
    /\ Seen \in Maps(Texts, Texts)
    /\ AsOld \in Maps(Texts, Items) /\ AsLive \in Maps(Texts, Items)
<1>1. ASSUME NEW x \in Texts
      PROVE  /\ (IF x = <<>> THEN <<>> ELSE <<x>>) \in Seq(Texts)
             /\ Remembered(x) \in Seq(Items) /\ Live(x) \in Seq(Items)
  <2>1. Remembered(x) \in Seq(Items) /\ Live(x) \in Seq(Items)
    BY RememberedTyped, LiveTyped DEF Texts
  <2>2. <<>> \in Seq(Texts) /\ <<x>> \in Seq(Texts)
    OBVIOUS
  <2> QED
    BY <2>1, <2>2
<1> QED
  BY <1>1 DEF Maps, Seen, AsOld, AsLive

\* Plain texts are texts.
LEMMA PlainTexts ==
    ASSUME NEW s \in Seq(Plain)
    PROVE  s \in Seq(Texts)
<1>1. Plain \subseteq Texts
  BY PlainIn DEF Texts
<1> QED
  BY <1>1, SequencesOver

\* NonEmpty(), in these words.
LEMMA NonEmptyIs ==
    ASSUME NEW s \in Seq(Texts)
    PROVE  NonEmpty(s) = Each(Seen, s) /\ NonEmpty(s) \in Seq(Texts)
<1>1. DOMAIN s = 1 .. Len(s) /\ \A i \in 1 .. Len(s) : s[i] \in Texts
  BY LenProperties
<1>2. EachOf(Seen, s) = [i \in DOMAIN s |-> IF s[i] = <<>> THEN <<>> ELSE <<s[i]>>]
  BY <1>1 DEF EachOf, Seen
<1> QED
  BY <1>2, EachTyped, MapsTyped DEF NonEmpty, Each

\* It is taken of each of two sequences, one behind the other.
LEMMA NonEmptyJoin ==
    ASSUME NEW s \in Seq(Texts), NEW t \in Seq(Texts)
    PROVE  NonEmpty(s \o t) = NonEmpty(s) \o NonEmpty(t)
<1>1. s \o t \in Seq(Texts)
  BY Joined
<1>2. Each(Seen, s \o t) = Each(Seen, s) \o Each(Seen, t)
  BY EachJoin, MapsTyped
<1> QED
  BY <1>1, <1>2, NonEmptyIs

\* And of one text, it is that text or nothing.
LEMMA NonEmptyOne ==
    ASSUME NEW x \in Texts
    PROVE  NonEmpty(<<x>>) = IF x = <<>> THEN <<>> ELSE <<x>>
<1>1. <<x>> \in Seq(Texts)
  OBVIOUS
<1>2. Each(Seen, <<x>>) = Seen[x]
  BY EachOne, MapsTyped
<1> QED
  BY <1>1, <1>2, NonEmptyIs DEF Seen

\* What is remembered, in these words.
LEMMA RememberedIs ==
    ASSUME NEW s \in Seq(Texts)
    PROVE  RememberedOf(s) = Each(AsOld, s)
<1>1. DOMAIN s = 1 .. Len(s) /\ \A i \in 1 .. Len(s) : s[i] \in Texts
  BY LenProperties
<1>2. EachOf(AsOld, s) = [i \in DOMAIN s |-> Remembered(s[i])]
  BY <1>1 DEF EachOf, AsOld
<1> QED
  BY <1>2 DEF RememberedOf, Each

\* One text more, of what is remembered.
LEMMA OldMore ==
    ASSUME NEW s \in Seq(Texts), NEW x \in Texts
    PROVE  /\ Each(AsOld, s) \in Seq(Items)
           /\ Each(AsOld, s \o <<x>>) = Each(AsOld, s) \o Remembered(x)
<1>1. <<x>> \in Seq(Texts)
  OBVIOUS
<1>2. PICK t \in Seq(Texts) : t = <<x>>
  BY <1>1
<1>3. Each(AsOld, s \o t) = Each(AsOld, s) \o Each(AsOld, t)
  BY EachJoin, MapsTyped
<1>4. Each(AsOld, <<x>>) = Remembered(x)
  BY EachOne, MapsTyped DEF AsOld
<1>5. Each(AsOld, s) \in Seq(Items)
  BY EachTyped, MapsTyped
<1> QED
  BY <1>2, <1>3, <1>4, <1>5

\* The last item of a text, and no other, ends it.
LEMMA EndsOfOne ==
    ASSUME NEW x \in Texts
    PROVE  /\ Live(x) \in Seq(Items) /\ Len(Live(x)) = Len(x)
           /\ \A i \in 1 .. Len(x) : Live(x)[i].live /\ (Live(x)[i].ends <=> i = Len(x))
           /\ Remembered(x) \in Seq(Items) /\ Len(Remembered(x)) = Len(x) + 2
           /\ \A i \in 1 .. Len(x) + 2 : Remembered(x)[i].ends <=> i = Len(x) + 2
<1>1. Len(x) \in Nat /\ DOMAIN x = 1 .. Len(x)
  BY LenProperties, SMTT(30) DEF Texts
<1>2. \A i \in 1 .. Len(x) : Live(x)[i].live /\ (Live(x)[i].ends <=> i = Len(x))
  BY <1>1 DEF Live
<1>3. \A i \in 1 .. Len(x) + 2 : Remembered(x)[i].ends <=> i = Len(x) + 2
  <2>1. PICK msg \in Seq(Chars) : msg = x \o m_delim /\ Len(msg) = Len(x) + 2
    <3>1. m_delim \in Seq(Chars) /\ Len(m_delim) = 2
      BY DEF m_delim, Chars
    <3>2. x \o m_delim \in Seq(Chars) /\ Len(x \o m_delim) = Len(x) + Len(m_delim)
      BY <3>1, Joined DEF Texts
    <3> QED
      BY <3>1, <3>2
  <2>2. Remembered(x) = [i \in DOMAIN msg |->
                            [byte |-> msg[i], ends |-> i = Len(msg), live |-> FALSE]]
    BY <2>1 DEF Remembered
  <2>3. DOMAIN msg = 1 .. Len(x) + 2
    BY <2>1, LenProperties
  <2>4. ASSUME NEW i \in DOMAIN msg
        PROVE  Remembered(x)[i].ends <=> i = Len(msg)
    <3>1. PICK e \in BOOLEAN : e = (i = Len(msg))
      BY Zenon
    <3>2. Remembered(x)[i] = [byte |-> msg[i], ends |-> e, live |-> FALSE]
      BY <2>2, <3>1, Zenon
    <3>3. Remembered(x)[i].ends = e
      BY <3>2
    <3> QED
      BY <3>1, <3>3, Zenon
  <2> QED
    BY <2>1, <2>3, <2>4
<1> QED
  BY <1>2, <1>3, LiveTyped, RememberedTyped DEF Texts

----------------------------------------------------------------------------
(* How what is remembered is cut where a text ends, and how it is split.   *)

\* A sequence is cut where the first of two, of which it is made, ends.
LEMMA CutJoin ==
    ASSUME NEW S, NEW p \in Seq(S), NEW q \in Seq(S)
    PROVE  /\ SubSeq(p \o q, 1, Len(p)) = p
           /\ SubSeq(p \o q, Len(p) + 1, Len(p \o q)) = q
<1>1. PICK s \in Seq(S) : /\ s = p \o q /\ Len(s) = Len(p) + Len(q)
                          /\ \A i \in 1 .. Len(p) : s[i] = p[i]
                          /\ \A i \in 1 .. Len(q) : s[Len(p) + i] = q[i]
  <2>1. /\ p \o q \in Seq(S) /\ Len(p \o q) = Len(p) + Len(q)
        /\ \A i \in 1 .. Len(p) : (p \o q)[i] = p[i]
        /\ \A i \in 1 .. Len(q) : (p \o q)[Len(p) + i] = q[i]
    BY Joined
  <2> QED
    BY <2>1
<1>2. Len(p) \in Nat /\ Len(q) \in Nat
  BY LenProperties
<1>3. Len(p) \in 0 .. Len(s) /\ Len(s) - Len(p) = Len(q)
  BY <1>1, <1>2
<1>4. PICK a \in Seq(S) : /\ a = SubSeq(s, 1, Len(p)) /\ Len(a) = Len(p)
                          /\ \A i \in 1 .. Len(p) : a[i] = s[i]
  <2>1. /\ SubSeq(s, 1, Len(p)) \in Seq(S) /\ Len(SubSeq(s, 1, Len(p))) = Len(p)
        /\ \A i \in 1 .. Len(p) : SubSeq(s, 1, Len(p))[i] = s[i]
    BY <1>3, Cut
  <2> QED
    BY <2>1
<1>5. PICK b \in Seq(S) : /\ b = SubSeq(s, Len(p) + 1, Len(s)) /\ Len(b) = Len(q)
                          /\ \A i \in 1 .. Len(q) : b[i] = s[Len(p) + i]
  <2> DEFINE e == SubSeq(s, Len(p) + 1, Len(s))
  <2>1. /\ e \in Seq(S) /\ Len(e) = Len(s) - Len(p)
        /\ \A i \in 1 .. Len(s) - Len(p) : e[i] = s[Len(p) + i]
    BY <1>3, Cut
  <2> QED
    BY <1>3, <2>1
<1>6. a = p
  BY <1>1, <1>4, SeqEqual
<1>7. b = q
  BY <1>1, <1>5, SeqEqual
<1> QED
  BY <1>1, <1>4, <1>5, <1>6, <1>7

\* The first n items of what is remembered of f are what is remembered of the
\* first texts of f.
EndAt(f, n) == \E a \in Seq(Texts), b \in Seq(Texts) :
                  f = a \o b /\ n = Len(Each(AsOld, a))

\* So it is where an item ends a text.
LEMMA OldEnds ==
    \A f \in Seq(Texts) : \A n \in 1 .. Len(Each(AsOld, f)) :
        Each(AsOld, f)[n].ends => EndAt(f, n)
<1> DEFINE Ok(f) == \A n \in 1 .. Len(Each(AsOld, f)) : Each(AsOld, f)[n].ends => EndAt(f, n)
           T == {f \in Seq(Texts) : Ok(f)}
<1>1. <<>> \in T
  <2>1. Len(Each(AsOld, <<>>)) = 0
    BY EachNone
  <2> QED
    BY <2>1
<1>2. ASSUME NEW f \in Seq(Texts), NEW x \in Texts, f \in T
      PROVE  Append(f, x) \in T
  <2>1. Ok(f)
    BY <1>2
  <2>2. <<x>> \in Seq(Texts) /\ Append(f, x) = f \o <<x>> /\ Append(f, x) \in Seq(Texts)
    BY AppendIsConcat, AppendProperties
  <2>3. PICK e \in Seq(Items) : e = Each(AsOld, f)
    BY OldMore
  <2>4. PICK r \in Seq(Items) : /\ r = Remembered(x) /\ Len(r) = Len(x) + 2
                                /\ \A i \in 1 .. Len(r) : r[i].ends <=> i = Len(r)
    <3>1. /\ Remembered(x) \in Seq(Items) /\ Len(Remembered(x)) = Len(x) + 2
          /\ \A i \in 1 .. Len(x) + 2 : Remembered(x)[i].ends <=> i = Len(x) + 2
      BY EndsOfOne
    <3> QED
      BY <3>1
  <2>5. PICK h \in Seq(Items) : /\ h = Each(AsOld, Append(f, x)) /\ Len(h) = Len(e) + Len(r)
                                /\ \A i \in 1 .. Len(e) : h[i] = e[i]
                                /\ \A i \in 1 .. Len(r) : h[Len(e) + i] = r[i]
    <3>1. Each(AsOld, f \o <<x>>) = e \o r
      BY <2>3, <2>4, OldMore
    <3>2. /\ e \o r \in Seq(Items) /\ Len(e \o r) = Len(e) + Len(r)
          /\ \A i \in 1 .. Len(e) : (e \o r)[i] = e[i]
          /\ \A i \in 1 .. Len(r) : (e \o r)[Len(e) + i] = r[i]
      BY Joined
    <3> QED
      BY <2>2, <3>1, <3>2
  <2>6. Len(e) \in Nat /\ Len(r) \in Nat
    BY LenProperties
  <2>7. ASSUME NEW n \in 1 .. Len(h), h[n].ends
        PROVE  EndAt(Append(f, x), n)
    <3>1. CASE n <= Len(e)
      <4>1. n \in 1 .. Len(e) /\ e[n].ends
        BY <2>5, <2>6, <2>7, <3>1
      <4>2. PICK a \in Seq(Texts), b \in Seq(Texts) : f = a \o b /\ n = Len(Each(AsOld, a))
        BY <2>1, <2>3, <4>1 DEF EndAt
      <4>3. PICK t \in Seq(Texts) : t = <<x>>
        BY <2>2
      <4>4. Cat(Cat(a, b), t) = Cat(a, Cat(b, t)) /\ Cat(b, t) \in Seq(Texts)
        BY Associative
      <4>5. Append(f, x) = a \o Cat(b, t)
        BY <2>2, <4>2, <4>3, <4>4 DEF Cat
      <4> QED
        BY <4>2, <4>4, <4>5 DEF EndAt
    <3>2. CASE n > Len(e)
      <4>1. n - Len(e) \in 1 .. Len(r) /\ n = Len(e) + (n - Len(e))
        BY <2>5, <2>6, <3>2
      <4>2. r[n - Len(e)].ends
        BY <2>5, <2>7, <4>1
      <4>3. n = Len(h)
        BY <2>4, <2>5, <4>1, <4>2
      <4>4. Append(f, x) = Append(f, x) \o <<>> /\ <<>> \in Seq(Texts)
        BY <2>2, ConcatEmptySeq
      <4> QED
        BY <2>2, <2>5, <4>3, <4>4 DEF EndAt
    <3> QED
      BY <2>5, <2>6, <3>1, <3>2
  <2>8. Ok(Append(f, x))
    BY <2>5, <2>7
  <2> HIDE DEF Ok
  <2> QED
    BY <2>2, <2>8
<1>3. Seq(Texts) \subseteq T
  <2> HIDE DEF T
  <2> QED
    BY <1>1, <1>2, SequenceInduction
<1> QED
  BY <1>3

\* No bytes are one part, with nothing in it.
LEMMA SplitNone == Split(<<>>) = <<<<>>>>
<1>1. <<>> \in Seq(Chars) /\ Len(<<>>) = 0
  OBVIOUS
<1> QED
  BY <1>1, SplitIs

\* A byte more.
LEMMA SplitAppend ==
    ASSUME NEW s \in Texts, NEW x \in Chars
    PROVE  /\ Split(Append(s, x)) = Grown(Split(s), Append(s, x), Len(s) + 1)
           /\ Split(s) \in Seq(Texts) /\ Split(s) # <<>>
<1>1. PICK u \in Seq(Chars) : /\ u = Append(s, x) /\ Len(u) = Len(s) + 1
                                 /\ u[Len(s) + 1] = x
                                 /\ \A i \in 1 .. Len(s) : u[i] = s[i]
  <2>1. /\ Append(s, x) \in Seq(Chars) /\ Len(Append(s, x)) = Len(s) + 1
        /\ Append(s, x)[Len(s) + 1] = x
        /\ \A i \in 1 .. Len(s) : Append(s, x)[i] = s[i]
    BY AppendProperties DEF Texts
  <2> QED
    BY <2>1
<1>2. Len(s) \in Nat /\ s \in Seq(Chars)
  BY LenProperties DEF Texts
<1>3. PICK p : /\ p[0] = <<<<>>>> /\ Split(s) = p[Len(s)]
               /\ \A n \in 1 .. Len(s) : p[n] = Grown(p[n - 1], s, n)
               /\ \A n \in 0 .. Len(s) : Good(p[n], s, n, Chars)
  BY <1>2, SplitIs
<1>4. PICK q : /\ q[0] = <<<<>>>> /\ Split(u) = q[Len(u)]
               /\ \A n \in 1 .. Len(u) : q[n] = Grown(q[n - 1], u, n)
  BY SplitIs
<1> DEFINE U == {n \in 0 .. Len(s) : p[n] = q[n]}
<1>5. 0 \in U
  BY <1>2, <1>3, <1>4
<1>6. ASSUME NEW n \in 0 .. Len(s) - 1, n \in U
      PROVE  n + 1 \in U
  <2>1. /\ n + 1 \in 1 .. Len(s) /\ n + 1 \in 1 .. Len(u) /\ n + 1 \in 0 .. Len(s)
        /\ (n + 1) - 1 = n /\ n \in Nat
    BY <1>1, <1>2
  <2>2. n \in Delims(s) <=> n \in Delims(u)
    BY <1>1, <1>2, <2>1 DEF Delims
  <2>3. Grown(p[n], s, n + 1) = Grown(q[n], u, n + 1)
    BY <1>1, <1>6, <2>1, <2>2 DEF Grown
  <2> QED
    BY <1>3, <1>4, <2>1, <2>3
<1>7. Len(s) \in U
  <2> HIDE DEF U
  <2>1. 0 .. Len(s) \subseteq U
    BY <1>2, <1>5, <1>6, Induction
  <2> QED
    BY <1>2, <2>1
<1>8. Split(u) = Grown(q[Len(s)], u, Len(s) + 1)
  <2>1. Len(u) \in 1 .. Len(u) /\ Len(u) - 1 = Len(s)
    BY <1>1, <1>2
  <2> QED
    BY <1>1, <1>4, <2>1
<1>9. Split(s) \in Seq(Texts) /\ Split(s) # <<>>
  <2>1. Len(s) \in 0 .. Len(s)
    BY <1>2
  <2> QED
    BY <1>3, <2>1 DEF Good, Texts
<1> QED
  BY <1>1, <1>3, <1>7, <1>8, <1>9

\* s is split into the parts f and a last one, l.
SplitsInto(s, f, l) == Split(s) = f \o <<l>>

\* A byte more that ends no line goes to the last part.
LEMMA SplitByte ==
    ASSUME NEW s \in Texts, NEW f \in Seq(Texts), NEW l \in Texts,
           SplitsInto(s, f, l), NEW x \in Chars, x # LF
    PROVE  SplitsInto(Append(s, x), f, Append(l, x))
<1>1. Last(Split(s)) = l /\ Front(Split(s)) = f
  BY EndsWith DEF SplitsInto
<1>2. Len(s) \in Nat /\ Append(s, x)[Len(s) + 1] = x
  BY LenProperties, AppendProperties DEF Texts
<1>3. PICK u : u = Append(s, x)
  OBVIOUS
<1>4. Len(s) \notin Delims(u) /\ (Len(s) + 1) - 1 = Len(s)
  BY <1>2, <1>3 DEF Delims
<1>5. Grown(Split(s), u, Len(s) + 1) = f \o <<Append(l, x)>>
  BY <1>1, <1>2, <1>3, <1>4 DEF Grown
<1> QED
  BY <1>3, <1>5, SplitAppend DEF SplitsInto

\* A delimiter more ends the last part.
LEMMA SplitDelim ==
    ASSUME NEW s \in Texts, NEW f \in Seq(Texts), NEW l \in Texts,
           SplitsInto(s, f, l)
    PROVE  Split(s \o m_delim) = (f \o <<l>>) \o <<<<>>>>
<1>1. CR \in Chars /\ LF \in Chars /\ CR # LF
  BY FramingAssumption DEF Chars
<1>2. PICK c \in Texts : /\ c = Append(s, CR) /\ Len(c) = Len(s) + 1 /\ c[Len(s) + 1] = CR
  <2>1. /\ Append(s, CR) \in Seq(Chars) /\ Len(Append(s, CR)) = Len(s) + 1
        /\ Append(s, CR)[Len(s) + 1] = CR
    BY <1>1, AppendProperties DEF Texts
  <2> QED
    BY <2>1 DEF Texts
<1>3. PICK m \in Texts : m = Append(l, CR) /\ Front(m) = l
  <2>1. Append(l, CR) = l \o <<CR>> /\ Append(l, CR) \in Seq(Chars)
    BY <1>1, AppendIsConcat, AppendProperties DEF Texts
  <2>2. Front(l \o <<CR>>) = l
    BY <1>1, EndsWith DEF Texts
  <2> QED
    BY <2>1, <2>2 DEF Texts
<1>4. SplitsInto(c, f, m)
  BY <1>1, <1>2, <1>3, SplitByte
<1>5. Last(Split(c)) = m /\ Front(Split(c)) = f
  BY <1>4, EndsWith DEF SplitsInto
<1>6. PICK d \in Texts : /\ d = Append(c, LF) /\ Len(d) = Len(c) + 1 /\ d[Len(c) + 1] = LF
                         /\ \A i \in 1 .. Len(c) : d[i] = c[i]
  <2>1. /\ Append(c, LF) \in Seq(Chars) /\ Len(Append(c, LF)) = Len(c) + 1
        /\ Append(c, LF)[Len(c) + 1] = LF
        /\ \A i \in 1 .. Len(c) : Append(c, LF)[i] = c[i]
    BY <1>1, AppendProperties DEF Texts
  <2> QED
    BY <2>1 DEF Texts
<1>7. Len(c) \in Delims(d) /\ (Len(c) + 1) - 1 = Len(c)
  <2>1. Len(s) \in Nat
    BY LenProperties DEF Texts
  <2>2. Len(c) \in 1 .. Len(d) - 1 /\ Len(c) \in 1 .. Len(c) /\ (Len(c) + 1) - 1 = Len(c)
    BY <1>2, <1>6, <2>1
  <2> QED
    BY <1>2, <1>6, <2>2 DEF Delims
<1>8. Split(d) = f \o <<l, <<>>>>
  <2>1. Split(d) = Grown(Split(c), d, Len(c) + 1)
    BY <1>1, <1>6, SplitAppend
  <2> QED
    BY <1>3, <1>5, <1>7, <2>1 DEF Grown
<1>9. f \o <<l, <<>>>> = (f \o <<l>>) \o <<<<>>>>
  <2>1. PICK z \in Texts : z = <<>>
    <3>1. <<>> \in Texts
      BY DEF Texts
    <3> QED
      BY <3>1
  <2>2. Cat(f, <<l, z>>) = Cat(Cat(f, <<l>>), <<z>>)
    BY TwoMore
  <2> QED
    BY <2>1, <2>2 DEF Cat
<1>10. s \o m_delim = d
  <2>1. /\ s \in Seq(Chars) /\ m_delim = <<CR, LF>>
    BY DEF Texts, m_delim
  <2>2. Cat(s, <<CR, LF>>) = Cat(Cat(s, <<CR>>), <<LF>>)
    BY <1>1, <2>1, TwoMore
  <2>3. Append(s, CR) = Cat(s, <<CR>>) /\ c \in Seq(Chars)
    BY <1>1, <2>1, AppendIsConcat DEF Cat, Texts
  <2>4. Append(c, LF) = Cat(c, <<LF>>)
    BY <1>1, <2>3, AppendIsConcat DEF Cat
  <2> QED
    BY <1>2, <1>6, <2>1, <2>2, <2>3, <2>4 DEF Cat
<1> QED
  BY <1>8, <1>9, <1>10

\* A text goes to the last part.
LEMMA SplitText ==
    ASSUME NEW s \in Texts, NEW f \in Seq(Texts), NEW l \in Texts, SplitsInto(s, f, l)
    PROVE  \A t \in Seq(Bytes) : SplitsInto(s \o t, f, l \o t)
<1> DEFINE Ok(t) == SplitsInto(s \o t, f, l \o t)
           T == {t \in Seq(Bytes) : Ok(t)}
<1>1. <<>> \in T
  <2>1. s \o <<>> = s /\ l \o <<>> = l
    BY ConcatEmptySeq DEF Texts
  <2>2. <<>> \in Seq(Bytes)
    OBVIOUS
  <2> QED
    BY <2>1, <2>2
<1>2. ASSUME NEW t \in Seq(Bytes), NEW x \in Bytes, t \in T
      PROVE  Append(t, x) \in T
  <2>1. Ok(t)
    BY <1>2
  <2>2. t \in Texts /\ x \in Chars /\ x # LF
    <3>1. Bytes \subseteq Chars
      BY DEF Chars
    <3>2. t \in Texts
      BY <3>1, SequencesOver DEF Texts
    <3> QED
      BY <3>1, <3>2, FramingAssumption
  <2>3. PICK z \in Texts : z = <<x>>
    <3>1. <<x>> \in Texts
      BY <2>2 DEF Texts
    <3> QED
      BY <3>1
  <2>4. Append(t, x) = Cat(t, z) /\ Append(t, x) \in Seq(Bytes)
    <3>1. Append(t, x) = t \o <<x>>
      BY <2>2, AppendIsConcat DEF Texts
    <3>2. Append(t, x) \in Seq(Bytes)
      BY AppendProperties
    <3> QED
      BY <2>3, <3>1, <3>2 DEF Cat
  <2>5. PICK a \in Texts : a = Cat(s, t)
    BY <2>2, Associative DEF Texts
  <2>6. PICK b \in Texts : b = Cat(l, t)
    BY <2>2, Associative DEF Texts
  <2>7. SplitsInto(a, f, b)
    BY <2>1, <2>5, <2>6 DEF Cat
  <2>8. SplitsInto(Append(a, x), f, Append(b, x))
    BY <2>2, <2>7, SplitByte
  <2>9. Append(a, x) = Cat(s, Append(t, x))
    <3>1. Append(a, x) = Cat(a, z)
      BY <2>2, <2>3, AppendIsConcat DEF Cat, Texts
    <3>2. Cat(Cat(s, t), z) = Cat(s, Cat(t, z))
      BY <2>2, Associative DEF Texts
    <3> QED
      BY <2>4, <2>5, <3>1, <3>2
  <2>10. Append(b, x) = Cat(l, Append(t, x))
    <3>1. Append(b, x) = Cat(b, z)
      BY <2>2, <2>3, AppendIsConcat DEF Cat, Texts
    <3>2. Cat(Cat(l, t), z) = Cat(l, Cat(t, z))
      BY <2>2, Associative DEF Texts
    <3> QED
      BY <2>4, <2>6, <3>1, <3>2
  <2>11. Ok(Append(t, x))
    BY <2>8, <2>9, <2>10 DEF Cat
  <2> HIDE DEF Ok
  <2> QED
    BY <2>4, <2>11
<1>3. Seq(Bytes) \subseteq T
  <2> HIDE DEF T
  <2> QED
    BY <1>1, <1>2, SequenceInduction
<1> QED
  BY <1>3

\* What is remembered is split into the texts, and an empty part behind them.
LEMMA SplitOld ==
    \A f \in Seq(Plain) : SplitsInto(BytesOf(Each(AsOld, f)), f, <<>>)
<1> DEFINE Ok(f) == SplitsInto(BytesOf(Each(AsOld, f)), f, <<>>)
           T == {f \in Seq(Plain) : Ok(f)}
<1>1. <<>> \in T
  <2>1. <<>> \o <<<<>>>> = <<<<>>>>
    BY ConcatEmptySeq
  <2>2. Ok(<<>>)
    BY <2>1, EachNone, BytesOfNone, SplitNone DEF SplitsInto
  <2> HIDE DEF Ok
  <2> QED
    BY <2>2
<1>2. ASSUME NEW f \in Seq(Plain), NEW x \in Plain, f \in T
      PROVE  Append(f, x) \in T
  <2>1. Ok(f)
    BY <1>2
  <2>2. /\ f \in Seq(Texts) /\ <<x>> \in Seq(Plain) /\ Append(f, x) = f \o <<x>>
        /\ Append(f, x) \in Seq(Plain)
    BY PlainTexts, AppendIsConcat, AppendProperties
  <2>3. x \in Texts /\ x \in Seq(Chars)
    BY PlainIn DEF Texts
  <2>4. PICK e \in Seq(Items) : e = Each(AsOld, f)
    BY <2>2, <2>3, OldMore
  <2>5. PICK s \in Texts : s = BytesOf(e)
    BY BytesOfTyped DEF Texts
  <2>6. PICK d \in Texts : d = m_delim
    <3>1. m_delim \in Texts
      BY DEF m_delim, Chars, Texts
    <3> QED
      BY <3>1
  <2>7. BytesOf(Each(AsOld, Append(f, x))) = Cat(s, Cat(x, d))
    <3>1. Each(AsOld, Append(f, x)) = e \o Remembered(x)
      BY <2>2, <2>3, <2>4, OldMore
    <3>2. Remembered(x) \in Seq(Items) /\ BytesOf(Remembered(x)) = x \o m_delim
      BY <2>3, RememberedTyped, BytesOfRemembered
    <3>3. BytesOf(e \o Remembered(x)) = BytesOf(e) \o BytesOf(Remembered(x))
      BY <3>2, BytesOfJoin
    <3> QED
      BY <2>5, <2>6, <3>1, <3>2, <3>3 DEF Cat
  <2>8. Cat(Cat(s, x), d) = Cat(s, Cat(x, d)) /\ Cat(s, x) \in Texts
    BY <2>3, Associative DEF Texts
  <2>9. SplitsInto(Cat(s, x), f, x)
    <3>1. PICK l \in Texts : l = <<>>
      <4>1. <<>> \in Texts
        BY DEF Texts
      <4> QED
        BY <4>1
    <3>2. SplitsInto(s, f, l)
      BY <2>1, <2>4, <2>5, <3>1
    <3>3. SplitsInto(s \o x, f, l \o x)
      BY <2>2, <3>2, SplitText, PlainIn
    <3>4. l \o x = x
      BY <2>3, <3>1, ConcatEmptySeq
    <3> QED
      BY <3>3, <3>4 DEF Cat
  <2>10. PICK u \in Texts : u = Cat(s, x)
    BY <2>8
  <2>11. Split(u \o m_delim) = (f \o <<x>>) \o <<<<>>>>
    BY <2>2, <2>3, <2>9, <2>10, SplitDelim
  <2>12. Ok(Append(f, x))
    <3>1. u \o m_delim = Cat(s, Cat(x, d))
      BY <2>6, <2>8, <2>10 DEF Cat
    <3> QED
      BY <2>2, <2>7, <2>11, <3>1 DEF SplitsInto
  <2> HIDE DEF Ok
  <2> QED
    BY <2>2, <2>12
<1>3. Seq(Plain) \subseteq T
  <2> HIDE DEF T
  <2> QED
    BY <1>1, <1>2, SequenceInduction
<1> QED
  BY <1>3

\* The presenter is given the texts that are remembered, and a live one behind
\* them.
LEMMA InboxIs ==
    ASSUME NEW f \in Seq(Plain), NEW x \in Plain
    PROVE  /\ Inbox(BytesOf(Each(AsOld, f))) = f
           /\ x # <<>> => Inbox(BytesOf(Each(AsOld, f) \o Live(x))) = f \o <<x>>
<1>1. f \in Seq(Texts) /\ x \in Texts /\ x \in Seq(Chars)
  BY PlainTexts, PlainIn DEF Texts
<1>2. PICK l \in Texts : l = <<>>
  <2>1. <<>> \in Texts
    BY DEF Texts
  <2> QED
    BY <2>1
<1>3. PICK e \in Seq(Items) : e = Each(AsOld, f)
  BY <1>1, OldMore
<1>4. PICK s \in Texts : s = BytesOf(e)
  BY BytesOfTyped DEF Texts
<1>5. SplitsInto(s, f, l)
  BY <1>2, <1>3, <1>4, SplitOld
<1>6. Inbox(s) = f
  <2>1. Last(Split(s)) = l /\ Front(Split(s)) = f
    BY <1>1, <1>5, EndsWith DEF SplitsInto
  <2> QED
    BY <1>2, <2>1 DEF Inbox
<1>7. SplitsInto(s \o x, f, x)
  <2>1. SplitsInto(s \o x, f, l \o x)
    BY <1>1, <1>5, SplitText, PlainIn
  <2>2. l \o x = x
    BY <1>1, <1>2, ConcatEmptySeq
  <2> QED
    BY <2>1, <2>2
<1>8. BytesOf(e \o Live(x)) = s \o x
  <2>1. Live(x) \in Seq(Items) /\ BytesOf(Live(x)) = x
    BY <1>1, LiveTyped, BytesOfLive
  <2> QED
    BY <1>4, <2>1, BytesOfJoin
<1>9. x # <<>> => Inbox(s \o x) = f \o <<x>>
  <2>1. Last(Split(s \o x)) = x
    BY <1>1, <1>7, EndsWith DEF SplitsInto
  <2> QED
    BY <1>7, <2>1 DEF Inbox, SplitsInto
<1> QED
  BY <1>3, <1>4, <1>6, <1>8, <1>9

----------------------------------------------------------------------------
(* What whole reads show.                                                  *)

\* So it is when a read that ends there is decoded: it has no half of a character.
LEMMA ReadIs ==
    ASSUME NEW f \in Seq(Plain), NEW x \in Plain
    PROVE  /\ Inbox(Decoded(BytesOf(Each(AsOld, f)))) = f
           /\ x # <<>> => Inbox(Decoded(BytesOf(Each(AsOld, f) \o Live(x)))) = f \o <<x>>
<1>1. f \in Seq(Texts) /\ x \in Texts /\ x \in Seq(Chars) /\ Sound(x)
  BY PlainTexts, PlainIn DEF Texts, Plain
<1>2. PICK e \in Seq(Items) : e = Each(AsOld, f)
  BY <1>1, OldMore
<1>3. PICK s \in Seq(Chars) : s = BytesOf(e) /\ Sound(s)
  <2>1. Sound(BytesOf(RememberedOf(f)))
    BY RememberedSound
  <2> QED
    BY <1>1, <1>2, <2>1, RememberedIs, BytesOfTyped
<1>4. BytesOf(e \o Live(x)) = s \o x
  <2>1. Live(x) \in Seq(Items) /\ BytesOf(Live(x)) = x
    BY <1>1, LiveTyped, BytesOfLive
  <2> QED
    BY <1>3, <2>1, BytesOfJoin
<1>5. s \o x \in Seq(Chars) /\ Sound(s \o x)
  BY <1>1, <1>3, SoundJoin, ConcatProperties
<1>6. Decoded(s) = s /\ Decoded(s \o x) = s \o x
  BY <1>3, <1>5, DecodedTyped
<1> QED
  BY <1>2, <1>3, <1>4, <1>6, InboxIs

\* An empty live text is written as nothing.
Spoken == Plain \ {<<>>}

\* Three kinds of texts, one behind the other: live ones, those the room
\* remembers, and live ones again; and the items that these are sent as.
Said(pre, old, new) == pre \o (old \o new)
Way(pre, old, new)  == Each(AsLive, pre) \o (Each(AsOld, old) \o Each(AsLive, new))

\* Such texts are on their way: what the session was given before the receiver is
\* admitted, when it is, and since.  They are what the receiver was not shown.
OnTheirWay(pre, old, new) ==
    /\ toClient = Way(pre, old, new)
    /\ NonEmpty(given) = NonEmpty(shown) \o NonEmpty(Said(pre, old, new))
    /\ place # "admitted" => old = <<>> /\ new = <<>>

Exact == ~torn /\ ~pipelined =>
             \E pre \in Seq(Spoken), old \in Seq(Plain), new \in Seq(Spoken) :
                OnTheirWay(pre, old, new)

\* The types of such texts.
LEMMA WayTyped ==
    ASSUME NEW old \in Seq(Plain), NEW new \in Seq(Spoken)
    PROVE  /\ old \in Seq(Texts) /\ new \in Seq(Texts) /\ old \o new \in Seq(Texts)
           /\ Each(AsOld, old) \in Seq(Items) /\ Each(AsLive, new) \in Seq(Items)
<1>1. old \in Seq(Texts)
  BY PlainTexts
<1>2. new \in Seq(Texts)
  <2>1. new \in Seq(Plain)
    BY SequencesOver DEF Spoken
  <2> QED
    BY <2>1, PlainTexts
<1>3. old \o new \in Seq(Texts)
  BY <1>1, <1>2, Joined
<1>4. Each(AsOld, old) \in Seq(Items)
  BY <1>1, EachTyped, MapsTyped
<1>5. Each(AsLive, new) \in Seq(Items)
  BY <1>2, EachTyped, MapsTyped
<1> QED
  BY <1>1, <1>2, <1>3, <1>4, <1>5

\* And of all three.
LEMMA SaidTyped ==
    ASSUME NEW pre \in Seq(Spoken), NEW old \in Seq(Plain), NEW new \in Seq(Spoken)
    PROVE  Said(pre, old, new) \in Seq(Texts) /\ Way(pre, old, new) \in Seq(Items)
<1>1. /\ pre \in Seq(Texts) /\ old \o new \in Seq(Texts)
      /\ Each(AsLive, pre) \in Seq(Items)
  BY WayTyped
<1>2. Each(AsOld, old) \o Each(AsLive, new) \in Seq(Items)
  BY WayTyped, ConcatProperties
<1> QED
  BY <1>1, <1>2, ConcatProperties DEF Said, Way

\* What comes last comes behind all three parts.
LEMMA FourParts ==
    ASSUME NEW S, NEW a \in Seq(S), NEW b \in Seq(S), NEW c \in Seq(S), NEW u \in Seq(S)
    PROVE  Cat(a, Cat(b, Cat(c, u))) = Cat(Cat(a, Cat(b, c)), u)
<1>1. Cat(b, c) \in Seq(S) /\ Cat(Cat(b, c), u) = Cat(b, Cat(c, u))
  BY Associative
<1>2. PICK d \in Seq(S) : d = Cat(b, c)
  BY <1>1
<1>3. Cat(Cat(a, d), u) = Cat(a, Cat(d, u))
  BY Associative
<1> QED
  BY <1>1, <1>2, <1>3

\* Of the three, parts may be missing.
LEMMA ThreeParts ==
    ASSUME NEW S, NEW a \in Seq(S), NEW u \in Seq(S)
    PROVE  a \o (u \o <<>>) = a \o u /\ a \o (<<>> \o <<>>) = a
<1>1. u \o <<>> = u /\ a \o <<>> = a /\ <<>> \o <<>> = <<>>
  <2>1. <<>> \in Seq(S)
    OBVIOUS
  <2> QED
    BY <2>1, ConcatEmptySeq
<1> QED
  BY <1>1

\* One live text more.
LEMMA LiveMore ==
    ASSUME NEW new \in Seq(Spoken), NEW r \in Spoken
    PROVE  /\ <<r>> \in Seq(Texts) /\ Live(r) \in Seq(Items)
           /\ new \o <<r>> \in Seq(Spoken)
           /\ Each(AsLive, new \o <<r>>) = Each(AsLive, new) \o Live(r)
<1>1. PICK x \in Seq(Spoken) : x = <<r>>
  <2>1. <<r>> \in Seq(Spoken)
    OBVIOUS
  <2> QED
    BY <2>1
<1>2. new \o x \in Seq(Spoken)
  BY ConcatProperties
<1>3. r \in Texts /\ r \in Seq(Chars)
  BY PlainIn DEF Spoken, Texts
<1>4. PICK y \in Seq(Texts) : y = <<r>>
  <2>1. <<r>> \in Seq(Texts)
    BY <1>3
  <2> QED
    BY <2>1
<1>5. PICK n \in Seq(Texts) : n = new
  <2>1. <<>> \in Seq(Plain)
    OBVIOUS
  <2> QED
    BY <2>1, WayTyped
<1>6. Each(AsLive, n \o y) = Each(AsLive, n) \o Each(AsLive, y)
  BY MapsTyped, EachJoin
<1>7. Each(AsLive, <<r>>) = Live(r)
  <2>1. Each(AsLive, <<r>>) = AsLive[r]
    BY <1>3, EachOne, MapsTyped
  <2> QED
    BY <1>3, <2>1 DEF AsLive
<1> QED
  BY <1>1, <1>2, <1>3, <1>4, <1>5, <1>6, <1>7, LiveTyped

\* The session is given texts: they are the last on their way.
LEMMA WayGrows ==
    ASSUME IInv, NEW pre \in Seq(Spoken), NEW old \in Seq(Plain), NEW new \in Seq(Spoken),
           OnTheirWay(pre, old, new),
           NEW x \in Seq(Texts), NEW u \in Seq(Items),
           given' = given \o x, toClient' = toClient \o u, shown' = shown,
           NEW p, NEW o, NEW n,
           Said(p, o, n) = Said(pre, old, new) \o x,
           Way(p, o, n) = Way(pre, old, new) \o u,
           place' # "admitted" => o = <<>> /\ n = <<>>
    PROVE  OnTheirWay(p, o, n)'
<1>1. given \in Seq(Texts) /\ shown \in Seq(Texts)
  BY Types DEF IInv, Texts
<1>2. PICK s \in Seq(Texts) : s = Said(pre, old, new)
  BY SaidTyped
<1>3. PICK a \in Seq(Texts) : a = NonEmpty(shown)
  BY <1>1, NonEmptyIs
<1>4. PICK b \in Seq(Texts) : b = NonEmpty(s)
  BY NonEmptyIs
<1>5. PICK c \in Seq(Texts) : c = NonEmpty(x)
  BY NonEmptyIs
<1>6. NonEmpty(given') = Cat(Cat(a, b), c)
  <2>1. NonEmpty(given \o x) = NonEmpty(given) \o NonEmpty(x)
    BY <1>1, NonEmptyJoin
  <2> QED
    BY <1>2, <1>3, <1>4, <1>5, <2>1 DEF OnTheirWay, Cat
<1>7. NonEmpty(s \o x) = Cat(b, c)
  BY <1>4, <1>5, NonEmptyJoin DEF Cat
<1>8. Cat(Cat(a, b), c) = Cat(a, Cat(b, c))
  BY Associative
<1>9. NonEmpty(given') = NonEmpty(shown') \o NonEmpty(Said(p, o, n))
  BY <1>2, <1>3, <1>6, <1>7, <1>8 DEF Cat
<1>10. toClient' = Way(p, o, n)
  BY DEF OnTheirWay
<1> QED
  BY <1>9, <1>10 DEF OnTheirWay

\* It is given a live text, which is sent unless it is empty.
LEMMA OneMoreExact ==
    ASSUME IInv, Exact, NEW r \in Seq(Chars), ~pipelined => r \in Plain,
           given' = given \o <<r>>, toClient' = toClient \o Live(r),
           shown' = shown, torn' = torn, pipelined' = pipelined,
           place' = "admitted" <=> place = "admitted"
    PROVE  Exact'
<1> SUFFICES ASSUME ~torn', ~pipelined'
             PROVE  \E pre \in Seq(Spoken), old \in Seq(Plain), new \in Seq(Spoken) :
                       OnTheirWay(pre, old, new)'
  BY DEF Exact
<1>1. ~torn /\ ~pipelined /\ r \in Plain
  OBVIOUS
<1>2. PICK pre \in Seq(Spoken), old \in Seq(Plain), new \in Seq(Spoken) :
         OnTheirWay(pre, old, new)
  BY <1>1 DEF Exact
<1>3. given \in Seq(Texts) /\ toClient \in Seq(Items) /\ r \in Texts
  BY Types DEF IInv, Texts
<1>4. /\ pre \in Seq(Texts) /\ old \in Seq(Texts) /\ new \in Seq(Texts)
      /\ Each(AsLive, pre) \in Seq(Items) /\ Each(AsOld, old) \in Seq(Items)
      /\ Each(AsLive, new) \in Seq(Items)
  BY WayTyped
<1>5. CASE r = <<>>
  <2>1. Live(r) = <<>> /\ toClient' = toClient
    <3>1. Live(r) = <<>>
      BY <1>5 DEF Live
    <3> QED
      BY <1>3, <3>1, ConcatEmptySeq
  <2>2. NonEmpty(given') = NonEmpty(given)
    <3>1. PICK y \in Seq(Texts) : y = <<r>>
      <4>1. <<r>> \in Seq(Texts)
        BY <1>3
      <4> QED
        BY <4>1
    <3>2. NonEmpty(given \o y) = NonEmpty(given) \o NonEmpty(y)
      BY <1>3, NonEmptyJoin
    <3>3. NonEmpty(y) = <<>>
      BY <1>3, <1>5, <3>1, NonEmptyOne
    <3>4. NonEmpty(given) \in Seq(Texts)
      BY <1>3, NonEmptyIs
    <3> QED
      BY <3>1, <3>2, <3>3, <3>4, ConcatEmptySeq
  <2>3. OnTheirWay(pre, old, new)'
    BY <1>2, <2>1, <2>2 DEF OnTheirWay
  <2> QED
    BY <2>3
<1>6. CASE r # <<>> /\ place = "admitted"
  <2>1. r \in Spoken
    BY <1>1, <1>6 DEF Spoken
  <2>2. PICK x \in Seq(Texts) : x = <<r>>
    BY <2>1, LiveMore
  <2>3. PICK u \in Seq(Items) : u = Live(r)
    BY <2>1, LiveMore
  <2>4. PICK n \in Seq(Spoken) : n = new \o x /\ Each(AsLive, n) = Each(AsLive, new) \o u
    BY <2>1, <2>2, <2>3, LiveMore
  <2>5. Said(pre, old, n) = Said(pre, old, new) \o x
    <3>1. PICK a \in Seq(Texts) : a = pre
      BY <1>4
    <3>2. PICK b \in Seq(Texts) : b = old
      BY <1>4
    <3>3. PICK c \in Seq(Texts) : c = new
      BY <1>4
    <3>4. Cat(a, Cat(b, Cat(c, x))) = Cat(Cat(a, Cat(b, c)), x)
      BY FourParts
    <3> QED
      BY <2>4, <3>1, <3>2, <3>3, <3>4 DEF Said, Cat
  <2>6. Way(pre, old, n) = Way(pre, old, new) \o u
    <3>1. PICK a \in Seq(Items) : a = Each(AsLive, pre)
      BY <1>4
    <3>2. PICK b \in Seq(Items) : b = Each(AsOld, old)
      BY <1>4
    <3>3. PICK c \in Seq(Items) : c = Each(AsLive, new)
      BY <1>4
    <3>4. Cat(a, Cat(b, Cat(c, u))) = Cat(Cat(a, Cat(b, c)), u)
      BY FourParts
    <3> QED
      BY <2>4, <3>1, <3>2, <3>3, <3>4 DEF Way, Cat
  <2>7. OnTheirWay(pre, old, n)'
    BY <1>2, <1>6, <2>2, <2>3, <2>5, <2>6, WayGrows
  <2> QED
    BY <2>7
<1>7. CASE r # <<>> /\ place # "admitted"
  <2>1. r \in Spoken
    BY <1>1, <1>7 DEF Spoken
  <2>2. PICK x \in Seq(Texts) : x = <<r>>
    BY <2>1, LiveMore
  <2>3. PICK u \in Seq(Items) : u = Live(r)
    BY <2>1, LiveMore
  <2>4. PICK p \in Seq(Spoken) : p = pre \o x /\ Each(AsLive, p) = Each(AsLive, pre) \o u
    BY <2>1, <2>2, <2>3, LiveMore
  <2>5. old = <<>> /\ new = <<>> /\ <<>> \in Seq(Texts) /\ <<>> \in Seq(Items)
    BY <1>2, <1>7 DEF OnTheirWay
  <2>6. p \in Seq(Texts) /\ Each(AsLive, p) \in Seq(Items)
    BY <1>4, WayTyped
  <2>7. Said(p, old, new) = Said(pre, old, new) \o x
    BY <1>4, <2>4, <2>5, <2>6, ThreeParts DEF Said
  <2>8. Way(p, old, new) = Way(pre, old, new) \o u
    <3>1. /\ Each(AsLive, p) \o (<<>> \o <<>>) = Each(AsLive, p)
          /\ Each(AsLive, pre) \o (<<>> \o <<>>) = Each(AsLive, pre)
      BY <1>4, <2>5, <2>6, ThreeParts
    <3> QED
      BY <2>4, <2>5, <3>1, EachNone DEF Way
  <2>9. OnTheirWay(p, old, new)'
    BY <1>2, <1>7, <2>2, <2>3, <2>5, <2>7, <2>8, WayGrows
  <2> QED
    BY <2>9
<1> QED
  BY <1>5, <1>6, <1>7

\* A line is forwarded: the receiver is sent it if it is in the room.
LEMMA ForwardsExact ==
    ASSUME IInv, Exact, Forwards
    PROVE  Exact'
<1>1. /\ \/ /\ given' = given \o <<Response(read_msg)>>
            /\ toClient' = toClient \o Live(Response(read_msg))
         \/ given' = given /\ toClient' = toClient
      /\ shown' = shown /\ torn' = torn /\ pipelined' = pipelined /\ place' = place
      /\ Delims(read_msg) # {}
  BY DEF Forwards, Delivers, outboxVars, receiverVars
<1>2. PICK r \in Seq(Chars) : r = Response(read_msg)
  <2>1. AllBytes \subseteq Chars
    BY DEF AllBytes, Chars
  <2> QED
    BY <1>1, <2>1, ResponseIs, SequencesOver
<1>3. ~pipelined => r \in Plain
  BY <1>1, <1>2, ResponsePlain
<1>4. CASE given' = given /\ toClient' = toClient
  BY <1>1, <1>4 DEF Exact, OnTheirWay
<1>5. CASE given' = given \o <<r>> /\ toClient' = toClient \o Live(r)
  BY <1>1, <1>3, <1>5, OneMoreExact
<1> QED
  BY <1>1, <1>2, <1>4, <1>5

\* The receiver is sent its session id.
LEMMA IsAnsweredExact ==
    ASSUME IInv, Exact, IsAnswered
    PROVE  Exact'
<1>1. /\ given' = given \o <<SessionId>> /\ toClient' = toClient \o Live(SessionId)
      /\ shown' = shown /\ torn' = torn /\ pipelined' = pipelined
      /\ place' # "admitted" /\ place # "admitted"
  BY DEF IsAnswered, Delivers, roomOnly, receiverVars
<1>2. SessionId \in Plain /\ SessionId \in Seq(Chars)
  BY SessionIdIs DEF Plain
<1> QED
  BY <1>1, <1>2, OneMoreExact

\* The receiver is admitted: the newest messages are on their way, remembered.
LEMMA IsAdmittedExact ==
    ASSUME IInv, Exact, IsAdmitted
    PROVE  Exact'
<1> SUFFICES ASSUME ~torn', ~pipelined'
             PROVE  \E pre \in Seq(Spoken), old \in Seq(Plain), new \in Seq(Spoken) :
                       OnTheirWay(pre, old, new)'
  BY DEF Exact
<1>1. /\ given' = given \o Newest(forwarded)
      /\ toClient' = toClient \o RememberedOf(Newest(forwarded))
      /\ shown' = shown /\ place = "answered" /\ place' = "admitted" /\ ~torn /\ ~pipelined
  BY DEF IsAdmitted, Delivers, RememberedOf, roomOnly, receiverVars
<1>2. PICK pre \in Seq(Spoken), old \in Seq(Plain), new \in Seq(Spoken) :
         OnTheirWay(pre, old, new)
  BY <1>1 DEF Exact
<1>3. PICK f \in Seq(Plain) : f = Newest(forwarded)
  BY <1>1, ForwardedPlain, NewestIs
<1>4. PICK u \in Seq(Items) : u = RememberedOf(f) /\ u = Each(AsOld, f)
  BY WayTyped, RememberedIs, PlainTexts, OldMore
<1>5. PICK x \in Seq(Texts) : x = f
  BY PlainTexts
<1>6. PICK z \in Seq(Spoken) : z = <<>> /\ z \in Seq(Texts) /\ z \in Seq(Items)
  <2>1. <<>> \in Seq(Spoken) /\ <<>> \in Seq(Texts) /\ <<>> \in Seq(Items)
    OBVIOUS
  <2> QED
    BY <2>1
<1>7. pre \in Seq(Texts) /\ Each(AsLive, pre) \in Seq(Items)
  BY WayTyped
<1>8. old = <<>> /\ new = <<>>
  BY <1>1, <1>2 DEF OnTheirWay
<1>9. Said(pre, f, z) = Said(pre, old, new) \o x
  <2>1. pre \o (x \o <<>>) = pre \o x /\ pre \o (<<>> \o <<>>) = pre
    BY <1>7, ThreeParts
  <2> QED
    BY <1>5, <1>6, <1>8, <2>1 DEF Said
<1>10. Way(pre, f, z) = Way(pre, old, new) \o u
  <2>1. /\ Each(AsLive, pre) \o (u \o <<>>) = Each(AsLive, pre) \o u
        /\ Each(AsLive, pre) \o (<<>> \o <<>>) = Each(AsLive, pre)
    BY <1>7, ThreeParts
  <2>2. Each(AsOld, old) = <<>> /\ Each(AsLive, new) = <<>> /\ Each(AsLive, z) = <<>>
    BY <1>6, <1>8, EachNone
  <2>3. Way(pre, f, z) = Each(AsLive, pre) \o (u \o <<>>)
    BY <1>4, <2>2 DEF Way
  <2>4. Way(pre, old, new) = Each(AsLive, pre) \o (<<>> \o <<>>)
    BY <2>2 DEF Way
  <2> QED
    BY <2>1, <2>3, <2>4
<1>11. OnTheirWay(pre, f, z)'
  BY <1>1, <1>2, <1>3, <1>4, <1>5, <1>9, <1>10, WayGrows
<1> QED
  BY <1>11

\* The first of the live texts.
LEMMA FirstLive ==
    ASSUME NEW new \in Seq(Spoken), new # <<>>
    PROVE  \E x \in Spoken, others \in Seq(Spoken) :
               /\ new = <<x>> \o others
               /\ Each(AsLive, new) = Live(x) \o Each(AsLive, others)
<1>1. Len(new) \in Nat /\ Len(new) # 0
  BY LenProperties, EmptySeq
<1>2. 1 \in 0 .. Len(new) /\ 1 \in 1 .. Len(new) /\ 1 + 1 = 2
  BY <1>1
<1>3. PICK o \in Seq(Spoken) : o = SubSeq(new, 2, Len(new))
  <2>1. SubSeq(new, 1 + 1, Len(new)) \in Seq(Spoken)
    BY <1>2, Cut
  <2> QED
    BY <1>2, <2>1
<1>4. PICK h \in Seq(Spoken) : h = SubSeq(new, 1, 1) /\ Len(h) = 1 /\ h[1] = new[1]
  <2>1. /\ SubSeq(new, 1, 1) \in Seq(Spoken) /\ Len(SubSeq(new, 1, 1)) = 1
        /\ \A i \in 1 .. 1 : SubSeq(new, 1, 1)[i] = new[i]
    BY <1>2, Cut
  <2>2. 1 \in 1 .. 1
    OBVIOUS
  <2>3. SubSeq(new, 1, 1)[1] = new[1]
    BY <2>1, <2>2
  <2> QED
    BY <2>1, <2>3
<1>5. new = h \o o
  <2>1. SubSeq(new, 1, 1) \o SubSeq(new, 1 + 1, Len(new)) = new
    BY <1>2, Cut
  <2> QED
    BY <1>2, <1>3, <1>4, <2>1
<1>6. PICK x \in Spoken : x = new[1]
  BY <1>2
<1>7. h = <<x>>
  <2>1. /\ <<x>> \in Seq(Spoken) /\ Len(<<x>>) = 1
        /\ \A i \in 1 .. 1 : h[i] = <<x>>[i]
    BY <1>4, <1>6
  <2> QED
    BY <1>4, <2>1, SeqEqual
<1>8. /\ h \in Seq(Texts) /\ o \in Seq(Texts) /\ x \in Texts
      /\ AsLive \in Maps(Texts, Items)
  <2>1. Spoken \subseteq Texts
    BY PlainIn DEF Spoken, Texts
  <2> QED
    BY <2>1, SequencesOver, MapsTyped
<1>9. Each(AsLive, h \o o) = Each(AsLive, h) \o Each(AsLive, o)
  BY <1>8, EachJoin
<1>10. Each(AsLive, <<x>>) = Live(x)
  <2>1. Each(AsLive, <<x>>) = AsLive[x]
    BY <1>8, EachOne
  <2> QED
    BY <1>8, <2>1 DEF AsLive
<1> QED
  BY <1>5, <1>7, <1>9, <1>10

\* Where no live text comes first: a read that ends with a text is texts that are
\* remembered, or all of these and the first live one; and they are what is shown.
LEMMA WholeRead ==
    ASSUME NEW old \in Seq(Plain), NEW new \in Seq(Spoken), NEW t \in Seq(Items),
           t = Each(AsOld, old) \o Each(AsLive, new),
           NEW n \in 1 .. Len(t), Whole(SubSeq(t, 1, n))
    PROVE  \E got \in Seq(Plain), old1 \in Seq(Plain), new1 \in Seq(Spoken) :
               /\ old \o new = got \o (old1 \o new1)
               /\ Inbox(Decoded(BytesOf(SubSeq(t, 1, n)))) = got
               /\ SubSeq(t, n + 1, Len(t)) = Each(AsOld, old1) \o Each(AsLive, new1)
<1>1. /\ old \in Seq(Texts) /\ new \in Seq(Texts) /\ old \o new \in Seq(Texts)
      /\ Each(AsOld, old) \in Seq(Items) /\ Each(AsLive, new) \in Seq(Items)
  BY WayTyped
<1>2. PICK e \in Seq(Items) : e = Each(AsOld, old)
  BY <1>1
<1>3. PICK l \in Seq(Items) : l = Each(AsLive, new)
  BY <1>1
<1>4. /\ t = e \o l /\ Len(t) = Len(e) + Len(l)
      /\ \A i \in 1 .. Len(e) : t[i] = e[i]
      /\ \A i \in 1 .. Len(l) : t[Len(e) + i] = l[i]
  <2>1. /\ Len(e \o l) = Len(e) + Len(l)
        /\ \A i \in 1 .. Len(e) : (e \o l)[i] = e[i]
        /\ \A i \in 1 .. Len(l) : (e \o l)[Len(e) + i] = l[i]
    BY Joined
  <2> QED
    BY <1>2, <1>3, <2>1
<1>5. Len(e) \in Nat /\ Len(l) \in Nat /\ Len(t) \in Nat /\ n \in Nat
  BY LenProperties
<1>6. /\ t[n].ends
      /\ \A i \in 1 .. n - 1 : ~(t[i].live /\ t[i].ends)
  <2>1. /\ SubSeq(t, 1, n) \in Seq(Items) /\ Len(SubSeq(t, 1, n)) = n
        /\ \A i \in 1 .. n : SubSeq(t, 1, n)[i] = t[i]
    <3>1. n \in 0 .. Len(t)
      BY <1>5
    <3> QED
      BY <3>1, Cut
  <2>2. PICK p \in Seq(Items) : /\ p = SubSeq(t, 1, n) /\ Len(p) = n
                                /\ \A i \in 1 .. n : p[i] = t[i]
    BY <2>1
  <2>3. /\ p[Len(p)].ends
        /\ \A i \in 1 .. Len(p) - 1 : ~(p[i].live /\ p[i].ends)
    BY <2>2 DEF Whole, Last
  <2>4. n \in 1 .. n /\ \A i \in 1 .. n - 1 : i \in 1 .. n
    BY <1>5
  <2> QED
    BY <2>2, <2>3, <2>4
<1>7. CASE n <= Len(e)
  <2>1. n \in 1 .. Len(e) /\ e[n].ends
    BY <1>4, <1>5, <1>6, <1>7
  <2>2. PICK a \in Seq(Texts), b \in Seq(Texts) : old = a \o b /\ n = Len(Each(AsOld, a))
    BY <1>1, <1>2, <2>1, OldEnds DEF EndAt
  <2>3. a \in Seq(Plain) /\ b \in Seq(Plain)
    <3>1. /\ SubSeq(a \o b, 1, Len(a)) = a
          /\ SubSeq(a \o b, Len(a) + 1, Len(a \o b)) = b
      BY CutJoin
    <3>2. Len(a) \in 0 .. Len(old)
      <4>1. Len(a \o b) = Len(a) + Len(b) /\ Len(a) \in Nat /\ Len(b) \in Nat
        BY Joined, LenProperties
      <4> QED
        BY <2>2, <4>1
    <3>3. SubSeq(old, 1, Len(a)) \in Seq(Plain) /\ SubSeq(old, Len(a) + 1, Len(old)) \in Seq(Plain)
      BY <3>2, Cut
    <3> QED
      BY <2>2, <3>1, <3>3
  <2>4. PICK ea \in Seq(Items) : ea = Each(AsOld, a)
    BY EachTyped, MapsTyped
  <2>5. PICK eb \in Seq(Items) : eb = Each(AsOld, b)
    BY EachTyped, MapsTyped
  <2>6. e = Cat(ea, eb)
    <3>1. AsOld \in Maps(Texts, Items)
      BY MapsTyped
    <3>2. Each(AsOld, a \o b) = Each(AsOld, a) \o Each(AsOld, b)
      BY <3>1, EachJoin
    <3> QED
      BY <1>2, <2>2, <2>4, <2>5, <3>2 DEF Cat
  <2>7. PICK q \in Seq(Items) : q = Cat(eb, l)
    BY Associative
  <2>8. t = ea \o q
    <3>1. Cat(Cat(ea, eb), l) = Cat(ea, Cat(eb, l))
      BY Associative
    <3> QED
      BY <1>4, <2>6, <2>7, <3>1 DEF Cat
  <2>9. SubSeq(t, 1, n) = ea /\ SubSeq(t, n + 1, Len(t)) = q
    <3>1. /\ SubSeq(ea \o q, 1, Len(ea)) = ea
          /\ SubSeq(ea \o q, Len(ea) + 1, Len(ea \o q)) = q
      BY CutJoin
    <3>2. n = Len(ea)
      BY <2>2, <2>4
    <3> QED
      BY <2>8, <3>1, <3>2
  <2>10. Inbox(Decoded(BytesOf(ea))) = a
    <3>1. <<>> \in Plain
      BY PlainIn
    <3> QED
      BY <2>3, <2>4, <3>1, ReadIs
  <2>11. old \o new = a \o (b \o new)
    <3>1. Cat(Cat(a, b), new) = Cat(a, Cat(b, new))
      BY <1>1, Associative
    <3> QED
      BY <2>2, <3>1 DEF Cat
  <2>12. q = Each(AsOld, b) \o Each(AsLive, new)
    BY <1>3, <2>5, <2>7 DEF Cat
  <2> QED
    BY <2>3, <2>9, <2>10, <2>11, <2>12
<1>8. CASE n > Len(e)
  <2>1. n - Len(e) \in 1 .. Len(l) /\ n = Len(e) + (n - Len(e))
    BY <1>4, <1>5, <1>8
  <2>2. new # <<>>
    <3>1. Len(l) # 0
      BY <1>5, <2>1
    <3>2. Each(AsLive, <<>>) = <<>> /\ Len(<<>>) = 0
      BY EachNone
    <3> QED
      BY <1>3, <3>1, <3>2
  <2>3. PICK x \in Spoken, others \in Seq(Spoken) :
           /\ new = <<x>> \o others
           /\ Each(AsLive, new) = Live(x) \o Each(AsLive, others)
    BY <2>2, FirstLive
  <2>4. x \in Plain /\ x # <<>> /\ x \in Texts
    BY PlainIn DEF Spoken, Texts
  <2>5. PICK h \in Seq(Items) :
           /\ h = Live(x) /\ Len(h) = Len(x)
           /\ \A i \in 1 .. Len(h) : h[i].live /\ (h[i].ends <=> i = Len(h))
    <3>1. /\ Live(x) \in Seq(Items) /\ Len(Live(x)) = Len(x)
          /\ \A i \in 1 .. Len(x) : Live(x)[i].live /\ (Live(x)[i].ends <=> i = Len(x))
      BY <2>4, EndsOfOne
    <3> QED
      BY <3>1
  <2>6. Len(h) \in Nat /\ Len(h) # 0
    <3>1. Len(x) # 0
      BY <2>4, EmptySeq DEF Texts
    <3> QED
      BY <2>5, <3>1, LenProperties
  <2>7. PICK o \in Seq(Items) : o = Each(AsLive, others)
    <3>1. <<>> \in Seq(Plain)
      OBVIOUS
    <3> QED
      BY <3>1, WayTyped
  <2>8. /\ l = h \o o /\ Len(l) = Len(h) + Len(o) /\ Len(o) \in Nat
        /\ \A i \in 1 .. Len(h) : l[i] = h[i]
    <3>1. /\ Len(h \o o) = Len(h) + Len(o) /\ \A i \in 1 .. Len(h) : (h \o o)[i] = h[i]
      BY Joined
    <3> QED
      BY <1>3, <2>3, <2>5, <2>7, <3>1, LenProperties
  <2>9. n = Len(e) + Len(h)
    <3>1. CASE n - Len(e) <= Len(h)
      <4>1. n - Len(e) \in 1 .. Len(h)
        BY <1>5, <2>1, <2>6, <3>1
      <4>2. h[n - Len(e)].ends
        BY <1>4, <1>6, <2>1, <2>8, <4>1
      <4>3. n - Len(e) = Len(h)
        BY <2>5, <4>1, <4>2
      <4> QED
        BY <1>5, <2>6, <4>3
    <3>2. CASE n - Len(e) > Len(h)
      <4>1. Len(h) \in 1 .. Len(h) /\ Len(h) \in 1 .. Len(l) /\ Len(e) + Len(h) \in 1 .. n - 1
        BY <1>5, <2>1, <2>6, <2>8, <3>2
      <4>2. h[Len(h)].live /\ h[Len(h)].ends
        BY <2>5, <4>1
      <4>3. t[Len(e) + Len(h)] = h[Len(h)]
        BY <1>4, <2>8, <4>1
      <4> QED
        BY <1>6, <4>1, <4>2, <4>3
    <3> QED
      BY <1>5, <2>6, <3>1, <3>2
  <2>10. PICK p \in Seq(Items) : p = Cat(e, h) /\ Len(p) = n
    <3>1. e \o h \in Seq(Items) /\ Len(e \o h) = Len(e) + Len(h)
      BY Joined
    <3> QED
      BY <2>9, <3>1 DEF Cat
  <2>11. t = p \o o
    <3>1. Cat(Cat(e, h), o) = Cat(e, Cat(h, o))
      BY Associative
    <3> QED
      BY <1>4, <2>8, <2>10, <3>1 DEF Cat
  <2>12. SubSeq(t, 1, n) = p /\ SubSeq(t, n + 1, Len(t)) = o
    BY <2>10, <2>11, CutJoin
  <2>13. PICK g \in Seq(Plain) : g = Cat(old, <<x>>)
    <3>1. <<x>> \in Seq(Plain)
      BY <2>4
    <3>2. old \o <<x>> \in Seq(Plain)
      BY <3>1, Joined
    <3> QED
      BY <3>2 DEF Cat
  <2>14. Inbox(Decoded(BytesOf(p))) = g
    <3>1. Inbox(Decoded(BytesOf(Each(AsOld, old) \o Live(x)))) = old \o <<x>>
      BY <2>4, ReadIs
    <3> QED
      BY <1>2, <2>5, <2>10, <2>13, <3>1 DEF Cat
  <2>15. PICK z \in Seq(Plain) : z = <<>>
    <3>1. <<>> \in Seq(Plain)
      OBVIOUS
    <3> QED
      BY <3>1
  <2>16. old \o new = g \o (z \o others)
    <3>1. others \in Seq(Texts) /\ <<x>> \in Seq(Texts)
      BY <2>4, <2>15, WayTyped
    <3>2. PICK y \in Seq(Texts) : y = <<x>>
      BY <3>1
    <3>3. Cat(Cat(old, y), others) = Cat(old, Cat(y, others))
      BY <1>1, <3>1, Associative
    <3>4. z \o others = others
      BY <2>15, <3>1, ConcatEmptySeq
    <3> QED
      BY <2>3, <2>13, <3>2, <3>3, <3>4 DEF Cat
  <2>17. o = Each(AsOld, z) \o Each(AsLive, others)
    BY <2>7, <2>15, EachNone, ConcatEmptySeq
  <2> QED
    BY <2>12, <2>14, <2>16, <2>17
<1>9. n <= Len(e) \/ n > Len(e)
  BY <1>5
<1> QED
  BY <1>7, <1>8, <1>9

\* Where a live text comes first, a read that ends with a text is that text.
LEMMA WholeLive ==
    ASSUME NEW x \in Spoken, NEW q \in Seq(Items), NEW t \in Seq(Items), t = Live(x) \o q,
           NEW n \in 1 .. Len(t), Whole(SubSeq(t, 1, n))
    PROVE  /\ Inbox(Decoded(BytesOf(SubSeq(t, 1, n)))) = <<x>>
           /\ SubSeq(t, n + 1, Len(t)) = q
<1>1. x \in Plain /\ x # <<>> /\ x \in Texts
  BY PlainIn DEF Spoken, Texts
<1>2. PICK h \in Seq(Items) :
         /\ h = Live(x) /\ Len(h) = Len(x)
         /\ \A i \in 1 .. Len(h) : h[i].live /\ (h[i].ends <=> i = Len(h))
  <2>1. /\ Live(x) \in Seq(Items) /\ Len(Live(x)) = Len(x)
        /\ \A i \in 1 .. Len(x) : Live(x)[i].live /\ (Live(x)[i].ends <=> i = Len(x))
    BY <1>1, EndsOfOne
  <2> QED
    BY <2>1
<1>3. Len(h) \in Nat /\ Len(h) # 0 /\ Len(q) \in Nat /\ n \in Nat
  <2>1. Len(x) # 0
    BY <1>1, EmptySeq DEF Texts
  <2> QED
    BY <1>2, <2>1, LenProperties
<1>4. Len(t) = Len(h) + Len(q) /\ \A i \in 1 .. Len(h) : t[i] = h[i]
  <2>1. Len(h \o q) = Len(h) + Len(q) /\ \A i \in 1 .. Len(h) : (h \o q)[i] = h[i]
    BY Joined
  <2> QED
    BY <1>2, <2>1
<1>5. t[n].ends /\ \A i \in 1 .. n - 1 : ~(t[i].live /\ t[i].ends)
  <2>1. PICK p \in Seq(Items) : /\ p = SubSeq(t, 1, n) /\ Len(p) = n
                                /\ \A i \in 1 .. n : p[i] = t[i]
    <3>1. n \in 0 .. Len(t)
      OBVIOUS
    <3>2. /\ SubSeq(t, 1, n) \in Seq(Items) /\ Len(SubSeq(t, 1, n)) = n
          /\ \A i \in 1 .. n : SubSeq(t, 1, n)[i] = t[i]
      BY <3>1, Cut
    <3> QED
      BY <3>2
  <2>2. /\ p[Len(p)].ends
        /\ \A i \in 1 .. Len(p) - 1 : ~(p[i].live /\ p[i].ends)
    BY <2>1 DEF Whole, Last
  <2>3. n \in 1 .. n /\ \A i \in 1 .. n - 1 : i \in 1 .. n
    BY <1>3
  <2> QED
    BY <2>1, <2>2, <2>3
<1>6. n = Len(h)
  <2>1. CASE n <= Len(h)
    <3>1. n \in 1 .. Len(h)
      BY <1>3, <2>1
    <3> QED
      BY <1>2, <1>4, <1>5, <3>1
  <2>2. CASE n > Len(h)
    <3>1. Len(h) \in 1 .. Len(h) /\ Len(h) \in 1 .. n - 1
      BY <1>3, <2>2, SMTT(30)
    <3> QED
      BY <1>2, <1>4, <1>5, <3>1, SMTT(30)
  <2> QED
    BY <1>3, <2>1, <2>2
<1>7. SubSeq(t, 1, n) = h /\ SubSeq(t, n + 1, Len(t)) = q
  <2>1. SubSeq(h \o q, 1, Len(h)) = h /\ SubSeq(h \o q, Len(h) + 1, Len(h \o q)) = q
    BY CutJoin
  <2> QED
    BY <1>2, <1>6, <2>1
<1>8. Inbox(Decoded(BytesOf(h))) = <<x>>
  <2>1. PICK f \in Seq(Plain) : f = <<>>
    <3>1. <<>> \in Seq(Plain)
      OBVIOUS
    <3> QED
      BY <3>1
  <2>2. Inbox(Decoded(BytesOf(Each(AsOld, f) \o Live(x)))) = f \o <<x>>
    BY <1>1, ReadIs
  <2>3. Each(AsOld, f) \o h = h
    BY <2>1, EachNone, ConcatEmptySeq
  <2>4. f \o <<x>> = <<x>>
    <3>1. <<x>> \in Seq(Spoken)
      OBVIOUS
    <3> QED
      BY <2>1, <3>1, ConcatEmptySeq
  <2> QED
    BY <1>2, <2>2, <2>3, <2>4
<1> QED
  BY <1>7, <1>8

\* What is read are the first of the texts, and the others are still on their way.
ReadsFirst(t, n, pre, old, new) ==
    \E got \in Seq(Texts), p \in Seq(Spoken), o \in Seq(Plain), l \in Seq(Spoken) :
        /\ Said(pre, old, new) = got \o Said(p, o, l)
        /\ Inbox(Decoded(BytesOf(SubSeq(t, 1, n)))) = got
        /\ SubSeq(t, n + 1, Len(t)) = Way(p, o, l)
        /\ old = <<>> /\ new = <<>> => o = <<>> /\ l = <<>>

\* So it is, whichever these texts are.
LEMMA WholeReadIs ==
    ASSUME NEW pre \in Seq(Spoken), NEW old \in Seq(Plain), NEW new \in Seq(Spoken),
           NEW t \in Seq(Items), t = Way(pre, old, new),
           NEW n \in 1 .. Len(t), Whole(SubSeq(t, 1, n))
    PROVE  ReadsFirst(t, n, pre, old, new)
<1>1. /\ Each(AsOld, old) \o Each(AsLive, new) \in Seq(Items)
      /\ old \o new \in Seq(Texts)
  BY WayTyped, ConcatProperties
<1>2. CASE pre = <<>>
  <2>1. t = Each(AsOld, old) \o Each(AsLive, new) /\ Said(pre, old, new) = old \o new
    <3>1. Each(AsLive, pre) = <<>>
      BY <1>2, EachNone
    <3>2. /\ <<>> \o (Each(AsOld, old) \o Each(AsLive, new))
                = Each(AsOld, old) \o Each(AsLive, new)
          /\ <<>> \o (old \o new) = old \o new
      BY <1>1, ConcatEmptySeq
    <3> QED
      BY <1>2, <3>1, <3>2 DEF Way, Said
  <2>2. ~(old = <<>> /\ new = <<>>)
    <3>1. ASSUME old = <<>>, new = <<>> PROVE FALSE
      <4>1. t = <<>> \o <<>>
        BY <2>1, <3>1, EachNone
      <4>2. <<>> \o <<>> = <<>> /\ Len(<<>>) = 0
        BY ConcatEmptySeq, <2>1
      <4> QED
        BY <4>1, <4>2
    <3> QED
      BY <3>1
  <2>3. PICK g \in Seq(Plain), o \in Seq(Plain), l \in Seq(Spoken) :
           /\ old \o new = g \o (o \o l)
           /\ Inbox(Decoded(BytesOf(SubSeq(t, 1, n)))) = g
           /\ SubSeq(t, n + 1, Len(t)) = Each(AsOld, o) \o Each(AsLive, l)
    BY <2>1, WholeRead
  <2>4. /\ Each(AsOld, o) \o Each(AsLive, l) \in Seq(Items) /\ o \o l \in Seq(Texts)
        /\ g \in Seq(Texts)
    BY WayTyped, PlainTexts, ConcatProperties
  <2>5. Way(pre, o, l) = Each(AsOld, o) \o Each(AsLive, l) /\ Said(pre, o, l) = o \o l
    <3>1. Each(AsLive, pre) = <<>>
      BY <1>2, EachNone
    <3>2. /\ <<>> \o (Each(AsOld, o) \o Each(AsLive, l)) = Each(AsOld, o) \o Each(AsLive, l)
          /\ <<>> \o (o \o l) = o \o l
      BY <2>4, ConcatEmptySeq
    <3> QED
      BY <1>2, <3>1, <3>2 DEF Way, Said
  <2> QED
    BY <2>1, <2>2, <2>3, <2>4, <2>5 DEF ReadsFirst
<1>3. CASE pre # <<>>
  <2>1. PICK x \in Spoken, others \in Seq(Spoken) :
           /\ pre = <<x>> \o others
           /\ Each(AsLive, pre) = Live(x) \o Each(AsLive, others)
    BY <1>3, FirstLive
  <2>2. PICK h \in Seq(Items) : h = Live(x)
    BY LiveMore
  <2>3. PICK y \in Seq(Texts) : y = <<x>>
    BY LiveMore
  <2>4. PICK m \in Seq(Items) : m = Each(AsOld, old) \o Each(AsLive, new)
    BY <1>1
  <2>5. PICK c \in Seq(Items) : c = Each(AsLive, others)
    BY WayTyped
  <2>6. PICK d \in Seq(Texts) : d = others
    BY WayTyped
  <2>7. PICK s \in Seq(Texts) : s = old \o new
    BY <1>1
  <2>8. PICK q \in Seq(Items) : q = Way(others, old, new)
    BY SaidTyped
  <2>9. t = h \o q
    <3>1. Cat(Cat(h, c), m) = Cat(h, Cat(c, m))
      BY Associative
    <3> QED
      BY <2>1, <2>2, <2>4, <2>5, <2>8, <3>1 DEF Cat, Way
  <2>10. Said(pre, old, new) = y \o Said(others, old, new)
    <3>1. Cat(Cat(y, d), s) = Cat(y, Cat(d, s))
      BY Associative
    <3> QED
      BY <2>1, <2>3, <2>6, <2>7, <3>1 DEF Cat, Said
  <2>11. /\ Inbox(Decoded(BytesOf(SubSeq(t, 1, n)))) = <<x>>
         /\ SubSeq(t, n + 1, Len(t)) = q
    BY <2>2, <2>9, WholeLive
  <2> QED
    BY <2>3, <2>8, <2>10, <2>11 DEF ReadsFirst
<1> QED
  BY <1>2, <1>3

\* The receiver reads: it is shown the first of the texts on their way.
LEMMA ReceivesExact ==
    ASSUME IInv, Exact, Receives
    PROVE  Exact'
<1> SUFFICES ASSUME ~torn', ~pipelined'
             PROVE  \E pre \in Seq(Spoken), old \in Seq(Plain), new \in Seq(Spoken) :
                       OnTheirWay(pre, old, new)'
  BY DEF Exact
<1>1. PICK n \in 1 .. Len(toClient) :
         /\ toClient' = SubSeq(toClient, n + 1, Len(toClient))
         /\ shown' = shown \o Inbox(Decoded(BytesOf(SubSeq(toClient, 1, n))))
         /\ torn' = (torn \/ ~Whole(SubSeq(toClient, 1, n)))
         /\ given' = given /\ place' = place /\ pipelined' = pipelined
  BY DEF Receives, BytesOf
<1>2. ~torn /\ ~pipelined /\ Whole(SubSeq(toClient, 1, n))
  BY <1>1
<1>3. PICK pre \in Seq(Spoken), old \in Seq(Plain), new \in Seq(Spoken) :
         OnTheirWay(pre, old, new)
  BY <1>2 DEF Exact
<1>4. /\ toClient = Way(pre, old, new)
      /\ NonEmpty(given) = NonEmpty(shown) \o NonEmpty(Said(pre, old, new))
      /\ place # "admitted" => old = <<>> /\ new = <<>>
  BY <1>3 DEF OnTheirWay
<1>5. shown \in Seq(Texts)
  BY Types DEF IInv, Texts
<1>6. PICK t \in Seq(Items) : t = toClient
  BY Types DEF IInv
<1>7. ReadsFirst(t, n, pre, old, new)
  <2>1. /\ t \in Seq(Items) /\ t = Way(pre, old, new)
        /\ n \in 1 .. Len(t) /\ Whole(SubSeq(t, 1, n))
    BY <1>2, <1>4, <1>6
  <2> QED
    BY <2>1, WholeReadIs
<1>8. PICK got \in Seq(Texts), p \in Seq(Spoken), o \in Seq(Plain), l \in Seq(Spoken) :
         /\ Said(pre, old, new) = got \o Said(p, o, l)
         /\ shown' = shown \o got
         /\ toClient' = Way(p, o, l)
         /\ (place # "admitted") => o = <<>> /\ l = <<>>
  BY <1>1, <1>4, <1>6, <1>7 DEF ReadsFirst
<1>9. PICK on \in Seq(Texts) : on = Said(p, o, l)
  BY SaidTyped
<1>10. NonEmpty(given') = NonEmpty(shown') \o NonEmpty(on)
  <2>1. NonEmpty(got \o on) = NonEmpty(got) \o NonEmpty(on)
    BY NonEmptyJoin
  <2>2. NonEmpty(shown \o got) = NonEmpty(shown) \o NonEmpty(got)
    BY <1>5, NonEmptyJoin
  <2>3. PICK a \in Seq(Texts) : a = NonEmpty(shown)
    BY <1>5, NonEmptyIs
  <2>4. PICK b \in Seq(Texts) : b = NonEmpty(got)
    BY NonEmptyIs
  <2>5. PICK c \in Seq(Texts) : c = NonEmpty(on)
    BY NonEmptyIs
  <2>6. Cat(Cat(a, b), c) = Cat(a, Cat(b, c))
    BY Associative
  <2>7. NonEmpty(given) = Cat(a, Cat(b, c))
    BY <1>4, <1>8, <1>9, <2>1, <2>3, <2>4, <2>5 DEF Cat
  <2>8. NonEmpty(shown') = Cat(a, b)
    BY <1>8, <2>2, <2>3, <2>4 DEF Cat
  <2> QED
    BY <1>1, <2>5, <2>6, <2>7, <2>8 DEF Cat
<1>11. OnTheirWay(p, o, l)'
  BY <1>1, <1>8, <1>9, <1>10 DEF OnTheirWay
<1> QED
  BY <1>11

\* The invariant of what whole reads show.
THEOREM ReadsExact == Spec => []Exact
<1>1. Init => Exact
  <2> SUFFICES ASSUME Init PROVE Exact
    OBVIOUS
  <2>1. given = <<>> /\ shown = <<>> /\ toClient = <<>>
    BY DEF Init
  <2>2. PICK z \in Seq(Spoken) : z = <<>> /\ z \in Seq(Plain) /\ z \in Seq(Texts)
    <3>1. <<>> \in Seq(Spoken) /\ <<>> \in Seq(Plain) /\ <<>> \in Seq(Texts)
      OBVIOUS
    <3> QED
      BY <3>1
  <2>3. z \o (z \o z) = z /\ Way(z, z, z) = z
    <3>1. <<>> \o <<>> = <<>>
      BY <2>2, ConcatEmptySeq
    <3> QED
      BY <2>2, <3>1, EachNone DEF Way
  <2>4. NonEmpty(z) = z
    BY <2>2, NonEmptyIs, EachNone
  <2>5. OnTheirWay(z, z, z)
    <3>1. Said(z, z, z) = z /\ z \o z = z
      BY <2>2, <2>3, ConcatEmptySeq DEF Said
    <3>2. toClient = z /\ given = z /\ shown = z
      BY <2>1, <2>2
    <3>3. NonEmpty(given) = NonEmpty(shown) \o NonEmpty(Said(z, z, z))
      BY <2>4, <3>1, <3>2
    <3> QED
      BY <2>2, <2>3, <3>2, <3>3 DEF OnTheirWay
  <2> QED
    BY <2>2, <2>5 DEF Exact
<1>2. IInv /\ Exact /\ [Next]_vars => Exact'
  <2> SUFFICES ASSUME IInv, Exact, [Next]_vars PROVE Exact'
    OBVIOUS
  <2>1. CASE Forwards
    BY <2>1, ForwardsExact
  <2>2. CASE IsAnswered
    BY <2>2, IsAnsweredExact
  <2>3. CASE IsAdmitted
    BY <2>3, IsAdmittedExact
  <2>4. CASE Receives
    BY <2>4, ReceivesExact
  <2>5. CASE Joins
    <3>1. /\ given' = given /\ shown' = shown /\ toClient' = toClient
          /\ torn' = torn /\ pipelined' = pipelined
          /\ place # "admitted" /\ place' # "admitted"
      BY <2>5 DEF Joins, roomOnly, outboxVars, receiverVars
    <3> QED
      BY <3>1 DEF Exact, OnTheirWay
  <2>6. CASE SendsLine \/ ReadSome \/ ReadFails \/ ReadsPassword \/ UNCHANGED vars
    <3>1. /\ given' = given /\ shown' = shown /\ toClient' = toClient
          /\ torn' = torn /\ place' = place
      BY <2>6 DEF SendsLine, ReadSome, ReadFails, ReadsPassword, vars, outboxVars,
                  receiverVars
    <3>2. ~pipelined' => ~pipelined
      <4>1. CASE SendsLine
        <5>1. pipelined' = (pipelined \/ sent > Consumed)
          BY <4>1, Zenon DEF SendsLine
        <5> QED
          BY <5>1
      <4>2. CASE ReadSome \/ ReadFails \/ ReadsPassword \/ UNCHANGED vars
        BY <4>2 DEF ReadSome, ReadFails, ReadsPassword, vars
      <4> QED
        BY <2>6, <4>1, <4>2
    <3> QED
      BY <3>1, <3>2 DEF Exact, OnTheirWay
  <2> QED
    BY <2>1, <2>2, <2>3, <2>4, <2>5, <2>6 DEF Next, Session, Room
<1> QED
  BY <1>1, <1>2, Invariant, PTL DEF Spec

\* The receiver of whole reads shows what its session was given, text by text, in
\* order: before it is admitted, from what the room remembers, and since.  m_delim
\* keeps apart what join_public() puts behind one another.
THEOREM WholeReadsShown == Spec => []WholeReadsAreExact
<1>1. IInv /\ Exact => WholeReadsAreExact
  <2> SUFFICES ASSUME IInv, Exact, ~torn, ~pipelined
               PROVE  IsPrefix(NonEmpty(shown), NonEmpty(given))
    BY DEF WholeReadsAreExact
  <2>1. PICK pre \in Seq(Spoken), old \in Seq(Plain), new \in Seq(Spoken) :
           OnTheirWay(pre, old, new)
    BY DEF Exact
  <2>2. PICK a \in Seq(Texts) : a = NonEmpty(shown)
    <3>1. shown \in Seq(Texts)
      BY Types DEF IInv, Texts
    <3> QED
      BY <3>1, NonEmptyIs
  <2>3. PICK b \in Seq(Texts) : b = NonEmpty(Said(pre, old, new))
    BY SaidTyped, NonEmptyIs
  <2>4. PICK c \in Seq(Texts) :
           /\ c = a \o b /\ Len(c) = Len(a) + Len(b) /\ \A i \in 1 .. Len(a) : c[i] = a[i]
    <3>1. /\ a \o b \in Seq(Texts) /\ Len(a \o b) = Len(a) + Len(b)
          /\ \A i \in 1 .. Len(a) : (a \o b)[i] = a[i]
      BY Joined
    <3> QED
      BY <3>1
  <2>5. IsPrefix(a, c)
    <3>1. Len(a) \in Nat /\ Len(b) \in Nat
      BY LenProperties
    <3>2. Len(a) <= Len(c)
      BY <2>4, <3>1
    <3> QED
      BY <2>4, <3>2, Prefixed
  <2> QED
    BY <2>1, <2>2, <2>3, <2>4, <2>5 DEF OnTheirWay
<1> QED
  BY <1>1, Invariant, ReadsExact, PTL

=============================================================================
