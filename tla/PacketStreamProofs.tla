------------------------- MODULE PacketStreamProofs -------------------------
(***************************************************************************)
(* Packets over a byte stream, for every PACKET_LEN_MAX, IOV_MAX and size  *)
(* of the socket buffers and any number of payloads: the packets arrive as *)
(* they were sent, no complete packet is left behind, no byte is lost, and *)
(* payloads can be put together again.                                     *)
(*                                                                         *)
(* First come facts about sequences and an induction over Nat and over     *)
(* sequences, from the existence of a minimum (WFMin); with them, what     *)
(* Flatten computes, what the operations of network-queue.c do to the      *)
(* bytes of a queue, and what network_mysqld_queue_append() sends; then    *)
(* the invariant of the stream.                                            *)
(*                                                                         *)
(* Lemmas that conclude with an equation of sequences name it (Regroups,   *)
(* DropsTo, Follows, ...): the provers find the instance by the name.      *)
(***************************************************************************)
EXTENDS PacketStream, WellFoundedInduction, TLAPS

-----------------------------------------------------------------------------
(***************************************************************************)
(* Sequences.                                                              *)
(***************************************************************************)
\* A sequence is a function on its positions.
LEMMA Indexed ==
    ASSUME NEW A, NEW s \in Seq(A)
    PROVE  /\ Len(s) \in Nat /\ DOMAIN s = 1..Len(s) /\ \A i \in 1..Len(s) : s[i] \in A
           /\ s = <<>> <=> Len(s) = 0
OBVIOUS

\* Equal lengths and equal entries make equal sequences.
LEMMA SameEntries ==
    ASSUME NEW A, NEW s \in Seq(A), NEW t \in Seq(A), Len(s) = Len(t), \A i \in 1..Len(s) : s[i] = t[i]
    PROVE  s = t
OBVIOUS

\* The entries of a concatenation.
LEMMA Joined ==
    ASSUME NEW A, NEW s \in Seq(A), NEW t \in Seq(A)
    PROVE  /\ s \o t \in Seq(A) /\ Len(s \o t) = Len(s) + Len(t)
           /\ \A i \in 1..Len(s) : (s \o t)[i] = s[i]
           /\ \A i \in 1..Len(t) : (s \o t)[Len(s) + i] = t[i]
OBVIOUS

\* What is appended leaves the beginning alone.
LEMMA FirstStays ==
    ASSUME NEW A, NEW s \in Seq(A), NEW t \in Seq(A), s # <<>>
    PROVE  s \o t # <<>> /\ (s \o t)[1] = s[1]
OBVIOUS

\* Nothing is neutral.
LEMMA JoinedToNone ==
    ASSUME NEW A, NEW s \in Seq(A)
    PROVE  s \o <<>> = s /\ <<>> \o s = s
OBVIOUS

\* Concatenation is associative.
Regroups(s, t, u) == (s \o t) \o u = s \o (t \o u)
\* Concatenation is associative.
LEMMA JoinedThree ==
    ASSUME NEW A, NEW s \in Seq(A), NEW t \in Seq(A), NEW u \in Seq(A)
    PROVE  Regroups(s, t, u)
BY DEF Regroups

RegroupsFour(s, t, u, v) == s \o ((t \o u) \o v) = (s \o t) \o (u \o v)
\* The same for four sequences.
LEMMA JoinedFour ==
    ASSUME NEW A, NEW s \in Seq(A), NEW t \in Seq(A), NEW u \in Seq(A), NEW v \in Seq(A)
    PROVE  RegroupsFour(s, t, u, v)
<1>1. Regroups(t, u, v) BY JoinedThree, Zenon
<1>2. u \o v \in Seq(A) BY Joined
<1>3. Regroups(s, t, u \o v) BY <1>2, JoinedThree, Zenon
<1> QED BY <1>1, <1>3, Zenon DEF Regroups, RegroupsFour

\* The entries of a subsequence.
LEMMA Cut ==
    ASSUME NEW A, NEW s \in Seq(A), NEW i \in 1..Len(s) + 1, NEW j \in i - 1..Len(s)
    PROVE  /\ SubSeq(s, i, j) \in Seq(A) /\ Len(SubSeq(s, i, j)) = j + 1 - i
           /\ \A k \in 1..j + 1 - i : SubSeq(s, i, j)[k] = s[i + k - 1]
OBVIOUS

\* x has the entries of s from the one after the i-th.
Follows(A, s, i, x) == x \in Seq(A) /\ Len(x) = Len(s) - i /\ \A k \in 1..Len(s) - i : x[k] = s[i + k]
\* What SubSeq(s, i + 1, Len(s)) is.
LEMMA CutFollows ==
    ASSUME NEW A, NEW s \in Seq(A), NEW i \in 0..Len(s)
    PROVE  Follows(A, s, i, SubSeq(s, i + 1, Len(s)))
BY DEF Follows

\* A sequence is what comes first and the rest.
LEMMA CutInTwo ==
    ASSUME NEW A, NEW s \in Seq(A), NEW i \in 0..Len(s)
    PROVE  SubSeq(s, 1, i) \o SubSeq(s, i + 1, Len(s)) = s
<1> DEFINE n == Len(s)
           a == SubSeq(s, 1, i)
           b == SubSeq(s, i + 1, n)
<1>1. n \in Nat /\ i \in Nat /\ i <= n OBVIOUS
<1>2. a \in Seq(A) /\ Len(a) = i /\ \A k \in 1..i : a[k] = s[k] OBVIOUS
<1>3. b \in Seq(A) /\ Len(b) = n - i /\ \A k \in 1..n - i : b[k] = s[i + k] OBVIOUS
<1> HIDE DEF a, b
<1>4. /\ a \o b \in Seq(A) /\ Len(a \o b) = n
      /\ \A k \in 1..i : (a \o b)[k] = s[k]
      /\ \A k \in 1..n - i : (a \o b)[i + k] = s[i + k]
  <2>0. a \in Seq(A) /\ b \in Seq(A) BY <1>2, <1>3
  <2>1. /\ a \o b \in Seq(A) /\ Len(a \o b) = Len(a) + Len(b)
        /\ \A k \in 1..Len(a) : (a \o b)[k] = a[k]
        /\ \A k \in 1..Len(b) : (a \o b)[Len(a) + k] = b[k]
    BY <2>0, Joined
  <2>2. i + (n - i) = n BY <1>1
  <2> QED BY <1>2, <1>3, <2>1, <2>2, Zenon
<1> HIDE DEF n
<1>5. ASSUME NEW k \in 1..n PROVE (a \o b)[k] = s[k]
  <2>1. CASE k <= i BY <1>1, <1>4, <2>1
  <2>2. CASE k > i
    <3>1. k - i \in 1..n - i /\ i + (k - i) = k BY <1>1, <2>2
    <3> QED BY <1>4, <3>1, Zenon
  <2>3. k <= i \/ k > i BY <1>1
  <2> QED BY <2>1, <2>2, <2>3, Zenon
<1>6. Len(s) = n BY DEF n
<1>7. a \o b = s BY <1>4, <1>5, <1>6, SameEntries
<1> QED BY <1>7, Zenon DEF a, b, n

\* Cutting a concatenation.
LEMMA CutJoined ==
    ASSUME NEW A, NEW s \in Seq(A), NEW t \in Seq(A)
    PROVE  /\ SubSeq(s \o t, 1, Len(s)) = s
           /\ SubSeq(s \o t, Len(s) + 1, Len(s) + Len(t)) = t
OBVIOUS

\* Cutting what was cut.
LEMMA CutTwice ==
    ASSUME NEW A, NEW s \in Seq(A), NEW i \in Nat, NEW j \in Nat, i + j <= Len(s)
    PROVE  SubSeq(SubSeq(s, i + 1, Len(s)), j + 1, Len(s) - i) = SubSeq(s, i + j + 1, Len(s))
<1> DEFINE n == Len(s)
           a == SubSeq(s, i + 1, n)
           b == SubSeq(a, j + 1, n - i)
           c == SubSeq(s, i + j + 1, n)
<1>1. n \in Nat /\ i + j <= n OBVIOUS
<1>2. a \in Seq(A) /\ Len(a) = n - i /\ \A k \in 1..n - i : a[k] = s[i + k] OBVIOUS
<1>3. c \in Seq(A) /\ Len(c) = n - (i + j) /\ \A k \in 1..n - (i + j) : c[k] = s[i + j + k] OBVIOUS
<1> HIDE DEF a, c, n
<1>4. b \in Seq(A) /\ Len(b) = n - (i + j) /\ \A k \in 1..n - (i + j) : b[k] = a[j + k] BY <1>1, <1>2
<1> HIDE DEF b
<1>5. ASSUME NEW k \in 1..n - (i + j) PROVE b[k] = c[k]
  <2>1. j + k \in 1..n - i /\ i + (j + k) = i + j + k BY <1>1
  <2> QED BY <1>2, <1>3, <1>4, <2>1, Zenon
<1>6. b = c BY <1>3, <1>4, <1>5, SameEntries
<1>7. b = c BY <1>6
<1> QED BY <1>7, Zenon DEF a, b, c, n

\* x is what is left of w without its first k entries.
DropsTo(w, k, x) == k \in 0..Len(w) /\ SubSeq(w, k + 1, Len(w)) = x

\* Cutting in the middle one of three.
LEMMA CutWithin ==
    ASSUME NEW A, NEW s \in Seq(A), NEW t \in Seq(A), NEW u \in Seq(A), NEW i \in 0..Len(t),
           NEW k, k = Len(s) + i
    PROVE  DropsTo(s \o (t \o u), k, SubSeq(t, i + 1, Len(t)) \o u)
<1> DEFINE w == s \o (t \o u)
           a == SubSeq(t, 1, i)
           b == SubSeq(t, i + 1, Len(t))
<1>1. a \in Seq(A) /\ b \in Seq(A) /\ Len(a) = i OBVIOUS
<1>2. a \o b = t BY CutInTwo, Zenon
<1> HIDE DEF a, b, w
<1>3. s \o a \in Seq(A) /\ b \o u \in Seq(A) BY <1>1, Joined
<1>4. Len(s \o a) = k
  <2>1. a \in Seq(A) BY <1>1
  <2>2. Len(s \o a) = Len(s) + Len(a) BY <2>1, Joined, Zenon
  <2> QED BY <1>1, <2>2, Zenon
<1>5. w = (s \o a) \o (b \o u)
  <2>0. a \in Seq(A) /\ b \in Seq(A) BY <1>1
  <2>1. RegroupsFour(s, a, b, u) BY <2>0, JoinedFour, Zenon
  <2> QED BY <1>2, <2>1, Zenon DEF RegroupsFour, w
<1>6. Len(w) = Len(s \o a) + Len(b \o u)
  <2>1. Len((s \o a) \o (b \o u)) = Len(s \o a) + Len(b \o u) BY <1>3, Joined, Zenon
  <2> QED BY <1>5, <2>1, Zenon
<1>7. SubSeq(w, k + 1, Len(w)) = b \o u
  <2>1. SubSeq((s \o a) \o (b \o u), Len(s \o a) + 1, Len(s \o a) + Len(b \o u)) = b \o u
    BY <1>3, CutJoined, Zenon
  <2> QED BY <1>4, <1>5, <1>6, <2>1, Zenon
<1>8. k \in 0..Len(w)
  <2>1. Len(s \o a) \in Nat /\ Len(b \o u) \in Nat BY <1>3, Indexed
  <2> QED BY <1>4, <1>6, <2>1
<1> QED BY <1>7, <1>8, Zenon DEF DropsTo, w, b

\* What is left, and what was there.
Remains(A, s, k, x) ==
    k \in 0..Len(s) /\ x \in Seq(A) /\ Len(x) = Len(s) - k /\ SubSeq(s, 1, k) \o x = s
\* What is left of s after k entries, and the entries before it, make up s.
LEMMA Dropped ==
    ASSUME NEW A, NEW s \in Seq(A), NEW k, NEW x, DropsTo(s, k, x)
    PROVE  Remains(A, s, k, x)
<1>1. k \in 0..Len(s) /\ x = SubSeq(s, k + 1, Len(s)) BY DEF DropsTo
<1>2. Follows(A, s, k, x) BY <1>1, CutFollows, Zenon
<1>3. SubSeq(s, 1, k) \o SubSeq(s, k + 1, Len(s)) = s BY <1>1, CutInTwo, Zenon
<1> QED BY <1>1, <1>2, <1>3, Zenon DEF Follows, Remains

\* Dropping s from s \o t leaves t.
LEMMA DropFirst ==
    ASSUME NEW A, NEW s \in Seq(A), NEW t \in Seq(A)
    PROVE  DropsTo(s \o t, Len(s), t) /\ SubSeq(s \o t, 1, Len(s)) = s
<1>1. Len(s) \in Nat /\ Len(t) \in Nat /\ Len(s \o t) = Len(s) + Len(t) OBVIOUS
<1>2. Len(s) \in 0..Len(s \o t) BY <1>1
<1>3. SubSeq(s \o t, 1, Len(s)) = s /\ SubSeq(s \o t, Len(s) + 1, Len(s) + Len(t)) = t BY CutJoined, Zenon
<1> QED BY <1>1, <1>2, <1>3, Zenon DEF DropsTo

\* Append as a concatenation.
LEMMA AppendJoins ==
    ASSUME NEW A, NEW s \in Seq(A), NEW t \in Seq(A), NEW e \in A
    PROVE  Append(s, e) = s \o <<e>> /\ <<e>> \in Seq(A) /\ s \o Append(t, e) = Append(s \o t, e)
OBVIOUS

\* Tail is what is left after the first entry.
LEMMA TailIsCut ==
    ASSUME NEW A, NEW s \in Seq(A), s # <<>>
    PROVE  Tail(s) = SubSeq(s, 2, Len(s)) /\ Head(s) = s[1] /\ s[1] \in A /\ Len(s) >= 1
OBVIOUS

-----------------------------------------------------------------------------
(***************************************************************************)
(* Induction over the natural numbers, for a property given as a set, and  *)
(* what Flatten, a recursive function, returns.                            *)
(***************************************************************************)
\* A set with 0 in it that is closed under successor has every natural number in it.
LEMMA FromZero ==
    ASSUME NEW S, 0 \in S, \A n \in Nat : n \in S => n + 1 \in S
    PROVE  \A n \in Nat : n \in S
<1> DEFINE T == {n \in Nat : n \notin S}
<1>1. SUFFICES ASSUME T # {} PROVE FALSE OBVIOUS
<1>2. T \subseteq Nat OBVIOUS
<1> HIDE DEF T
<1>3. PICK x \in T : \A y \in T : ~(<<y, x>> \in OpToRel(<, Nat))
  BY <1>1, <1>2, NatLessThanWellFounded, WFMin, Zenon
<1>4. \A y \in T : ~(y < x) BY <1>2, <1>3, Zenon DEF OpToRel
<1>5. x \in Nat /\ x # 0 BY <1>2, <1>3 DEF T
<1>6. x - 1 \in Nat BY <1>5
<1>7. x - 1 \notin T BY <1>4, <1>5, <1>6
<1>8. x - 1 \in S BY <1>6, <1>7 DEF T
<1>9. (x - 1) + 1 = x BY <1>5
<1>10. x \in S BY <1>6, <1>8, <1>9
<1> QED BY <1>3, <1>10, Zenon DEF T

\* f[i] is what the first i sequences make, one after the other.
Flattens(f, ss, n) == f = [i \in 0..n |-> IF i = 0 THEN <<>> ELSE f[i - 1] \o ss[i]]

\* The recursive definition of Flatten has a value: for every number of sequences, one adds the next.
LEMMA FlattensExists ==
    ASSUME NEW ss
    PROVE  \A n \in Nat : \E f : Flattens(f, ss, n)
<1> DEFINE S == {n \in Nat : \E f : Flattens(f, ss, n)}
<1>1. 0 \in S
  <2> DEFINE f == [i \in 0..0 |-> <<>>]
  <2>1. Flattens(f, ss, 0)
    <3>1. \A i \in 0..0 : i = 0 OBVIOUS
    <3> QED BY <3>1 DEF Flattens
  <2> QED BY <2>1
<1>2. ASSUME NEW n \in Nat, n \in S PROVE n + 1 \in S
  <2>1. PICK f : Flattens(f, ss, n) BY <1>2
  <2> DEFINE g == [i \in 0..n + 1 |-> IF i = n + 1 THEN f[n] \o ss[i] ELSE f[i]]
  <2>2. /\ g = [i \in 0..n + 1 |-> g[i]]
        /\ \A i \in 0..n : g[i] = f[i]
        /\ g[n + 1] = f[n] \o ss[n + 1]
    OBVIOUS
  <2> HIDE DEF g
  <2>3. g[0] = <<>> BY <2>1, <2>2 DEF Flattens
  <2>4. ASSUME NEW i \in 0..n + 1, i # 0 PROVE g[i] = g[i - 1] \o ss[i]
    <3>1. i - 1 \in 0..n BY <2>4
    <3>2. g[i - 1] = f[i - 1] BY <2>2, <3>1, Zenon
    <3>3. CASE i = n + 1
      <4>1. i - 1 = n BY <3>3
      <4> QED BY <2>2, <3>2, <3>3, <4>1, Zenon
    <3>4. CASE i # n + 1
      <4>1. i \in 0..n BY <3>4
      <4>2. f[i] = f[i - 1] \o ss[i] BY <2>1, <2>4, <4>1, Zenon DEF Flattens
      <4> QED BY <2>2, <3>2, <4>1, <4>2, Zenon
    <3> QED BY <3>3, <3>4, Zenon
  <2>5. \A i \in 0..n + 1 : g[i] = IF i = 0 THEN <<>> ELSE g[i - 1] \o ss[i] BY <2>3, <2>4, Zenon
  <2>6. Flattens(g, ss, n + 1) BY <2>2, <2>5, Zenon DEF Flattens
  <2> QED BY <2>6
<1> HIDE DEF S
<1>3. \A n \in Nat : n \in S BY <1>1, <1>2, FromZero, Zenon
<1> QED BY <1>3, Zenon DEF S

\* It has one value only, whatever follows.
LEMMA FlattensOnce ==
    ASSUME NEW ss, NEW f, NEW g, NEW n \in Nat, NEW m \in Nat, n <= m, Flattens(f, ss, n), Flattens(g, ss, m)
    PROVE  \A i \in 0..n : f[i] = g[i]
<1> DEFINE S == {i \in Nat : i \in 0..n => f[i] = g[i]}
<1>1. 0 \in S BY DEF Flattens
<1>2. ASSUME NEW i \in Nat, i \in S PROVE i + 1 \in S
  <2>1. SUFFICES ASSUME i + 1 \in 0..n PROVE f[i + 1] = g[i + 1] OBVIOUS
  <2>2. i + 1 \in 0..m /\ i \in 0..n /\ i + 1 # 0 /\ (i + 1) - 1 = i BY <2>1
  <2>3. f[i] = g[i] BY <1>2, <2>2
  <2>4. f[i + 1] = f[i] \o ss[i + 1] BY <2>1, <2>2, Zenon DEF Flattens
  <2>5. g[i + 1] = g[i] \o ss[i + 1] BY <2>2, Zenon DEF Flattens
  <2> QED BY <2>3, <2>4, <2>5, Zenon
<1> HIDE DEF S
<1>3. \A i \in Nat : i \in S BY <1>1, <1>2, FromZero, Zenon
<1>4. \A i \in 0..n : i \in Nat OBVIOUS
<1> QED BY <1>3, <1>4, Zenon DEF S

\* Flatten is the last entry of that function.
LEMMA FlattenIs ==
    ASSUME NEW ss, NEW n \in Nat, Len(ss) = n, NEW f, Flattens(f, ss, n)
    PROVE  Flatten(ss) = f[n]
<1>1. PICK g : g = [i \in 0..n |-> IF i = 0 THEN <<>> ELSE g[i - 1] \o ss[i]] /\ Flatten(ss) = g[n]
  BY Zenon DEF Flatten, Flattens
<1>2. Flattens(g, ss, n) BY <1>1, Zenon DEF Flattens
<1>3. n <= n /\ n \in 0..n OBVIOUS
<1>4. f[n] = g[n] BY <1>2, <1>3, FlattensOnce
<1> QED BY <1>1, <1>4, Zenon

\* Nothing flattens to nothing.
LEMMA FlattenNone == Flatten(<<>>) = <<>>
<1>1. PICK f : Flattens(f, <<>>, 0) BY FlattensExists
<1>2. f[0] = <<>> BY <1>1 DEF Flattens
<1>3. Len(<<>>) = 0 /\ 0 \in Nat OBVIOUS
<1> QED BY <1>1, <1>2, <1>3, FlattenIs, Zenon

\* One more sequence is one more piece at the end.
LEMMA FlattenAppend ==
    ASSUME NEW A, NEW ss \in Seq(Seq(A)), NEW s \in Seq(A)
    PROVE  Flatten(Append(ss, s)) = Flatten(ss) \o s
<1> DEFINE n == Len(ss)
           tt == Append(ss, s)
<1>1. n \in Nat /\ Len(tt) = n + 1 /\ tt[n + 1] = s /\ \A i \in 1..n : tt[i] = ss[i] OBVIOUS
<1> HIDE DEF n, tt
<1>2. n + 1 \in Nat /\ n <= n + 1 /\ n \in 0..n /\ n + 1 \in 0..n + 1 /\ n + 1 # 0 /\ (n + 1) - 1 = n BY <1>1
<1>3. PICK g : Flattens(g, tt, n + 1) BY <1>2, FlattensExists, Zenon
<1>4. Flatten(tt) = g[n + 1] BY <1>1, <1>2, <1>3, FlattenIs, Zenon
<1>5. PICK f : Flattens(f, ss, n) BY <1>1, FlattensExists, Zenon
<1>6. Flatten(ss) = f[n] BY <1>1, <1>5, FlattenIs, Zenon DEF n
<1>7. Flattens(f, tt, n)
  <2>1. \A i \in 0..n : i # 0 => ss[i] = tt[i]
    <3>1. \A i \in 0..n : i # 0 => i \in 1..n BY <1>1
    <3> QED BY <1>1, <3>1, Zenon
  <2>2. [i \in 0..n |-> IF i = 0 THEN <<>> ELSE f[i - 1] \o ss[i]]
         = [i \in 0..n |-> IF i = 0 THEN <<>> ELSE f[i - 1] \o tt[i]] BY <2>1
  <2> QED BY <1>5, <2>2, Zenon DEF Flattens
<1>8. f[n] = g[n] BY <1>1, <1>2, <1>3, <1>7, FlattensOnce
<1>9. g[n + 1] = g[n] \o tt[n + 1] BY <1>2, <1>3, Zenon DEF Flattens
<1> QED BY <1>1, <1>4, <1>6, <1>8, <1>9, Zenon DEF tt

\* A set of sequences that has the empty one in it, and with every sequence any that is longer by one.
LEMMA FromEmpty ==
    ASSUME NEW A, NEW S, <<>> \in S, \A s \in Seq(A), e \in A : s \in S => Append(s, e) \in S
    PROVE  \A s \in Seq(A) : s \in S
<1> DEFINE N == {n \in Nat : \A s \in Seq(A) : Len(s) = n => s \in S}
<1>1. 0 \in N BY Indexed
<1>2. ASSUME NEW n \in Nat, n \in N PROVE n + 1 \in N
  <2>1. SUFFICES ASSUME NEW s \in Seq(A), Len(s) = n + 1 PROVE s \in S OBVIOUS
  <2> DEFINE t == SubSeq(s, 1, n)
             e == s[n + 1]
  <2>2. t \in Seq(A) /\ Len(t) = n /\ e \in A /\ s = Append(t, e) BY <2>1
  <2> HIDE DEF t, e
  <2>3. t \in S BY <1>2, <2>2
  <2> QED BY <2>2, <2>3
<1> HIDE DEF N
<1>3. \A n \in Nat : n \in N BY <1>1, <1>2, FromZero, Zenon
<1> QED BY <1>3, Indexed DEF N

\* Flatten makes a sequence of what the sequences are made of.
LEMMA FlattenTyped ==
    ASSUME NEW A
    PROVE  \A ss \in Seq(Seq(A)) : Flatten(ss) \in Seq(A)
<1> DEFINE S == {ss \in Seq(Seq(A)) : Flatten(ss) \in Seq(A)}
<1>1. <<>> \in S
  <2>1. <<>> \in Seq(A) /\ <<>> \in Seq(Seq(A)) OBVIOUS
  <2> QED BY <2>1, FlattenNone, Zenon
<1>2. ASSUME NEW ss \in Seq(Seq(A)), NEW s \in Seq(A), ss \in S PROVE Append(ss, s) \in S
  <2>1. Flatten(Append(ss, s)) = Flatten(ss) \o s BY FlattenAppend, Zenon
  <2>2. Flatten(ss) \o s \in Seq(A) BY <1>2, Joined, Zenon
  <2>3. Append(ss, s) \in Seq(Seq(A)) OBVIOUS
  <2> QED BY <2>1, <2>2, <2>3, Zenon
<1> HIDE DEF S
<1>3. \A ss \in Seq(Seq(A)) : ss \in S BY <1>1, <1>2, FromEmpty, Zenon
<1> QED BY <1>3, Zenon DEF S

\* It takes a concatenation to a concatenation.
LEMMA FlattenJoined ==
    ASSUME NEW A, NEW ss \in Seq(Seq(A))
    PROVE  \A tt \in Seq(Seq(A)) : Flatten(ss \o tt) = Flatten(ss) \o Flatten(tt)
<1> DEFINE S == {tt \in Seq(Seq(A)) : Flatten(ss \o tt) = Flatten(ss) \o Flatten(tt)}
<1>0. Flatten(ss) \in Seq(A) BY FlattenTyped, Zenon
<1>1. <<>> \in S
  <2>1. ss \o <<>> = ss /\ <<>> \in Seq(Seq(A)) BY JoinedToNone
  <2>2. Flatten(ss) \o <<>> = Flatten(ss) BY <1>0, JoinedToNone, Zenon
  <2> QED BY <2>1, <2>2, FlattenNone, Zenon
<1>2. ASSUME NEW tt \in Seq(Seq(A)), NEW s \in Seq(A), tt \in S PROVE Append(tt, s) \in S
  <2>1. ss \o Append(tt, s) = Append(ss \o tt, s) BY AppendJoins
  <2>2. ss \o tt \in Seq(Seq(A)) BY Joined, Zenon
  <2>3. Flatten(Append(ss \o tt, s)) = Flatten(ss \o tt) \o s BY <2>2, FlattenAppend, Zenon
  <2>4. Flatten(Append(tt, s)) = Flatten(tt) \o s BY FlattenAppend, Zenon
  <2>5. Flatten(tt) \in Seq(A) BY FlattenTyped, Zenon
  <2>6. (Flatten(ss) \o Flatten(tt)) \o s = Flatten(ss) \o (Flatten(tt) \o s)
    <3>1. Regroups(Flatten(ss), Flatten(tt), s) BY <1>0, <2>5, JoinedThree, Zenon
    <3> QED BY <3>1, Zenon DEF Regroups
  <2>7. Flatten(ss \o tt) = Flatten(ss) \o Flatten(tt) BY <1>2, Zenon
  <2>8. Append(tt, s) \in Seq(Seq(A)) OBVIOUS
  <2> QED BY <2>1, <2>3, <2>4, <2>6, <2>7, <2>8, Zenon
<1> HIDE DEF S
<1>3. \A tt \in Seq(Seq(A)) : tt \in S BY <1>1, <1>2, FromEmpty, Zenon
<1> QED BY <1>3, Zenon DEF S

\* The first sequence comes first, and cutting the sequences in two cuts the result in two.
LEMMA FlattenCut ==
    ASSUME NEW A, NEW ss \in Seq(Seq(A)), NEW i \in 0..Len(ss)
    PROVE  /\ SubSeq(ss, 1, i) \in Seq(Seq(A)) /\ SubSeq(ss, i + 1, Len(ss)) \in Seq(Seq(A))
           /\ Flatten(ss) = Flatten(SubSeq(ss, 1, i)) \o Flatten(SubSeq(ss, i + 1, Len(ss)))
<1>1. SubSeq(ss, 1, i) \in Seq(Seq(A)) /\ SubSeq(ss, i + 1, Len(ss)) \in Seq(Seq(A)) OBVIOUS
<1>2. SubSeq(ss, 1, i) \o SubSeq(ss, i + 1, Len(ss)) = ss BY CutInTwo, Zenon
<1>3. Flatten(SubSeq(ss, 1, i) \o SubSeq(ss, i + 1, Len(ss)))
        = Flatten(SubSeq(ss, 1, i)) \o Flatten(SubSeq(ss, i + 1, Len(ss)))
  BY <1>1, FlattenJoined, Zenon
<1> QED BY <1>1, <1>2, <1>3, Zenon

\* One sequence after the other, when there is only one.
LEMMA FlattenOne ==
    ASSUME NEW A, NEW s \in Seq(A)
    PROVE  <<s>> \in Seq(Seq(A)) /\ Flatten(<<s>>) = s
<1>1. <<>> \in Seq(Seq(A)) /\ Append(<<>>, s) = <<s>> /\ <<s>> \in Seq(Seq(A)) OBVIOUS
<1>2. Flatten(Append(<<>>, s)) = Flatten(<<>>) \o s BY <1>1, FlattenAppend, Zenon
<1>3. <<>> \o s = s BY JoinedToNone, Zenon
<1> QED BY <1>1, <1>2, <1>3, FlattenNone, Zenon

\* The first one, and the others.
LEMMA FlattenHead ==
    ASSUME NEW A, NEW ss \in Seq(Seq(A)), ss # <<>>
    PROVE  /\ ss[1] \in Seq(A) /\ SubSeq(ss, 2, Len(ss)) \in Seq(Seq(A))
           /\ Flatten(ss) = ss[1] \o Flatten(SubSeq(ss, 2, Len(ss)))
<1>1. Len(ss) \in Nat /\ Len(ss) >= 1 /\ 1 \in 0..Len(ss) BY Indexed
<1>2. ss[1] \in Seq(A) /\ SubSeq(ss, 1, 1) = <<ss[1]>>
  <2> DEFINE s == SubSeq(ss, 1, 1)
             t == <<ss[1]>>
  <2>1. s \in Seq(Seq(A)) /\ Len(s) = 1 /\ s[1] = ss[1] BY <1>1
  <2>2. ss[1] \in Seq(A) BY <1>1
  <2>3. t \in Seq(Seq(A)) /\ Len(t) = 1 /\ t[1] = ss[1] BY <2>2
  <2> HIDE DEF s, t
  <2>4. \A i \in 1..Len(s) : s[i] = t[i] BY <2>1, <2>3
  <2>5. s = t BY <2>1, <2>3, <2>4, SameEntries
  <2> QED BY <2>2, <2>5 DEF s, t
<1>3. /\ SubSeq(ss, 1 + 1, Len(ss)) \in Seq(Seq(A))
      /\ Flatten(ss) = Flatten(SubSeq(ss, 1, 1)) \o Flatten(SubSeq(ss, 1 + 1, Len(ss)))
  BY <1>1, FlattenCut, Zenon
<1>4. Flatten(<<ss[1]>>) = ss[1] BY <1>2, FlattenOne, Zenon
<1>5. 1 + 1 = 2 OBVIOUS
<1> QED BY <1>2, <1>3, <1>4, <1>5, Zenon

-----------------------------------------------------------------------------
(***************************************************************************)
(* The queues of network-queue.c: chunks and an offset stand for bytes.    *)
(***************************************************************************)
Left(q) == [i \in DOMAIN q.chunks |-> Rest(q, i)]

\* The offset counts in the first chunk only, and leaves something of it.
LEMMA LeftOfChunks ==
    ASSUME NEW q \in Queues
    PROVE  /\ q.chunks \in Seq(Seq(Nat)) /\ Len(q.chunks) \in Nat /\ q.offset \in Nat
           /\ Left(q) \in Seq(Seq(Nat)) /\ Len(Left(q)) = Len(q.chunks)
           /\ \A i \in 1..Len(q.chunks) : Left(q)[i] = Rest(q, i) /\ Rest(q, i) \in Seq(Nat)
           /\ q.chunks # <<>> => Len(Rest(q, 1)) = Len(q.chunks[1]) - q.offset
<1>1. q.chunks \in Seq(Seq(Nat)) /\ q.offset \in Nat BY DEF Queues
<1>2. Len(q.chunks) \in Nat /\ DOMAIN q.chunks = 1..Len(q.chunks) BY <1>1
<1>3. ASSUME q.chunks # <<>>
      PROVE  q.chunks[1] \in Seq(Nat) /\ q.offset <= Len(q.chunks[1]) /\ Len(q.chunks[1]) \in Nat
  <2>1. q.chunks[1] \in Seq(Nat) BY <1>1, <1>3
  <2>2. q.offset # 0 => q.offset < Len(q.chunks[1]) BY DEF Queues
  <2> QED BY <1>1, <2>1, <2>2
<1>4. ASSUME q.chunks # <<>>
      PROVE  Rest(q, 1) \in Seq(Nat) /\ Len(Rest(q, 1)) = Len(q.chunks[1]) - q.offset
  <2>1. Rest(q, 1) = SubSeq(q.chunks[1], q.offset + 1, Len(q.chunks[1])) BY DEF Rest
  <2> DEFINE c == q.chunks[1]
             o == q.offset
  <2>2. c \in Seq(Nat) /\ Len(c) \in Nat /\ o \in Nat /\ o <= Len(c) BY <1>1, <1>3, <1>4
  <2> HIDE DEF c, o
  <2>3. o + 1 \in 1..Len(c) + 1 /\ Len(c) \in (o + 1) - 1..Len(c) BY <2>2
  <2>4. SubSeq(c, o + 1, Len(c)) \in Seq(Nat) /\ Len(SubSeq(c, o + 1, Len(c))) = Len(c) + 1 - (o + 1)
    BY <2>2, <2>3, Cut
  <2>5. Len(c) + 1 - (o + 1) = Len(c) - o BY <2>2
  <2> QED BY <2>1, <2>4, <2>5, Zenon DEF c, o
<1>5. ASSUME NEW i \in 1..Len(q.chunks) PROVE Rest(q, i) \in Seq(Nat)
  <2>1. q.chunks # <<>> BY <1>2
  <2>2. CASE i = 1 BY <1>4, <2>1, <2>2
  <2>3. CASE i # 1 BY <1>1, <2>3 DEF Rest
  <2> QED BY <2>2, <2>3
<1>6. Left(q) = [i \in 1..Len(q.chunks) |-> Rest(q, i)] BY <1>2 DEF Left
<1>7. Left(q) \in Seq(Seq(Nat)) /\ Len(Left(q)) = Len(q.chunks) BY <1>2, <1>5, <1>6
<1>8. \A i \in 1..Len(q.chunks) : Left(q)[i] = Rest(q, i) BY <1>6
<1> QED BY <1>1, <1>2, <1>4, <1>5, <1>7, <1>8

\* The bytes of a queue are the bytes left in its chunks.
LEMMA BytesTyped ==
    ASSUME NEW q \in Queues
    PROVE  Bytes(q) = Flatten(Left(q)) /\ Bytes(q) \in Seq(Nat) /\ Len(Bytes(q)) \in Nat
<1>1. Bytes(q) = Flatten(Left(q)) BY DEF Bytes, Left
<1>2. Flatten(Left(q)) \in Seq(Nat) BY LeftOfChunks, FlattenTyped
<1> QED BY <1>1, <1>2

\* Chunks at the end of the queue are bytes at its end.
LEMMA ChunksAppended ==
    ASSUME NEW q \in Queues, NEW ss \in Seq(Seq(Nat)), NEW r \in Queues,
           r.chunks = q.chunks \o ss, r.offset = q.offset
    PROVE  Bytes(r) = Bytes(q) \o Flatten(ss)
<1>1. Left(q) \in Seq(Seq(Nat)) /\ Left(r) \in Seq(Seq(Nat)) BY LeftOfChunks
<1> DEFINE n == Len(q.chunks)
           m == Len(ss)
<1>2. n \in Nat /\ m \in Nat /\ q.chunks \in Seq(Seq(Nat)) BY LeftOfChunks
<1>3. Len(Left(q)) = n /\ Len(Left(r)) = Len(r.chunks) BY LeftOfChunks
<1>4. /\ Len(r.chunks) = n + m
      /\ \A i \in 1..n : r.chunks[i] = q.chunks[i]
      /\ \A i \in 1..m : r.chunks[n + i] = ss[i]
  BY <1>2, Joined
<1> HIDE DEF n, m
<1>5. ASSUME NEW i \in 1..n PROVE Left(r)[i] = Left(q)[i]
  <2>1. Left(r)[i] = Rest(r, i) /\ Left(q)[i] = Rest(q, i)
    <3>1. i \in 1..Len(r.chunks) BY <1>2, <1>4
    <3>2. i \in 1..Len(q.chunks) BY DEF n
    <3> QED BY <3>1, <3>2, LeftOfChunks
  <2>2. 1 \in 1..n BY <1>2
  <2>3. r.chunks[i] = q.chunks[i] /\ r.chunks[1] = q.chunks[1] BY <1>4, <2>2, Zenon
  <2> QED BY <2>1, <2>3, Zenon DEF Rest
<1>6. ASSUME NEW i \in 1..m PROVE Left(r)[n + i] = ss[i]
  <2>1. n + i \in 1..Len(r.chunks) BY <1>2, <1>4
  <2>2. Left(r)[n + i] = Rest(r, n + i) BY <2>1, LeftOfChunks
  <2>3. CASE n + i # 1 BY <1>4, <2>2, <2>3, Zenon DEF Rest
  <2>4. CASE n + i = 1
    <3>1. n = 0 /\ i = 1 BY <1>2, <2>4
    <3>2. r.offset = 0
      <4>1. q.chunks = <<>> BY <1>2, <3>1 DEF n
      <4> QED BY <4>1 DEF Queues
    <3>3. r.chunks[1] = ss[1] /\ ss[1] \in Seq(Nat) BY <1>2, <1>4, <3>1 DEF m
    <3>4. Rest(r, 1) = SubSeq(r.chunks[1], 0 + 1, Len(r.chunks[1])) BY <3>2 DEF Rest
    <3>5. SubSeq(ss[1], 0 + 1, Len(ss[1])) = ss[1] BY <3>3
    <3> QED BY <2>2, <2>4, <3>1, <3>3, <3>4, <3>5, Zenon
  <2> QED BY <2>3, <2>4
<1>7. Left(r) = Left(q) \o ss
  <2>1. Left(q) \o ss \in Seq(Seq(Nat)) /\ Len(Left(q) \o ss) = n + m
    BY <1>1, <1>3, Joined, Zenon DEF m
  <2>2. /\ \A i \in 1..n : (Left(q) \o ss)[i] = Left(q)[i]
        /\ \A i \in 1..m : (Left(q) \o ss)[n + i] = ss[i]
    <3>1. /\ \A i \in 1..Len(Left(q)) : (Left(q) \o ss)[i] = Left(q)[i]
          /\ \A i \in 1..Len(ss) : (Left(q) \o ss)[Len(Left(q)) + i] = ss[i]
      BY <1>1, Joined
    <3> QED BY <1>3, <3>1, Zenon DEF m
  <2>3. ASSUME NEW i \in 1..n + m PROVE Left(r)[i] = (Left(q) \o ss)[i]
    <3>1. CASE i <= n
      <4>1. i \in 1..n BY <1>2, <3>1
      <4> QED BY <1>5, <2>2, <4>1, Zenon
    <3>2. CASE i > n
      <4>1. i - n \in 1..m /\ n + (i - n) = i BY <1>2, <3>2
      <4> QED BY <1>6, <2>2, <4>1, Zenon
    <3>3. i <= n \/ i > n BY <1>2
    <3> QED BY <3>1, <3>2, <3>3, Zenon
  <2>4. Len(Left(r)) = n + m BY <1>3, <1>4
  <2> QED BY <1>1, <2>1, <2>3, <2>4, SameEntries, Zenon
<1>8. Flatten(Left(q) \o ss) = Flatten(Left(q)) \o Flatten(ss) BY <1>1, FlattenJoined
<1> QED BY <1>7, <1>8, BytesTyped, Zenon

\* Appending chunks to a queue appends their bytes, and counts them.
LEMMA QueueAppendedAll ==
    ASSUME NEW q \in Queues, NEW ss \in Seq(Seq(Nat))
    PROVE  LET r == queue_append_chunks(q, ss)
           IN  r \in Queues /\ Bytes(r) = Bytes(q) \o Flatten(ss) /\ r.len = q.len + Len(Flatten(ss))
<1> DEFINE r == queue_append_chunks(q, ss)
<1>0. Len(Flatten(ss)) \in Nat BY FlattenTyped, Indexed
<1>1. /\ q.chunks \in Seq(Seq(Nat)) /\ q.offset \in Nat /\ q.len \in Nat
      /\ q.offset # 0 => q.chunks # <<>> /\ q.offset < Len(q.chunks[1])
      /\ q \in [chunks : Seq(Seq(Nat)), offset : Nat, len : Nat]
  BY DEF Queues
<1>2. r = [chunks |-> q.chunks \o ss, offset |-> q.offset, len |-> q.len + Len(Flatten(ss))]
  BY Zenon DEF queue_append_chunks
<1> HIDE DEF r
<1>3. r.chunks = q.chunks \o ss /\ r.offset = q.offset /\ r.len = q.len + Len(Flatten(ss)) BY <1>2
<1>4. q.chunks \o ss \in Seq(Seq(Nat)) /\ q.len + Len(Flatten(ss)) \in Nat
  <2>1. q.chunks \o ss \in Seq(Seq(Nat)) BY <1>1, Joined
  <2>2. q.len + Len(Flatten(ss)) \in Nat BY <1>0, <1>1
  <2> QED BY <2>1, <2>2
<1>5. r \in [chunks : Seq(Seq(Nat)), offset : Nat, len : Nat] BY <1>1, <1>2, <1>4
<1>6. q.chunks # <<>> => r.chunks # <<>> /\ r.chunks[1] = q.chunks[1]
  <2>1. q.chunks \in Seq(Seq(Nat)) BY <1>1
  <2>2. q.chunks # <<>> => q.chunks \o ss # <<>> /\ (q.chunks \o ss)[1] = q.chunks[1] BY <2>1, FirstStays
  <2> QED BY <1>3, <2>2, Zenon
<1>7. r \in Queues
  <2>1. r.offset # 0 => r.chunks # <<>> /\ r.offset < Len(r.chunks[1]) BY <1>1, <1>3, <1>6, Zenon
  <2> QED BY <1>5, <2>1, Zenon DEF Queues
<1>8. Bytes(r) = Bytes(q) \o Flatten(ss) BY <1>3, <1>7, ChunksAppended, Zenon
<1> QED BY <1>3, <1>7, <1>8, Zenon DEF r

\* network_queue_append() does so for one chunk.
LEMMA QueueAppended ==
    ASSUME NEW q \in Queues, NEW s \in Seq(Nat)
    PROVE  LET r == queue_append_chunk(q, s)
           IN  r \in Queues /\ Bytes(r) = Bytes(q) \o s /\ r.len = q.len + Len(s)
<1>1. <<s>> \in Seq(Seq(Nat)) /\ Flatten(<<s>>) = s BY FlattenOne
<1> QED BY <1>1, QueueAppendedAll, Zenon DEF queue_append_chunk

\* What is left of the first i chunks.
LEMMA FirstLeft ==
    ASSUME NEW q \in Queues, NEW i \in 0..Len(q.chunks)
    PROVE  /\ [j \in 1..i |-> Rest(q, j)] = SubSeq(Left(q), 1, i)
           /\ SubSeq(Left(q), 1, i) \in Seq(Seq(Nat))
<1> DEFINE t == [j \in 1..i |-> Rest(q, j)]
           u == SubSeq(Left(q), 1, i)
<1>1. /\ Left(q) \in Seq(Seq(Nat)) /\ Len(Left(q)) = Len(q.chunks) /\ Len(q.chunks) \in Nat
      /\ \A j \in 1..Len(q.chunks) : Left(q)[j] = Rest(q, j) /\ Rest(q, j) \in Seq(Nat)
  BY LeftOfChunks
<1>2. i \in Nat /\ \A j \in 1..i : j \in 1..Len(q.chunks) BY <1>1
<1>3. \A j \in 1..i : Rest(q, j) \in Seq(Nat) /\ Left(q)[j] = Rest(q, j) BY <1>1, <1>2
<1>4. t \in Seq(Seq(Nat)) /\ Len(t) = i /\ \A j \in 1..i : t[j] = Rest(q, j) BY <1>2, <1>3
<1>5. u \in Seq(Seq(Nat)) /\ Len(u) = i /\ \A j \in 1..i : u[j] = Left(q)[j] BY <1>1
<1> HIDE DEF t, u
<1>6. \A j \in 1..i : t[j] = u[j] BY <1>3, <1>4, <1>5, Zenon
<1>7. t = u BY <1>4, <1>5, <1>6, SameEntries
<1> QED BY <1>5, <1>7, Zenon DEF t, u

\* Where the i-th chunk ends.
LEMMA EndOfIs ==
    ASSUME NEW q \in Queues, NEW i \in 0..Len(q.chunks)
    PROVE  /\ EndOf(q, i) = Len(Flatten(SubSeq(Left(q), 1, i)))
           /\ SubSeq(Left(q), 1, i) \in Seq(Seq(Nat)) /\ EndOf(q, i) \in Nat
<1> DEFINE t == [j \in 1..i |-> Rest(q, j)]
           u == SubSeq(Left(q), 1, i)
<1>1. t = u /\ u \in Seq(Seq(Nat)) BY FirstLeft, Zenon
<1>2. EndOf(q, i) = Len(Flatten(t)) BY Zenon DEF EndOf
<1> HIDE DEF t, u
<1>3. Len(Flatten(u)) \in Nat BY <1>1, FlattenTyped, Indexed
<1> QED BY <1>1, <1>2, <1>3, Zenon DEF u

\* The chunks follow each other: the first begins at 0, each is as long as what is left of it.
LEMMA EndsGrow ==
    ASSUME NEW q \in Queues
    PROVE  /\ EndOf(q, 0) = 0 /\ EndOf(q, Len(q.chunks)) = Len(Bytes(q))
           /\ \A i \in 0..Len(q.chunks) - 1 :
                 /\ EndOf(q, i) \in Nat /\ EndOf(q, i + 1) \in Nat
                 /\ EndOf(q, i + 1) = EndOf(q, i) + Len(Rest(q, i + 1))
<1>1. /\ Left(q) \in Seq(Seq(Nat)) /\ Len(Left(q)) = Len(q.chunks) /\ Len(q.chunks) \in Nat
      /\ \A j \in 1..Len(q.chunks) : Left(q)[j] = Rest(q, j) /\ Rest(q, j) \in Seq(Nat)
  BY LeftOfChunks
<1> DEFINE L == Left(q)
           k == Len(q.chunks)
<1> HIDE DEF L, k
<1>2. L \in Seq(Seq(Nat)) /\ Len(L) = k /\ k \in Nat BY <1>1 DEF L, k
<1>3. EndOf(q, 0) = 0
  <2>1. 0 \in 0..k BY <1>2
  <2>2. EndOf(q, 0) = Len(Flatten(SubSeq(L, 1, 0))) BY <2>1, EndOfIs, Zenon DEF L, k
  <2>3. SubSeq(L, 1, 0) = <<>> BY <1>2
  <2>4. Len(<<>>) = 0 OBVIOUS
  <2> QED BY <2>2, <2>3, <2>4, FlattenNone, Zenon
<1>4. EndOf(q, k) = Len(Bytes(q))
  <2>1. k \in 0..k BY <1>2
  <2>2. EndOf(q, k) = Len(Flatten(SubSeq(L, 1, k))) BY <2>1, EndOfIs, Zenon DEF L, k
  <2>3. SubSeq(L, 1, k) = L BY <1>2
  <2> QED BY <2>2, <2>3, BytesTyped, Zenon DEF L
<1>5. ASSUME NEW i \in 0..k - 1
      PROVE  /\ EndOf(q, i) \in Nat /\ EndOf(q, i + 1) \in Nat
             /\ EndOf(q, i + 1) = EndOf(q, i) + Len(Rest(q, i + 1))
  <2>1. i \in 0..k /\ i + 1 \in 0..k /\ i + 1 \in 1..k BY <1>2
  <2> DEFINE a == SubSeq(L, 1, i)
  <2>2. /\ EndOf(q, i) = Len(Flatten(a)) /\ a \in Seq(Seq(Nat)) /\ EndOf(q, i) \in Nat
    BY <2>1, EndOfIs, Zenon DEF L, k
  <2>3. EndOf(q, i + 1) = Len(Flatten(SubSeq(L, 1, i + 1))) /\ EndOf(q, i + 1) \in Nat
    BY <2>1, EndOfIs, Zenon DEF L, k
  <2>4. SubSeq(L, 1, i + 1) = Append(a, L[i + 1]) BY <1>2, <2>1
  <2> HIDE DEF a
  <2>5. L[i + 1] = Rest(q, i + 1) /\ Rest(q, i + 1) \in Seq(Nat) BY <1>1, <2>1, Zenon DEF L, k
  <2>6. Flatten(Append(a, Rest(q, i + 1))) = Flatten(a) \o Rest(q, i + 1) BY <2>2, <2>5, FlattenAppend
  <2>7. Flatten(a) \in Seq(Nat) BY <2>2, FlattenTyped
  <2>8. Len(Flatten(a) \o Rest(q, i + 1)) = Len(Flatten(a)) + Len(Rest(q, i + 1)) BY <2>5, <2>7, Joined
  <2> QED BY <2>2, <2>3, <2>4, <2>5, <2>6, <2>8, Zenon
<1> QED BY <1>3, <1>4, <1>5, Zenon DEF k

\* Up to some chunk they end within the first n bytes, and from the next on they do not.
LEMMA SomeGone ==
    ASSUME NEW q \in Queues, NEW n \in Nat
    PROVE  \E g \in 0..Len(q.chunks) :
              /\ {i \in DOMAIN q.chunks : EndOf(q, i) <= n} = 1..g
              /\ EndOf(q, g) <= n /\ (g < Len(q.chunks) => n < EndOf(q, g + 1))
<1> DEFINE k == Len(q.chunks)
           Upto(m, g) == /\ \A i \in 1..m : EndOf(q, i) <= n <=> i <= g
                         /\ EndOf(q, g) <= n /\ (g < m => n < EndOf(q, g + 1))
           M == {m \in Nat : m <= k => \E g \in 0..m : Upto(m, g)}
<1>1. k \in Nat /\ DOMAIN q.chunks = 1..k BY LeftOfChunks
<1>2. /\ EndOf(q, 0) = 0
      /\ \A i \in 0..k - 1 : /\ EndOf(q, i) \in Nat /\ EndOf(q, i + 1) \in Nat
                             /\ EndOf(q, i) <= EndOf(q, i + 1)
  <2>1. EndOf(q, 0) = 0 BY EndsGrow, Zenon
  <2>2. ASSUME NEW i \in 0..k - 1
        PROVE  EndOf(q, i) \in Nat /\ EndOf(q, i + 1) \in Nat /\ EndOf(q, i) <= EndOf(q, i + 1)
    <3>1. EndOf(q, i) \in Nat /\ EndOf(q, i + 1) \in Nat /\ EndOf(q, i + 1) = EndOf(q, i) + Len(Rest(q, i + 1))
      BY EndsGrow, Zenon
    <3>2. i + 1 \in 1..k BY <1>1
    <3>3. Rest(q, i + 1) \in Seq(Nat) BY <3>2, LeftOfChunks, Zenon
    <3>4. Len(Rest(q, i + 1)) \in Nat BY <3>3
    <3> QED BY <3>1, <3>4
  <2> QED BY <2>1, <2>2, Zenon
<1> HIDE DEF k
<1>3. 0 \in M
  <2>1. Upto(0, 0) BY <1>2
  <2>2. 0 \in 0..0 OBVIOUS
  <2> QED BY <2>1, <2>2
<1>4. ASSUME NEW m \in Nat, m \in M PROVE m + 1 \in M
  <2>1. SUFFICES ASSUME m + 1 <= k PROVE \E g \in 0..m + 1 : Upto(m + 1, g) OBVIOUS
  <2>2. PICK g \in 0..m : Upto(m, g) BY <1>1, <1>4, <2>1
  <2>3. m \in 0..k - 1 BY <1>1, <2>1
  <2>4. EndOf(q, m) \in Nat /\ EndOf(q, m + 1) \in Nat /\ EndOf(q, m) <= EndOf(q, m + 1) BY <1>2, <2>3
  <2>5. CASE g = m /\ EndOf(q, m + 1) <= n
    <3>1. \A i \in 1..m + 1 : EndOf(q, i) <= n <=> i <= m + 1 BY <2>2, <2>5
    <3>2. Upto(m + 1, m + 1) BY <2>5, <3>1
    <3> QED BY <3>2
  <2>6. CASE g = m /\ n < EndOf(q, m + 1)
    <3>1. \A i \in 1..m + 1 : EndOf(q, i) <= n <=> i <= m BY <2>2, <2>4, <2>6
    <3>2. Upto(m + 1, m) BY <2>2, <2>6, <3>1
    <3> QED BY <3>2
  <2>7. CASE g < m
    <3>1. m \in 1..m /\ ~(m <= g) BY <2>7
    <3>2. ~(EndOf(q, m) <= n) BY <2>2, <3>1
    <3>3. ~(EndOf(q, m + 1) <= n) BY <2>4, <3>2
    <3>4. \A i \in 1..m + 1 : EndOf(q, i) <= n <=> i <= g BY <2>2, <2>7, <3>3
    <3>5. Upto(m + 1, g) BY <2>2, <2>7, <3>4
    <3> QED BY <3>5
  <2> QED BY <2>2, <2>4, <2>5, <2>6, <2>7
<1> HIDE DEF M
<1>5. k \in M BY <1>1, <1>3, <1>4, FromZero
<1>6. PICK g \in 0..k : Upto(k, g) BY <1>1, <1>5 DEF M
<1>7. {i \in DOMAIN q.chunks : EndOf(q, i) <= n} = 1..g BY <1>1, <1>6
<1> QED BY <1>6, <1>7 DEF k

\* A queue that has lost its first g chunks and n bytes more of the next: its bytes are the rest.
LEMMA BytesAfter ==
    ASSUME NEW q \in Queues, NEW r \in Queues, NEW n \in Nat, NEW g \in 0..Len(q.chunks) - 1,
           r.chunks = SubSeq(q.chunks, g + 1, Len(q.chunks)),
           EndOf(q, g) <= n, n < EndOf(q, g + 1),
           r.offset = IF g = 0 THEN q.offset + n ELSE n - EndOf(q, g)
    PROVE  DropsTo(Bytes(q), n, Bytes(r))
<1> DEFINE L == Left(q)
           k == Len(q.chunks)
           R == Rest(q, g + 1)
           c == q.chunks[g + 1]
           o == n - EndOf(q, g)
           U == SubSeq(L, g + 2, k)
<1>1. /\ L \in Seq(Seq(Nat)) /\ Len(L) = k /\ k \in Nat
      /\ \A j \in 1..k : L[j] = Rest(q, j) /\ Rest(q, j) \in Seq(Nat)
  BY LeftOfChunks, Zenon
<1>2. /\ q.chunks \in Seq(Seq(Nat)) /\ q.offset \in Nat
      /\ q.chunks # <<>> => Len(Rest(q, 1)) = Len(q.chunks[1]) - q.offset
  BY LeftOfChunks, Zenon
<1>3. /\ Left(r) \in Seq(Seq(Nat)) /\ Len(Left(r)) = Len(r.chunks)
      /\ \A j \in 1..Len(r.chunks) : Left(r)[j] = Rest(r, j) /\ Rest(r, j) \in Seq(Nat)
  BY LeftOfChunks, Zenon
<1>4. EndOf(q, 0) = 0 /\ EndOf(q, g) \in Nat /\ EndOf(q, g + 1) = EndOf(q, g) + Len(R) BY EndsGrow, Zenon
<1> HIDE DEF L, k, U
<1>5. k \in Nat /\ g \in Nat /\ g + 1 \in 1..k /\ g < k /\ g + 2 \in 1..k + 1
  <2>1. k \in Nat BY <1>1
  <2> QED BY <2>1 DEF k
<1>6. L[g + 1] = R /\ R \in Seq(Nat) BY <1>1, <1>5, Zenon
<1>7. o \in Nat /\ o \in 0..Len(R) /\ n = EndOf(q, g) + o
  <2>1. Len(R) \in Nat BY <1>6
  <2> QED BY <1>4, <2>1
<1> HIDE DEF o
<1>8. c \in Seq(Nat)
  <2>1. g + 1 \in 1..Len(q.chunks) BY <1>5 DEF k
  <2> QED BY <1>2, <2>1, Indexed
<1>9. /\ Len(r.chunks) = k - g /\ r.chunks[1] = c
      /\ \A j \in 1..k - g : r.chunks[j] = q.chunks[g + j]
  <2>1. q.chunks \in Seq(Seq(Nat)) BY <1>2
  <2>2. g \in 0..Len(q.chunks) BY <1>5 DEF k
  <2>3. Follows(Seq(Nat), q.chunks, g, r.chunks) BY <2>1, <2>2, CutFollows, Zenon
  <2>6. /\ Len(r.chunks) = k - g
        /\ \A j \in 1..k - g : r.chunks[j] = q.chunks[g + j] BY <2>3, Zenon DEF Follows, k
  <2>7. 1 \in 1..k - g BY <1>5
  <2> QED BY <2>6, <2>7, Zenon
<1>10. Rest(r, 1) = SubSeq(R, o + 1, Len(R))
  <2>0. Rest(r, 1) = SubSeq(c, r.offset + 1, Len(c)) BY <1>9, Zenon DEF Rest
  <2>1. CASE g = 0
    <3>1. q.chunks # <<>> BY <1>5 DEF k
    <3>2. Len(R) = Len(c) - q.offset /\ R = SubSeq(c, q.offset + 1, Len(c))
      BY <1>2, <2>1, <3>1 DEF Rest
    <3>3. r.offset = q.offset + o BY <1>4, <1>7, <2>1
    <3>4. q.offset + o <= Len(c) /\ Len(c) \in Nat
      <4>0. Len(c) \in Nat BY <1>8, Indexed
      <4>1. Len(c) \in Nat /\ q.offset \in Nat /\ Len(R) = Len(c) - q.offset BY <1>2, <3>2, <4>0, Zenon
      <4>2. o <= Len(R) /\ o \in Nat BY <1>7
      <4> HIDE DEF c, R
      <4> QED BY <4>1, <4>2
    <3>5. SubSeq(SubSeq(c, q.offset + 1, Len(c)), o + 1, Len(c) - q.offset) = SubSeq(c, q.offset + o + 1, Len(c))
      BY <1>2, <1>7, <1>8, <3>4, CutTwice, Zenon
    <3> QED BY <2>0, <3>2, <3>3, <3>5, Zenon
  <2>2. CASE g # 0
    <3>1. g + 1 # 1 BY <1>5, <2>2
    <3>2. R = c BY <3>1, Zenon DEF Rest
    <3>3. r.offset = o BY <2>2 DEF o
    <3> QED BY <2>0, <3>2, <3>3, Zenon
  <2> QED BY <2>1, <2>2
<1>11. /\ U \in Seq(Seq(Nat)) /\ Len(U) = k - g - 1
       /\ \A j \in 1..k - g - 1 : U[j] = L[g + 1 + j]
  <2>1. L \in Seq(Seq(Nat)) /\ g + 2 \in 1..Len(L) + 1 /\ k \in (g + 2) - 1..Len(L) BY <1>1, <1>5
  <2>2. /\ U \in Seq(Seq(Nat)) /\ Len(U) = k + 1 - (g + 2)
        /\ \A j \in 1..k + 1 - (g + 2) : U[j] = L[g + 2 + j - 1]
    BY <2>1, Cut DEF U
  <2>3. k + 1 - (g + 2) = k - g - 1 BY <1>1, <1>5
  <2>4. \A j \in 1..k - g - 1 : g + 2 + j - 1 = g + 1 + j BY <1>5
  <2> QED BY <2>2, <2>3, <2>4, Zenon
<1> DEFINE V == <<SubSeq(R, o + 1, Len(R))>>
<1>12. SubSeq(R, o + 1, Len(R)) \in Seq(Nat) BY <1>6, <1>7
<1>13. V \in Seq(Seq(Nat)) /\ Len(V) = 1 /\ V[1] = SubSeq(R, o + 1, Len(R))
  <2>1. \A x \in Seq(Nat) : <<x>> \in Seq(Seq(Nat)) /\ Len(<<x>>) = 1 /\ <<x>>[1] = x OBVIOUS
  <2> QED BY <1>12, <2>1, Zenon
<1>14. Flatten(V) = SubSeq(R, o + 1, Len(R)) BY <1>12, FlattenOne, Zenon
<1> HIDE DEF R, c, V
<1>15. Left(r) = V \o U
  <2>1. /\ V \o U \in Seq(Seq(Nat)) /\ Len(V \o U) = Len(V) + Len(U)
        /\ \A j \in 1..Len(V) : (V \o U)[j] = V[j]
        /\ \A j \in 1..Len(U) : (V \o U)[Len(V) + j] = U[j]
    <3>1. V \in Seq(Seq(Nat)) /\ U \in Seq(Seq(Nat)) BY <1>11, <1>13, Zenon
    <3> QED BY <3>1, Joined
  <2>2. 1 + (k - g - 1) = k - g /\ 1 \in 1..1 BY <1>1, <1>5
  <2>3. Len(V \o U) = k - g /\ (V \o U)[1] = V[1] BY <1>11, <1>13, <2>1, <2>2, Zenon
  <2>4. ASSUME NEW j \in 1..k - g PROVE Left(r)[j] = (V \o U)[j]
    <3>1. Left(r)[j] = Rest(r, j) BY <1>3, <1>9, Zenon
    <3>2. CASE j = 1
      <4>1. Rest(r, 1) = V[1] BY <1>10, <1>13
      <4> QED BY <2>3, <3>1, <3>2, <4>1
    <3>3. CASE j # 1
      <4>1. j - 1 \in 1..k - g - 1 /\ 1 + (j - 1) = j /\ g + 1 + (j - 1) = g + j BY <1>1, <1>5, <3>3
      <4>2. (V \o U)[j] = L[g + j]
        <5>1. (V \o U)[1 + (j - 1)] = U[j - 1] BY <1>11, <1>13, <2>1, <4>1, Zenon
        <5>2. U[j - 1] = L[g + 1 + (j - 1)] BY <1>11, <4>1, Zenon
        <5> QED BY <4>1, <5>1, <5>2, Zenon
      <4>3. g + j \in 1..k /\ g + j # 1 BY <1>1, <1>5, <3>3
      <4>4. L[g + j] = q.chunks[g + j] BY <1>1, <4>3, Zenon DEF Rest
      <4>5. Rest(r, j) = r.chunks[j] BY <3>3, Zenon DEF Rest
      <4> QED BY <1>9, <3>1, <4>2, <4>4, <4>5, Zenon
    <3> QED BY <3>2, <3>3, Zenon
  <2>5. Len(Left(r)) = k - g BY <1>3, <1>9
  <2>6. Left(r) \in Seq(Seq(Nat)) /\ V \o U \in Seq(Seq(Nat)) /\ Len(Left(r)) = Len(V \o U)
    BY <1>3, <2>1, <2>3, <2>5, Zenon
  <2>7. \A j \in 1..Len(Left(r)) : Left(r)[j] = (V \o U)[j] BY <2>4, <2>5, Zenon
  <2> QED BY <2>6, <2>7, SameEntries, Zenon
<1>16. Flatten(U) \in Seq(Nat) BY <1>11, FlattenTyped, Zenon
<1>17. Bytes(r) = SubSeq(R, o + 1, Len(R)) \o Flatten(U)
  <2>1. V \in Seq(Seq(Nat)) /\ U \in Seq(Seq(Nat)) BY <1>11, <1>13, Zenon
  <2>2. Flatten(V \o U) = Flatten(V) \o Flatten(U) BY <2>1, FlattenJoined, Zenon
  <2> QED BY <1>14, <1>15, <2>2, BytesTyped, Zenon
<1> DEFINE P == Flatten(SubSeq(L, 1, g))
<1>18. P \in Seq(Nat) /\ Len(P) = EndOf(q, g)
  <2>1. g \in 0..Len(q.chunks) BY <1>1, <1>5 DEF k
  <2>2. EndOf(q, g) = Len(P) /\ SubSeq(L, 1, g) \in Seq(Seq(Nat)) BY <2>1, EndOfIs, Zenon DEF L
  <2> QED BY <2>2, FlattenTyped, Zenon
<1>19. Bytes(q) = P \o (R \o Flatten(U))
  <2> DEFINE W == SubSeq(L, g + 1, k)
  <2>1. g \in 0..Len(L) BY <1>1, <1>5
  <2>2. Flatten(L) = P \o Flatten(W) /\ W \in Seq(Seq(Nat)) BY <1>1, <2>1, FlattenCut, Zenon
  <2>3. Len(W) = k - g /\ W[1] = R /\ W # <<>>
    <3>1. L \in Seq(Seq(Nat)) /\ g + 1 \in 1..Len(L) + 1 /\ k \in (g + 1) - 1..Len(L) BY <1>1, <1>5
    <3>2. Len(W) = k + 1 - (g + 1) /\ \A j \in 1..k + 1 - (g + 1) : W[j] = L[g + 1 + j - 1] BY <3>1, Cut
    <3>3. k + 1 - (g + 1) = k - g /\ 1 \in 1..k - g /\ g + 1 + 1 - 1 = g + 1 /\ k - g # 0 BY <1>5
    <3>4. Len(W) = k - g /\ W[1] = L[g + 1] BY <3>2, <3>3, Zenon
    <3>5. Len(<<>>) = 0 OBVIOUS
    <3> QED BY <1>6, <3>3, <3>4, <3>5, Zenon
  <2>4. Flatten(W) = W[1] \o Flatten(SubSeq(W, 2, Len(W))) BY <2>2, <2>3, FlattenHead, Zenon
  <2>5. SubSeq(W, 2, Len(W)) = U
    <3>1. g + 1 <= Len(L) /\ 1 \in Nat BY <1>1, <1>5
    <3>2. SubSeq(W, 1 + 1, Len(L) - g) = SubSeq(L, g + 1 + 1, Len(L)) BY <1>1, <1>5, <3>1, CutTwice
    <3>3. 1 + 1 = 2 /\ g + 1 + 1 = g + 2 BY <1>5
    <3> QED BY <1>1, <2>3, <3>2, <3>3, Zenon DEF U
  <2> QED BY <2>2, <2>3, <2>4, <2>5, BytesTyped, Zenon DEF L
<1> HIDE DEF P
<1>20. n = Len(P) + o BY <1>7, <1>18, Zenon
<1> DEFINE F == Flatten(U)
<1>21. P \in Seq(Nat) /\ R \in Seq(Nat) /\ F \in Seq(Nat) /\ o \in 0..Len(R) BY <1>6, <1>7, <1>16, <1>18, Zenon
<1> HIDE DEF F
<1>22. DropsTo(P \o (R \o F), n, SubSeq(R, o + 1, Len(R)) \o F) BY <1>20, <1>21, CutWithin, Zenon
<1> QED BY <1>17, <1>19, <1>22, Zenon DEF F

\* A queue without chunks has no bytes.
LEMMA NoChunks ==
    ASSUME NEW q \in Queues, q.chunks = <<>>
    PROVE  Bytes(q) = <<>> /\ q.offset = 0
<1>1. Left(q) \in Seq(Seq(Nat)) /\ Len(Left(q)) = Len(q.chunks) BY LeftOfChunks, Zenon
<1>2. Len(q.chunks) = 0 OBVIOUS
<1>3. Left(q) = <<>> BY <1>1, <1>2, Indexed
<1>4. q.offset = 0 BY DEF Queues
<1> QED BY <1>3, <1>4, BytesTyped, FlattenNone, Zenon

\* Without() takes the first n bytes off the queue, as the loops of network_queue_pop_string() and
\* network_socket_write() do: whole chunks, and then a part of the next.
LEMMA WithoutIs ==
    ASSUME NEW q \in Queues, NEW n \in 0..Len(Bytes(q)), n <= q.len
    PROVE  LET r == Without(q, n)
           IN  r \in Queues /\ r.len = q.len - n /\ DropsTo(Bytes(q), n, Bytes(r))
<1> DEFINE r == Without(q, n)
           k == Len(q.chunks)
<1>0. Bytes(q) \in Seq(Nat) /\ Len(Bytes(q)) \in Nat BY BytesTyped
<1>1. n \in Nat /\ n <= Len(Bytes(q)) BY <1>0
<1>2. PICK g \in 0..k : /\ {i \in DOMAIN q.chunks : EndOf(q, i) <= n} = 1..g
                        /\ EndOf(q, g) <= n /\ (g < k => n < EndOf(q, g + 1))
  BY <1>1, SomeGone, Zenon
<1>3. k \in Nat /\ q.chunks \in Seq(Seq(Nat)) /\ q.offset \in Nat BY LeftOfChunks, Zenon
<1>4. g \in Nat /\ g <= k BY <1>3
<1>5. Gone(q, n) = g
  <2>1. ASSUME NEW h \in 0..k, {i \in DOMAIN q.chunks : EndOf(q, i) <= n} = 1..h PROVE h = g
    <3>1. 1..h = 1..g BY <1>2, <2>1, Zenon
    <3>2. h \in Nat BY <1>3
    <3> QED BY <1>4, <3>1, <3>2
  <2>2. Gone(q, n) \in 0..k /\ {i \in DOMAIN q.chunks : EndOf(q, i) <= n} = 1..Gone(q, n)
    BY <1>2, Zenon DEF Gone
  <2> QED BY <2>1, <2>2, Zenon
<1>6. q.len \in Nat /\ q.len - n \in Nat
  <2>1. q.len \in Nat BY DEF Queues
  <2> QED BY <1>1, <2>1
<1>7. EndOf(q, 0) = 0 /\ EndOf(q, k) = Len(Bytes(q)) /\ EndOf(q, g) \in Nat
  <2>1. g \in 0..Len(q.chunks) BY <1>4
  <2> QED BY <2>1, EndsGrow, EndOfIs, Zenon
<1>8. r = [chunks |-> SubSeq(q.chunks, g + 1, k),
           offset |-> IF g = 0 THEN q.offset + n ELSE n - EndOf(q, g), len |-> q.len - n]
  BY <1>5, Zenon DEF Without
<1> DEFINE off == IF g = 0 THEN q.offset + n ELSE n - EndOf(q, g)
<1> HIDE DEF r, k
<1>9. r.chunks = SubSeq(q.chunks, g + 1, k) /\ r.offset = off /\ r.len = q.len - n BY <1>8, Zenon
<1>10. Follows(Seq(Nat), q.chunks, g, r.chunks) BY <1>3, <1>9, CutFollows, Zenon DEF k
<1>11. r.chunks \in Seq(Seq(Nat)) /\ Len(r.chunks) = k - g BY <1>10, Zenon DEF Follows, k
<1>12. off \in Nat BY <1>1, <1>2, <1>3, <1>7
<1>13. r \in [chunks : Seq(Seq(Nat)), offset : Nat, len : Nat]
  <2>1. SubSeq(q.chunks, g + 1, k) \in Seq(Seq(Nat)) BY <1>9, <1>11
  <2> QED BY <1>6, <1>8, <1>12, <2>1
<1>14. CASE g = k
  <2>1. n = Len(Bytes(q)) BY <1>0, <1>1, <1>2, <1>7, <1>14
  <2>2. r.chunks = <<>>
    <3>1. k - g = 0 BY <1>3, <1>14
    <3> QED BY <1>11, <3>1, Indexed
  <2>3. off = 0
    <3>1. CASE g = 0
      <4>1. q.chunks = <<>> BY <1>3, <1>14, <3>1, Indexed, Zenon DEF k
      <4>2. q.offset = 0 BY <4>1, NoChunks
      <4>3. n = 0 BY <1>7, <1>14, <2>1, <3>1
      <4> QED BY <3>1, <4>2, <4>3
    <3>2. CASE g # 0
      <4>1. n - n = 0 BY <1>1
      <4> QED BY <1>7, <1>14, <2>1, <3>2, <4>1
    <3> QED BY <3>1, <3>2
  <2>4. r \in Queues BY <1>9, <1>13, <2>3 DEF Queues
  <2>5. Bytes(r) = <<>> BY <2>2, <2>4, NoChunks
  <2>6. SubSeq(Bytes(q), n + 1, Len(Bytes(q))) = <<>> BY <1>0, <2>1
  <2> QED BY <1>9, <2>4, <2>5, <2>6, Zenon DEF DropsTo, r
<1>15. CASE g # k
  <2>1. g < k /\ g \in 0..k - 1 BY <1>3, <1>4, <1>15
  <2>2. EndOf(q, g + 1) = EndOf(q, g) + Len(Rest(q, g + 1)) BY <2>1, EndsGrow, Zenon DEF k
  <2>3. g + 1 \in 1..k /\ 1 \in 1..k - g /\ g + 1 = g + 1 BY <1>3, <1>4, <2>1
  <2>4. r.chunks[1] = q.chunks[g + 1] BY <1>10, <2>3, Zenon DEF Follows, k
  <2> DEFINE c == q.chunks[g + 1]
  <2>5. c \in Seq(Nat) /\ Len(c) \in Nat
    <3>1. c \in Seq(Nat) BY <1>3, <2>3, Indexed, Zenon DEF k
    <3> QED BY <3>1, Indexed
  <2>6. r.chunks # <<>>
    <3>1. k - g # 0 /\ Len(<<>>) = 0 BY <1>3, <1>4, <2>1
    <3> QED BY <1>11, <3>1, Zenon
  <2>7. off < Len(c)
    <3>1. CASE g = 0
      <4>1. q.chunks # <<>>
        <5>1. k # 0 /\ Len(<<>>) = 0 BY <1>3, <1>4, <2>1
        <5> QED BY <5>1, Zenon DEF k
      <4>2. g + 1 = 1 BY <3>1
      <4>3. Len(Rest(q, 1)) = Len(q.chunks[1]) - q.offset BY <4>1, LeftOfChunks, Zenon
      <4>4. EndOf(q, g + 1) = Len(c) - q.offset
        <5>1. EndOf(q, g + 1) = 0 + (Len(c) - q.offset) BY <1>7, <2>2, <3>1, <4>2, <4>3, Zenon
        <5> HIDE DEF c
        <5> QED BY <1>3, <2>5, <5>1
      <4>5. n < Len(c) - q.offset BY <1>2, <2>1, <4>4, Zenon
      <4> HIDE DEF c
      <4> QED BY <1>1, <1>3, <2>5, <3>1, <4>5
    <3>2. CASE g # 0
      <4>1. g + 1 # 1 BY <1>4, <3>2
      <4>2. Rest(q, g + 1) = c BY <4>1, Zenon DEF Rest
      <4>3. n < EndOf(q, g) + Len(c) BY <1>2, <2>1, <2>2, <4>2, Zenon
      <4> HIDE DEF c
      <4> QED BY <1>1, <1>7, <2>5, <3>2, <4>3
    <3> QED BY <3>1, <3>2
  <2>8. r \in Queues BY <1>9, <1>13, <2>4, <2>6, <2>7, Zenon DEF Queues
  <2>9. DropsTo(Bytes(q), n, Bytes(r))
    BY <1>1, <1>2, <1>9, <2>1, <2>8, BytesAfter, Zenon DEF k
  <2> QED BY <1>9, <2>8, <2>9, Zenon DEF r
<1> QED BY <1>14, <1>15

\* Without an offset all of the chunks is left.
LEMMA NoOffset ==
    ASSUME NEW q \in Queues, q.offset = 0
    PROVE  Left(q) = q.chunks
<1>1. /\ Left(q) \in Seq(Seq(Nat)) /\ Len(Left(q)) = Len(q.chunks) /\ q.chunks \in Seq(Seq(Nat))
      /\ \A j \in 1..Len(q.chunks) : Left(q)[j] = Rest(q, j)
  BY LeftOfChunks, Zenon
<1>2. ASSUME NEW j \in 1..Len(q.chunks) PROVE Rest(q, j) = q.chunks[j]
  <2>1. CASE j = 1
    <3>1. q.chunks[1] \in Seq(Nat) BY <1>1, <2>1, Indexed, Zenon
    <3>2. SubSeq(q.chunks[1], 0 + 1, Len(q.chunks[1])) = q.chunks[1] BY <3>1
    <3> QED BY <2>1, <3>2, Zenon DEF Rest
  <2>2. CASE j # 1 BY <2>2, Zenon DEF Rest
  <2> QED BY <2>1, <2>2
<1>3. \A j \in 1..Len(Left(q)) : Left(q)[j] = q.chunks[j] BY <1>1, <1>2, Zenon
<1> QED BY <1>1, <1>3, SameEntries

\* network_queue_pop_string() hands out the first n bytes and keeps the others, whichever way it takes.
LEMMA Popped ==
    ASSUME NEW q \in Queues, q.len = Len(Bytes(q)), NEW n \in Nat \ {0}, n <= q.len
    PROVE  LET r == pop_string(q, n)
           IN  /\ r.queue \in Queues /\ r.queue.len = Len(Bytes(r.queue))
               /\ r.dest = SubSeq(Bytes(q), 1, n) /\ DropsTo(Bytes(q), n, Bytes(r.queue))
<1> DEFINE first == q.offset = 0 /\ Len(q.chunks[1]) = n
           x == IF first THEN [chunks |-> Tail(q.chunks), offset |-> 0, len |-> q.len - n] ELSE Without(q, n)
<1>1. Bytes(q) \in Seq(Nat) /\ Len(Bytes(q)) \in Nat BY BytesTyped, Zenon
<1>2. n \in 0..Len(Bytes(q)) /\ ~(q.len < n) /\ q.len - n \in Nat /\ q.len # 0 BY <1>1
<1>3. pop_string(q, n) = [queue |-> x, dest |-> SubSeq(Bytes(q), 1, n)] BY <1>2, Zenon DEF pop_string
<1>4. x \in Queues /\ x.len = q.len - n /\ DropsTo(Bytes(q), n, Bytes(x))
  <2>1. CASE ~first BY <1>2, <2>1, WithoutIs, Zenon
  <2>2. CASE first
    <3> DEFINE C == q.chunks
               y == [chunks |-> Tail(C), offset |-> 0, len |-> q.len - n]
    <3>1. C \in Seq(Seq(Nat)) BY LeftOfChunks, Zenon
    <3>2. C # <<>>
      <4>1. Len(<<>>) = 0 OBVIOUS
      <4> QED BY <1>2, <4>1, NoChunks, Zenon
    <3>3. Tail(C) = SubSeq(C, 2, Len(C)) BY <3>1, <3>2, TailIsCut, Zenon
    <3>4. /\ C[1] \in Seq(Nat) /\ SubSeq(C, 2, Len(C)) \in Seq(Seq(Nat))
          /\ Flatten(C) = C[1] \o Flatten(SubSeq(C, 2, Len(C)))
      BY <3>1, <3>2, FlattenHead, Zenon
    <3>5. y.chunks = Tail(C) /\ y.offset = 0 /\ y.len = q.len - n OBVIOUS
    <3>6. y \in [chunks : Seq(Seq(Nat)), offset : Nat, len : Nat]
      <4>1. Tail(C) \in Seq(Seq(Nat)) /\ 0 \in Nat BY <3>3, <3>4, Zenon
      <4> QED BY <1>2, <4>1
    <3>7. y \in Queues BY <3>5, <3>6 DEF Queues
    <3> HIDE DEF y
    <3>8. Bytes(y) = Flatten(Tail(C)) BY <3>5, <3>7, NoOffset, BytesTyped, Zenon
    <3>9. Bytes(q) = Flatten(C) BY <2>2, NoOffset, BytesTyped, Zenon
    <3>10. Flatten(Tail(C)) \in Seq(Nat) BY <3>3, <3>4, FlattenTyped, Zenon
    <3>11. DropsTo(C[1] \o Flatten(Tail(C)), Len(C[1]), Flatten(Tail(C))) BY <3>4, <3>10, DropFirst, Zenon
    <3>12. DropsTo(Bytes(q), n, Bytes(y)) BY <2>2, <3>3, <3>4, <3>8, <3>9, <3>11, Zenon
    <3>13. x = y BY <2>2, Zenon DEF y
    <3> QED BY <3>5, <3>7, <3>12, <3>13, Zenon
  <2> QED BY <2>1, <2>2
<1> HIDE DEF x
<1>5. x.len = Len(Bytes(x))
  <2>1. Remains(Nat, Bytes(q), n, Bytes(x)) BY <1>1, <1>4, Dropped, Zenon
  <2> QED BY <1>4, <2>1, Zenon DEF Remains
<1> QED BY <1>3, <1>4, <1>5

\* network_queue_peek_string(): the first bytes, or nothing when there are not so many.
LEMMA Peeked ==
    ASSUME NEW q \in Queues, q.len = Len(Bytes(q)), q.len >= 2
    PROVE  LET h == peek_string(q, 2) IN h # <<>> /\ h[1] = Bytes(q)[1] /\ h[2] = Bytes(q)[2]
<1> DEFINE b == Bytes(q)
<1>1. b \in Seq(Nat) /\ Len(b) \in Nat BY BytesTyped, Zenon
<1>2. peek_string(q, 2) = SubSeq(b, 1, 2)
  <2>1. ~(q.len < 2) BY <1>1
  <2> QED BY <2>1, Zenon DEF peek_string
<1>3. Len(b) >= 2 OBVIOUS
<1> HIDE DEF b
<1>4. Len(SubSeq(b, 1, 2)) = 2 /\ SubSeq(b, 1, 2)[1] = b[1] /\ SubSeq(b, 1, 2)[2] = b[2] BY <1>1, <1>3
<1>5. SubSeq(b, 1, 2) # <<>>
  <2>1. Len(<<>>) # 2 OBVIOUS
  <2> QED BY <1>4, <2>1, Zenon
<1> QED BY <1>2, <1>4, <1>5, Zenon DEF b

----------------------------------------------------------------------------
\* A packet of the stream: two units of header, and as many bytes as it says.
Packet(p) == p \in Seq(Nat) /\ Len(p) >= 2 /\ Len(p) = p[1] + 2 /\ p[2] \in Ids

\* A packet says its length and its id.
LEMMA PacketIs ==
    ASSUME NEW i \in Nat, NEW j \in Int, j >= i - 1, NEW id \in Ids
    PROVE  /\ Packet(PacketOf(i, j, id)) /\ PacketOf(i, j, id)[1] = j + 1 - i
           /\ PacketOf(i, j, id)[2] = id
<1> DEFINE n == j + 1 - i
           pay == [k \in 1..n |-> 100 + i + k]
           head == <<n, id>>
<1>1. n \in Nat OBVIOUS
<1>2. id \in Nat BY DEF Ids
<1>3. head \in Seq(Nat) /\ Len(head) = 2 /\ head[1] = n /\ head[2] = id BY <1>1, <1>2
<1>4. pay \in Seq(Nat) /\ Len(pay) = n
  <2> HIDE DEF n
  <2>1. \A k \in 1..n : 100 + i + k \in Nat BY <1>1
  <2>2. pay \in [1..n -> Nat] BY <2>1
  <2> QED BY <1>1, <2>2
<1>5. PacketOf(i, j, id) = head \o pay BY Zenon DEF PacketOf
<1> HIDE DEF n, pay, head
<1>6. head \o pay \in Seq(Nat) /\ Len(head \o pay) = 2 + n /\ (head \o pay)[1] = n /\ (head \o pay)[2] = id
  <2>1. head \o pay \in Seq(Nat) /\ Len(head \o pay) = Len(head) + Len(pay) BY <1>3, <1>4, Joined, Zenon
  <2>2. \A e \in 1..Len(head) : (head \o pay)[e] = head[e] BY <1>3, <1>4, Joined, Zenon
  <2>3. 1 \in 1..Len(head) /\ 2 \in 1..Len(head) BY <1>3
  <2> QED BY <1>3, <1>4, <2>1, <2>2, <2>3, Zenon
<1>7. Packet(head \o pay) BY <1>1, <1>6 DEF Packet
<1> QED BY <1>5, <1>6, <1>7, Zenon DEF n

\* The ids of the packets of one payload follow each other.
LEMMA IdsFollow ==
    ASSUME NEW s \in Sockets
    PROVE  /\ NewId(s) \in Ids /\ IdAfter(s, 1) = NewId(s) /\ Accepts(s, NewId(s))
           /\ \A p \in Nat \ {0} : IdAfter(s, p) \in Ids /\ IdAfter(s, p + 1) = Succ(IdAfter(s, p))
<1>1. s.last \in Ids BY DEF Sockets
<1>2. NewId(s) \in Ids BY <1>1 DEF NewId, Succ, Ids
<1>3. Accepts(s, NewId(s)) BY DEF Accepts, NewId
<1>4. IdAfter(s, 1) = NewId(s) BY DEF IdAfter
<1> DEFINE a == NewId(s)
<1> HIDE DEF a
<1>5. ASSUME NEW p \in Nat \ {0}
      PROVE  IdAfter(s, p) \in Ids /\ IdAfter(s, p + 1) = Succ(IdAfter(s, p))
  <2>1. IdAfter(s, p + 1) = (a + p) % 256
    <3>1. p + 1 # 1 /\ a + (p + 1) - 1 = a + p BY <1>2 DEF Ids, a
    <3> QED BY <3>1 DEF IdAfter, a
  <2>2. a \in 0..255 BY <1>2 DEF a, Ids
  <2>3. CASE p = 1
    <3>1. IdAfter(s, p) = a BY <1>4, <2>3 DEF a
    <3> QED BY <2>1, <2>2, <2>3, <3>1 DEF Succ, Ids
  <2>4. CASE p # 1
    <3>1. IdAfter(s, p) = (a + p - 1) % 256 BY <2>4 DEF IdAfter, a
    <3>2. (((a + p - 1) % 256) + 1) % 256 = (a + p) % 256 BY <2>2
    <3>3. (a + p - 1) % 256 \in Ids BY <2>2 DEF Ids
    <3> QED BY <2>1, <3>1, <3>2, <3>3 DEF Succ
  <2> QED BY <2>3, <2>4
<1> QED BY <1>2, <1>3, <1>4, <1>5

\* How many full pieces there are, and what is left.
LEMMA Pieces ==
    ASSUME NEW M \in Nat \ {0}, NEW n \in 0..2 * M
    PROVE  \/ n < M /\ n \div M = 0 /\ n % M = n
           \/ n >= M /\ n < 2 * M /\ n \div M = 1 /\ n % M = n - M
           \/ n = 2 * M /\ n \div M = 2 /\ n % M = 0
OBVIOUS

\* The piece that starts after p - 1 full ones.
LEMMA PieceIs ==
    ASSUME NEW M \in Nat \ {0}, NEW n \in 0..2 * M, NEW p \in 1..(n \div M) + 1
    PROVE  LET i == (p - 1) * M
               j == (IF p * M < n THEN p * M ELSE n) - 1
           IN  /\ i \in Nat /\ j \in Int /\ j >= i - 1
               /\ j + 1 - i = IF p < (n \div M) + 1 THEN M ELSE n % M
<1> DEFINE f == n \div M
           r == n % M
<1>1. \/ n < M /\ f = 0 /\ r = n
      \/ n >= M /\ n < 2 * M /\ f = 1 /\ r = n - M
      \/ n = 2 * M /\ f = 2 /\ r = 0
  BY Pieces
<1>2. p \in 1..f + 1 OBVIOUS
<1> HIDE DEF f, r
<1>3. p = 1 \/ p = 2 \/ p = 3 BY <1>1, <1>2
<1>4. CASE p = 1
  <2>1. (p - 1) * M = 0 /\ p * M = M BY <1>4
  <2> QED BY <1>1, <1>2, <1>4, <2>1 DEF f, r
<1>5. CASE p = 2
  <2>1. (p - 1) * M = M /\ p * M = 2 * M BY <1>5
  <2> QED BY <1>1, <1>2, <1>5, <2>1 DEF f, r
<1>6. CASE p = 3
  <2>1. (p - 1) * M = 2 * M /\ p * M = 3 * M BY <1>6
  <2> QED BY <1>1, <1>2, <1>6, <2>1 DEF f, r
<1> QED BY <1>3, <1>4, <1>5, <1>6

\* network_mysqld_queue_append() sends packets with ids that follow each
\* other, all but the last of the full length, the last one shorter.
LEMMA PacketsAre ==
    ASSUME NEW s \in Sockets, NEW n \in 0..2 * PACKET_LEN_MAX
    PROVE  LET ps == PacketsFor(s, n)
           IN  /\ ps \in Seq(Seq(Nat)) /\ Len(ps) \in Nat \ {0}
               /\ \A p \in 1..Len(ps) :
                     /\ Packet(ps[p]) /\ ps[p][2] = IdAfter(s, p)
                     /\ ps[p][1] = IF p < Len(ps) THEN PACKET_LEN_MAX ELSE n % PACKET_LEN_MAX
               /\ n % PACKET_LEN_MAX < PACKET_LEN_MAX
<1> DEFINE M == PACKET_LEN_MAX
           f == n \div M
           of(p) == PacketOf((p - 1) * M, (IF p * M < n THEN p * M ELSE n) - 1, IdAfter(s, p))
           ps == [p \in 1..f + 1 |-> of(p)]
           ln(p) == IF p < f + 1 THEN M ELSE n % M
<1>1. PacketsFor(s, n) = ps BY Zenon DEF PacketsFor
<1>2. M \in Nat \ {0} BY StreamBounds
<1> HIDE DEF M
<1>3. n \in 0..2 * M BY DEF M
<1>4. f \in Nat /\ n % M < M BY <1>2, <1>3, Pieces
<1>5. ASSUME NEW p \in 1..f + 1 PROVE Packet(of(p)) /\ of(p)[2] = IdAfter(s, p) /\ of(p)[1] = ln(p)
  <2> DEFINE i == (p - 1) * M
             j == (IF p * M < n THEN p * M ELSE n) - 1
  <2>1. i \in Nat /\ j \in Int /\ j >= i - 1 /\ j + 1 - i = ln(p) BY <1>2, <1>3, PieceIs, Zenon
  <2>2. p \in Nat \ {0} BY <1>4
  <2>3. IdAfter(s, p) \in Ids BY <2>2, IdsFollow, Zenon
  <2> HIDE DEF i, j
  <2>4. /\ Packet(PacketOf(i, j, IdAfter(s, p))) /\ PacketOf(i, j, IdAfter(s, p))[1] = j + 1 - i
        /\ PacketOf(i, j, IdAfter(s, p))[2] = IdAfter(s, p)
    BY <2>1, <2>3, PacketIs, Zenon
  <2>5. of(p) = PacketOf(i, j, IdAfter(s, p)) BY Zenon DEF i, j
  <2> QED BY <2>1, <2>4, <2>5, Zenon
<1> HIDE DEF f, of
<1>6. \A p \in 1..f + 1 : of(p) \in Seq(Nat) BY <1>5, Zenon DEF Packet
<1>7. ps \in Seq(Seq(Nat)) /\ Len(ps) = f + 1 BY <1>4, <1>6
<1>8. \A p \in 1..f + 1 : ps[p] = of(p) OBVIOUS
<1>9. f + 1 \in Nat \ {0} BY <1>4
<1> HIDE DEF ps
<1>10. \A p \in 1..Len(ps) :
          /\ Packet(ps[p]) /\ ps[p][2] = IdAfter(s, p)
          /\ ps[p][1] = IF p < Len(ps) THEN M ELSE n % M
  BY <1>5, <1>7, <1>8, Zenon
<1> QED BY <1>1, <1>4, <1>7, <1>9, <1>10, Zenon DEF M

\* The first i entries are i entries.
LEMMA CutStart ==
    ASSUME NEW A, NEW s \in Seq(A), NEW i \in 0..Len(s)
    PROVE  SubSeq(s, 1, i) \in Seq(A) /\ Len(SubSeq(s, 1, i)) = i
OBVIOUS

\* Two ways to cut a sequence at the same place are the same.
LEMMA SameSplit ==
    ASSUME NEW A, NEW s \in Seq(A), NEW t \in Seq(A), NEW u \in Seq(A), NEW v \in Seq(A),
           s \o t = u \o v, Len(s) = Len(u)
    PROVE  s = u /\ t = v
<1>1. SubSeq(s \o t, 1, Len(s)) = s /\ SubSeq(u \o v, 1, Len(u)) = u BY CutJoined, Zenon
<1>2. SubSeq(s \o t, Len(s) + 1, Len(s) + Len(t)) = t /\ SubSeq(u \o v, Len(u) + 1, Len(u) + Len(v)) = v
  BY CutJoined, Zenon
<1>3. Len(s \o t) = Len(s) + Len(t) /\ Len(u \o v) = Len(u) + Len(v) BY Joined, Zenon
<1> QED BY <1>1, <1>2, <1>3, Zenon

\* What network_mysqld_con_get_packet() takes off a queue: nothing when there
\* is no complete packet, else the first packet of those still to come.
Taken(q) ==
    LET header == peek_string(q, NET_HEADER_SIZE)
    IN  IF header = <<>> THEN [queue |-> q, dest |-> <<>>]
                         ELSE pop_string(q, header[1] + NET_HEADER_SIZE)
Complete(b) == Len(b) >= 2 /\ Len(b) >= 2 + b[1]

\* If the queue holds the first bytes of the packets ps, the rest of them
\* being t, then a packet taken off it is the first of ps, and none is taken
\* only if the queue holds no complete one.
LEMMA FirstPacket ==
    ASSUME NEW q \in Queues, q.len = Len(Bytes(q)), NEW ps \in Seq(Seq(Nat)), NEW t \in Seq(Nat),
           \A i \in 1..Len(ps) : Packet(ps[i]), Flatten(ps) = Bytes(q) \o t
    PROVE  \/ Taken(q) = [queue |-> q, dest |-> <<>>] /\ ~Complete(Bytes(q))
           \/ /\ ps # <<>> /\ Taken(q).dest = ps[1] /\ ps[1] # <<>>
              /\ peek_string(q, NET_HEADER_SIZE)[2] = ps[1][2]
              /\ Taken(q).queue \in Queues /\ Taken(q).queue.len = Len(Bytes(Taken(q).queue))
              /\ Flatten(SubSeq(ps, 2, Len(ps))) = Bytes(Taken(q).queue) \o t
<1> DEFINE b == Bytes(q)
           h == peek_string(q, 2)
<1>1. b \in Seq(Nat) /\ Len(b) \in Nat BY BytesTyped, Zenon
<1>2. CASE q.len < 2
  <2>1. Taken(q) = [queue |-> q, dest |-> <<>>] BY <1>2, Zenon DEF Taken, peek_string, NET_HEADER_SIZE
  <2>2. ~Complete(b) BY <1>1, <1>2 DEF Complete
  <2> QED BY <2>1, <2>2
<1>3. CASE q.len >= 2
  <2> DEFINE F == Flatten(ps)
             F2 == Flatten(SubSeq(ps, 2, Len(ps)))
             m == b[1] + 2
             p1 == ps[1]
  <2>1. h # <<>> /\ h[1] = b[1] /\ h[2] = b[2] BY <1>3, Peeked, Zenon
  <2>2. F = b \o t OBVIOUS
  <2>3. ps # <<>>
    <3>1. Len(b \o t) = Len(b) + Len(t) /\ Len(t) \in Nat BY <1>1
    <3>2. Len(<<>>) = 0 OBVIOUS
    <3>3. Len(b) + Len(t) # 0 BY <1>1, <1>3, <3>1
    <3>4. F # <<>> BY <2>2, <3>1, <3>2, <3>3, Zenon
    <3> QED BY <3>4, FlattenNone, Zenon
  <2>4. p1 \in Seq(Nat) /\ SubSeq(ps, 2, Len(ps)) \in Seq(Seq(Nat)) /\ F = p1 \o F2
    BY <2>3, FlattenHead, Zenon
  <2>5. F2 \in Seq(Nat) BY <2>4, FlattenTyped, Zenon
  <2>6. Packet(p1)
    <3>1. 1 \in 1..Len(ps) BY <2>3
    <3> QED BY <3>1, Zenon
  <2>7. Len(p1) >= 2 /\ Len(p1) = p1[1] + 2 BY <2>6, Zenon DEF Packet
  <2> HIDE DEF F, F2, b, p1
  <2>8. b[1] = p1[1] /\ b[2] = p1[2]
    <3>1. \A i \in 1..Len(b) : F[i] = b[i] BY <1>1, <2>2, Joined, Zenon
    <3>2. \A i \in 1..Len(p1) : F[i] = p1[i]
      <4>1. \A i \in 1..Len(p1) : (p1 \o F2)[i] = p1[i] BY <2>4, <2>5, Joined, Zenon
      <4> QED BY <2>4, <4>1, Zenon
    <3>3. 1 \in 1..Len(b) /\ 2 \in 1..Len(b) BY <1>1, <1>3 DEF b
    <3>4. 1 \in 1..Len(p1) /\ 2 \in 1..Len(p1)
      <4>1. Len(p1) \in Nat BY <2>4
      <4> QED BY <2>7, <4>1
    <3>5. F[1] = b[1] /\ F[2] = b[2] BY <3>1, <3>3
    <3>6. F[1] = p1[1] /\ F[2] = p1[2] BY <3>2, <3>4
    <3> QED BY <3>5, <3>6, Zenon
  <2>9. b[1] \in Nat
    <3>1. 1 \in 1..Len(b) BY <1>1, <1>3 DEF b
    <3> QED BY <1>1, <3>1, Indexed, Zenon
  <2>10. Taken(q) = pop_string(q, m)
    <3> HIDE DEF m
    <3>1. h[1] + 2 = m BY <2>1 DEF m
    <3>2. Taken(q) = pop_string(q, h[1] + 2) BY <2>1, Zenon DEF Taken, NET_HEADER_SIZE
    <3> QED BY <3>1, <3>2, Zenon
  <2>11. m \in Nat \ {0} BY <2>9
  <2>12. CASE q.len < m
    <3>1. Taken(q) = [queue |-> q, dest |-> <<>>] BY <2>10, <2>12, Zenon DEF pop_string
    <3>2. ~Complete(b)
      <4>1. Len(b) < m BY <2>12 DEF b
      <4> QED BY <1>1, <2>9, <4>1 DEF Complete
    <3> QED BY <3>1, <3>2 DEF b
  <2>13. CASE ~(q.len < m)
    <3>1. m <= q.len BY <1>1, <2>11, <2>13 DEF b
    <3> HIDE DEF m
    <3> DEFINE r == pop_string(q, m)
    <3>2. /\ r.queue \in Queues /\ r.queue.len = Len(Bytes(r.queue))
          /\ r.dest = SubSeq(b, 1, m) /\ DropsTo(b, m, Bytes(r.queue))
      BY <2>11, <3>1, Popped, Zenon DEF b
    <3> HIDE DEF r
    <3> DEFINE d == r.dest
               b2 == Bytes(r.queue)
    <3>3. b2 \in Seq(Nat) /\ d \o b2 = b /\ m \in 0..Len(b)
      <4>1. DropsTo(b, m, b2) BY <3>2
      <4>2. b \in Seq(Nat) BY <1>1
      <4> HIDE DEF b2
      <4>3. Remains(Nat, b, m, b2) BY <4>1, <4>2, Dropped, Zenon
      <4> QED BY <3>2, <4>3, Zenon DEF Remains
    <3>4. d \in Seq(Nat) /\ Len(d) = m
      <4>1. SubSeq(b, 1, m) \in Seq(Nat) /\ Len(SubSeq(b, 1, m)) = m BY <1>1, <3>3, CutStart, Zenon
      <4> QED BY <3>2, <4>1, Zenon
    <3> HIDE DEF d, b2
    <3>5. d \o (b2 \o t) = F
      <4>1. Regroups(d, b2, t) BY <3>3, <3>4, JoinedThree, Zenon
      <4> QED BY <2>2, <3>3, <4>1, Zenon DEF Regroups
    <3>6. b2 \o t \in Seq(Nat) BY <3>3, Joined, Zenon
    <3>7. Len(d) = Len(p1) BY <2>7, <2>8, <3>4, Zenon DEF m
    <3>8. d \o (b2 \o t) = p1 \o F2 BY <2>4, <3>5, Zenon
    <3>9. d = p1 /\ b2 \o t = F2 BY <2>4, <2>5, <3>4, <3>6, <3>7, <3>8, SameSplit, Zenon
    <3>10. p1 # <<>>
      <4>1. Len(<<>>) = 0 OBVIOUS
      <4> QED BY <2>11, <3>4, <3>9, <4>1, Zenon
    <3>11. Taken(q) = r BY <2>10, Zenon DEF r
    <3>12. peek_string(q, NET_HEADER_SIZE)[2] = p1[2] BY <2>1, <2>8, Zenon DEF NET_HEADER_SIZE
    <3> QED BY <2>3, <3>2, <3>9, <3>10, <3>11, <3>12, Zenon DEF d, b2, F2, p1
  <2> QED BY <2>12, <2>13
<1>4. q.len < 2 \/ q.len >= 2 BY <1>1
<1> QED BY <1>2, <1>3, <1>4

\* Dropping k entries of s from s \o t.
LEMMA CutOfJoined ==
    ASSUME NEW A, NEW s \in Seq(A), NEW t \in Seq(A), NEW k \in 0..Len(s)
    PROVE  DropsTo(s \o t, k, SubSeq(s, k + 1, Len(s)) \o t)
<1> DEFINE a == SubSeq(s, 1, k)
           b == SubSeq(s, k + 1, Len(s))
<1>1. a \in Seq(A) /\ Len(a) = k BY CutStart, Zenon
<1>2. Follows(A, s, k, b) BY CutFollows, Zenon
<1>3. b \in Seq(A) BY <1>2, Zenon DEF Follows
<1>4. a \o b = s BY CutInTwo, Zenon
<1> HIDE DEF a, b
<1>5. Regroups(a, b, t) BY <1>1, <1>3, JoinedThree, Zenon
<1>6. s \o t = a \o (b \o t) BY <1>4, <1>5, Zenon DEF Regroups
<1>7. b \o t \in Seq(A) BY <1>3, Joined, Zenon
<1>8. DropsTo(a \o (b \o t), Len(a), b \o t) BY <1>1, <1>7, DropFirst, Zenon
<1> QED BY <1>1, <1>6, <1>8, Zenon DEF b

\* One more is taken.
NextOf(A, s, k, u) ==
    /\ Append(SubSeq(s, 1, k), u[1]) = SubSeq(s, 1, k + 1) /\ u[1] = s[k + 1] /\ u[1] \in A
    /\ SubSeq(u, 2, Len(u)) = SubSeq(s, (k + 1) + 1, Len(s))
\* The entry after the first k is the first of the others.
LEMMA CutNext ==
    ASSUME NEW A, NEW s \in Seq(A), NEW k \in Nat, k < Len(s)
    PROVE  NextOf(A, s, k, SubSeq(s, k + 1, Len(s)))
<1> DEFINE u == SubSeq(s, k + 1, Len(s))
<1>1. k \in 0..Len(s) /\ 1 \in 1..Len(s) - k /\ k + 1 <= Len(s) /\ k + 1 \in 1..Len(s) OBVIOUS
<1>2. u \in Seq(A) /\ Len(u) = Len(s) - k /\ \A j \in 1..Len(s) - k : u[j] = s[k + j]
  <2>1. Follows(A, s, k, u) BY <1>1, CutFollows, Zenon
  <2> QED BY <2>1, Zenon DEF Follows
<1>3. u[1] = s[k + 1] BY <1>1, <1>2, Zenon
<1>4. s[k + 1] \in A BY <1>1, Indexed, Zenon
<1>5. SubSeq(u, 2, Len(s) - k) = SubSeq(s, k + 1 + 1, Len(s))
  <2>1. SubSeq(u, 1 + 1, Len(s) - k) = SubSeq(s, k + 1 + 1, Len(s)) BY <1>1, CutTwice, Zenon
  <2> QED BY <2>1
<1>6. Append(SubSeq(s, 1, k), s[k + 1]) = SubSeq(s, 1, k + 1)
  <2> DEFINE x == Append(SubSeq(s, 1, k), s[k + 1])
             y == SubSeq(s, 1, k + 1)
  <2>1. SubSeq(s, 1, k) \in Seq(A) /\ Len(SubSeq(s, 1, k)) = k BY <1>1, CutStart, Zenon
  <2>2. \A j \in 1..k : SubSeq(s, 1, k)[j] = s[j] BY <1>1
  <2>3. y \in Seq(A) /\ Len(y) = k + 1 /\ \A j \in 1..k + 1 : y[j] = s[j] BY <1>1
  <2>4. x \in Seq(A) /\ Len(x) = k + 1 BY <1>4, <2>1
  <2>5. \A j \in 1..k + 1 : x[j] = s[j] BY <1>4, <2>1, <2>2
  <2> HIDE DEF x, y
  <2> QED BY <2>3, <2>4, <2>5, SameEntries DEF x, y
<1> HIDE DEF u
<1> QED BY <1>2, <1>3, <1>4, <1>5, <1>6, Zenon DEF NextOf, u

\* Packets, the ids of which follow each other.
Chain(ss) ==
    /\ \A i \in 1..Len(ss) : Packet(ss[i])
    /\ \A i \in 1..Len(ss) - 1 : ss[i + 1][2] = Succ(ss[i][2])
\* Packets whose ids go on where those of others end.
LEMMA ChainJoined ==
    ASSUME NEW ss \in Seq(Seq(Nat)), NEW ps \in Seq(Seq(Nat)), Chain(ss), Chain(ps), ps # <<>>,
           ss # <<>> => ps[1][2] = Succ(ss[Len(ss)][2])
    PROVE  Chain(ss \o ps)
<1> DEFINE j == ss \o ps
           a == Len(ss)
           b == Len(ps)
<1>1. a \in Nat /\ b \in Nat /\ b >= 1 OBVIOUS
<1>2. Len(j) = a + b BY Joined, Zenon
<1>3. \A i \in 1..a : j[i] = ss[i] BY Joined, SMT
<1>4. \A i \in 1..b : j[a + i] = ps[i] BY Joined, SMT
<1>5. ss # <<>> <=> a # 0 BY Indexed, Zenon
<1>6. /\ \A i \in 1..a : Packet(ss[i])
      /\ \A i \in 1..a - 1 : ss[i + 1][2] = Succ(ss[i][2])
  BY Zenon DEF Chain
<1>7. /\ \A i \in 1..b : Packet(ps[i])
      /\ \A i \in 1..b - 1 : ps[i + 1][2] = Succ(ps[i][2])
  BY Zenon DEF Chain
<1>8. ss # <<>> => ps[1][2] = Succ(ss[a][2]) BY Zenon
<1> HIDE DEF j, a, b
<1>9. ASSUME NEW i \in 1..Len(j) PROVE Packet(j[i])
  <2>1. CASE i <= a
    <3>1. i \in 1..a BY <1>1, <1>2, <2>1
    <3> QED BY <1>3, <1>6, <3>1, Zenon
  <2>2. CASE ~(i <= a)
    <3> DEFINE e == i - a
    <3>1. e \in 1..b /\ i = a + e BY <1>1, <1>2, <2>2
    <3> HIDE DEF e
    <3> QED BY <1>4, <1>7, <3>1, Zenon
  <2> QED BY <2>1, <2>2
<1>10. ASSUME NEW i \in 1..Len(j) - 1 PROVE j[i + 1][2] = Succ(j[i][2])
  <2>1. CASE i < a
    <3>1. i \in 1..a /\ i + 1 \in 1..a /\ i \in 1..a - 1 BY <1>1, <1>2, <2>1
    <3> QED BY <1>3, <1>6, <3>1, Zenon
  <2>2. CASE i = a
    <3>1. a # 0 /\ a \in 1..a /\ 1 \in 1..b BY <1>1, <1>2, <2>2
    <3>2. ps[1][2] = Succ(ss[a][2]) BY <1>5, <1>8, <3>1, Zenon
    <3>3. j[a + 1] = ps[1] /\ j[a] = ss[a] BY <1>3, <1>4, <3>1, Zenon
    <3> QED BY <2>2, <3>2, <3>3, Zenon
  <2>3. CASE i > a
    <3> DEFINE e == i - a
    <3>1. e \in 1..b /\ e + 1 \in 1..b /\ e \in 1..b - 1 /\ i = a + e /\ i + 1 = a + (e + 1)
      BY <1>1, <1>2, <2>3
    <3> HIDE DEF e
    <3>2. j[i] = ps[e] BY <1>4, <3>1, Zenon
    <3>3. j[i + 1] = ps[e + 1] BY <1>4, <3>1, Zenon
    <3> QED BY <1>7, <3>1, <3>2, <3>3, Zenon
  <2>4. i < a \/ i = a \/ i > a BY <1>1, <1>2
  <2> QED BY <2>1, <2>2, <2>3, <2>4
<1> QED BY <1>9, <1>10, Zenon DEF Chain, j

\* The start of s \o t within s.
LEMMA SameStart ==
    ASSUME NEW A, NEW s \in Seq(A), NEW t \in Seq(A), NEW k \in 0..Len(s)
    PROVE  SubSeq(s \o t, 1, k) = SubSeq(s, 1, k)
OBVIOUS

\* The last entry of s \o t, and the first one of t in it.
LEMMA LastJoined ==
    ASSUME NEW A, NEW s \in Seq(A), NEW t \in Seq(A), t # <<>>
    PROVE  (s \o t)[Len(s \o t)] = t[Len(t)] /\ (s \o t)[Len(s) + 1] = t[1]
OBVIOUS

----------------------------------------------------------------------------
(***************************************************************************)
(* The invariant of the stream. The packets sent and not yet received are, *)
(* one after the other, what the raw queue holds, what is on the wire and  *)
(* what is still to be sent, or what was lost when the connection broke.   *)
(***************************************************************************)
Unread == SubSeq(sent, Len(recv_queue) + 1, Len(sent))
Onward(t) ==
    /\ Flatten(Unread) = Bytes(recv_queue_raw) \o (wire \o t)
    /\ ~broken => t = Bytes(send_queue)
OnTheWay == \E t \in Seq(Nat) : Onward(t)

\* The ids of what was sent follow each other, up to the sender's last one.
Signed == Chain(sent) /\ (sent # <<>> => sender = Numbered(sent[Len(sent)][2]))

\* The receiver has the first packets, and expects the next of them.
Expects ==
    IF Len(recv_queue) < Len(sent) THEN Accepts(receiver, sent[Len(recv_queue) + 1][2])
                                   ELSE receiver = sender
Received ==
    /\ Len(recv_queue) <= Len(sent)
    /\ recv_queue = SubSeq(sent, 1, Len(recv_queue))
    /\ Expects

\* queue->len; the loop over send() lets that of the send_queue grow too large.
LensHold ==
    /\ recv_queue_raw.len = Len(Bytes(recv_queue_raw))
    /\ Len(Bytes(send_queue)) <= send_queue.len
    /\ HAVE_WRITEV => send_queue.len = Len(Bytes(send_queue))

\* What FIONREAD said is there, unless the connection broke.
Promised == reader # "error" /\ (to_read <= Len(wire) \/ broken)

StreamInv ==
    /\ StreamTypeOK /\ OnTheWay /\ Signed /\ Received /\ LensHold /\ Promised /\ NoPacketStranded

\* A new queue is empty.
LEMMA NewQueue == queue_new \in Queues /\ Bytes(queue_new) = <<>> /\ queue_new.len = 0
<1>1. queue_new \in Queues /\ queue_new.chunks = <<>> /\ queue_new.len = 0 BY DEF queue_new, Queues
<1> QED BY <1>1, NoChunks, Zenon

\* The invariant holds when both ends have just been set up.
LEMMA StreamStarts == StreamInit => StreamInv
<1> SUFFICES ASSUME StreamInit PROVE StreamInv OBVIOUS
<1>1. /\ sender \in [last : {254}, reset : BOOLEAN] /\ receiver = sender
      /\ send_queue = queue_new /\ recv_queue_raw = queue_new
      /\ wire = <<>> /\ broken = FALSE /\ to_read = 0 /\ retries = 0
      /\ recv_queue = <<>> /\ reader = "wait" /\ payloads = <<>> /\ sent = <<>>
  BY Zenon DEF StreamInit
<1>2. Bytes(send_queue) = <<>> /\ Bytes(recv_queue_raw) = <<>> BY <1>1, NewQueue, Zenon
<1>3. send_queue \in Queues /\ recv_queue_raw \in Queues /\ send_queue.len = 0 /\ recv_queue_raw.len = 0
  BY <1>1, NewQueue, Zenon
<1>4. Len(<<>>) = 0 /\ <<>> \in Seq(Nat) /\ <<>> \in Seq(Seq(Nat)) /\ <<>> \in Seq(0..(2 * PACKET_LEN_MAX)) OBVIOUS
<1>5. StreamTypeOK
  <2>1. sender \in Sockets BY <1>1 DEF Sockets, Ids
  <2>2. 0 \in 0..MaxWire /\ 0 \in 0..MaxRetries /\ 0 <= MaxWire BY StreamBounds
  <2> QED BY <1>1, <1>3, <1>4, <2>1, <2>2, Zenon DEF StreamTypeOK
<1>6. OnTheWay
  <2>1. Unread = <<>> BY <1>1 DEF Unread
  <2>2. Flatten(Unread) = <<>> BY <2>1, FlattenNone, Zenon
  <2>3. <<>> \o (<<>> \o <<>>) = <<>> BY <1>4, JoinedToNone, Zenon
  <2>4. Onward(<<>>) BY <1>1, <1>2, <2>2, <2>3, Zenon DEF Onward
  <2> QED BY <1>4, <2>4, Zenon DEF OnTheWay
<1>7. Signed BY <1>1, <1>4 DEF Signed, Chain
<1>8. Received BY <1>1, <1>4 DEF Received, Expects
<1>9. LensHold BY <1>2, <1>3, <1>4 DEF LensHold
<1>10. Promised BY <1>1, <1>4 DEF Promised
<1>11. NoPacketStranded BY <1>2, <1>4 DEF NoPacketStranded, NET_HEADER_SIZE
<1> QED BY <1>5, <1>6, <1>7, <1>8, <1>9, <1>10, <1>11, Zenon DEF StreamInv

\* What an append changes, and what it leaves alone.
Appends(n, ps) ==
    /\ ps = PacketsFor(sender, n)
    /\ send_queue' = queue_append_chunks(send_queue, ps)
    /\ sender' = Numbered(IdAfter(sender, Len(ps)))
    /\ sent' = sent \o ps
    /\ payloads' = Append(payloads, n)
    /\ wire' = wire /\ broken' = broken /\ receiver' = receiver /\ to_read' = to_read
    /\ recv_queue_raw' = recv_queue_raw /\ recv_queue' = recv_queue /\ reader' = reader
    /\ retries' = retries

\* network_mysqld_queue_append() keeps the invariant.
LEMMA QueueAppendStep ==
    ASSUME StreamInv, NEW n \in 0..(2 * PACKET_LEN_MAX), mysqld_queue_append(n)
    PROVE  StreamInv'
<1> DEFINE ps == PacketsFor(sender, n)
<1>1. Appends(n, ps) BY Zenon DEF Appends, mysqld_queue_append, recvVars
<1>2. StreamTypeOK /\ OnTheWay /\ Signed /\ Received /\ LensHold /\ Promised /\ NoPacketStranded
  BY Zenon DEF StreamInv
<1>3. /\ sender \in Sockets /\ send_queue \in Queues /\ recv_queue_raw \in Queues /\ sent \in Seq(Seq(Nat))
      /\ wire \in Seq(Nat) /\ recv_queue \in Seq(Seq(Nat))
  BY <1>2, Zenon DEF StreamTypeOK
<1>4. ps \in Seq(Seq(Nat)) /\ Len(ps) \in Nat \ {0} BY <1>3, PacketsAre, Zenon
<1>5. \A p \in 1..Len(ps) : Packet(ps[p]) /\ ps[p][2] = IdAfter(sender, p) BY <1>3, PacketsAre, Zenon
<1>6. \A p \in Nat \ {0} : IdAfter(sender, p) \in Ids /\ IdAfter(sender, p + 1) = Succ(IdAfter(sender, p))
  BY <1>3, IdsFollow, Zenon
<1>7. IdAfter(sender, 1) = NewId(sender) /\ Accepts(sender, NewId(sender)) BY <1>3, IdsFollow, Zenon
<1> HIDE DEF ps
<1>8. ps # <<>> BY <1>4
<1>9. ps[1][2] = NewId(sender)
  <2>1. 1 \in 1..Len(ps) BY <1>4
  <2> QED BY <1>5, <1>7, <2>1, Zenon
<1>10. Flatten(ps) \in Seq(Nat) BY <1>4, FlattenTyped, Zenon
<1>11. send_queue' \in Queues /\ Bytes(send_queue') = Bytes(send_queue) \o Flatten(ps)
       /\ send_queue'.len = send_queue.len + Len(Flatten(ps))
  BY <1>1, <1>3, <1>4, QueueAppendedAll, Zenon DEF Appends
<1>12. Len(recv_queue) \in Nat /\ Len(sent) \in Nat /\ Len(recv_queue) <= Len(sent)
  BY <1>2, <1>3, Indexed, Zenon DEF Received
<1>13. StreamTypeOK'
  <2>1. sender' \in Sockets
    <3>1. IdAfter(sender, Len(ps)) \in Ids BY <1>4, <1>6, Zenon
    <3> QED BY <1>1, <3>1 DEF Appends, Numbered, Sockets
  <2>2. sent' \in Seq(Seq(Nat)) BY <1>1, <1>3, <1>4, Joined, Zenon DEF Appends
  <2>3. payloads' \in Seq(0..(2 * PACKET_LEN_MAX)) BY <1>1, <1>2 DEF Appends, StreamTypeOK
  <2> QED BY <1>1, <1>2, <1>11, <2>1, <2>2, <2>3, Zenon DEF Appends, StreamTypeOK
<1>14. OnTheWay'
  <2> DEFINE G == Flatten(ps)
             b == Bytes(recv_queue_raw)
  <2>1. PICK t \in Seq(Nat) : Onward(t) BY <1>2, Zenon DEF OnTheWay
  <2>2. t \o G \in Seq(Nat) BY <1>10, Joined, Zenon
  <2>3. Unread' = Unread \o ps
    <3>1. Len(recv_queue) \in 0..Len(sent) BY <1>12
    <3>2. DropsTo(sent \o ps, Len(recv_queue), Unread \o ps) BY <1>3, <1>4, <3>1, CutOfJoined, Zenon DEF Unread
    <3>3. Unread' = SubSeq(sent \o ps, Len(recv_queue) + 1, Len(sent \o ps)) BY <1>1, Zenon DEF Unread, Appends
    <3> QED BY <3>2, <3>3, Zenon DEF DropsTo
  <2>4. Unread \in Seq(Seq(Nat))
    <3>1. Len(recv_queue) \in 0..Len(sent) BY <1>12
    <3>2. Follows(Seq(Nat), sent, Len(recv_queue), Unread) BY <1>3, <3>1, CutFollows, Zenon DEF Unread
    <3> QED BY <3>2, Zenon DEF Follows
  <2>5. Flatten(Unread \o ps) = Flatten(Unread) \o G BY <1>4, <2>4, FlattenJoined, Zenon
  <2> HIDE DEF G
  <2>6. b \in Seq(Nat) BY <1>3, BytesTyped, Zenon
  <2> HIDE DEF b
  <2>7. Regroups(b, wire \o t, G) /\ Regroups(wire, t, G)
    <3>1. wire \o t \in Seq(Nat) BY <1>3, Joined, Zenon
    <3> QED BY <1>3, <1>10, <2>6, <3>1, JoinedThree, Zenon DEF G
  <2>8. Flatten(Unread) = b \o (wire \o t) BY <2>1, Zenon DEF Onward, b
  <2>9. Flatten(Unread) \o G = b \o (wire \o (t \o G)) BY <2>7, <2>8, Zenon DEF Regroups
  <2>10. PICK u \in Seq(Nat) : u = t \o G BY <2>2, Zenon
  <2>11. Flatten(Unread') = Bytes(recv_queue_raw') \o (wire' \o u)
    BY <1>1, <2>3, <2>5, <2>9, <2>10, Zenon DEF Appends, b
  <2>12. ~broken' => u = Bytes(send_queue') BY <1>1, <1>11, <2>1, <2>10, Zenon DEF Appends, Onward, G
  <2>13. Onward(u)' BY <2>11, <2>12, Zenon DEF Onward
  <2> QED BY <2>13, Zenon DEF OnTheWay
<1>15. Signed'
  <2>1. Chain(ps)
    <3>1. ASSUME NEW i \in 1..Len(ps) - 1 PROVE ps[i + 1][2] = Succ(ps[i][2])
      <4>1. i \in 1..Len(ps) /\ i + 1 \in 1..Len(ps) /\ i \in Nat \ {0} BY <1>4
      <4> QED BY <1>5, <1>6, <4>1, Zenon
    <3> QED BY <1>5, <3>1, Zenon DEF Chain
  <2>2. ASSUME sent # <<>> PROVE ps[1][2] = Succ(sent[Len(sent)][2])
    <3>1. sender = Numbered(sent[Len(sent)][2]) BY <1>2, <2>2, Zenon DEF Signed
    <3>2. NewId(sender) = Succ(sent[Len(sent)][2]) BY <3>1 DEF NewId, Numbered
    <3> QED BY <1>9, <3>2, Zenon
  <2>3. Chain(sent) BY <1>2, Zenon DEF Signed
  <2>4. Chain(sent \o ps) BY <1>3, <1>4, <1>8, <2>1, <2>2, <2>3, ChainJoined, Zenon
  <2>5. (sent \o ps)[Len(sent \o ps)] = ps[Len(ps)] BY <1>3, <1>4, <1>8, LastJoined, Zenon
  <2>6. ps[Len(ps)][2] = IdAfter(sender, Len(ps))
    <3>1. Len(ps) \in 1..Len(ps) BY <1>4
    <3> QED BY <1>5, <3>1, Zenon
  <2>7. sender' = Numbered(sent'[Len(sent')][2]) BY <1>1, <2>5, <2>6, Zenon DEF Appends
  <2>8. Chain(sent') BY <1>1, <2>4, Zenon DEF Appends
  <2> QED BY <2>7, <2>8, Zenon DEF Signed
<1>16. Received'
  <2> DEFINE k == Len(recv_queue)
  <2>1. Len(sent \o ps) = Len(sent) + Len(ps) BY <1>3, <1>4, Joined, Zenon
  <2>2. SubSeq(sent \o ps, 1, k) = SubSeq(sent, 1, k)
    <3>1. k \in 0..Len(sent) BY <1>12
    <3> QED BY <1>3, <1>4, <3>1, SameStart, Zenon
  <2>3. k <= Len(sent \o ps) /\ k < Len(sent \o ps) BY <1>4, <1>12, <2>1
  <2>4. Accepts(receiver, (sent \o ps)[k + 1][2])
    <3>1. CASE k < Len(sent)
      <4>1. k + 1 \in 1..Len(sent) BY <1>12, <3>1
      <4>2. (sent \o ps)[k + 1] = sent[k + 1] BY <1>3, <1>4, <4>1, Joined, SMT
      <4> QED BY <1>2, <3>1, <4>2, Zenon DEF Received, Expects
    <3>2. CASE ~(k < Len(sent))
      <4>1. k = Len(sent) BY <1>12, <3>2
      <4>2. (sent \o ps)[Len(sent) + 1] = ps[1] BY <1>3, <1>4, <1>8, LastJoined, Zenon
      <4>3. receiver = sender BY <1>2, <3>2, Zenon DEF Received, Expects
      <4> QED BY <1>7, <1>9, <4>1, <4>2, <4>3, Zenon
    <3> QED BY <3>1, <3>2, Zenon
  <2>5. Expects' BY <1>1, <2>3, <2>4, Zenon DEF Expects, Appends
  <2>6. recv_queue' = SubSeq(sent', 1, Len(recv_queue')) BY <1>1, <1>2, <2>2, Zenon DEF Received, Appends
  <2>7. Len(recv_queue') <= Len(sent') BY <1>1, <2>3, Zenon DEF Appends
  <2> QED BY <2>5, <2>6, <2>7, Zenon DEF Received
<1>17. LensHold'
  <2>1. Len(Bytes(send_queue')) = Len(Bytes(send_queue)) + Len(Flatten(ps))
    <3>1. Bytes(send_queue) \in Seq(Nat) BY <1>3, BytesTyped, Zenon
    <3>2. Len(Bytes(send_queue) \o Flatten(ps)) = Len(Bytes(send_queue)) + Len(Flatten(ps))
      BY <1>10, <3>1, Joined, Zenon
    <3> QED BY <1>11, <3>2, Zenon
  <2>2. Len(Bytes(send_queue)) \in Nat /\ Len(Flatten(ps)) \in Nat /\ send_queue.len \in Nat
    <3>1. Len(Bytes(send_queue)) \in Nat BY <1>3, BytesTyped, Zenon
    <3>2. send_queue.len \in Nat BY <1>3 DEF Queues
    <3> QED BY <1>10, <3>1, <3>2, Indexed, Zenon
  <2>3. Len(Bytes(send_queue)) <= send_queue.len /\ (HAVE_WRITEV => send_queue.len = Len(Bytes(send_queue)))
    BY <1>2, Zenon DEF LensHold
  <2>4. Len(Bytes(send_queue')) <= send_queue'.len BY <1>11, <2>1, <2>2, <2>3
  <2>5. HAVE_WRITEV => send_queue'.len = Len(Bytes(send_queue')) BY <1>11, <2>1, <2>2, <2>3
  <2>6. recv_queue_raw'.len = Len(Bytes(recv_queue_raw')) BY <1>1, <1>2, Zenon DEF LensHold, Appends
  <2> QED BY <2>4, <2>5, <2>6, Zenon DEF LensHold
<1>18. Promised' BY <1>1, <1>2, Zenon DEF Promised, Appends
<1>19. NoPacketStranded' BY <1>1, <1>2, Zenon DEF NoPacketStranded, Appends
<1> QED BY <1>13, <1>14, <1>15, <1>16, <1>17, <1>18, <1>19, Zenon DEF StreamInv

\* The length of a queue says nothing about its bytes.
LEMMA SameBytes ==
    ASSUME NEW q, NEW r, q.chunks = r.chunks, q.offset = r.offset
    PROVE  Bytes(q) = Bytes(r)
BY Zenon DEF Bytes, Rest

\* The bytes written are taken off the send_queue; the loop over send() does
\* not count them.
LEMMA WrittenIs ==
    ASSUME NEW q \in Queues, NEW n \in 0..Len(Bytes(q)), n <= q.len
    PROVE  LET r == Written(q, n)
           IN  /\ r \in Queues /\ DropsTo(Bytes(q), n, Bytes(r))
               /\ r.len = IF HAVE_WRITEV THEN q.len - n ELSE q.len
<1> DEFINE w == Without(q, n)
           r == Written(q, n)
<1>1. w \in Queues /\ w.len = q.len - n /\ DropsTo(Bytes(q), n, Bytes(w)) BY WithoutIs, Zenon
<1>2. q.len \in Nat BY DEF Queues
<1>3. r = [w EXCEPT !.len = IF HAVE_WRITEV THEN @ ELSE q.len] BY Zenon DEF Written
<1> HIDE DEF w, r
<1>4. r.chunks = w.chunks /\ r.offset = w.offset /\ r.len = (IF HAVE_WRITEV THEN w.len ELSE q.len)
      /\ r \in Queues
  BY <1>1, <1>2, <1>3, Zenon DEF Queues
<1>5. Bytes(r) = Bytes(w) BY <1>4, SameBytes, Zenon
<1> QED BY <1>1, <1>4, <1>5, Zenon DEF r

\* What one call offers to the kernel are the first bytes of the queue.
LEMMA OfferedIs ==
    ASSUME send_queue \in Queues
    PROVE  /\ Offered \in Seq(Nat) /\ Len(Offered) <= Len(Bytes(send_queue))
           /\ \A n \in 0..Len(Offered) : SubSeq(Bytes(send_queue), 1, n) = SubSeq(Offered, 1, n)
<1> DEFINE q == send_queue
           c == IF HAVE_WRITEV /\ Len(q.chunks) > IOV_MAX THEN IOV_MAX ELSE Len(q.chunks)
           L == Left(q)
           x == Flatten(SubSeq(L, 1, c))
           y == Flatten(SubSeq(L, c + 1, Len(L)))
<1>1. L \in Seq(Seq(Nat)) /\ Len(L) = Len(q.chunks) /\ Len(q.chunks) \in Nat BY LeftOfChunks, Zenon
<1>2. c \in 0..Len(q.chunks) BY <1>1, StreamBounds
<1>3. Offered = Flatten([i \in 1..c |-> Rest(q, i)]) BY Zenon DEF Offered
<1> HIDE DEF c, L
<1>4. [i \in 1..c |-> Rest(q, i)] = SubSeq(L, 1, c) BY <1>2, FirstLeft, Zenon DEF L
<1>5. Bytes(q) = Flatten(L) BY BytesTyped, Zenon DEF L
<1>6. /\ SubSeq(L, 1, c) \in Seq(Seq(Nat)) /\ SubSeq(L, c + 1, Len(L)) \in Seq(Seq(Nat))
      /\ Flatten(L) = x \o y
  BY <1>1, <1>2, FlattenCut, Zenon
<1>7. x \in Seq(Nat) /\ y \in Seq(Nat) BY <1>6, FlattenTyped, Zenon
<1>8. Offered = x BY <1>3, <1>4, Zenon
<1> HIDE DEF x, y
<1>9. Len(x) <= Len(x \o y)
  <2>1. Len(x \o y) = Len(x) + Len(y) /\ Len(x) \in Nat /\ Len(y) \in Nat BY <1>7
  <2> QED BY <2>1
<1>10. \A n \in 0..Len(x) : SubSeq(x \o y, 1, n) = SubSeq(x, 1, n) BY <1>7, SameStart, Zenon
<1> QED BY <1>5, <1>6, <1>7, <1>8, <1>9, <1>10, Zenon

\* network_socket_write() keeps the invariant, however much the kernel takes.
LEMMA WriteStep ==
    ASSUME StreamInv, socket_write
    PROVE  StreamInv'
<1>1. StreamTypeOK /\ OnTheWay /\ Signed /\ Received /\ LensHold /\ Promised /\ NoPacketStranded
  BY Zenon DEF StreamInv
<1>2. PICK n \in 1..Len(Offered) :
         /\ Len(wire) + n <= MaxWire
         /\ wire' = wire \o SubSeq(Offered, 1, n)
         /\ send_queue' = Written(send_queue, n)
  BY Zenon DEF socket_write
<1>3. /\ ~broken /\ broken' = broken /\ sender' = sender /\ payloads' = payloads /\ sent' = sent
      /\ receiver' = receiver /\ to_read' = to_read /\ recv_queue_raw' = recv_queue_raw
      /\ recv_queue' = recv_queue /\ reader' = reader /\ retries' = retries
  BY Zenon DEF socket_write, recvVars
<1> DEFINE q == send_queue
           b == Bytes(q)
           w == SubSeq(b, 1, n)
<1>4. q \in Queues /\ wire \in Seq(Nat) BY <1>1, Zenon DEF StreamTypeOK
<1>5. b \in Seq(Nat) /\ Len(b) \in Nat BY <1>4, BytesTyped, Zenon
<1>6. Offered \in Seq(Nat) /\ Len(Offered) <= Len(b) BY <1>4, OfferedIs, Zenon
<1>7. n \in Nat \ {0} /\ n \in 0..Len(Offered) /\ n \in 0..Len(b)
  <2>1. Len(Offered) \in Nat BY <1>6, Indexed, Zenon
  <2> QED BY <1>5, <1>6, <2>1
<1>8. w = SubSeq(Offered, 1, n) BY <1>4, <1>7, OfferedIs, Zenon
<1>9. w \in Seq(Nat) /\ Len(w) = n BY <1>5, <1>7, CutStart, Zenon
<1>10. Len(b) <= q.len /\ (HAVE_WRITEV => q.len = Len(b)) BY <1>1, Zenon DEF LensHold
<1>11. q.len \in Nat BY <1>4 DEF Queues
<1>12. n <= q.len BY <1>5, <1>7, <1>10, <1>11
<1>13. /\ send_queue' \in Queues /\ DropsTo(b, n, Bytes(send_queue'))
       /\ send_queue'.len = IF HAVE_WRITEV THEN q.len - n ELSE q.len
  BY <1>2, <1>4, <1>7, <1>12, WrittenIs, Zenon
<1>14. PICK u : u = Bytes(send_queue') OBVIOUS
<1>15. Remains(Nat, b, n, u) BY <1>5, <1>13, <1>14, Dropped, Zenon
<1>16. u \in Seq(Nat) /\ Len(u) = Len(b) - n /\ w \o u = b BY <1>15, Zenon DEF Remains
<1> HIDE DEF b, w
<1>17. wire' \in Seq(Nat) /\ Len(wire') = Len(wire) + n
  <2>1. wire' = wire \o w BY <1>2, <1>8, Zenon
  <2> QED BY <1>4, <1>9, <2>1, Joined, Zenon
<1>18. StreamTypeOK'
  <2>1. Len(wire') <= MaxWire BY <1>2, <1>17
  <2> QED BY <1>1, <1>3, <1>13, <1>17, <2>1, Zenon DEF StreamTypeOK
<1>19. OnTheWay'
  <2>1. PICK t \in Seq(Nat) : Onward(t) BY <1>1, Zenon DEF OnTheWay
  <2>2. t = w \o u BY <1>3, <1>16, <2>1, Zenon DEF Onward, b
  <2>3. Regroups(wire, w, u) BY <1>4, <1>9, <1>16, JoinedThree, Zenon
  <2>4. wire \o t = wire' \o u BY <1>2, <1>8, <2>2, <2>3, Zenon DEF Regroups
  <2>5. Unread' = Unread BY <1>3, Zenon DEF Unread
  <2>6. Onward(u)' BY <1>3, <1>14, <2>1, <2>4, <2>5, Zenon DEF Onward
  <2> QED BY <1>16, <2>6, Zenon DEF OnTheWay
<1>20. Signed' BY <1>1, <1>3, Zenon DEF Signed
<1>21. Received' BY <1>1, <1>3, Zenon DEF Received, Expects
<1>22. LensHold'
  <2>1. Len(u) <= send_queue'.len /\ (HAVE_WRITEV => send_queue'.len = Len(u))
    BY <1>5, <1>7, <1>10, <1>11, <1>13, <1>16 DEF b
  <2> QED BY <1>1, <1>3, <1>14, <2>1, Zenon DEF LensHold
<1>23. Promised'
  <2>1. to_read \in Nat /\ Len(wire) \in Nat
    <3>1. to_read \in 0..MaxWire BY <1>1, Zenon DEF StreamTypeOK
    <3> QED BY <1>4, <3>1
  <2>2. to_read <= Len(wire) BY <1>1, <1>3, Zenon DEF Promised
  <2>3. to_read <= Len(wire') BY <1>7, <1>17, <2>1, <2>2
  <2> QED BY <1>1, <1>3, <2>3, Zenon DEF Promised
<1>24. NoPacketStranded'
  <2>1. wire' # <<>> BY <1>4, <1>7, <1>17
  <2> QED BY <2>1, Zenon DEF NoPacketStranded
<1> QED BY <1>18, <1>19, <1>20, <1>21, <1>22, <1>23, <1>24, Zenon DEF StreamInv

\* A connection that breaks loses what was on the wire, and keeps the invariant.
LEMMA BreakStep ==
    ASSUME StreamInv, Break
    PROVE  StreamInv'
<1>1. StreamTypeOK /\ OnTheWay /\ Signed /\ Received /\ LensHold /\ Promised /\ NoPacketStranded
  BY Zenon DEF StreamInv
<1>2. /\ broken' = TRUE /\ wire' = <<>> /\ sender' = sender /\ payloads' = payloads /\ sent' = sent
      /\ send_queue' = send_queue
      /\ receiver' = receiver /\ to_read' = to_read /\ recv_queue_raw' = recv_queue_raw
      /\ recv_queue' = recv_queue /\ reader' = reader /\ retries' = retries
  BY Zenon DEF Break, recvVars, sendVars
<1>3. StreamTypeOK'
  <2>1. <<>> \in Seq(Nat) /\ Len(<<>>) <= MaxWire BY StreamBounds
  <2> QED BY <1>1, <1>2, <2>1 DEF StreamTypeOK
<1>4. OnTheWay'
  <2>1. PICK t \in Seq(Nat) : Onward(t) BY <1>1, Zenon DEF OnTheWay
  <2>2. wire \o t \in Seq(Nat)
    <3>1. wire \in Seq(Nat) BY <1>1, Zenon DEF StreamTypeOK
    <3> QED BY <3>1, Joined, Zenon
  <2>3. PICK u \in Seq(Nat) : u = wire \o t BY <2>2, Zenon
  <2>4. <<>> \o u = u BY JoinedToNone, Zenon
  <2>5. Unread' = Unread BY <1>2, Zenon DEF Unread
  <2>6. Flatten(Unread') = Bytes(recv_queue_raw') \o (wire' \o u) BY <1>2, <2>1, <2>3, <2>4, <2>5, Zenon DEF Onward
  <2>7. Onward(u)' BY <1>2, <2>6, Zenon DEF Onward
  <2> QED BY <2>7, Zenon DEF OnTheWay
<1>5. Signed' BY <1>1, <1>2, Zenon DEF Signed
<1>6. Received' BY <1>1, <1>2, Zenon DEF Received, Expects
<1>7. LensHold' BY <1>1, <1>2, Zenon DEF LensHold
<1>8. Promised' BY <1>1, <1>2, Zenon DEF Promised
<1>9. NoPacketStranded' BY <1>2, Zenon DEF NoPacketStranded
<1> QED BY <1>3, <1>4, <1>5, <1>6, <1>7, <1>8, <1>9, Zenon DEF StreamInv

\* FIONREAD promises what is on the wire.
LEMMA ReadableStep ==
    ASSUME StreamInv, Readable
    PROVE  StreamInv'
<1>1. StreamTypeOK /\ OnTheWay /\ Signed /\ Received /\ LensHold /\ Promised /\ NoPacketStranded
  BY Zenon DEF StreamInv
<1>2. /\ broken' = broken /\ wire' = wire /\ sender' = sender /\ payloads' = payloads /\ sent' = sent
      /\ send_queue' = send_queue
      /\ receiver' = receiver /\ to_read' = Len(wire) /\ recv_queue_raw' = recv_queue_raw
      /\ recv_queue' = recv_queue /\ retries' = retries
      /\ reader' = IF wire = <<>> THEN "closed" ELSE "run"
  BY Zenon DEF Readable, sendVars
<1>3. wire \in Seq(Nat) /\ Len(wire) <= MaxWire BY <1>1, Zenon DEF StreamTypeOK
<1>4. Len(wire) \in 0..MaxWire /\ Len(wire) <= Len(wire) BY <1>3, StreamBounds
<1>5. reader' = "closed" \/ reader' = "run" BY <1>2, Zenon
<1>6. StreamTypeOK' BY <1>1, <1>2, <1>4, <1>5 DEF StreamTypeOK
<1>7. OnTheWay'
  <2>1. PICK t \in Seq(Nat) : Onward(t) BY <1>1, Zenon DEF OnTheWay
  <2>2. Unread' = Unread BY <1>2, Zenon DEF Unread
  <2>3. Onward(t)' BY <1>2, <2>1, <2>2, Zenon DEF Onward
  <2> QED BY <2>3, Zenon DEF OnTheWay
<1>8. Signed' BY <1>1, <1>2, Zenon DEF Signed
<1>9. Received' BY <1>1, <1>2, Zenon DEF Received, Expects
<1>10. LensHold' BY <1>1, <1>2, Zenon DEF LensHold
<1>11. Promised' BY <1>2, <1>4, <1>5 DEF Promised
<1>12. NoPacketStranded' BY <1>5 DEF NoPacketStranded
<1> QED BY <1>6, <1>7, <1>8, <1>9, <1>10, <1>11, <1>12, Zenon DEF StreamInv

\* network_mysqld_con_get_packet() on a raw queue that holds the first bytes
\* of the packets to come.
LEMMA GetPacketStep ==
    ASSUME StreamTypeOK, Signed, Received, NEW raw \in Queues, raw.len = Len(Bytes(raw)), NEW x \in Seq(Nat),
           Flatten(Unread) = Bytes(raw) \o x, con_get_packet(raw), sent' = sent, sender' = sender
    PROVE  /\ recv_queue_raw' \in Queues /\ recv_queue_raw'.len = Len(Bytes(recv_queue_raw'))
           /\ receiver' \in Sockets /\ recv_queue' \in Seq(Seq(Nat)) /\ Received'
           /\ Flatten(Unread') = Bytes(recv_queue_raw') \o x
           /\ reader' = "run" \/ (reader' = "wait" /\ ~Complete(Bytes(recv_queue_raw')))
<1> DEFINE k == Len(recv_queue)
           u == Unread
           T == Taken(raw)
           id == peek_string(raw, NET_HEADER_SIZE)[2]
<1>1. sent \in Seq(Seq(Nat)) /\ recv_queue \in Seq(Seq(Nat)) /\ receiver \in Sockets BY Zenon DEF StreamTypeOK
<1>2. k \in Nat /\ Len(sent) \in Nat /\ k <= Len(sent) BY <1>1, Indexed, Zenon DEF Received
<1>3. k \in 0..Len(sent) BY <1>2
<1>4. u \in Seq(Seq(Nat)) /\ Len(u) = Len(sent) - k /\ \A i \in 1..Len(sent) - k : u[i] = sent[k + i]
  <2>1. Follows(Seq(Nat), sent, k, u) BY <1>1, <1>3, CutFollows, Zenon DEF Unread
  <2> QED BY <2>1, Zenon DEF Follows
<1>5. \A i \in 1..Len(u) : Packet(u[i])
  <2>1. ASSUME NEW i \in 1..Len(u) PROVE Packet(u[i])
    <3>1. i \in 1..Len(sent) - k BY <1>4
    <3>2. k + i \in 1..Len(sent) BY <1>2, <3>1
    <3>3. u[i] = sent[k + i] BY <1>4, <3>1, Zenon
    <3> QED BY <3>2, <3>3, Zenon DEF Signed, Chain
  <2> QED BY <2>1
<1>6. /\ recv_queue_raw' = T.queue
      /\ T.dest = <<>> => reader' = "wait" /\ receiver' = receiver /\ recv_queue' = recv_queue
      /\ T.dest # <<>> /\ Accepts(receiver, id) =>
            receiver' = Numbered(id) /\ recv_queue' = Append(recv_queue, T.dest) /\ reader' = "run"
  BY Zenon DEF con_get_packet, Taken, get_packet
<1> HIDE DEF k, u, T, id
<1>7. \/ T = [queue |-> raw, dest |-> <<>>] /\ ~Complete(Bytes(raw))
      \/ /\ u # <<>> /\ T.dest = u[1] /\ u[1] # <<>> /\ id = u[1][2]
         /\ T.queue \in Queues /\ T.queue.len = Len(Bytes(T.queue))
         /\ Flatten(SubSeq(u, 2, Len(u))) = Bytes(T.queue) \o x
  <2>1. Flatten(u) = Bytes(raw) \o x BY DEF u
  <2> QED BY <1>4, <1>5, <2>1, FirstPacket, Zenon DEF T, id
<1>8. CASE T = [queue |-> raw, dest |-> <<>>] /\ ~Complete(Bytes(raw))
  <2>1. T.queue = raw /\ T.dest = <<>> BY <1>8
  <2>2. recv_queue_raw' = raw /\ reader' = "wait" /\ receiver' = receiver /\ recv_queue' = recv_queue
    BY <1>6, <2>1, Zenon
  <2>3. Unread' = Unread BY <2>2, Zenon DEF Unread
  <2>4. Received' BY <2>2, Zenon DEF Received, Expects
  <2> QED BY <1>1, <1>8, <2>2, <2>3, <2>4, Zenon
<1>9. CASE /\ u # <<>> /\ T.dest = u[1] /\ u[1] # <<>> /\ id = u[1][2]
           /\ T.queue \in Queues /\ T.queue.len = Len(Bytes(T.queue))
           /\ Flatten(SubSeq(u, 2, Len(u))) = Bytes(T.queue) \o x
  <2>1. k < Len(sent)
    <3>1. Len(u) # 0 /\ Len(u) \in Nat BY <1>4, <1>9, Indexed, Zenon
    <3>2. Len(u) = Len(sent) - k BY <1>4, Zenon
    <3> QED BY <1>2, <3>1, <3>2
  <2>2. NextOf(Seq(Nat), sent, k, u) BY <1>1, <1>2, <2>1, CutNext, Zenon DEF u, Unread, k
  <2>3. /\ Append(SubSeq(sent, 1, k), u[1]) = SubSeq(sent, 1, k + 1) /\ u[1] = sent[k + 1] /\ u[1] \in Seq(Nat)
        /\ SubSeq(u, 2, Len(u)) = SubSeq(sent, (k + 1) + 1, Len(sent))
    BY <2>2, Zenon DEF NextOf
  <2>4. Accepts(receiver, id) BY <1>9, <2>1, <2>3, Zenon DEF Received, Expects, k
  <2>5. recv_queue_raw' = T.queue /\ receiver' = Numbered(sent[k + 1][2]) /\ reader' = "run"
        /\ recv_queue' = Append(recv_queue, u[1])
    BY <1>6, <1>9, <2>3, <2>4, Zenon
  <2>6. recv_queue' = SubSeq(sent, 1, k + 1) BY <2>3, <2>5, Zenon DEF Received, k
  <2>7. recv_queue' \in Seq(Seq(Nat)) /\ Len(recv_queue') = k + 1
    <3>1. k + 1 \in 0..Len(sent) BY <1>2, <2>1
    <3> QED BY <1>1, <2>6, <3>1, CutStart, Zenon
  <2>8. Unread' = SubSeq(u, 2, Len(u)) BY <2>3, <2>7, Zenon DEF Unread
  <2>9. receiver' \in Sockets
    <3>1. k + 1 \in 1..Len(sent) BY <1>2, <2>1
    <3>2. sent[k + 1][2] \in Ids BY <3>1, Zenon DEF Signed, Chain, Packet
    <3> QED BY <2>5, <3>2 DEF Numbered, Sockets
  <2>10. Expects'
    <3>1. CASE k + 1 < Len(sent)
      <4>1. k + 1 \in 1..Len(sent) - 1 BY <1>2, <3>1
      <4>2. sent[(k + 1) + 1][2] = Succ(sent[k + 1][2]) BY <4>1, Zenon DEF Signed, Chain
      <4>3. receiver'.last = sent[k + 1][2] BY <2>5 DEF Numbered
      <4>4. Accepts(receiver', sent[(k + 1) + 1][2]) BY <4>2, <4>3, Zenon DEF Accepts
      <4> QED BY <2>7, <3>1, <4>4, Zenon DEF Expects
    <3>2. CASE ~(k + 1 < Len(sent))
      <4>1. k + 1 = Len(sent) /\ Len(sent) # 0 BY <1>2, <2>1, <3>2
      <4>2. sent # <<>> BY <1>1, <4>1, Indexed, Zenon
      <4>3. sender = Numbered(sent[Len(sent)][2]) BY <4>2, Zenon DEF Signed
      <4> QED BY <2>5, <2>7, <3>2, <4>1, <4>3, Zenon DEF Expects
    <3> QED BY <3>1, <3>2
  <2>11. Received'
    <3>1. k + 1 <= Len(sent) BY <1>2, <2>1
    <3> QED BY <2>6, <2>7, <2>10, <3>1, Zenon DEF Received
  <2> QED BY <1>9, <2>5, <2>7, <2>8, <2>9, <2>11, Zenon
<1> QED BY <1>7, <1>8, <1>9

\* The invariant after a step of the reader that went through the above.
LEMMA AfterReading ==
    ASSUME StreamInv, NEW t \in Seq(Nat), ~broken => t = Bytes(send_queue),
           recv_queue_raw' \in Queues, recv_queue_raw'.len = Len(Bytes(recv_queue_raw')),
           receiver' \in Sockets, recv_queue' \in Seq(Seq(Nat)), Received',
           Flatten(Unread') = Bytes(recv_queue_raw') \o (wire' \o t),
           reader' = "run" \/ (reader' = "wait" /\ (~Complete(Bytes(recv_queue_raw')) \/ wire' # <<>> \/ broken)),
           wire' \in Seq(Nat), Len(wire') <= Len(wire), to_read' \in 0..MaxWire, retries' \in 0..MaxRetries,
           to_read' <= Len(wire') \/ broken,
           sender' = sender, send_queue' = send_queue, payloads' = payloads, sent' = sent, broken' = broken
    PROVE  StreamInv'
<1>1. StreamTypeOK /\ OnTheWay /\ Signed /\ Received /\ LensHold /\ Promised /\ NoPacketStranded
  BY Zenon DEF StreamInv
<1>2. StreamTypeOK'
  <2>1. wire \in Seq(Nat) /\ Len(wire) <= MaxWire BY <1>1, Zenon DEF StreamTypeOK
  <2>2. Len(wire') <= MaxWire
    <3>1. Len(wire) \in Nat /\ Len(wire') \in Nat BY <2>1, Indexed, Zenon
    <3> QED BY <2>1, <3>1, StreamBounds
  <2>3. reader' \in {"run", "wait", "error", "closed"} OBVIOUS
  <2> QED BY <1>1, <2>2, <2>3, Zenon DEF StreamTypeOK
<1>3. OnTheWay'
  <2>1. Onward(t)' BY Zenon DEF Onward
  <2> QED BY <2>1, Zenon DEF OnTheWay
<1>4. Signed' BY <1>1, Zenon DEF Signed
<1>5. LensHold' BY <1>1, Zenon DEF LensHold
<1>6. Promised' BY DEF Promised
<1>7. NoPacketStranded'
  <2> SUFFICES ASSUME reader' = "wait", wire' = <<>>, ~broken',
                      Len(Bytes(recv_queue_raw')) >= 2
               PROVE  Len(Bytes(recv_queue_raw')) < 2 + Bytes(recv_queue_raw')[1]
    BY Zenon DEF NoPacketStranded, NET_HEADER_SIZE
  <2> DEFINE b == Bytes(recv_queue_raw')
  <2>1. ~Complete(b) OBVIOUS
  <2>2. b \in Seq(Nat) /\ Len(b) \in Nat BY BytesTyped, Zenon
  <2> HIDE DEF b
  <2>3. Len(b) >= 2 BY DEF b
  <2>4. b[1] \in Nat
    <3>1. 1 \in 1..Len(b) BY <2>2, <2>3
    <3> QED BY <2>2, <3>1, Indexed, Zenon
  <2>5. Len(b) < 2 + b[1] BY <2>1, <2>2, <2>3, <2>4 DEF Complete
  <2> QED BY <2>5 DEF b
<1> QED BY <1>2, <1>3, <1>4, <1>5, <1>6, <1>7, Zenon DEF StreamInv

\* network_mysqld_read() keeps the invariant, however little recv() returns.
LEMMA ReadStep ==
    ASSUME StreamInv, mysqld_read
    PROVE  StreamInv'
<1>1. StreamTypeOK /\ OnTheWay /\ Signed /\ Received /\ LensHold /\ Promised
  BY Zenon DEF StreamInv
<1>2. /\ sender' = sender /\ send_queue' = send_queue /\ payloads' = payloads /\ sent' = sent
      /\ broken' = broken
  BY Zenon DEF mysqld_read, sendVars
<1>3. /\ recv_queue_raw \in Queues /\ wire \in Seq(Nat) /\ to_read \in 0..MaxWire /\ retries \in 0..MaxRetries
      /\ receiver \in Sockets /\ recv_queue \in Seq(Seq(Nat))
  BY <1>1, Zenon DEF StreamTypeOK
<1>4. PICK t \in Seq(Nat) : Onward(t) BY <1>1, Zenon DEF OnTheWay
<1>5. /\ Flatten(Unread) = Bytes(recv_queue_raw) \o (wire \o t)
      /\ ~broken => t = Bytes(send_queue)
  BY <1>4, Zenon DEF Onward
<1>6. Len(wire) \in Nat /\ to_read \in Nat /\ Len(wire) <= Len(wire) BY <1>3
<1>7. to_read <= Len(wire) \/ broken BY <1>1, Zenon DEF Promised
<1>8. recv_queue_raw.len = Len(Bytes(recv_queue_raw)) BY <1>1, Zenon DEF LensHold
<1> DEFINE nothing == con_get_packet(recv_queue_raw) /\ to_read' = to_read /\ wire' = wire /\ retries' = retries
           some(n) == /\ con_get_packet(queue_append_chunk(recv_queue_raw, SubSeq(wire, 1, n)))
                      /\ wire' = SubSeq(wire, n + 1, Len(wire))
                      /\ to_read' = to_read - n
                      /\ retries' = retries
           again == /\ to_read > 0
                    /\ wire = <<>> \/ retries < MaxRetries
                    /\ retries' = IF wire = <<>> THEN retries ELSE retries + 1
                    /\ recv_queue_raw' = queue_append_chunk(recv_queue_raw, <<>>)
                    /\ reader' = "wait" /\ to_read' = to_read /\ wire' = wire
                    /\ receiver' = receiver /\ recv_queue' = recv_queue
<1>9. \/ nothing
      \/ \E n \in 1..(IF to_read < Len(wire) THEN to_read ELSE Len(wire)) : some(n)
      \/ again
  BY Zenon DEF mysqld_read
<1>10. CASE nothing
  <2>1. wire \o t \in Seq(Nat) BY <1>3, Joined, Zenon
  <2>2. PICK x \in Seq(Nat) : x = wire \o t BY <2>1, Zenon
  <2>3. PICK raw \in Queues : raw = recv_queue_raw BY <1>3
  <2>4. con_get_packet(raw) BY <1>10, <2>3, Zenon DEF con_get_packet
  <2>5. raw.len = Len(Bytes(raw)) /\ Flatten(Unread) = Bytes(raw) \o x BY <1>5, <1>8, <2>2, <2>3, Zenon
  <2>6. /\ recv_queue_raw' \in Queues /\ recv_queue_raw'.len = Len(Bytes(recv_queue_raw'))
        /\ receiver' \in Sockets /\ recv_queue' \in Seq(Seq(Nat)) /\ Received'
        /\ Flatten(Unread') = Bytes(recv_queue_raw') \o x
        /\ reader' = "run" \/ (reader' = "wait" /\ ~Complete(Bytes(recv_queue_raw')))
    BY <1>1, <1>2, <2>4, <2>5, GetPacketStep, Zenon
  <2>7. Flatten(Unread') = Bytes(recv_queue_raw') \o (wire' \o t) BY <1>10, <2>2, <2>6, Zenon
  <2>8. /\ wire' \in Seq(Nat) /\ Len(wire') <= Len(wire) /\ to_read' \in 0..MaxWire /\ retries' \in 0..MaxRetries
        /\ to_read' <= Len(wire') \/ broken
    BY <1>3, <1>6, <1>7, <1>10, Zenon
  <2> QED BY <1>2, <1>5, <2>6, <2>7, <2>8, AfterReading, Zenon
<1>11. ASSUME NEW n \in 1..(IF to_read < Len(wire) THEN to_read ELSE Len(wire)), some(n)
       PROVE  StreamInv'
  <2> DEFINE a == SubSeq(wire, 1, n)
             w == SubSeq(wire, n + 1, Len(wire))
             r == queue_append_chunk(recv_queue_raw, a)
             b == Bytes(recv_queue_raw)
  <2>1. n \in 0..Len(wire) /\ n \in Nat /\ n <= to_read BY <1>6
  <2>2. a \in Seq(Nat) BY <1>3, <2>1, CutStart, Zenon
  <2>3. w \in Seq(Nat) /\ Len(w) = Len(wire) - n
    <3>1. Follows(Nat, wire, n, w) BY <1>3, <2>1, CutFollows, Zenon
    <3> QED BY <3>1, Zenon DEF Follows
  <2>4. a \o w = wire BY <1>3, <2>1, CutInTwo, Zenon
  <2>5. r \in Queues /\ Bytes(r) = b \o a /\ r.len = recv_queue_raw.len + Len(a) BY <1>3, <2>2, QueueAppended, Zenon
  <2>6. b \in Seq(Nat) BY <1>3, BytesTyped, Zenon
  <2> HIDE DEF a, w, r, b
  <2>7. r.len = Len(Bytes(r))
    <3>1. Len(b \o a) = Len(b) + Len(a) BY <2>2, <2>6, Joined, Zenon
    <3> QED BY <1>8, <2>5, <3>1, Zenon DEF b
  <2>8. w \o t \in Seq(Nat) BY <2>3, Joined, Zenon
  <2>9. Flatten(Unread) = Bytes(r) \o (w \o t)
    <3>1. Regroups(a, w, t) BY <2>2, <2>3, JoinedThree, Zenon
    <3>2. Regroups(b, a, w \o t) BY <2>2, <2>6, <2>8, JoinedThree, Zenon
    <3>3. Flatten(Unread) = b \o (wire \o t) BY <1>5, Zenon DEF b
    <3> QED BY <2>4, <2>5, <3>1, <3>2, <3>3, Zenon DEF Regroups
  <2>10. wire' = w /\ con_get_packet(r) /\ to_read' = to_read - n /\ retries' = retries
    BY <1>11, Zenon DEF w, r, a
  <2>11. PICK x \in Seq(Nat) : x = w \o t BY <2>8, Zenon
  <2>12. PICK raw \in Queues : raw = r BY <2>5
  <2>13. con_get_packet(raw) BY <2>10, <2>12, Zenon DEF con_get_packet
  <2>14. raw.len = Len(Bytes(raw)) /\ Flatten(Unread) = Bytes(raw) \o x BY <2>7, <2>9, <2>11, <2>12, Zenon
  <2>15. /\ recv_queue_raw' \in Queues /\ recv_queue_raw'.len = Len(Bytes(recv_queue_raw'))
         /\ receiver' \in Sockets /\ recv_queue' \in Seq(Seq(Nat)) /\ Received'
         /\ Flatten(Unread') = Bytes(recv_queue_raw') \o x
         /\ reader' = "run" \/ (reader' = "wait" /\ ~Complete(Bytes(recv_queue_raw')))
    BY <1>1, <1>2, <2>13, <2>14, GetPacketStep, Zenon
  <2>16. Flatten(Unread') = Bytes(recv_queue_raw') \o (wire' \o t) BY <2>10, <2>11, <2>15, Zenon
  <2>17. to_read' \in 0..MaxWire /\ (to_read' <= Len(wire') \/ broken) /\ Len(wire') <= Len(wire)
    <3>1. Len(wire') = Len(wire) - n BY <2>3, <2>10, Zenon
    <3>2. Len(wire') <= Len(wire) BY <1>6, <2>1, <3>1
    <3>3. to_read' \in 0..MaxWire
      <4>1. to_read \in 0..MaxWire /\ to_read' = to_read - n BY <1>3, <2>10, Zenon
      <4> QED BY <1>6, <2>1, <4>1, StreamBounds
    <3>4. to_read <= Len(wire) => to_read' <= Len(wire') BY <1>6, <2>1, <2>10, <3>1
    <3> QED BY <1>7, <3>2, <3>3, <3>4, Zenon
  <2>18. wire' \in Seq(Nat) /\ retries' \in 0..MaxRetries BY <1>3, <2>3, <2>10, Zenon
  <2> QED BY <1>2, <1>5, <2>15, <2>16, <2>17, <2>18, AfterReading, Zenon
<1>12. CASE again
  <2> DEFINE b == Bytes(recv_queue_raw)
  <2>1. <<>> \in Seq(Nat) /\ Len(<<>>) = 0 OBVIOUS
  <2>2. recv_queue_raw' \in Queues /\ Bytes(recv_queue_raw') = b \o <<>>
        /\ recv_queue_raw'.len = recv_queue_raw.len + Len(<<>>)
    BY <1>3, <1>12, <2>1, QueueAppended, Zenon
  <2>3. b \in Seq(Nat) /\ Len(b) \in Nat BY <1>3, BytesTyped, Zenon
  <2> HIDE DEF b
  <2>4. b \o <<>> = b BY <2>3, JoinedToNone, Zenon
  <2>5. recv_queue_raw'.len = Len(Bytes(recv_queue_raw'))
    <3>1. recv_queue_raw.len + 0 = recv_queue_raw.len BY <1>8, <2>3 DEF b
    <3> QED BY <1>8, <2>1, <2>2, <2>4, <3>1, Zenon DEF b
  <2>6. /\ wire' = wire /\ to_read' = to_read /\ receiver' = receiver /\ recv_queue' = recv_queue
        /\ reader' = "wait" /\ to_read > 0
        /\ wire = <<>> \/ retries < MaxRetries
        /\ retries' = IF wire = <<>> THEN retries ELSE retries + 1
    BY <1>12, Zenon
  <2>7. Unread' = Unread BY <1>2, <2>6, Zenon DEF Unread
  <2>8. Flatten(Unread') = Bytes(recv_queue_raw') \o (wire' \o t) BY <1>5, <2>2, <2>4, <2>6, <2>7, Zenon DEF b
  <2>9. retries' \in 0..MaxRetries BY <1>3, <2>6, StreamBounds
  <2>10. wire' # <<>> \/ broken
    <3>1. ASSUME ~broken, wire = <<>> PROVE FALSE BY <1>6, <1>7, <2>6, <3>1
    <3> QED BY <2>6, <3>1
  <2>11. Received' BY <1>1, <1>2, <2>6, Zenon DEF Received, Expects
  <2>12. /\ receiver' \in Sockets /\ recv_queue' \in Seq(Seq(Nat)) /\ wire' \in Seq(Nat) /\ Len(wire') <= Len(wire)
         /\ to_read' \in 0..MaxWire /\ (to_read' <= Len(wire') \/ broken)
    BY <1>3, <1>6, <1>7, <2>6, Zenon
  <2> QED BY <1>2, <1>5, <2>2, <2>5, <2>6, <2>8, <2>9, <2>10, <2>11, <2>12, AfterReading, Zenon
<1> QED BY <1>9, <1>10, <1>11, <1>12

----------------------------------------------------------------------------
\* From here on sets are counted.
INSTANCE FiniteSetTheorems

(***************************************************************************)
(* Where payloads end. Only network_mysqld_queue_append() has a say.       *)
(***************************************************************************)
Ends(ss) == {i \in DOMAIN ss : ss[i][1] < PACKET_LEN_MAX}
UpTo(E, i) == {j \in E : j <= i}
Ending(ss, pp) ==
    /\ Cardinality(Ends(ss)) = Len(pp)
    /\ \A i \in Ends(ss) : ss[i][1] = pp[Cardinality(UpTo(Ends(ss), i))] % PACKET_LEN_MAX
    /\ ss # <<>> => Len(ss) \in Ends(ss)

\* PayloadsEnd, as a predicate of what was sent.
LEMMA EndingIs == PayloadsEnd <=> Ending(sent, payloads)
BY Zenon DEF PayloadsEnd, Ending, Ends, UpTo

\* Only finitely many packets end a payload.
LEMMA EndsFinite ==
    ASSUME NEW ss \in Seq(Seq(Nat))
    PROVE  IsFiniteSet(Ends(ss)) /\ \A i \in Ends(ss) : i \in 1..Len(ss)
<1>1. Len(ss) \in Nat /\ DOMAIN ss = 1..Len(ss) BY Indexed, Zenon
<1>2. IsFiniteSet(1..Len(ss)) BY <1>1, FS_Interval
<1>3. Ends(ss) \subseteq 1..Len(ss) BY <1>1, Zenon DEF Ends
<1> QED BY <1>2, <1>3, FS_Subset

\* The packets of one payload end it once, with the last of them.
LEMMA OneMoreEnd ==
    ASSUME NEW ss \in Seq(Seq(Nat)), NEW s \in Sockets, NEW n \in 0..(2 * PACKET_LEN_MAX)
    PROVE  LET ps == PacketsFor(s, n)
               jj == ss \o ps
           IN  /\ Ends(jj) = Ends(ss) \cup {Len(jj)} /\ Len(jj) > Len(ss)
               /\ \A i \in 1..Len(ss) : jj[i] = ss[i]
               /\ jj[Len(jj)][1] = n % PACKET_LEN_MAX
<1> DEFINE ps == PacketsFor(s, n)
           jj == ss \o ps
           a == Len(ss)
           b == Len(ps)
           M == PACKET_LEN_MAX
<1>1. ps \in Seq(Seq(Nat)) /\ b \in Nat \ {0} /\ n % M < M BY PacketsAre, Zenon
<1>2. \A p \in 1..b : ps[p][1] = IF p < b THEN M ELSE n % M BY PacketsAre, Zenon
<1> HIDE DEF ps
<1>3. a \in Nat BY Indexed, Zenon
<1>4. jj \in Seq(Seq(Nat)) /\ Len(jj) = a + b BY <1>1, Joined, Zenon
<1>5. \A i \in 1..a : jj[i] = ss[i] BY <1>1, Joined, SMT
<1>6. \A i \in 1..b : jj[a + i] = ps[i] BY <1>1, Joined, SMT
<1>7. DOMAIN jj = 1..a + b BY <1>4, Indexed, Zenon
<1>8. DOMAIN ss = 1..a BY Indexed, Zenon
<1>9. M \in Nat BY StreamBounds
<1> HIDE DEF jj, a, b, M
<1>10. a + b > a /\ a + b \in 1..a + b /\ b \in 1..b BY <1>1, <1>3
<1>11. jj[a + b][1] = n % M
  <2>1. jj[a + b] = ps[b] /\ ps[b][1] = IF b < b THEN M ELSE n % M BY <1>2, <1>6, <1>10, Zenon
  <2>2. ~(b < b) BY <1>1
  <2> QED BY <2>1, <2>2, Zenon
<1>12. ASSUME NEW i \in Ends(jj) PROVE i \in Ends(ss) \cup {a + b}
  <2>1. i \in 1..a + b /\ jj[i][1] < M BY <1>7, Zenon DEF Ends, M
  <2>2. CASE i <= a
    <3>1. i \in 1..a BY <1>1, <1>3, <2>1, <2>2
    <3> QED BY <1>5, <1>8, <2>1, <3>1, Zenon DEF Ends, M
  <2>3. CASE ~(i <= a) /\ i # a + b
    <3> DEFINE e == i - a
    <3>1. e \in 1..b /\ e < b /\ i = a + e BY <1>1, <1>3, <2>1, <2>3
    <3> HIDE DEF e
    <3>2. jj[i][1] = M BY <1>2, <1>6, <3>1, Zenon
    <3> QED BY <1>9, <2>1, <3>2
  <2> QED BY <2>2, <2>3
<1>13. ASSUME NEW i \in Ends(ss) PROVE i \in Ends(jj)
  <2>1. i \in 1..a /\ ss[i][1] < M BY <1>8, Zenon DEF Ends, M
  <2>2. i \in 1..a + b BY <1>1, <1>3, <2>1
  <2> QED BY <1>5, <1>7, <2>1, <2>2, Zenon DEF Ends, M
<1>14. a + b \in Ends(jj)
  <2>1. jj[a + b][1] < M BY <1>1, <1>11, Zenon
  <2> QED BY <1>7, <1>10, <2>1, Zenon DEF Ends, M
<1>15. Ends(jj) = Ends(ss) \cup {a + b} BY <1>12, <1>13, <1>14
<1> QED BY <1>4, <1>5, <1>10, <1>11, <1>15, Zenon DEF jj, a, b, M, ps

\* One more payload, one more end.
LEMMA EndingAppended ==
    ASSUME NEW ss \in Seq(Seq(Nat)), NEW s \in Sockets, NEW n \in 0..(2 * PACKET_LEN_MAX),
           NEW pp \in Seq(0..(2 * PACKET_LEN_MAX)), Ending(ss, pp)
    PROVE  Ending(ss \o PacketsFor(s, n), Append(pp, n))
<1> DEFINE M == PACKET_LEN_MAX
           jj == ss \o PacketsFor(s, n)
           z == Len(jj)
           qq == Append(pp, n)
           E == Ends(ss)
           F == Ends(jj)
<1>1. F = E \cup {z} /\ z > Len(ss) BY OneMoreEnd, Zenon
<1>2. \A i \in 1..Len(ss) : jj[i] = ss[i] BY OneMoreEnd, Zenon
<1>3. jj[z][1] = n % M BY OneMoreEnd, Zenon
<1>4. IsFiniteSet(E) /\ \A i \in E : i \in 1..Len(ss) BY EndsFinite, Zenon
<1>5. /\ Cardinality(E) = Len(pp)
      /\ \A i \in E : ss[i][1] = pp[Cardinality(UpTo(E, i))] % M
  BY Zenon DEF Ending
<1>6. Len(pp) \in Nat /\ Len(ss) \in Nat BY Indexed, Zenon
<1>7. z \in Nat
  <2>1. PacketsFor(s, n) \in Seq(Seq(Nat)) BY PacketsAre, Zenon
  <2>2. jj \in Seq(Seq(Nat)) BY <2>1, Joined, Zenon
  <2> QED BY <2>2, Indexed, Zenon
<1>8. Len(qq) = Len(pp) + 1 /\ qq[Len(pp) + 1] = n /\ \A c \in 1..Len(pp) : qq[c] = pp[c] OBVIOUS
<1> HIDE DEF M, jj, z, qq, E, F
<1>9. z \notin E BY <1>1, <1>4, <1>6
<1>10. IsFiniteSet(F) /\ Cardinality(F) = Len(pp) + 1 BY <1>1, <1>4, <1>5, <1>9, FS_AddElement, Zenon
<1>11. ASSUME NEW i \in F PROVE jj[i][1] = qq[Cardinality(UpTo(F, i))] % M
  <2>1. CASE i = z
    <3>1. \A j \in F : j <= z BY <1>1, <1>4, <1>6, <1>7
    <3>2. UpTo(F, z) = F BY <3>1, Zenon DEF UpTo
    <3> QED BY <1>3, <1>8, <1>10, <2>1, <3>2, Zenon
  <2>2. CASE i # z
    <3>1. i \in E /\ i \in 1..Len(ss) BY <1>1, <1>4, <2>2, Zenon
    <3>2. ~(z <= i) /\ i <= i BY <1>1, <1>6, <1>7, <3>1
    <3>3. UpTo(F, i) = UpTo(E, i) BY <1>1, <3>2 DEF UpTo
    <3>4. UpTo(E, i) \subseteq E /\ i \in UpTo(E, i) BY <3>1, <3>2, Zenon DEF UpTo
    <3> DEFINE c == Cardinality(UpTo(E, i))
    <3>5. c \in 1..Len(pp)
      <4>1. IsFiniteSet(UpTo(E, i)) /\ c <= Cardinality(E) BY <1>4, <3>4, FS_Subset
      <4>2. c \in Nat BY <4>1, FS_CardinalityType
      <4>3. c # 0 BY <3>4, <4>1, FS_EmptySet
      <4> QED BY <1>5, <1>6, <4>1, <4>2, <4>3
    <3> HIDE DEF c
    <3>6. ss[i][1] = pp[c] % M BY <1>5, <3>1, Zenon DEF c
    <3>7. qq[c] = pp[c] BY <1>8, <3>5, Zenon
    <3>8. jj[i] = ss[i] BY <1>2, <3>1, Zenon
    <3> QED BY <3>3, <3>6, <3>7, <3>8, Zenon DEF c
  <2> QED BY <2>1, <2>2
<1>12. z \in F BY <1>1
<1> QED BY <1>8, <1>10, <1>11, <1>12, Zenon DEF Ending, F, z, jj, qq, M

\* Where payloads end is known after every step.
LEMMA EndingStep ==
    ASSUME StreamTypeOK, PayloadsEnd, [StreamNext]_streamVars
    PROVE  PayloadsEnd'
<1>1. Ending(sent, payloads) BY EndingIs, Zenon
<1>2. sender \in Sockets /\ sent \in Seq(Seq(Nat)) /\ payloads \in Seq(0..(2 * PACKET_LEN_MAX))
  BY Zenon DEF StreamTypeOK
<1>3. Ending(sent', payloads')
  <2>1. ASSUME NEW n \in 0..(2 * PACKET_LEN_MAX), mysqld_queue_append(n) PROVE Ending(sent', payloads')
    <3>1. sent' = sent \o PacketsFor(sender, n) /\ payloads' = Append(payloads, n)
      BY <2>1, Zenon DEF mysqld_queue_append
    <3>2. Ending(sent \o PacketsFor(sender, n), Append(payloads, n)) BY <1>1, <1>2, EndingAppended, Zenon
    <3> QED BY <3>1, <3>2, Zenon
  <2>2. CASE sent' = sent /\ payloads' = payloads BY <1>1, <2>2, Zenon
  <2>3. CASE socket_write BY <2>2, <2>3, Zenon DEF socket_write
  <2>4. CASE Break BY <2>2, <2>4, Zenon DEF Break, sendVars
  <2>5. CASE Readable BY <2>2, <2>5, Zenon DEF Readable, sendVars
  <2>6. CASE mysqld_read BY <2>2, <2>6, Zenon DEF mysqld_read, sendVars
  <2>7. CASE UNCHANGED streamVars BY <2>2, <2>7, Zenon DEF streamVars, sendVars
  <2> QED BY <2>1, <2>3, <2>4, <2>5, <2>6, <2>7, Zenon DEF StreamNext
<1>4. PayloadsEnd' <=> Ending(sent', payloads') BY Zenon DEF PayloadsEnd, Ending, Ends, UpTo
<1> QED BY <1>3, <1>4, Zenon

\* Every step keeps the invariant.
LEMMA StreamStep ==
    ASSUME StreamInv, [StreamNext]_streamVars
    PROVE  StreamInv'
<1>1. ASSUME NEW n \in 0..(2 * PACKET_LEN_MAX), mysqld_queue_append(n) PROVE StreamInv'
  BY <1>1, QueueAppendStep, Zenon
<1>2. CASE socket_write BY <1>2, WriteStep, Zenon
<1>3. CASE Break BY <1>3, BreakStep, Zenon
<1>4. CASE Readable BY <1>4, ReadableStep, Zenon
<1>5. CASE mysqld_read BY <1>5, ReadStep, Zenon
<1>6. CASE UNCHANGED streamVars
  <2>1. /\ sender' = sender /\ send_queue' = send_queue /\ payloads' = payloads /\ sent' = sent /\ wire' = wire
        /\ broken' = broken /\ receiver' = receiver /\ to_read' = to_read /\ recv_queue_raw' = recv_queue_raw
        /\ recv_queue' = recv_queue /\ reader' = reader /\ retries' = retries
    BY <1>6, Zenon DEF streamVars, sendVars, recvVars
  <2>2. StreamTypeOK /\ OnTheWay /\ Signed /\ Received /\ LensHold /\ Promised /\ NoPacketStranded
    BY Zenon DEF StreamInv
  <2>3. OnTheWay'
    <3>1. PICK t \in Seq(Nat) : Onward(t) BY <2>2, Zenon DEF OnTheWay
    <3>2. Onward(t)' BY <2>1, <3>1, Zenon DEF Onward, Unread
    <3> QED BY <3>2, Zenon DEF OnTheWay
  <2>4. StreamTypeOK' BY <2>1, <2>2, Zenon DEF StreamTypeOK
  <2>5. Signed' /\ Received' BY <2>1, <2>2, Zenon DEF Signed, Received, Expects
  <2>6. LensHold' /\ Promised' BY <2>1, <2>2, Zenon DEF LensHold, Promised
  <2>7. NoPacketStranded' BY <2>1, <2>2, Zenon DEF NoPacketStranded
  <2> QED BY <2>3, <2>4, <2>5, <2>6, <2>7, Zenon DEF StreamInv
<1> QED BY <1>1, <1>2, <1>3, <1>4, <1>5, <1>6, Zenon DEF StreamNext

\* The bytes of what was sent are in one place each.
LEMMA BytesAreSomewhere ==
    ASSUME StreamInv, ~broken
    PROVE  Flatten(sent) = Flatten(recv_queue) \o Bytes(recv_queue_raw) \o wire \o Bytes(send_queue)
<1> DEFINE k == Len(recv_queue)
           f == Flatten(recv_queue)
           b == Bytes(recv_queue_raw)
           s == Bytes(send_queue)
<1>1. StreamTypeOK /\ OnTheWay /\ Received BY Zenon DEF StreamInv
<1>2. /\ recv_queue_raw \in Queues /\ send_queue \in Queues /\ wire \in Seq(Nat)
      /\ recv_queue \in Seq(Seq(Nat)) /\ sent \in Seq(Seq(Nat))
  BY <1>1, Zenon DEF StreamTypeOK
<1>3. recv_queue = SubSeq(sent, 1, k) /\ k <= Len(sent) BY <1>1, Zenon DEF Received
<1>4. k \in 0..Len(sent)
  <2>1. k \in Nat /\ Len(sent) \in Nat BY <1>2, Indexed, Zenon
  <2> QED BY <1>3, <2>1
<1>5. Flatten(sent) = Flatten(SubSeq(sent, 1, k)) \o Flatten(SubSeq(sent, k + 1, Len(sent)))
  BY <1>2, <1>4, FlattenCut, Zenon
<1>6. Flatten(sent) = f \o Flatten(Unread) BY <1>3, <1>5, Zenon DEF Unread
<1>7. Flatten(Unread) = b \o (wire \o s) BY <1>1, Zenon DEF OnTheWay, Onward
<1>8. f \in Seq(Nat) /\ b \in Seq(Nat) /\ s \in Seq(Nat) BY <1>2, FlattenTyped, BytesTyped, Zenon
<1> HIDE DEF f, b, s
<1>9. wire \o s \in Seq(Nat) /\ f \o b \in Seq(Nat) BY <1>2, <1>8, Joined, Zenon
<1>10. Regroups(f, b, wire \o s) /\ Regroups(f \o b, wire, s) BY <1>2, <1>8, <1>9, JoinedThree, Zenon
<1>11. f \o (b \o (wire \o s)) = ((f \o b) \o wire) \o s BY <1>10, Zenon DEF Regroups
<1> QED BY <1>6, <1>7, <1>11, Zenon DEF f, b, s

\* The invariant holds always.
LEMMA StreamAlways == StreamSpec => []StreamInv
<1>1. StreamInit => StreamInv BY StreamStarts
<1>2. StreamInv /\ [StreamNext]_streamVars => StreamInv' BY StreamStep
<1> QED BY <1>1, <1>2, PTL DEF StreamSpec

\* Whatever the pieces in which the bytes are written and read, the receiver
\* gets the packets as they were sent, in the order in which they were sent,
\* and is never "out of sync" (network_mysqld_con_get_packet()).
THEOREM PacketsArriveInOrder == StreamSpec => []PacketsInOrder
<1>1. StreamInv => PacketsInOrder BY Zenon DEF StreamInv, Received, Promised, PacketsInOrder
<1> QED BY <1>1, StreamAlways, PTL

\* The handler never waits for EV_READ with a complete packet in recv_queue_raw
\* and nothing on the wire.
THEOREM NoPacketIsLeftBehind == StreamSpec => []NoPacketStranded
<1>1. StreamInv => NoPacketStranded BY Zenon DEF StreamInv
<1> QED BY <1>1, StreamAlways, PTL

\* In a build with writev() every byte sent is received, raw, on the wire or
\* still to be sent, in this order, and queue->len of both queues counts
\* what they hold.
THEOREM EveryByteIsSomewhere ==
    ASSUME HAVE_WRITEV
    PROVE  StreamSpec => []NothingLost
<1>1. ASSUME StreamInv PROVE NothingLost
  <2>1. LenIsExact BY <1>1, Zenon DEF StreamInv, LensHold, LenIsExact
  <2>2. ~broken => Flatten(sent) = Flatten(recv_queue) \o Bytes(recv_queue_raw) \o wire \o Bytes(send_queue)
    BY <1>1, BytesAreSomewhere, Zenon
  <2> QED BY <2>1, <2>2, Zenon DEF NothingLost
<1>2. StreamInv => NothingLost BY <1>1
<1> QED BY <1>2, StreamAlways, PTL

\* A packet of PACKET_LEN_MAX is always continued and any other ends a
\* payload, the length of which it tells modulo PACKET_LEN_MAX: the loop of
\* network_mysqld_queue_append() splits every payload so that it can be put
\* together again.
THEOREM PayloadsCanBePutTogether == StreamSpec => []PayloadsEnd
<1>1. StreamInit => PayloadsEnd
  <2> SUFFICES ASSUME StreamInit PROVE PayloadsEnd OBVIOUS
  <2>1. sent = <<>> /\ payloads = <<>> BY Zenon DEF StreamInit
  <2>2. Len(<<>>) = 0 /\ DOMAIN <<>> = {} OBVIOUS
  <2>3. Ends(sent) = {} BY <2>1, <2>2 DEF Ends
  <2>4. Cardinality({}) = 0 BY FS_EmptySet
  <2>5. Ending(sent, payloads) BY <2>1, <2>2, <2>3, <2>4, Zenon DEF Ending
  <2> QED BY <2>5, EndingIs, Zenon
<1>2. PayloadsEnd /\ StreamTypeOK /\ [StreamNext]_streamVars => PayloadsEnd' BY EndingStep
<1>3. StreamInv => StreamTypeOK BY Zenon DEF StreamInv
<1> QED BY <1>1, <1>2, <1>3, StreamAlways, PTL DEF StreamSpec
=============================================================================
