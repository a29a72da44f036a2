--------------------------- MODULE BackendsProofs ---------------------------
(***************************************************************************)
(* ClientsCounted for any number of connections and backends, as long as   *)
(* the script chooses no backend that is DOWN; and WokenLate, as long as   *)
(* it sets none DOWN.                                                      *)
(***************************************************************************)
EXTENDS Backends, FiniteSetTheorems, SequenceTheorems, TLAPS

\* What a step of a hook works on, and what a connection adds to the count of a backend.
Heres == [clients : [Bs -> 0..G_MAXUINT], pool : [Bs -> Seq(Bs)], con : Connections]
One(sock, b) == IF sock = b THEN 1 ELSE 0
Home(p) == \A b \in Bs : \A i \in DOMAIN p[b] : p[b][i] = b

\* The counters of g are what the other connections add to them (others) and this one.
Balanced(g, others) ==
    /\ g \in Heres /\ Home(g.pool)
    /\ \A b \in Bs : g.clients[b] = others[b] + One(g.con.sock, b)
    /\ g.con.sock # None => g.con.backend = g.con.sock

\* The others are fewer than a guint can count.
Countable(others) == others \in [Bs -> Nat] /\ \A b \in Bs : others[b] < G_MAXUINT

-----------------------------------------------------------------------------
\* One more and one less, which do not wrap.
LEMMA PlusMinus ==
    ASSUME NEW k \in 0..G_MAXUINT
    PROVE  /\ k < G_MAXUINT => (k + 1) % (G_MAXUINT + 1) = k + 1
           /\ k > 0 => (k + G_MAXUINT) % (G_MAXUINT + 1) = k - 1
BY BackendsAssumption, SMT

\* connected_clients++ adds one client to b and changes nothing else.
LEMMA PlusCounts ==
    ASSUME NEW g \in Heres, NEW b \in Bs, g.clients[b] < G_MAXUINT
    PROVE  /\ Plus(g, b) \in Heres
           /\ Plus(g, b).pool = g.pool /\ Plus(g, b).con = g.con
           /\ \A x \in Bs : Plus(g, b).clients[x] = g.clients[x] + One(b, x)
<1>1. /\ Plus(g, b).pool = g.pool /\ Plus(g, b).con = g.con
      /\ Plus(g, b).clients = [g.clients EXCEPT ![b] = (@ + 1) % (G_MAXUINT + 1)]
  BY DEF Plus, Heres
<1>2. g.clients \in [Bs -> 0..G_MAXUINT]
  BY DEF Heres
<1>3. (g.clients[b] + 1) % (G_MAXUINT + 1) = g.clients[b] + 1
  BY <1>2, PlusMinus
<1>4. Plus(g, b).clients = [g.clients EXCEPT ![b] = g.clients[b] + 1]
  BY <1>1, <1>3
<1>5. Plus(g, b).clients \in [Bs -> 0..G_MAXUINT]
  BY <1>2, <1>4, BackendsAssumption
<1>6. \A x \in Bs : Plus(g, b).clients[x] = g.clients[x] + One(b, x)
  BY <1>2, <1>4 DEF One
<1>7. ASSUME NEW f \in [Bs -> 0..G_MAXUINT] PROVE [g EXCEPT !.clients = f] \in Heres
  BY Zenon DEF Heres
<1>8. Plus(g, b) = [g EXCEPT !.clients = Plus(g, b).clients]
  BY DEF Plus, Heres
<1>9. Plus(g, b) \in Heres
  BY <1>5, <1>7, <1>8, Zenon
<1> QED
  BY <1>1, <1>6, <1>9

\* connected_clients-- takes one client from b, which has one, and changes nothing else.
LEMMA MinusCounts ==
    ASSUME NEW g \in Heres, NEW b \in Bs, g.clients[b] > 0
    PROVE  /\ Minus(g, b) \in Heres
           /\ Minus(g, b).pool = g.pool /\ Minus(g, b).con = g.con
           /\ \A x \in Bs : Minus(g, b).clients[x] = g.clients[x] - One(b, x)
<1>1. /\ Minus(g, b).pool = g.pool /\ Minus(g, b).con = g.con
      /\ Minus(g, b).clients = [g.clients EXCEPT ![b] = (@ + G_MAXUINT) % (G_MAXUINT + 1)]
  BY DEF Minus, Heres
<1>2. g.clients \in [Bs -> 0..G_MAXUINT]
  BY DEF Heres
<1>3. (g.clients[b] + G_MAXUINT) % (G_MAXUINT + 1) = g.clients[b] - 1
  BY <1>2, PlusMinus
<1>4. Minus(g, b).clients = [g.clients EXCEPT ![b] = g.clients[b] - 1]
  BY <1>1, <1>3
<1>5. Minus(g, b).clients \in [Bs -> 0..G_MAXUINT]
  BY <1>2, <1>4, BackendsAssumption
<1>6. \A x \in Bs : Minus(g, b).clients[x] = g.clients[x] - One(b, x)
  BY <1>2, <1>4 DEF One
<1>7. ASSUME NEW f \in [Bs -> 0..G_MAXUINT] PROVE [g EXCEPT !.clients = f] \in Heres
  BY Zenon DEF Heres
<1>8. Minus(g, b) = [g EXCEPT !.clients = Minus(g, b).clients]
  BY DEF Minus, Heres
<1>9. Minus(g, b) \in Heres
  BY <1>5, <1>7, <1>8, Zenon
<1> QED
  BY <1>1, <1>6, <1>9

\* A step changes the pool and the connection.
With(g, p, k) == [g EXCEPT !.pool = p, !.con = k]

\* What is left of the fields of a record when the pool and the connection are replaced.
LEMMA HereWith ==
    ASSUME NEW g \in Heres, NEW p \in [Bs -> Seq(Bs)], NEW k \in Connections
    PROVE  /\ With(g, p, k) \in Heres
           /\ With(g, p, k).clients = g.clients
           /\ With(g, p, k).pool = p
           /\ With(g, p, k).con = k
BY Zenon DEF Heres, With

\* What the pool of b holds after an append and a removal.
LEMMA AppendHome ==
    ASSUME NEW q \in Seq(Bs), NEW b \in Bs, \A i \in DOMAIN q : q[i] = b
    PROVE  Append(q, b) \in Seq(Bs) /\ \A i \in DOMAIN Append(q, b) : Append(q, b)[i] = b
OBVIOUS

\* g_queue_remove() leaves the sockets of b only.
LEMMA RemoveHome ==
    ASSUME NEW q \in Seq(Bs), NEW b \in Bs, \A i \in DOMAIN q : q[i] = b, NEW n \in DOMAIN q
    PROVE  RemoveNth(q, n) \in Seq(Bs) /\ \A i \in DOMAIN RemoveNth(q, n) : RemoveNth(q, n)[i] = b
<1>1. q \in Seq({b}) /\ n \in 1..Len(q) /\ Len(q) \in Nat
  OBVIOUS
<1>2. SubSeq(q, 1, n - 1) \in Seq({b})
  <2>1. 1 \in Int /\ n - 1 \in Int /\ \A i \in 1..(n - 1) : q[i] \in {b}
    BY <1>1
  <2> QED
    BY <2>1, SubSeqProperties, Zenon
<1>3. SubSeq(q, n + 1, Len(q)) \in Seq({b})
  <2>1. n + 1 \in Int /\ Len(q) \in Int /\ \A i \in (n + 1)..Len(q) : q[i] \in {b}
    BY <1>1
  <2> QED
    BY <2>1, SubSeqProperties, Zenon
<1>4. RemoveNth(q, n) \in Seq({b})
  <2>1. SubSeq(q, 1, n - 1) \o SubSeq(q, n + 1, Len(q)) \in Seq({b})
    BY <1>2, <1>3, ConcatProperties, Zenon
  <2> QED
    BY <2>1 DEF RemoveNth
<1> HIDE DEF RemoveNth
<1>5. ASSUME NEW s \in Seq({b}) PROVE s \in Seq(Bs) /\ \A i \in DOMAIN s : s[i] = b
  OBVIOUS
<1> QED
  BY <1>4, <1>5, Zenon

\* The connection gives its server to the pool: it is counted no longer.
LEMMA AddBalanced ==
    ASSUME NEW others, Countable(others), NEW g, Balanced(g, others)
    PROVE  /\ Balanced(add_connection(g), others)
           /\ add_connection(g).con.sock = None
           /\ add_connection(g).con.at = g.con.at
           /\ g.con.backend = g.con.sock => add_connection(g).con.backend = None
           /\ g.con.sock = None => add_connection(g) = g
           /\ g.con.sock # None => add_connection(g).con.backend = None
<1>1. CASE g.con.sock = None
  BY <1>1 DEF add_connection
<1>2. CASE g.con.sock # None
  <2> DEFINE b == g.con.backend
             m == Minus(g, b)
             p == [m.pool EXCEPT ![b] = Append(@, g.con.sock)]
             k == [m.con EXCEPT !.sock = None, !.backend = None, !.ndx = None]
  <2>1. g \in Heres /\ g.con \in Connections /\ g.con.sock \in Bs /\ b = g.con.sock /\ b \in Bs
    BY <1>2 DEF Balanced, Heres, Connections
  <2>2. None \notin Bs
    BY DEF None, Bs
  <2>3. g.clients[b] > 0
    BY <2>1 DEF Balanced, Countable, One
  <2>4. /\ m \in Heres /\ m.pool = g.pool /\ m.con = g.con
        /\ \A x \in Bs : m.clients[x] = g.clients[x] - One(b, x)
    BY <2>1, <2>3, MinusCounts
  <2>5. add_connection(g) = With(m, p, k)
    BY <1>2, Zenon DEF add_connection, With
  <2> HIDE DEF m
  <2>6. p \in [Bs -> Seq(Bs)] /\ Home(p)
    <3>1. m.pool \in [Bs -> Seq(Bs)] /\ Home(m.pool)
      BY <2>1, <2>4 DEF Balanced, Heres
    <3>2. m.pool[b] \in Seq(Bs)
      BY <2>1, <3>1
    <3>3. \A i \in DOMAIN m.pool[b] : m.pool[b][i] = b
      BY <2>1, <3>1 DEF Home
    <3>4. /\ Append(m.pool[b], g.con.sock) \in Seq(Bs)
          /\ \A i \in DOMAIN Append(m.pool[b], g.con.sock) : Append(m.pool[b], g.con.sock)[i] = b
      BY <2>1, <3>2, <3>3, AppendHome
    <3>5. \A x \in Bs : p[x] = IF x = b THEN Append(m.pool[b], g.con.sock) ELSE m.pool[x]
      BY <2>1, <3>1
    <3>6. p \in [Bs -> Seq(Bs)]
      BY <3>1, <3>4, Zenon
    <3> HIDE DEF p
    <3> QED
      BY <3>1, <3>4, <3>5, <3>6, Zenon DEF Home
  <2>7. k \in Connections /\ k.sock = None /\ k.backend = None /\ k.at = g.con.at
    BY <2>1, <2>4, Zenon DEF Connections
  <2> HIDE DEF p, k
  <2>8. /\ add_connection(g) \in Heres /\ add_connection(g).clients = m.clients
        /\ add_connection(g).pool = p /\ add_connection(g).con = k
    BY <2>4, <2>5, <2>6, <2>7, HereWith
  <2>9. \A x \in Bs : m.clients[x] = others[x] + One(None, x)
    BY <2>1, <2>2, <2>4 DEF Balanced, Countable, One
  <2> QED
    BY <1>2, <2>6, <2>7, <2>8, <2>9 DEF Balanced
<1> QED
  BY <1>1, <1>2

\* The connection takes the i-th idle socket of backend b, and gives back its own.
LEMMA SwapBalanced ==
    ASSUME NEW others, Countable(others), NEW g, Balanced(g, others),
           NEW b \in Bs, NEW i \in DOMAIN g.pool[b]
    PROVE  /\ Balanced(swap(g, b, i), others)
           /\ swap(g, b, i).con.sock = b /\ swap(g, b, i).con.backend = b
           /\ swap(g, b, i).con.ndx = b /\ swap(g, b, i).con.at = g.con.at
<1> DEFINE p == [g.pool EXCEPT ![b] = RemoveNth(@, i)]
           t == With(g, p, g.con)
           a == add_connection(t)
           n == Plus(a, b)
           k == [n.con EXCEPT !.backend = b, !.ndx = b, !.sock = g.pool[b][i]]
<1>1. swap(g, b, i) = With(n, n.pool, k)
  BY Zenon DEF swap, With
<1>2. g \in Heres /\ g.con \in Connections /\ g.pool \in [Bs -> Seq(Bs)] /\ Home(g.pool)
  BY DEF Balanced, Heres
<1>3. g.pool[b] \in Seq(Bs) /\ g.pool[b][i] = b /\ \A j \in DOMAIN g.pool[b] : g.pool[b][j] = b
  BY <1>2 DEF Home
<1>4. p \in [Bs -> Seq(Bs)] /\ Home(p)
  <2>1. /\ RemoveNth(g.pool[b], i) \in Seq(Bs)
        /\ \A j \in DOMAIN RemoveNth(g.pool[b], i) : RemoveNth(g.pool[b], i)[j] = b
    BY <1>3, RemoveHome
  <2>2. \A x \in Bs : p[x] = IF x = b THEN RemoveNth(g.pool[b], i) ELSE g.pool[x]
    BY <1>2
  <2>3. p \in [Bs -> Seq(Bs)]
    BY <1>2, <2>1
  <2> HIDE DEF p
  <2> QED
    BY <1>2, <2>1, <2>2, <2>3, Zenon DEF Home
<1> HIDE DEF p
<1>5. t \in Heres /\ t.clients = g.clients /\ t.pool = p /\ t.con = g.con
  BY <1>2, <1>4, Zenon DEF With, Heres
<1> HIDE DEF t
<1>6. Balanced(t, others)
  BY <1>4, <1>5 DEF Balanced
<1>7. Balanced(a, others) /\ a.con.sock = None /\ a.con.at = g.con.at
  BY <1>5, <1>6, AddBalanced
<1> HIDE DEF a
<1>8. a \in Heres /\ a.clients[b] < G_MAXUINT
  <2>1. a.clients[b] = others[b] + One(None, b)
    BY <1>7 DEF Balanced
  <2>2. One(None, b) = 0
    BY DEF One, None, Bs
  <2> QED
    BY <1>7, <2>1, <2>2 DEF Balanced, Countable
<1>9. /\ n \in Heres /\ n.pool = a.pool /\ n.con = a.con
      /\ \A x \in Bs : n.clients[x] = a.clients[x] + One(b, x)
  BY <1>8, PlusCounts
<1> HIDE DEF n
<1>10. n.pool \in [Bs -> Seq(Bs)] /\ n.con \in Connections
  BY <1>9 DEF Heres
<1>11. k \in Connections /\ k.sock = b /\ k.backend = b /\ k.ndx = b /\ k.at = g.con.at
  BY <1>3, <1>7, <1>9, <1>10, Zenon DEF Connections
<1> HIDE DEF k
<1>12. /\ With(n, n.pool, k) \in Heres /\ With(n, n.pool, k).clients = n.clients
       /\ With(n, n.pool, k).pool = n.pool /\ With(n, n.pool, k).con = k
  BY <1>9, <1>10, <1>11, HereWith
<1>13. \A x \in Bs : n.clients[x] = others[x] + One(b, x)
  <2>1. \A x \in Bs : One(None, x) = 0
    BY DEF One, None, Bs
  <2>2. \A x \in Bs : a.clients[x] = others[x] + One(None, x)
    BY <1>7 DEF Balanced
  <2> QED
    BY <1>9, <2>1, <2>2 DEF Countable
<1> QED
  BY <1>1, <1>7, <1>9, <1>11, <1>12, <1>13 DEF Balanced

\* The first of the backends with the fewest clients is a backend.
LEMMA ShortestIsBackend ==
    ASSUME NEW g, NEW states PROVE ShortestQueue(g, states) \in Bs \cup {None}
<1> DEFINE fewest == {b \in Eligible(g, states) :
                        \A o \in Eligible(g, states) : g.clients[b] <= g.clients[o]}
<1>1. fewest \subseteq Bs /\ Bs \subseteq Nat
  BY DEF Eligible, Bs
<1>2. CASE fewest = {}
  BY <1>2 DEF ShortestQueue
<1>3. CASE fewest # {}
  <2> HIDE DEF fewest
  <2>1. \E b \in fewest : \A o \in fewest : <<o, b>> \notin OpToRel(<, Nat)
    BY <1>1, <1>3, NatLessThanWellFounded, WFMin, Zenon
  <2>2. \E b \in fewest : \A o \in fewest : b <= o
    <3>1. \A o, b \in Nat : o < b => <<o, b>> \in OpToRel(<, Nat)
      BY DEF OpToRel
    <3>2. \A o, b \in Nat : o < b \/ b <= o
      OBVIOUS
    <3> QED
      BY <1>1, <2>1, <3>1, <3>2, Zenon
  <2>3. (CHOOSE b \in fewest : \A o \in fewest : b <= o) \in fewest
    BY <2>2
  <2> QED
    BY <1>1, <1>3, <2>3 DEF ShortestQueue, fewest
<1> QED
  BY <1>2, <1>3

-----------------------------------------------------------------------------
\* A connection that has no server knows no backend, and the other way round.
Agrees(k) == k.backend = k.sock

\* What a script does in a hook; it leaves the index alone, or sets it to a backend that
\* is not DOWN.
LEMMA ScriptedBalanced ==
    ASSUME Script # "free", NEW others, Countable(others), NEW g, Balanced(g, others),
           Agrees(g.con), NEW states, NEW h \in Scripted(g, states)
    PROVE  /\ Balanced(h, others) /\ Agrees(h.con) /\ h.con.at = g.con.at
           /\ \/ h = g
              \/ h.con.ndx \in Bs /\ states[h.con.ndx] # "DOWN"
<1>1. CASE h = g
  BY <1>1
<1>2. CASE h # g
  <2>1. Script = "careful" /\ \E b \in Bs : states[b] # "DOWN" /\ h \in connection_set(g, b)
    BY <1>2, BackendsAssumption DEF Scripted
  <2>2. PICK b \in Bs : states[b] # "DOWN" /\ h \in connection_set(g, b)
    BY <2>1
  <2>3. CASE \E j \in DOMAIN g.pool[b] : h = swap(g, b, j)
    <3>1. PICK j \in DOMAIN g.pool[b] : h = swap(g, b, j)
      BY <2>3
    <3> QED
      BY <2>2, <3>1, SwapBalanced DEF Agrees
  <2>4. CASE h = [g EXCEPT !.con.ndx = b]
    <3> DEFINE k == [g.con EXCEPT !.ndx = b]
    <3>1. g \in Heres /\ g.pool \in [Bs -> Seq(Bs)] /\ g.con \in Connections
      BY DEF Balanced, Heres
    <3>2. h = With(g, g.pool, k)
      BY <2>4, <3>1, Zenon DEF With, Heres
    <3>3. /\ k \in Connections /\ k.ndx = b /\ k.at = g.con.at
          /\ k.sock = g.con.sock /\ k.backend = g.con.backend
      BY <3>1, Zenon DEF Connections
    <3> HIDE DEF k
    <3>4. h \in Heres /\ h.clients = g.clients /\ h.pool = g.pool /\ h.con = k
      BY <3>1, <3>2, <3>3, HereWith
    <3> QED
      BY <2>2, <3>3, <3>4 DEF Balanced, Agrees
  <2> QED
    BY <2>2, <2>3, <2>4 DEF connection_set
<1> QED
  BY <1>1, <1>2

\* Nor does a hook that may drop the backend, behind the login.
LEMMA DroppedBalanced ==
    ASSUME Script # "free", NEW others, Countable(others), NEW g, Balanced(g, others),
           Agrees(g.con), NEW states, NEW h \in ScriptedOrDropped(g, states)
    PROVE  Balanced(h, others) /\ Agrees(h.con) /\ h.con.at = g.con.at
<1>1. CASE h \in Scripted(g, states)
  BY <1>1, ScriptedBalanced
<1>2. CASE h = add_connection(g)
  BY <1>2, AddBalanced DEF Agrees
<1> QED
  BY <1>1, <1>2 DEF ScriptedOrDropped

\* The backend a connect goes to.  The connection had none when the script was asked.
LEMMA PickedBalanced ==
    ASSUME NEW others, Countable(others), NEW h, Balanced(h, others), Agrees(h.con), NEW states,
           NEW use_pooled \in BOOLEAN,
           (h.con.ndx = None /\ h.con.sock = None) \/ (h.con.ndx \in Bs /\ states[h.con.ndx] # "DOWN")
    PROVE  LET p == Picked(h, states, use_pooled)
           IN  Balanced(p, others) /\ p.con.at = h.con.at
<1> DEFINE ndx == h.con.ndx
           kept == IF use_pooled THEN h ELSE add_connection(h)
           best == IF ndx # None THEN ndx ELSE ShortestQueue(kept, states)
           backend == IF ndx # None
                      THEN IF kept.con.backend = None THEN ndx ELSE kept.con.backend
                      ELSE IF best # None THEN best ELSE kept.con.backend
           k == [kept.con EXCEPT !.ndx = best, !.backend = backend]
<1>1. Picked(h, states, use_pooled) = [kept EXCEPT !.con.ndx = best, !.con.backend = backend]
  BY Zenon DEF Picked
<1>2. None \notin Bs
  BY DEF None, Bs
<1>3. /\ Balanced(kept, others) /\ Agrees(kept.con) /\ kept.con.at = h.con.at
      /\ ndx = None => kept.con.sock = None
  BY AddBalanced, <1>2 DEF Agrees
<1>4. best \in Bs \cup {None}
  BY ShortestIsBackend
<1> HIDE DEF kept, best
<1>5. kept \in Heres /\ kept.pool \in [Bs -> Seq(Bs)] /\ kept.con \in Connections
  BY <1>3 DEF Balanced, Heres
<1>6. backend \in Bs \cup {None} /\ (kept.con.sock # None => backend = kept.con.sock)
  BY <1>3, <1>4, <1>5 DEF Agrees, Connections
<1> HIDE DEF backend
<1>7. Picked(h, states, use_pooled) = With(kept, kept.pool, k)
  BY <1>1, <1>5, Zenon DEF With, Heres
<1>8. k \in Connections /\ k.at = h.con.at /\ k.sock = kept.con.sock /\ k.backend = backend
  BY <1>3, <1>4, <1>5, <1>6, ZenonT(60) DEF Connections
<1> HIDE DEF k
<1>9. /\ With(kept, kept.pool, k) \in Heres /\ With(kept, kept.pool, k).clients = kept.clients
      /\ With(kept, kept.pool, k).pool = kept.pool /\ With(kept, kept.pool, k).con = k
  BY <1>5, <1>8, HereWith
<1> QED
  BY <1>3, <1>6, <1>7, <1>8, <1>9 DEF Balanced

-----------------------------------------------------------------------------
\* What the server socket of a connection tells of where the connection is.
Settled(k) ==
    /\ k.at \in {"new", "closed", "refused"} => k.sock = None
    /\ k.at = "refused" => k.backend = None
    /\ k.at = "up" => Agrees(k)
    /\ k.at = "pending" => Agrees(k) /\ k.sock # None

\* The inductive invariant.  The counters and the sockets have to be kept together: a
\* counter is right after a swap only if the connection knew the backend it came from.
IInv ==
    /\ clients \in [Bs -> 0..G_MAXUINT] /\ pool \in [Bs -> Seq(Bs)]
    /\ con \in [Cons -> Connections]
    /\ Home(pool)
    /\ \A c \in Cons : Settled(con[c])
    /\ ClientsCounted

\* The connections without c that are counted for a backend, and what c adds to them.
Counted(k, S, b) == {d \in S : k[d].at = "up" /\ k[d].sock = b}
But(k, c) == [b \in Bs |-> Cardinality(Counted(k, Cons \ {c}, b))]
Adds(k, b) == IF k.at = "up" THEN One(k.sock, b) ELSE 0

\* There are fewer connections than a guint can count.
LEMMA CountedFinite ==
    ASSUME NEW k, NEW S \in SUBSET Cons, NEW b
    PROVE  /\ IsFiniteSet(Counted(k, S, b)) /\ Cardinality(Counted(k, S, b)) \in Nat
           /\ Cardinality(Counted(k, S, b)) < G_MAXUINT
<1>1. Counted(k, S, b) \subseteq Cons /\ IsFiniteSet(Cons) /\ Cardinality(Cons) < G_MAXUINT
  BY BackendsAssumption DEF Counted
<1>2. /\ IsFiniteSet(Counted(k, S, b))
      /\ Cardinality(Counted(k, S, b)) <= Cardinality(Cons)
  BY <1>1, FS_Subset
<1>3. Cardinality(Counted(k, S, b)) \in Nat /\ Cardinality(Cons) \in Nat
  BY <1>1, <1>2, FS_CardinalityType
<1> QED
  BY <1>1, <1>2, <1>3, BackendsAssumption

\* So the connections besides c leave room for c.
LEMMA ButCountable ==
    ASSUME NEW k, NEW c \in Cons PROVE Countable(But(k, c))
<1>1. Cons \ {c} \in SUBSET Cons
  OBVIOUS
<1>2. \A b \in Bs : /\ Cardinality(Counted(k, Cons \ {c}, b)) \in Nat
                     /\ Cardinality(Counted(k, Cons \ {c}, b)) < G_MAXUINT
  BY <1>1, CountedFinite
<1> QED
  BY <1>2 DEF Countable, But

\* A count is what the others add to it and what c adds to it.
LEMMA CountedSplits ==
    ASSUME NEW k, NEW c \in Cons, NEW b \in Bs
    PROVE  Cardinality(Counted(k, Cons, b)) = But(k, c)[b] + Adds(k[c], b)
<1> DEFINE S == Counted(k, Cons \ {c}, b)
<1>1. IsFiniteSet(S) /\ Cardinality(S) \in Nat /\ c \notin S
  <2>1. Cons \ {c} \in SUBSET Cons /\ c \notin S
    BY DEF Counted
  <2> QED
    BY <2>1, CountedFinite
<1>2. But(k, c)[b] = Cardinality(S)
  BY DEF But
<1>3. CASE k[c].at = "up" /\ k[c].sock = b
  <2>1. Counted(k, Cons, b) = S \cup {c}
    BY <1>3 DEF Counted
  <2>2. Cardinality(S \cup {c}) = Cardinality(S) + 1
    BY <1>1, FS_AddElement, Zenon
  <2> QED
    BY <1>2, <1>3, <2>1, <2>2 DEF Adds, One
<1>4. CASE ~(k[c].at = "up" /\ k[c].sock = b)
  <2>1. Counted(k, Cons, b) = S
    BY <1>4 DEF Counted
  <2>2. Adds(k[c], b) = 0
    BY <1>4 DEF Adds, One
  <2> QED
    BY <1>1, <1>2, <2>1, <2>2
<1> QED
  BY <1>3, <1>4

\* Storing what a hook made of one connection keeps the invariant, if the counters are
\* what the other connections and this one add up to.
LEMMA StoreKeeps ==
    ASSUME IInv, NEW c \in Cons, NEW g \in Heres, Home(g.pool), Settled(g.con),
           \A b \in Bs : g.clients[b] = But(con, c)[b] + Adds(g.con, b),
           Store(c, g)
    PROVE  IInv'
<1>1. /\ clients' = g.clients /\ pool' = g.pool /\ con' = [con EXCEPT ![c] = g.con]
  BY DEF Store
<1>2. g.clients \in [Bs -> 0..G_MAXUINT] /\ g.pool \in [Bs -> Seq(Bs)] /\ g.con \in Connections
  BY DEF Heres
<1>3. con' \in [Cons -> Connections] /\ \A d \in Cons : con'[d] = IF d = c THEN g.con ELSE con[d]
  BY <1>1, <1>2 DEF IInv
<1>4. \A d \in Cons : Settled(con'[d])
  BY <1>3 DEF IInv
<1>5. ASSUME NEW b \in Bs
      PROVE  clients'[b] = Cardinality(Counted(con', Cons, b))
  <2>1. Counted(con', Cons \ {c}, b) = Counted(con, Cons \ {c}, b)
    BY <1>3 DEF Counted
  <2>2. But(con', c)[b] = But(con, c)[b]
    BY <2>1 DEF But
  <2>3. Cardinality(Counted(con', Cons, b)) = But(con', c)[b] + Adds(con'[c], b)
    BY CountedSplits
  <2> QED
    BY <1>1, <1>3, <2>2, <2>3
<1>6. ClientsCounted'
  BY <1>5 DEF ClientsCounted, Counted
<1> QED
  BY <1>1, <1>2, <1>3, <1>4, <1>6 DEF IInv

\* What c adds now, so that the hooks have a balance to keep.
LEMMA HereCounts ==
    ASSUME IInv, NEW c \in Cons
    PROVE  /\ Here(c) \in Heres /\ Home(Here(c).pool) /\ Here(c).con = con[c]
           /\ \A b \in Bs : Here(c).clients[b] = But(con, c)[b] + Adds(con[c], b)
<1>1. Here(c) \in Heres /\ Here(c).clients = clients /\ Here(c).pool = pool /\ Here(c).con = con[c]
  BY DEF Here, Heres, IInv
<1>2. \A b \in Bs : clients[b] = Cardinality(Counted(con, Cons, b))
  BY DEF IInv, ClientsCounted, Counted
<1> QED
  BY <1>1, <1>2, CountedSplits DEF IInv

\* A hook that ends in another state k of the connection.
LEMMA ConKeeps ==
    ASSUME IInv, NEW c \in Cons, NEW g \in Heres, Home(g.pool), NEW k \in Connections, Settled(k),
           \A b \in Bs : g.clients[b] = But(con, c)[b] + Adds(k, b),
           Store(c, With(g, g.pool, k))
    PROVE  IInv'
<1> DEFINE h == With(g, g.pool, k)
<1>1. g.pool \in [Bs -> Seq(Bs)]
  BY DEF Heres
<1>2. h \in Heres /\ h.clients = g.clients /\ h.pool = g.pool /\ h.con = k
  BY <1>1, HereWith
<1> HIDE DEF h
<1>3. IInv /\ Home(h.pool) /\ Settled(h.con)
      /\ \A b \in Bs : h.clients[b] = But(con, c)[b] + Adds(h.con, b)
  BY <1>2
<1>4. Store(c, h)
  BY DEF h
<1> QED
  BY <1>2, <1>3, <1>4, StoreKeeps

\* A connection without a server socket is counted nowhere.
LEMMA NoneAddsNothing ==
    ASSUME NEW b \in Bs PROVE One(None, b) = 0 /\ None \notin Bs
BY DEF One, None, Bs

\* The socket of a connect(), as it is started or finished.
LEMMA Connected ==
    ASSUME NEW k \in Connections, k.backend \in Bs, NEW at \in {"pending", "up"}
    PROVE  LET n == [k EXCEPT !.at = at, !.sock = k.backend, !.wait = 0]
           IN  n \in Connections /\ n.at = at /\ n.sock = k.backend /\ n.backend = k.backend
<1>1. 0 \in 0..ConnectTimeout
  BY BackendsAssumption
<1> QED
  BY <1>1, ZenonT(60) DEF Connections

\* The last part of proxy_connect_server(), with the backend that was picked.
LEMMA PickedKeeps ==
    ASSUME IInv, NEW c \in Cons, NEW p, Balanced(p, But(con, c)), p.con.at = "new",
           ConnectRefused(c, p) \/ ConnectPooled(c, p) \/ ConnectNew(c, p)
    PROVE  IInv'
<1> DEFINE o == But(con, c)
<1>1. Countable(o)
  BY ButCountable
<1>2. /\ p \in Heres /\ p.con \in Connections /\ Home(p.pool)
      /\ \A b \in Bs : p.clients[b] = o[b] + One(p.con.sock, b)
      /\ p.con.sock # None => p.con.backend = p.con.sock
  BY DEF Balanced, Heres
<1> HIDE DEF o
<1>3. \A b \in Bs : o[b] \in Nat /\ o[b] < G_MAXUINT /\ One(None, b) = 0
  BY <1>1, NoneAddsNothing DEF Countable
<1>4. CASE ConnectRefused(c, p)
  <2> DEFINE k == [p.con EXCEPT !.at = "refused"]
  <2>1. p.con.backend = None /\ p.con.sock = None
    BY <1>2, <1>4 DEF ConnectRefused
  <2>2. k \in Connections /\ k.at = "refused" /\ k.sock = None /\ k.backend = None
    BY <1>2, <2>1 DEF Connections
  <2>3. Store(c, With(p, p.pool, k))
    BY <1>2, <1>4, ZenonT(60) DEF ConnectRefused, With, Heres
  <2> HIDE DEF k
  <2>4. Settled(k)
    BY <2>2 DEF Settled
  <2>5. \A b \in Bs : p.clients[b] = o[b] + Adds(k, b)
    BY <1>2, <1>3, <2>1, <2>2 DEF Adds
  <2> QED
    BY <1>2, <2>2, <2>3, <2>4, <2>5, ConKeeps DEF o
<1>5. CASE ConnectPooled(c, p)
  <2> DEFINE k == [p.con EXCEPT !.at = "up"]
  <2>1. p.con.backend = p.con.sock
    BY <1>2, <1>5 DEF ConnectPooled
  <2>2. k \in Connections /\ k.at = "up" /\ k.sock = p.con.sock /\ k.backend = p.con.sock
    BY <1>2, <2>1 DEF Connections
  <2>3. Store(c, With(p, p.pool, k))
    BY <1>2, <1>5, ZenonT(60) DEF ConnectPooled, With, Heres
  <2> HIDE DEF k
  <2>4. Settled(k)
    BY <2>2 DEF Settled, Agrees
  <2>5. \A b \in Bs : p.clients[b] = o[b] + Adds(k, b)
    BY <1>2, <2>2 DEF Adds
  <2> QED
    BY <1>2, <2>2, <2>3, <2>4, <2>5, ConKeeps DEF o
<1>6. CASE ConnectNew(c, p)
  <2>1. p.con.sock = None /\ p.con.backend \in Bs
    BY <1>2, <1>6 DEF ConnectNew, Connections
  <2>2. \A b \in Bs : p.clients[b] = o[b]
    BY <1>2, <1>3, <2>1, SMTT(30)
  <2>3. CASE Connecting(c, Plus(p, p.con.backend), "up")
    <3> DEFINE n == Plus(p, p.con.backend)
               k == [p.con EXCEPT !.at = "up", !.sock = p.con.backend, !.wait = 0]
    <3>1. p.clients[p.con.backend] < G_MAXUINT
      BY <1>3, <2>1, <2>2, Zenon
    <3>2. /\ n \in Heres /\ n.pool = p.pool /\ n.con = p.con
          /\ \A x \in Bs : n.clients[x] = p.clients[x] + One(p.con.backend, x)
      BY <1>2, <2>1, <3>1, PlusCounts, Zenon
    <3>3. /\ k \in Connections /\ k.at = "up" /\ k.sock = p.con.backend
          /\ k.backend = p.con.backend
      BY <1>2, <2>1, Connected, Zenon
    <3>4. Store(c, [n EXCEPT !.con.at = "up", !.con.sock = n.con.backend, !.con.wait = 0])
      BY <2>3 DEF Connecting
    <3> HIDE DEF n
    <3>5. [n EXCEPT !.con.at = "up", !.con.sock = n.con.backend, !.con.wait = 0] = With(n, n.pool, k)
      BY <3>2, Zenon DEF With, Heres
    <3>6. Store(c, With(n, n.pool, k))
      BY <3>4, <3>5
    <3> HIDE DEF k
    <3>7. Settled(k)
      BY <3>3 DEF Settled, Agrees
    <3>8. \A b \in Bs : n.clients[b] = o[b] + Adds(k, b)
      BY <2>2, <3>2, <3>3 DEF Adds
    <3>9. Home(n.pool)
      BY <1>2, <3>2
    <3> QED
      BY <3>2, <3>3, <3>6, <3>7, <3>8, <3>9, ConKeeps, Zenon DEF o
  <2>4. CASE Connecting(c, p, "pending")
    <3> DEFINE k == [p.con EXCEPT !.at = "pending", !.sock = p.con.backend, !.wait = 0]
    <3>1. /\ k \in Connections /\ k.at = "pending" /\ k.sock = p.con.backend
          /\ k.backend = p.con.backend
      BY <1>2, <2>1, Connected, Zenon
    <3>2. Store(c, [p EXCEPT !.con.at = "pending", !.con.sock = p.con.backend, !.con.wait = 0])
      BY <2>4 DEF Connecting
    <3>3. [p EXCEPT !.con.at = "pending", !.con.sock = p.con.backend, !.con.wait = 0]
            = With(p, p.pool, k)
      BY <1>2, ZenonT(60) DEF With, Heres
    <3>4. Store(c, With(p, p.pool, k))
      BY <3>2, <3>3
    <3> HIDE DEF k
    <3>5. Settled(k)
      BY <2>1, <3>1, NoneAddsNothing DEF Settled, Agrees
    <3>6. \A b \in Bs : p.clients[b] = o[b] + Adds(k, b)
      BY <1>3, <2>2, <3>1 DEF Adds
    <3> QED
      BY <1>2, <3>1, <3>4, <3>5, <3>6, ConKeeps, Zenon DEF o
  <2>5. CASE Store(c, p)
    <3>1. Settled(p.con)
      BY <2>1 DEF Settled
    <3>2. \A b \in Bs : p.clients[b] = o[b] + Adds(p.con, b)
      BY <1>3, <2>2 DEF Adds
    <3> QED
      BY <1>2, <2>5, <3>1, <3>2, StoreKeeps, ZenonT(60) DEF o
  <2> QED
    BY <1>6, <2>3, <2>4, <2>5 DEF ConnectNew
<1> QED
  BY <1>4, <1>5, <1>6

\* proxy_connect_server() keeps the invariant: answered by the script, refused, from the pool or new.
LEMMA ConnectKeeps ==
    ASSUME Script # "free", IInv, NEW c \in Cons, proxy_connect_server(c)
    PROVE  IInv'
<1> DEFINE o == But(con, c)
           k == [con[c] EXCEPT !.backend = None, !.ndx = None]
           g == [Here(c) EXCEPT !.con.backend = None, !.con.ndx = None]
<1>1. Countable(o)
  BY ButCountable
<1>2. con[c].at = "new" /\ con[c] \in Connections /\ con[c].sock = None
  BY DEF proxy_connect_server, IInv, Settled
<1>3. /\ k \in Connections /\ k.at = "new" /\ k.sock = None /\ k.backend = None /\ k.ndx = None
  BY <1>2, Zenon DEF Connections
<1>4. /\ Here(c) \in Heres /\ Home(Here(c).pool) /\ Here(c).con = con[c]
      /\ \A b \in Bs : Here(c).clients[b] = o[b] + Adds(con[c], b)
  BY HereCounts
<1>5. g = With(Here(c), Here(c).pool, k)
  BY Zenon DEF With, Here
<1>6. Here(c).pool \in [Bs -> Seq(Bs)]
  BY <1>4 DEF Heres
<1>7. proxy_connect_server(c) => \/ ConnectAnswered(c, g)
                                 \/ \E h \in Scripted(g, Checked), use_pooled \in BOOLEAN :
                                       \/ ConnectRefused(c, Picked(h, Checked, use_pooled))
                                       \/ ConnectPooled(c, Picked(h, Checked, use_pooled))
                                       \/ ConnectNew(c, Picked(h, Checked, use_pooled))
  BY Zenon DEF proxy_connect_server
<1> HIDE DEF g, k, o
<1>8. g \in Heres /\ g.clients = Here(c).clients /\ g.pool = Here(c).pool /\ g.con = k
  BY <1>3, <1>4, <1>5, <1>6, HereWith
<1>9. \A b \in Bs : o[b] \in Nat /\ One(None, b) = 0 /\ Adds(con[c], b) = 0
  BY <1>1, <1>2, NoneAddsNothing DEF Countable, Adds
<1>10. Balanced(g, o) /\ Agrees(g.con)
  BY <1>3, <1>4, <1>8, <1>9, Zenon DEF Balanced, Agrees
<1>11. CASE ConnectAnswered(c, g)
  <2> DEFINE x == [g.con EXCEPT !.at = "up"]
  <2>1. x \in Connections /\ x.at = "up" /\ x.sock = None /\ x.backend = None
    BY <1>3, <1>8 DEF Connections
  <2>2. Store(c, With(g, g.pool, x))
    BY <1>8, <1>11, ZenonT(60) DEF ConnectAnswered, With, Heres
  <2> HIDE DEF x
  <2>3. Settled(x)
    BY <2>1 DEF Settled, Agrees
  <2>4. \A b \in Bs : g.clients[b] = o[b] + Adds(x, b)
    BY <1>4, <1>8, <1>9, <2>1 DEF Adds
  <2>5. Home(g.pool)
    BY <1>4, <1>8
  <2> QED
    BY <1>8, <2>1, <2>2, <2>3, <2>4, <2>5, ConKeeps, Zenon DEF o
<1>12. ASSUME NEW h \in Scripted(g, Checked), NEW use_pooled \in BOOLEAN,
              \/ ConnectRefused(c, Picked(h, Checked, use_pooled))
              \/ ConnectPooled(c, Picked(h, Checked, use_pooled))
              \/ ConnectNew(c, Picked(h, Checked, use_pooled))
       PROVE  IInv'
  <2> DEFINE p == Picked(h, Checked, use_pooled)
  <2>1. /\ Balanced(h, o) /\ Agrees(h.con) /\ h.con.at = g.con.at
        /\ h = g \/ (h.con.ndx \in Bs /\ Checked[h.con.ndx] # "DOWN")
    BY <1>1, <1>10, ScriptedBalanced, SMTT(30)
  <2>2. (h.con.ndx = None /\ h.con.sock = None) \/ (h.con.ndx \in Bs /\ Checked[h.con.ndx] # "DOWN")
    BY <1>3, <1>8, <2>1, Zenon
  <2>3. Balanced(p, o) /\ p.con.at = h.con.at
    BY <1>1, <2>1, <2>2, PickedBalanced, Zenon
  <2>4. p.con.at = "new"
    BY <1>3, <1>8, <2>1, <2>3, Zenon
  <2>5. ConnectRefused(c, p) \/ ConnectPooled(c, p) \/ ConnectNew(c, p)
    BY <1>12
  <2> HIDE DEF p
  <2> QED
    BY <2>3, <2>4, <2>5, PickedKeeps, Zenon DEF o
<1> QED
  BY <1>7, <1>11, <1>12

\* A connect() that was under way has its socket, and is not counted yet.
LEMMA PendingCounts ==
    ASSUME IInv, NEW c \in Cons, con[c].at = "pending"
    PROVE  /\ con[c] \in Connections /\ con[c].backend \in Bs
           /\ \A b \in Bs : Here(c).clients[b] = But(con, c)[b]
<1>1. con[c] \in Connections /\ con[c].backend = con[c].sock /\ con[c].sock # None
  BY DEF IInv, Settled, Agrees
<1>2. con[c].backend \in Bs
  BY <1>1 DEF Connections
<1>3. \A b \in Bs : Here(c).clients[b] = But(con, c)[b] + Adds(con[c], b)
  BY HereCounts
<1>4. \A b \in Bs : But(con, c)[b] \in Nat /\ Adds(con[c], b) = 0
  BY ButCountable DEF Countable, Adds
<1> QED
  BY <1>1, <1>2, <1>3, <1>4, SMTT(30)

\* The connect() failed or took too long.
LEMMA RetryKeeps ==
    ASSUME IInv, NEW c \in Cons, con[c].at = "pending",
           Store(c, [Here(c) EXCEPT !.con.at = "new", !.con.sock = None])
    PROVE  IInv'
<1> DEFINE g == Here(c)
           k == [con[c] EXCEPT !.at = "new", !.sock = None]
<1>1. /\ g \in Heres /\ Home(g.pool) /\ g.con = con[c]
      /\ \A b \in Bs : g.clients[b] = But(con, c)[b] /\ But(con, c)[b] \in Nat
  BY HereCounts, PendingCounts, ButCountable DEF Countable
<1>2. k \in Connections /\ k.at = "new" /\ k.sock = None
  BY PendingCounts, ZenonT(60) DEF Connections
<1>3. [g EXCEPT !.con.at = "new", !.con.sock = None] = With(g, g.pool, k)
  BY Zenon DEF With, Here
<1>4. Store(c, With(g, g.pool, k))
  BY <1>3
<1> HIDE DEF g, k
<1>5. Settled(k)
  BY <1>2 DEF Settled
<1>6. \A b \in Bs : g.clients[b] = But(con, c)[b] + Adds(k, b)
  BY <1>1, <1>2 DEF Adds
<1> QED
  BY <1>1, <1>2, <1>4, <1>5, <1>6, ConKeeps, Zenon

\* The end of a connect() that was under way.
LEMMA FinishKeeps ==
    ASSUME IInv, NEW c \in Cons, connect_finish(c)
    PROVE  IInv'
<1>1. con[c].at = "pending"
  BY ZenonT(60) DEF connect_finish
<1>2. CASE Store(c, [Here(c) EXCEPT !.con.at = "new", !.con.sock = None])
  BY <1>1, <1>2, RetryKeeps, Zenon
<1>3. CASE Connecting(c, Plus(Here(c), con[c].backend), "up")
  <2> DEFINE g == Here(c)
             b == con[c].backend
             n == Plus(g, b)
             k == [con[c] EXCEPT !.at = "up", !.sock = b, !.wait = 0]
  <2>1. /\ g \in Heres /\ Home(g.pool) /\ g.con = con[c]
        /\ \A x \in Bs : g.clients[x] = But(con, c)[x]
        /\ b \in Bs /\ con[c] \in Connections
    BY <1>1, HereCounts, PendingCounts
  <2>2. g.clients[b] < G_MAXUINT
    BY <2>1, ButCountable, ZenonT(60) DEF Countable
  <2>3. /\ n \in Heres /\ n.pool = g.pool /\ n.con = g.con
        /\ \A x \in Bs : n.clients[x] = g.clients[x] + One(b, x)
    BY <2>1, <2>2, PlusCounts
  <2>4. Store(c, [n EXCEPT !.con.at = "up", !.con.sock = n.con.backend, !.con.wait = 0])
    BY <1>3, ZenonT(60) DEF Connecting
  <2>5. k \in Connections /\ k.at = "up" /\ k.sock = b /\ k.backend = b
    BY <2>1, Connected, Zenon
  <2> HIDE DEF n, g
  <2>6. [n EXCEPT !.con.at = "up", !.con.sock = n.con.backend, !.con.wait = 0] = With(n, n.pool, k)
    BY <2>1, <2>3, Zenon DEF With, Heres
  <2>7. Store(c, With(n, n.pool, k))
    BY <2>4, <2>6
  <2> HIDE DEF k, b
  <2>8. Settled(k)
    BY <2>5 DEF Settled, Agrees
  <2>9. \A x \in Bs : n.clients[x] = But(con, c)[x] + Adds(k, x)
    BY <2>1, <2>3, <2>5 DEF Adds
  <2>10. Home(n.pool)
    BY <2>1, <2>3, Zenon
  <2> QED
    BY <2>3, <2>5, <2>7, <2>8, <2>9, <2>10, ConKeeps, ZenonT(60)
<1> QED
  BY <1>2, <1>3 DEF connect_finish

\* Between the login and the end the hooks have a balance to start from.
LEMMA HereBalanced ==
    ASSUME IInv, NEW c \in Cons, con[c].at \in {"up", "refused"}
    PROVE  Balanced(Here(c), But(con, c)) /\ Agrees(Here(c).con) /\ Here(c).con.at = con[c].at
<1>1. /\ Here(c) \in Heres /\ Home(Here(c).pool) /\ Here(c).con = con[c]
      /\ \A b \in Bs : Here(c).clients[b] = But(con, c)[b] + Adds(con[c], b)
  BY HereCounts
<1>2. con[c].backend = con[c].sock
  BY DEF IInv, Settled, Agrees
<1>3. \A b \in Bs : Adds(con[c], b) = One(con[c].sock, b)
  <2>1. con[c].at = "up" \/ con[c].sock = None
    BY DEF IInv, Settled
  <2> QED
    BY <2>1, NoneAddsNothing DEF Adds
<1> QED
  BY <1>1, <1>2, <1>3, Zenon DEF Balanced, Agrees

\* A later hook of the script.
LEMMA HookKeeps ==
    ASSUME Script # "free", IInv, NEW c \in Cons, Hook(c)
    PROVE  IInv'
<1>1. con[c].at = "up" /\ \E g \in ScriptedOrDropped(Here(c), bstate) : Store(c, g)
  BY DEF Hook
<1>2. PICK g \in ScriptedOrDropped(Here(c), bstate) : Store(c, g)
  BY <1>1
<1>3. Balanced(g, But(con, c)) /\ Agrees(g.con) /\ g.con.at = "up"
  <2>1. Countable(But(con, c))
    BY ButCountable
  <2>2. Balanced(Here(c), But(con, c)) /\ Agrees(Here(c).con) /\ Here(c).con.at = "up"
    BY <1>1, HereBalanced, Zenon
  <2> QED
    BY <1>2, <2>1, <2>2, DroppedBalanced, Zenon
<1>4. g \in Heres /\ Home(g.pool) /\ Settled(g.con)
  BY <1>3, Zenon DEF Balanced, Settled
<1>5. \A b \in Bs : g.clients[b] = But(con, c)[b] + Adds(g.con, b)
  BY <1>3, Zenon DEF Balanced, Adds
<1> QED
  BY <1>2, <1>4, <1>5, StoreKeeps

\* The end of the connection: after the hook it is counted at con->st->backend, if at all.
LEMMA DisconnectKeeps ==
    ASSUME Script # "free", IInv, NEW c \in Cons, proxy_disconnect_client(c)
    PROVE  IInv'
<1> DEFINE o == But(con, c)
           k == [NewCon EXCEPT !.at = "closed"]
           left(g) == IF g.con.backend = None THEN g ELSE Minus(g, g.con.backend)
<1>1. /\ con[c].at \in {"up", "refused"}
      /\ \E g \in ScriptedOrDropped(Here(c), bstate) : Store(c, [left(g) EXCEPT !.con = k])
  BY Zenon DEF proxy_disconnect_client
<1>2. PICK g \in ScriptedOrDropped(Here(c), bstate) : Store(c, [left(g) EXCEPT !.con = k])
  BY <1>1, Zenon
<1>3. Countable(o)
  BY ButCountable
<1>4. Balanced(g, o) /\ Agrees(g.con)
  BY <1>1, <1>3, HereBalanced, DroppedBalanced, ZenonT(60)
<1>5. /\ g \in Heres /\ Home(g.pool) /\ g.con \in Connections /\ g.con.backend = g.con.sock
      /\ \A b \in Bs : g.clients[b] = o[b] + One(g.con.sock, b)
  BY <1>4 DEF Balanced, Agrees, Heres
<1> HIDE DEF o
<1>6. \A b \in Bs : o[b] \in Nat /\ One(None, b) = 0
  BY <1>3, NoneAddsNothing, Zenon DEF Countable
<1>7. left(g) \in Heres /\ left(g).pool = g.pool /\ \A b \in Bs : left(g).clients[b] = o[b]
  <2>1. CASE g.con.backend = None
    BY <1>5, <1>6, <2>1, SMTT(30)
  <2>2. CASE g.con.backend # None
    <3>1. g.con.backend \in Bs
      BY <1>5, <2>2 DEF Connections
    <3>2. g.clients[g.con.backend] > 0
      BY <1>5, <1>6, <3>1, SMTT(30) DEF One
    <3>3. /\ left(g) \in Heres /\ left(g).pool = g.pool
          /\ \A x \in Bs : left(g).clients[x] = g.clients[x] - One(g.con.backend, x)
      BY <1>5, <2>2, <3>1, <3>2, MinusCounts
    <3> HIDE DEF left
    <3>4. \A x \in Bs : One(g.con.backend, x) \in Int
      BY DEF One
    <3> QED
      BY <1>5, <1>6, <3>3, <3>4, SMTT(30)
  <2> QED
    BY <2>1, <2>2, Zenon
<1>8. k \in Connections /\ k.at = "closed" /\ k.sock = None
  BY BackendsAssumption DEF Connections, NewCon
<1> HIDE DEF left
<1>9. [left(g) EXCEPT !.con = k] = With(left(g), left(g).pool, k)
  BY <1>7, Zenon DEF With, Heres
<1>10. Store(c, With(left(g), left(g).pool, k))
  BY <1>2, <1>9
<1> HIDE DEF k
<1>11. Settled(k)
  BY <1>8 DEF Settled
<1>12. \A b \in Bs : left(g).clients[b] = o[b] + Adds(k, b)
  BY <1>6, <1>7, <1>8 DEF Adds
<1>13. Home(left(g).pool)
  BY <1>5, <1>7
<1> QED
  BY <1>7, <1>8, <1>10, <1>11, <1>12, <1>13, ConKeeps, ZenonT(60) DEF o

\* An idle connection is closed by its server: it was not counted.
LEMMA IdleKeeps ==
    ASSUME IInv, NEW b \in Bs, IdleClosed(b)
    PROVE  IInv'
<1>1. PICK i \in DOMAIN pool[b] : pool' = [pool EXCEPT ![b] = RemoveNth(@, i)]
  BY Zenon DEF IdleClosed
<1>2. pool \in [Bs -> Seq(Bs)] /\ pool[b] \in Seq(Bs) /\ \A j \in DOMAIN pool[b] : pool[b][j] = b
  BY DEF IInv, Home
<1>3. /\ RemoveNth(pool[b], i) \in Seq(Bs)
      /\ \A j \in DOMAIN RemoveNth(pool[b], i) : RemoveNth(pool[b], i)[j] = b
  BY <1>2, RemoveHome
<1>4. /\ pool' \in [Bs -> Seq(Bs)]
      /\ \A x \in Bs : pool'[x] = IF x = b THEN RemoveNth(pool[b], i) ELSE pool[x]
  BY <1>1, <1>2, <1>3
<1>5. Home(pool')
  BY <1>3, <1>4, Zenon DEF IInv, Home
<1>6. UNCHANGED <<clients, con>>
  BY DEF IdleClosed
<1> QED
  BY <1>4, <1>5, <1>6 DEF IInv, ClientsCounted

\* Time changes only how long a connect() has taken.
LEMMA TickKeeps ==
    ASSUME IInv, Tick
    PROVE  IInv'
<1>1. /\ con' = [c \in Cons |-> IF con[c].at = "pending" THEN [con[c] EXCEPT !.wait = @ + 1]
                                ELSE con[c]]
      /\ UNCHANGED <<clients, pool>>
  BY DEF Tick
<1>2. ASSUME NEW c \in Cons
      PROVE  /\ con'[c] \in Connections /\ con'[c].at = con[c].at
             /\ con'[c].sock = con[c].sock /\ con'[c].backend = con[c].backend
  <2>1. con[c] \in Connections /\ (con[c].at = "pending" => con[c].wait < ConnectTimeout)
    BY DEF IInv, Tick
  <2>2. con'[c] = IF con[c].at = "pending" THEN [con[c] EXCEPT !.wait = @ + 1] ELSE con[c]
    BY <1>1
  <2> QED
    BY <2>1, <2>2, BackendsAssumption DEF Connections
<1>3. con' \in [Cons -> Connections]
  BY <1>1, <1>2
<1>4. \A c \in Cons : Settled(con'[c])
  BY <1>2 DEF IInv, Settled, Agrees
<1>5. ASSUME NEW b \in Bs
      PROVE  {c \in Cons : con'[c].at = "up" /\ con'[c].sock = b}
               = {c \in Cons : con[c].at = "up" /\ con[c].sock = b}
  BY <1>2
<1>6. ClientsCounted'
  BY <1>1, <1>5, Zenon DEF IInv, ClientsCounted
<1> QED
  BY <1>1, <1>3, <1>4, <1>6 DEF IInv, Home

-----------------------------------------------------------------------------
\* There are no clients at the start.
LEMMA InitHolds == Init => IInv
<1> SUFFICES ASSUME Init PROVE IInv
  OBVIOUS
<1>1. /\ clients = [b \in Bs |-> 0] /\ pool = [b \in Bs |-> <<>>] /\ con = [c \in Cons |-> NewCon]
  BY DEF Init
<1>2. NewCon \in Connections /\ NewCon.at = "new" /\ NewCon.sock = None
  BY BackendsAssumption DEF NewCon, Connections
<1>3. /\ clients \in [Bs -> 0..G_MAXUINT] /\ pool \in [Bs -> Seq(Bs)] /\ Home(pool)
      /\ con \in [Cons -> Connections]
  BY <1>1, <1>2, BackendsAssumption DEF Home
<1>4. \A c \in Cons : con[c].at = "new" /\ con[c].sock = None
  BY <1>1, <1>2
<1>5. \A c \in Cons : Settled(con[c])
  BY <1>4 DEF Settled
<1>6. ASSUME NEW b \in Bs
      PROVE  clients[b] = Cardinality({c \in Cons : con[c].at = "up" /\ con[c].sock = b})
  <2>1. {c \in Cons : con[c].at = "up" /\ con[c].sock = b} = {}
    BY <1>4
  <2> QED
    BY <1>1, <2>1, FS_EmptySet, ZenonT(60)
<1> QED
  BY <1>3, <1>5, <1>6 DEF IInv, ClientsCounted

\* Every step keeps the invariant.
LEMMA StepKeeps ==
    ASSUME Script # "free", IInv, [Next]_vars
    PROVE  IInv'
<1>1. ASSUME NEW c \in Cons, proxy_connect_server(c) PROVE IInv'
  BY <1>1, ConnectKeeps
<1>2. ASSUME NEW c \in Cons, connect_finish(c) PROVE IInv'
  BY <1>2, FinishKeeps, Zenon
<1>3. ASSUME NEW c \in Cons, proxy_timeout(c) PROVE IInv'
  BY <1>3, RetryKeeps, Zenon DEF proxy_timeout
<1>4. ASSUME NEW c \in Cons, Hook(c) PROVE IInv'
  BY <1>4, HookKeeps
<1>5. ASSUME NEW c \in Cons, proxy_disconnect_client(c) PROVE IInv'
  BY <1>5, DisconnectKeeps
<1>6. ASSUME NEW b \in Bs, IdleClosed(b) PROVE IInv'
  BY <1>6, IdleKeeps
<1>7. ASSUME NEW b \in Bs, NEW s \in ScriptStates, backend_set(b, s) PROVE IInv'
  BY <1>7 DEF backend_set, IInv, ClientsCounted, Home
<1>8. CASE Tick
  BY <1>8, TickKeeps, ZenonT(60)
<1>9. CASE UNCHANGED vars
  BY <1>9 DEF vars, IInv, ClientsCounted, Home
<1> QED
  BY <1>1, <1>2, <1>3, <1>4, <1>5, <1>6, <1>7, <1>8, <1>9 DEF Next

\* connected_clients is the number of open connections to the backend, for any number of
\* connections and backends, however the connects, failures, timeouts, swaps with the pool
\* and closes interleave: if the script chooses no backend that is DOWN (or there is none).
THEOREM ClientsAreCounted ==
    ASSUME Script # "free"
    PROVE  Spec => []ClientsCounted
<1>1. Init => IInv
  BY InitHolds
<1>2. IInv /\ [Next]_vars => IInv'
  BY StepKeeps
<1>3. IInv => ClientsCounted
  BY DEF IInv
<1> QED
  BY <1>1, <1>2, <1>3, PTL DEF Spec

\* A connection knows the backend its server socket is connected to, and a pool holds
\* connections to its own backend only, under the same assumption.
THEOREM SocketsStayHome ==
    ASSUME Script # "free"
    PROVE  Spec => []SocketsAreHome
<1>1. Init => IInv
  BY InitHolds
<1>2. IInv /\ [Next]_vars => IInv'
  BY StepKeeps
<1>3. IInv => SocketsAreHome
  <2> SUFFICES ASSUME IInv PROVE SocketsAreHome
    OBVIOUS
  <2>1. \A c \in Cons : con[c].sock # None => con[c].backend = con[c].sock
    <3> SUFFICES ASSUME NEW c \in Cons, con[c].sock # None PROVE con[c].backend = con[c].sock
      OBVIOUS
    <3>1. con[c].at \in {"new", "pending", "up", "refused", "closed"} /\ Settled(con[c])
      BY DEF IInv, Connections
    <3> QED
      BY <3>1 DEF Settled, Agrees
  <2> QED
    BY <2>1 DEF SocketsAreHome, IInv, Home
<1> QED
  BY <1>1, <1>2, <1>3, PTL DEF Spec

-----------------------------------------------------------------------------
(***************************************************************************)
(* WokenLate. The code compares state_since; that it is no older than the  *)
(* backend has been DOWN is what makes the comparison right.               *)
(***************************************************************************)
Aged(states, ages, down) ==
    /\ states \in [Bs -> {"UNKNOWN", "UP", "DOWN"}] /\ ages \in [Bs -> Nat] /\ down \in [Bs -> Nat]
    /\ \A b \in Bs : states[b] = "DOWN" => ages[b] <= down[b]
AgeInv == Aged(bstate, age, down_for)
AwakeOnly(states) == \A b \in Bs : bstate[b] = "DOWN" /\ states[b] = "UNKNOWN" => down_for[b] > WakeAfter

\* What a step does to the states of the backends, starting from states and ages.
Marks(states, ages) ==
    \/ Unmarked(states, ages)
    \/ \E b : MarkUp(b, states, ages) \/ MarkDown(b, states, ages)

\* network_backends_check() wakes up backends whose state is older than WakeAfter.
LEMMA CheckAges ==
    ASSUME AgeInv
    PROVE  Aged(Checked, CheckedAge, down_for) /\ AwakeOnly(Checked)
<1>1. /\ Checked \in [Bs -> {"UNKNOWN", "UP", "DOWN"}]
      /\ CheckedAge \in [Bs -> Nat] /\ down_for \in [Bs -> Nat]
  BY DEF AgeInv, Aged, Checked, CheckedAge
<1>2. ASSUME NEW b \in Bs, Checked[b] = "DOWN" PROVE CheckedAge[b] <= down_for[b]
  <2>1. b \notin Woken /\ bstate[b] = "DOWN" BY <1>2 DEF Checked
  <2>2. CheckedAge[b] = age[b] BY <2>1 DEF CheckedAge
  <2> QED BY <2>1, <2>2 DEF AgeInv, Aged
<1>3. ASSUME NEW b \in Bs, bstate[b] = "DOWN", Checked[b] = "UNKNOWN" PROVE down_for[b] > WakeAfter
  <2>1. b \in Woken BY <1>3 DEF Checked
  <2>2. age[b] > WakeAfter BY <2>1 DEF Woken
  <2>3. age[b] <= down_for[b] /\ age[b] \in Nat /\ down_for[b] \in Nat BY <1>3 DEF AgeInv, Aged
  <2> QED BY <2>2, <2>3, BackendsAssumption
<1> QED BY <1>1, <1>2, <1>3 DEF Aged, AwakeOnly

\* Marking a backend UP or DOWN makes its state new, and wakes up none.
LEMMA MarkAges ==
    ASSUME NEW states, NEW ages, Aged(states, ages, down_for), AwakeOnly(states), Marks(states, ages)
    PROVE  AgeInv' /\ AwakeOnly(bstate')
<1>1. CASE Unmarked(states, ages)
  BY <1>1 DEF Unmarked, AgeInv, Aged
<1>2. ASSUME NEW b, MarkUp(b, states, ages) PROVE AgeInv' /\ AwakeOnly(bstate')
  <2>1. /\ bstate' = [states EXCEPT ![b] = "UP"]
        /\ age' = IF states[b] = "UP" THEN ages ELSE [ages EXCEPT ![b] = 0]
        /\ down_for' = [down_for EXCEPT ![b] = 0]
    BY <1>2 DEF MarkUp
  <2>2. /\ bstate' \in [Bs -> {"UNKNOWN", "UP", "DOWN"}]
        /\ age' \in [Bs -> Nat] /\ down_for' \in [Bs -> Nat]
    BY <2>1, Zenon DEF Aged
  <2>3. ASSUME NEW d \in Bs
        PROVE  /\ bstate'[d] = "DOWN" => age'[d] <= down_for'[d]
               /\ bstate'[d] # "UP" => bstate'[d] = states[d]
    BY <2>1 DEF Aged
  <2> QED BY <2>2, <2>3 DEF AgeInv, Aged, AwakeOnly
<1>3. ASSUME NEW b, MarkDown(b, states, ages) PROVE AgeInv' /\ AwakeOnly(bstate')
  <2>1. /\ bstate' = [states EXCEPT ![b] = "DOWN"]
        /\ age' = [ages EXCEPT ![b] = 0]
        /\ down_for' = [down_for EXCEPT ![b] = IF states[b] = "DOWN" THEN @ ELSE 0]
    BY <1>3 DEF MarkDown
  <2>2. /\ bstate' \in [Bs -> {"UNKNOWN", "UP", "DOWN"}]
        /\ age' \in [Bs -> Nat] /\ down_for' \in [Bs -> Nat]
    BY <2>1, Zenon DEF Aged
  <2>3. ASSUME NEW d \in Bs
        PROVE  /\ bstate'[d] = "DOWN" => age'[d] <= down_for'[d]
               /\ bstate'[d] # "DOWN" => bstate'[d] = states[d]
    BY <2>1 DEF Aged
  <2> QED BY <2>2, <2>3 DEF AgeInv, Aged, AwakeOnly
<1> QED BY <1>1, <1>2, <1>3, Zenon DEF Marks

\* Every way through proxy_connect_server() marks one backend or none, behind the check.
LEMMA ConnectMarks ==
    ASSUME NEW c, proxy_connect_server(c)
    PROVE  Marks(Checked, CheckedAge)
<1> DEFINE g == [Here(c) EXCEPT !.con.backend = None, !.con.ndx = None]
<1>1. CASE ConnectAnswered(c, g)
  BY <1>1, Zenon DEF ConnectAnswered, Marks
<1>2. ASSUME NEW p, ConnectRefused(c, p) \/ ConnectPooled(c, p) \/ ConnectNew(c, p)
      PROVE  Marks(Checked, CheckedAge)
  BY <1>2, Zenon DEF ConnectRefused, ConnectPooled, ConnectNew, Marks
<1> QED BY <1>1, <1>2, Zenon DEF proxy_connect_server

\* A second makes a state and the time of being DOWN older alike.
LEMMA OlderAlike ==
    ASSUME NEW a \in Nat, NEW d \in Nat, a <= d
    PROVE  Older(a) \in Nat /\ Older(d) \in Nat /\ Older(a) <= Older(d)
BY BackendsAssumption DEF Older

\* Every step keeps AgeInv and wakes up no backend too early.
LEMMA AgeStep ==
    ASSUME "DOWN" \notin ScriptStates, AgeInv, [Next]_vars
    PROVE  AgeInv' /\ AwakeOnly(bstate')
<1>0. AwakeOnly(bstate) BY DEF AwakeOnly
<1>1. CASE UNCHANGED <<bstate, age, down_for>>
  BY <1>0, <1>1 DEF AgeInv, Aged, AwakeOnly
<1>2. ASSUME NEW c \in Cons, proxy_connect_server(c) PROVE AgeInv' /\ AwakeOnly(bstate')
  BY <1>2, CheckAges, ConnectMarks, MarkAges, Zenon
<1>3. ASSUME NEW c \in Cons, connect_finish(c) \/ proxy_timeout(c) PROVE AgeInv' /\ AwakeOnly(bstate')
  <2>1. Marks(bstate, age) BY <1>3, Zenon DEF connect_finish, proxy_timeout, Marks
  <2> QED BY <1>0, <2>1, MarkAges, Zenon DEF AgeInv
<1>4. ASSUME NEW c \in Cons, Hook(c) \/ proxy_disconnect_client(c) PROVE AgeInv' /\ AwakeOnly(bstate')
  BY <1>1, <1>4, Zenon DEF Hook, proxy_disconnect_client
<1>5. ASSUME NEW b \in Bs, IdleClosed(b) PROVE AgeInv' /\ AwakeOnly(bstate')
  BY <1>1, <1>5, Zenon DEF IdleClosed
<1>6. ASSUME NEW b \in Bs, NEW s \in ScriptStates, backend_set(b, s) PROVE AgeInv' /\ AwakeOnly(bstate')
  <2>1. s = "UP" BY BackendsAssumption
  <2>2. /\ bstate' = [bstate EXCEPT ![b] = "UP"] /\ age' = age
        /\ down_for' = [down_for EXCEPT ![b] = IF bstate[b] = "DOWN" THEN @ ELSE 0]
    BY <1>6, <2>1 DEF backend_set
  <2>3. bstate' \in [Bs -> {"UNKNOWN", "UP", "DOWN"}] /\ age' \in [Bs -> Nat] /\ down_for' \in [Bs -> Nat]
    BY <2>2 DEF AgeInv, Aged
  <2>4. ASSUME NEW d \in Bs
        PROVE  /\ bstate'[d] = "DOWN" => age'[d] <= down_for'[d]
               /\ bstate'[d] # "UP" => bstate'[d] = bstate[d]
    BY <2>2 DEF AgeInv, Aged
  <2> QED BY <2>3, <2>4 DEF AgeInv, Aged, AwakeOnly
<1>7. CASE Tick
  <2>1. /\ bstate' = bstate /\ age' = [b \in Bs |-> Older(age[b])]
        /\ down_for' = [b \in Bs |-> IF bstate[b] = "DOWN" THEN Older(down_for[b]) ELSE 0]
    BY <1>7 DEF Tick
  <2>2. ASSUME NEW b \in Bs
        PROVE  /\ Older(age[b]) \in Nat /\ Older(down_for[b]) \in Nat
               /\ bstate[b] = "DOWN" => Older(age[b]) <= Older(down_for[b])
    <3>1. /\ age[b] \in Nat /\ down_for[b] \in Nat
          /\ bstate[b] = "DOWN" => age[b] <= down_for[b]
          /\ age[b] <= age[b] /\ down_for[b] <= down_for[b]
      BY DEF AgeInv, Aged
    <3> QED BY <3>1, OlderAlike, Zenon
  <2>3. age' \in [Bs -> Nat] /\ down_for' \in [Bs -> Nat] BY <2>1, <2>2
  <2>4. \A b \in Bs : bstate'[b] = "DOWN" => age'[b] <= down_for'[b] BY <2>1, <2>2
  <2> QED BY <1>0, <2>1, <2>3, <2>4 DEF AgeInv, Aged
<1>8. CASE UNCHANGED vars
  BY <1>1, <1>8 DEF vars
<1> QED BY <1>2, <1>3, <1>4, <1>5, <1>6, <1>7, <1>8, Zenon DEF Next

\* Whatever connects, fails and times out, and whatever backends a script chooses: a
\* backend that is DOWN is not woken up before its time. The script may set backends UP
\* but not DOWN, because backend_set() leaves state_since alone.
THEOREM WakingTakesTime ==
    ASSUME "DOWN" \notin ScriptStates
    PROVE  Spec => WokenLate
<1>1. Init => AgeInv
  BY BackendsAssumption DEF Init, AgeInv, Aged
<1>2. AgeInv /\ [Next]_vars => AgeInv'
  BY AgeStep
<1>3. AgeInv /\ [Next]_vars
        => [\A b \in Bs : bstate[b] = "DOWN" /\ bstate'[b] = "UNKNOWN" => down_for[b] > WakeAfter]_vars
  BY AgeStep DEF AwakeOnly
<1> QED
  BY <1>1, <1>2, <1>3, PTL DEF Spec, WokenLate
=============================================================================
