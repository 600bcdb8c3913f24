------------------------ MODULE RequestReader_proofs ------------------------
(***************************************************************************)
(* Proofs about RequestReader, for any connection: any number of requests, *)
(* any names and bodies, and any way in which the buffer reads ahead.      *)
(***************************************************************************)
EXTENDS RequestReader, WellFoundedInduction, TLAPS

Piece == [name : DOMAIN Canonical \cup Special, eol : BOOLEAN]

\* The constants are a connection: requests with names and a body of pieces, where
\* no name looks like a line that has none.
WellFormed ==
  /\ Requests \in Seq([names : Seq(DOMAIN Canonical), body : Seq(Piece)])
  /\ DOMAIN Canonical \cap Special = {}

\* A set of numbers that is not empty has a least one.
LEMMA Least ==
  ASSUME NEW T \in SUBSET Nat, T # {}
  PROVE  \E m \in T : \A k \in T : m <= k
  <1>1. \E x \in T : \A y \in T : ~ (<<y, x>> \in OpToRel(<, Nat))
    BY WFMin, NatLessThanWellFounded
  <1>2. PICK x \in T : \A y \in T : ~ (<<y, x>> \in OpToRel(<, Nat))
    BY <1>1
  <1>3. \A y \in T : ~ (y < x)
    BY <1>2 DEF OpToRel
  <1> QED BY <1>3

-----------------------------------------------------------------------------
(* The connection, request by request. *)

N == Len(Requests)
Part(k) == Pieces(Requests[k])

\* The table behind FlattenSeq, for the first n requests.
Joining(n, f) ==
  f = [i \in 1 .. n |-> IF i = 1 THEN Part(i) ELSE f[i - 1] \o Part(i)]

LEMMA Types ==
  ASSUME WellFormed
  PROVE  /\ N \in Nat /\ DOMAIN Requests = 1 .. N
         /\ \A k \in 1 .. N : /\ Requests[k].names \in Seq(DOMAIN Canonical)
                              /\ Requests[k].body \in Seq(Piece)
  <1> DEFINE Req == [names : Seq(DOMAIN Canonical), body : Seq(Piece)]
  <1>1. Requests \in Seq(Req)
    BY DEF WellFormed
  <1>2. \A r \in Req : r.names \in Seq(DOMAIN Canonical) /\ r.body \in Seq(Piece)
    OBVIOUS
  <1> HIDE DEF Req
  <1>3. /\ N \in Nat /\ DOMAIN Requests = 1 .. N
        /\ \A k \in 1 .. N : Requests[k] \in Req
    BY <1>1 DEF N
  <1> QED BY <1>2, <1>3

\* r is p with q behind it.
Joins(r, p, q) ==
  /\ Len(p) \in Nat /\ Len(q) \in Nat /\ Len(r) = Len(p) + Len(q)
  /\ \A i \in 1 .. Len(p) : r[i] = p[i]
  /\ \A i \in 1 .. Len(q) : r[Len(p) + i] = q[i]

LEMMA Concat ==
  ASSUME NEW S, NEW p \in Seq(S), NEW q \in Seq(S)
  PROVE  p \o q \in Seq(S) /\ Joins(p \o q, p, q)
  <1>1. p \o q \in Seq(S) /\ Len(p) \in Nat /\ Len(q) \in Nat
    OBVIOUS
  <1>2. Len(p \o q) = Len(p) + Len(q)
    OBVIOUS
  <1>3. \A i \in 1 .. Len(p) : (p \o q)[i] = p[i]
    OBVIOUS
  <1>4. \A i \in 1 .. Len(q) : (p \o q)[Len(p) + i] = q[i]
    OBVIOUS
  <1> QED BY <1>1, <1>2, <1>3, <1>4 DEF Joins

\* Two sequences of the same length with the same elements.
LEMMA Same ==
  ASSUME NEW S, NEW p \in Seq(S), NEW q \in Seq(S), Len(p) = Len(q),
         \A i \in 1 .. Len(p) : p[i] = q[i]
  PROVE  p = q
  OBVIOUS

\* The n elements behind the m-th.
LEMMA Slice ==
  ASSUME NEW S, NEW c \in Seq(S), NEW m \in Nat, NEW n \in Nat, m + n <= Len(c)
  PROVE  /\ SubSeq(c, m + 1, m + n) \in Seq(S) /\ Len(SubSeq(c, m + 1, m + n)) = n
         /\ \A i \in 1 .. n : SubSeq(c, m + 1, m + n)[i] = c[m + i]
  OBVIOUS

LEMMA Single ==
  ASSUME NEW S, NEW x \in S
  PROVE  <<x>> \in Seq(S) /\ Len(<<x>>) = 1 /\ <<x>>[1] = x
  OBVIOUS

\* A request is a first line, the lines of its names, an empty line and a body.
\* h is l between x and z.
Encloses(h, x, l, z) ==
  /\ Len(l) \in Nat /\ Len(h) = Len(l) + 2
  /\ h[1] = x /\ h[Len(l) + 2] = z
  /\ \A i \in 1 .. Len(l) : h[i + 1] = l[i]

LEMMA Enclosed ==
  ASSUME NEW S, NEW x \in S, NEW l \in Seq(S), NEW z \in S
  PROVE  /\ <<x>> \o l \o <<z>> \in Seq(S)
         /\ Encloses(<<x>> \o l \o <<z>>, x, l, z)
  <1> DEFINE a == <<x>>
             c == <<z>>
             b == a \o l
             h == b \o c
  <1>1. /\ a \in Seq(S) /\ Len(a) = 1 /\ a[1] = x
        /\ c \in Seq(S) /\ Len(c) = 1 /\ c[1] = z
    BY Single
  <1> HIDE DEF a, c
  <1>2. b \in Seq(S) /\ Joins(b, a, l)
    BY <1>1, Concat
  <1> HIDE DEF b
  <1>3. h \in Seq(S) /\ Joins(h, b, c)
    BY <1>1, <1>2, Concat
  <1> HIDE DEF h
  <1>4. Len(l) \in Nat /\ Len(b) = Len(l) + 1 /\ Len(h) = Len(l) + 2
    BY <1>1, <1>2, <1>3 DEF Joins
  <1>5. h[1] = x /\ h[Len(l) + 2] = z
    BY <1>1, <1>2, <1>3, <1>4 DEF Joins
  <1>6. ASSUME NEW i \in 1 .. Len(l) PROVE h[i + 1] = l[i]
    <2>1. b[Len(a) + i] = l[i] /\ Len(a) + i = i + 1 /\ i + 1 \in 1 .. Len(b)
      BY <1>1, <1>2, <1>4 DEF Joins
    <2> QED BY <1>3, <2>1 DEF Joins
  <1>7. Encloses(h, x, l, z)
    BY <1>4, <1>5, <1>6 DEF Encloses
  <1> QED BY <1>3, <1>7 DEF a, b, c, h

\* A request is a first line, the lines of its names, an empty line and a body.
NameLines(n) == [i \in DOMAIN n |-> Line(n[i])]

LEMMA HeadIs ==
  ASSUME WellFormed, NEW k \in 1 .. N
  PROVE  /\ HeadOf(Requests[k]) \in Seq(Piece)
         /\ NameLines(Requests[k].names) \in Seq(Piece)
         /\ Len(NameLines(Requests[k].names)) = Len(Requests[k].names)
         /\ Len(HeadOf(Requests[k])) = Len(Requests[k].names) + 2
         /\ Encloses(HeadOf(Requests[k]), Line("no colon"), NameLines(Requests[k].names),
                     Line("empty"))
  <1> DEFINE n == Requests[k].names
             l == NameLines(n)
             x == Line("no colon")
             z == Line("empty")
  <1>1. n \in Seq(DOMAIN Canonical)
    BY Types
  <1>2. HeadOf(Requests[k]) = <<x>> \o l \o <<z>>
    BY DEF HeadOf, NameLines
  <1> HIDE DEF n
  <1>3. Len(n) \in Nat /\ DOMAIN n = 1 .. Len(n) /\ \A i \in 1 .. Len(n) : n[i] \in DOMAIN Canonical
    BY <1>1
  <1>4. \A m \in DOMAIN Canonical \cup Special : Line(m) \in Piece
    BY DEF Line, Piece
  <1>5. x \in Piece /\ z \in Piece
    BY <1>4 DEF Special
  <1>6. l \in [1 .. Len(n) -> Piece]
    BY <1>3, <1>4 DEF NameLines
  <1>7. l \in Seq(Piece) /\ Len(l) = Len(n)
    BY <1>3, <1>6
  <1> HIDE DEF l, x, z
  <1>8. /\ <<x>> \o l \o <<z>> \in Seq(Piece)
        /\ Encloses(<<x>> \o l \o <<z>>, x, l, z)
    BY <1>5, <1>7, Enclosed
  <1>9. Len(HeadOf(Requests[k])) = Len(n) + 2
    BY <1>2, <1>7, <1>8 DEF Encloses
  <1> QED BY <1>2, <1>7, <1>8, <1>9 DEF n, l, x, z

LEMMA PartIs ==
  ASSUME WellFormed, NEW k \in 1 .. N
  PROVE  Part(k) \in Seq(Piece) /\ Joins(Part(k), HeadOf(Requests[k]), Requests[k].body)
  <1>1. HeadOf(Requests[k]) \in Seq(Piece) /\ Requests[k].body \in Seq(Piece)
    BY Types, HeadIs
  <1> QED BY <1>1, Concat DEF Part, Pieces

LEMMA JoiningExists ==
  ASSUME NEW l \in Nat
  PROVE  \E f : Joining(l, f)
  <1> DEFINE Bad == {n \in Nat : ~ \E f : Joining(n, f)}
  <1> SUFFICES ASSUME Bad # {} PROVE FALSE
    OBVIOUS
  <1>1. PICK n \in Bad : \A k \in Bad : n <= k
    BY Least
  <1>2. n # 0
    <2> DEFINE f == [i \in 1 .. 0 |-> <<>>]
    <2>1. Joining(0, f)
      BY DEF Joining
    <2> QED BY <2>1
  <1>3. n - 1 \in Nat /\ n - 1 \notin Bad
    BY <1>1, <1>2
  <1>4. PICK g : Joining(n - 1, g)
    BY <1>3
  <1> DEFINE f == [i \in 1 .. n |->
                    IF i = n THEN IF n = 1 THEN Part(n) ELSE g[n - 1] \o Part(n) ELSE g[i]]
  <1>5. f = [i \in 1 .. n |-> IF i = 1 THEN Part(i) ELSE f[i - 1] \o Part(i)]
    <2> SUFFICES ASSUME NEW i \in 1 .. n
                 PROVE  f[i] = IF i = 1 THEN Part(i) ELSE f[i - 1] \o Part(i)
      OBVIOUS
    <2>1. CASE i = n
      <3>1. n # 1 => f[n - 1] = g[n - 1]
        BY <1>2, <1>3
      <3> QED BY <1>2, <2>1, <3>1
    <2>2. CASE i # n
      <3>1. i \in 1 .. n - 1 /\ f[i] = g[i]
        BY <1>3, <2>2
      <3>2. g[i] = IF i = 1 THEN Part(i) ELSE g[i - 1] \o Part(i)
        BY <1>4, <3>1 DEF Joining
      <3>3. i # 1 => f[i - 1] = g[i - 1]
        BY <1>3, <3>1
      <3> QED BY <3>1, <3>2, <3>3
    <2> QED BY <2>1, <2>2
  <1>6. \E h : Joining(n, h)
    BY <1>5 DEF Joining
  <1> QED BY <1>1, <1>6

\* What has been sent with the first k requests, and how much that is.
Joined == CHOOSE f : Joining(N, f)
Start(k) == IF k = 0 THEN 0 ELSE Len(Joined[k])

LEMMA JoinedIs ==
  ASSUME WellFormed
  PROVE  /\ \A k \in 1 .. N : Joined[k] = IF k = 1 THEN Part(k) ELSE Joined[k - 1] \o Part(k)
         /\ Connection = IF N = 0 THEN <<>> ELSE Joined[N]
  <1>1. Joining(N, Joined)
    BY Types, JoiningExists DEF Joined
  <1>2. \A k \in 1 .. N : Joined[k] = IF k = 1 THEN Part(k) ELSE Joined[k - 1] \o Part(k)
    BY <1>1 DEF Joining
  <1> DEFINE all == [k \in DOMAIN Requests |-> Pieces(Requests[k])]
  <1>3. Len(all) = N /\ DOMAIN all = 1 .. N /\ \A k \in 1 .. N : all[k] = Part(k)
    BY Types DEF Part
  <1>4. CASE N = 0
    <2>1. Connection = all
      BY <1>3, <1>4 DEF Connection, FlattenSeq
    <2>2. all = <<>>
      BY <1>3, <1>4
    <2> QED BY <1>2, <1>4, <2>1, <2>2
  <1>5. CASE N # 0
    <2> HIDE DEF all
    <2>1. Connection = FlattenSeq(all)
      BY DEF Connection, all
    <2>2. FlattenSeq(all) =
            (CHOOSE f : f = [i \in 1 .. N |-> IF i = 1 THEN all[i] ELSE f[i - 1] \o all[i]])[N]
      BY <1>3, <1>5 DEF FlattenSeq
    <2>3. \A f : f = [i \in 1 .. N |-> IF i = 1 THEN all[i] ELSE f[i - 1] \o all[i]] <=> Joining(N, f)
      <3> TAKE f
      <3>1. [i \in 1 .. N |-> IF i = 1 THEN all[i] ELSE f[i - 1] \o all[i]]
              = [i \in 1 .. N |-> IF i = 1 THEN Part(i) ELSE f[i - 1] \o Part(i)]
        BY <1>3
      <3> QED BY <3>1 DEF Joining
    <2>4. (CHOOSE f : f = [i \in 1 .. N |-> IF i = 1 THEN all[i] ELSE f[i - 1] \o all[i]]) = Joined
      BY <2>3 DEF Joined
    <2> QED BY <1>2, <1>5, <2>1, <2>2, <2>4
  <1> QED BY <1>4, <1>5

LEMMA JoinedSeq ==
  ASSUME WellFormed, NEW k \in 1 .. N
  PROVE  Joined[k] \in Seq(Piece)
  <1> DEFINE Bad == {j \in 1 .. N : Joined[j] \notin Seq(Piece)}
  <1> SUFFICES ASSUME Bad # {} PROVE FALSE
    OBVIOUS
  <1>1. Bad \in SUBSET Nat
    OBVIOUS
  <1>2. PICK n \in Bad : \A j \in Bad : n <= j
    BY <1>1, Least
  <1>3. n \in 1 .. N /\ Part(n) \in Seq(Piece)
    BY PartIs
  <1>4. n # 1
    BY <1>2, <1>3, JoinedIs
  <1>5. n - 1 \in 1 .. N /\ n - 1 \notin Bad
    BY <1>2, <1>3, <1>4, Types
  <1>6. Joined[n] = Joined[n - 1] \o Part(n)
    BY <1>3, <1>4, JoinedIs
  <1>7. Joined[n - 1] \o Part(n) \in Seq(Piece)
    BY <1>3, <1>5, Concat
  <1> QED BY <1>2, <1>6, <1>7

\* f is what has been sent with the first k requests, from request k - 1 on.
Goes(k) ==
  /\ Start(k - 1) \in Nat /\ Start(k) = Start(k - 1) + Len(Part(k))
  /\ \A i \in 1 .. Start(k - 1) : Joined[k][i] = Joined[k - 1][i]
  /\ \A i \in 1 .. Len(Part(k)) : Joined[k][Start(k - 1) + i] = Part(k)[i]

LEMMA JoinedNext ==
  ASSUME WellFormed, NEW k \in 1 .. N
  PROVE  Goes(k)
  <1>1. Part(k) \in Seq(Piece) /\ Len(Part(k)) \in Nat
    BY PartIs
  <1>2. CASE k = 1
    <2>1. Joined[k] = Part(k) /\ Start(k - 1) = 0 /\ Start(k) = Len(Part(k))
      BY <1>2, JoinedIs DEF Start
    <2> QED BY <1>1, <2>1 DEF Goes
  <1>3. CASE k # 1
    <2>1. k - 1 \in 1 .. N
      BY <1>3, Types
    <2>2. Joined[k - 1] \in Seq(Piece)
      BY <2>1, JoinedSeq
    <2>3. Joined[k] = Joined[k - 1] \o Part(k)
      BY <1>3, JoinedIs
    <2>4. Joins(Joined[k], Joined[k - 1], Part(k))
      BY <1>1, <2>2, <2>3, Concat
    <2>5. Start(k) = Len(Joined[k]) /\ Start(k - 1) = Len(Joined[k - 1])
      BY <2>1 DEF Start
    <2> QED BY <2>4, <2>5 DEF Joins, Goes
  <1> QED BY <1>2, <1>3

\* The connection begins with its first k requests.
Begins(k) ==
  /\ Start(k) <= Len(Connection)
  /\ \A i \in 1 .. Start(k) : Connection[i] = Joined[k][i]

LEMMA ConnectionBegins ==
  ASSUME WellFormed, NEW k \in 1 .. N
  PROVE  Begins(k)
  <1> DEFINE Bad == {m \in Nat : m < N /\ ~ Begins(N - m)}
  <1>1. N - k \in Nat /\ N - k < N /\ N - (N - k) = k
    BY Types
  <1> SUFFICES ASSUME Bad # {} PROVE FALSE
    BY <1>1
  <1>2. PICK m \in Bad : \A j \in Bad : m <= j
    BY Least
  <1>3. m \in Nat /\ m < N /\ N \in Nat
    BY Types
  <1>4. m # 0
    <2>1. Connection = Joined[N] /\ Start(N) = Len(Connection) /\ Start(N) \in Nat
      BY <1>3, JoinedIs, JoinedSeq DEF Start
    <2> QED BY <1>3, <2>1 DEF Begins
  <1> DEFINE n == N - m
  <1>5. n \in 1 .. N /\ n + 1 \in 1 .. N /\ (n + 1) - 1 = n
    BY <1>3, <1>4
  <1>6. Begins(n + 1)
    <2>1. m - 1 \in Nat /\ m - 1 < N /\ m - 1 \notin Bad /\ N - (m - 1) = n + 1
      BY <1>2, <1>3, <1>4
    <2> QED BY <2>1
  <1> HIDE DEF n
  <1>7. Goes(n + 1)
    BY <1>5, JoinedNext
  <1>8. Start(n) \in Nat /\ Start(n + 1) \in Nat /\ Start(n) <= Start(n + 1)
    BY <1>5, <1>7, PartIs DEF Goes, Joins
  <1>9. Len(Connection) \in Nat
    BY <1>3, JoinedIs, JoinedSeq
  <1>10. Begins(n)
    BY <1>5, <1>6, <1>7, <1>8, <1>9 DEF Begins, Goes
  <1> QED BY <1>2, <1>10 DEF n

LEMMA ConnectionSeq ==
  ASSUME WellFormed
  PROVE  Connection \in Seq(Piece) /\ Len(Connection) \in Nat
  <1>1. Connection \in Seq(Piece)
    <2>1. CASE N = 0
      <3>1. Connection = <<>>
        BY <2>1, JoinedIs
      <3> QED BY <3>1
    <2>2. CASE N # 0
      BY <2>2, JoinedIs, JoinedSeq, Types
    <2> QED BY <2>1, <2>2
  <1> QED BY <1>1

\* Where a request starts, and what stands there.
Stands(k, h, b) ==
  /\ Start(k - 1) \in Nat /\ Len(h) \in Nat /\ Len(b) \in Nat
  /\ Start(k) = Start(k - 1) + Len(h) + Len(b) /\ Start(k) <= Len(Connection)
  /\ \A i \in 1 .. Len(h) : Connection[Start(k - 1) + i] = h[i]
  /\ \A i \in 1 .. Len(b) : Connection[Start(k - 1) + Len(h) + i] = b[i]

LEMMA RequestStands ==
  ASSUME WellFormed, NEW k \in 1 .. N
  PROVE  Stands(k, HeadOf(Requests[k]), Requests[k].body)
  <1> DEFINE h == HeadOf(Requests[k])
             b == Requests[k].body
             c == Connection
             s == Start(k - 1)
             p == Part(k)
  <1>1. Joins(p, h, b)
    BY PartIs
  <1>2. /\ s \in Nat /\ Start(k) = s + Len(p) /\ Start(k) <= Len(c)
        /\ \A i \in 1 .. Len(p) : Joined[k][s + i] = p[i]
        /\ \A i \in 1 .. Start(k) : c[i] = Joined[k][i]
    BY JoinedNext, ConnectionBegins DEF Goes, Begins
  <1> HIDE DEF h, b, c, s, p
  <1>3. /\ Len(h) \in Nat /\ Len(b) \in Nat /\ Start(k) = s + Len(h) + Len(b)
        /\ Len(p) = Len(h) + Len(b)
    BY <1>1, <1>2 DEF Joins
  <1>4. \A i \in 1 .. Len(p) : c[s + i] = p[i]
    <2> TAKE i \in 1 .. Len(p)
    <2>1. s + i \in 1 .. Start(k)
      BY <1>2, <1>3
    <2> QED BY <1>2, <2>1
  <1>5. \A i \in 1 .. Len(h) : c[s + i] = h[i]
    <2> TAKE i \in 1 .. Len(h)
    <2>1. p[i] = h[i] /\ i \in 1 .. Len(p)
      BY <1>1, <1>3 DEF Joins
    <2> QED BY <1>4, <2>1
  <1>6. \A i \in 1 .. Len(b) : c[s + Len(h) + i] = b[i]
    <2> TAKE i \in 1 .. Len(b)
    <2>1. p[Len(h) + i] = b[i] /\ Len(h) + i \in 1 .. Len(p)
      BY <1>1, <1>3 DEF Joins
    <2>2. s + (Len(h) + i) = s + Len(h) + i
      BY <1>2, <1>3
    <2> QED BY <1>4, <2>1, <2>2
  <1> QED BY <1>2, <1>3, <1>5, <1>6 DEF Stands, h, b, c, s, p

\* The body of a request, if there is a request.
Rest(k) == IF k = 0 THEN <<>> ELSE Requests[k].body

LEMMA RestIs ==
  ASSUME WellFormed, NEW k \in 0 .. N
  PROVE  /\ Rest(k) \in Seq(Piece) /\ Len(Rest(k)) \in Nat
         /\ Start(k) \in Nat /\ Start(k) <= Len(Connection)
         /\ Start(k) - Len(Rest(k)) \in Nat
         /\ \A i \in 1 .. Len(Rest(k)) :
              Connection[(Start(k) - Len(Rest(k))) + i] = Rest(k)[i]
  <1>1. CASE k = 0
    <2>1. Rest(k) = <<>> /\ Start(k) = 0
      BY <1>1 DEF Rest, Start
    <2> QED BY <2>1, ConnectionSeq
  <1>2. CASE k # 0
    <2> DEFINE h == HeadOf(Requests[k])
               b == Requests[k].body
    <2>1. k \in 1 .. N /\ Rest(k) = b
      BY <1>2 DEF Rest
    <2>2. Stands(k, h, b) /\ b \in Seq(Piece)
      BY <2>1, RequestStands, Types
    <2> HIDE DEF h, b
    <2>3. \A i \in 1 .. Len(b) : Connection[(Start(k) - Len(b)) + i] = b[i]
      <3> TAKE i \in 1 .. Len(b)
      <3>1. (Start(k) - Len(b)) + i = Start(k - 1) + Len(h) + i
        BY <2>2 DEF Stands
      <3> QED BY <2>2, <3>1 DEF Stands
    <2>4. Len(b) \in Nat /\ Start(k) \in Nat /\ Start(k) <= Len(Connection) /\ Start(k) - Len(b) \in Nat
      BY <2>2 DEF Stands
    <2> QED BY <2>1, <2>2, <2>3, <2>4
  <1> QED BY <1>1, <1>2

\* The pieces from the body of one request to the end of the head of the next.
LEMMA BodyAndHead ==
  ASSUME WellFormed, NEW k \in 1 .. N
  PROVE  SubSeq(Connection, (Start(k - 1) - Len(Rest(k - 1))) + 1,
                            Start(k - 1) + Len(HeadOf(Requests[k])))
           = Rest(k - 1) \o HeadOf(Requests[k])
  <1> DEFINE h == HeadOf(Requests[k])
             a == Rest(k - 1)
             c == Connection
             s == Start(k - 1)
             m == s - Len(a)
             n == Len(a) + Len(h)
             g == a \o h
  <1>1. k - 1 \in 0 .. N
    BY Types
  <1>2. /\ a \in Seq(Piece) /\ Len(a) \in Nat /\ s \in Nat /\ m \in Nat
        /\ \A i \in 1 .. Len(a) : c[m + i] = a[i]
    BY <1>1, RestIs
  <1>3. /\ Len(h) \in Nat /\ s + Len(h) <= Len(c) /\ \A i \in 1 .. Len(h) : c[s + i] = h[i]
    <2>1. Stands(k, h, Requests[k].body)
      BY RequestStands
    <2> HIDE DEF h
    <2>2. Len(c) \in Nat
      BY ConnectionSeq
    <2> QED BY <2>1, <2>2 DEF Stands
  <1>4. c \in Seq(Piece) /\ h \in Seq(Piece)
    BY ConnectionSeq, HeadIs
  <1> HIDE DEF h, a, c, s
  <1>5. g \in Seq(Piece) /\ Joins(g, a, h)
    BY <1>2, <1>4, Concat
  <1>6. m + n = s + Len(h) /\ n \in Nat
    BY <1>2, <1>3
  <1> HIDE DEF m, n, g
  <1> DEFINE q == SubSeq(c, m + 1, m + n)
  <1>7. q \in Seq(Piece) /\ Len(q) = n /\ \A i \in 1 .. n : q[i] = c[m + i]
    BY <1>2, <1>3, <1>4, <1>6, Slice
  <1> HIDE DEF q
  <1>8. \A i \in 1 .. Len(q) : q[i] = g[i]
    <2> TAKE i \in 1 .. Len(q)
    <2>1. i \in 1 .. n /\ q[i] = c[m + i]
      BY <1>7
    <2>2. CASE i <= Len(a)
      <3>1. i \in 1 .. Len(a)
        BY <1>2, <2>1, <2>2
      <3> QED BY <1>2, <1>5, <2>1, <3>1 DEF Joins
    <2>3. CASE ~ (i <= Len(a))
      <3> DEFINE j == i - Len(a)
      <3>1. j \in 1 .. Len(h) /\ m + i = s + j /\ i = Len(a) + j
        BY <1>2, <1>3, <2>1, <2>3 DEF m, n
      <3> HIDE DEF j
      <3>2. c[m + i] = h[j]
        BY <1>3, <3>1
      <3>3. g[i] = h[j]
        BY <1>5, <3>1 DEF Joins
      <3> QED BY <2>1, <3>2, <3>3
    <2> QED BY <1>2, <2>1, <2>2, <2>3
  <1>9. q = g
    <2>1. Len(q) = Len(g)
      BY <1>5, <1>7 DEF Joins, n
    <2> QED BY <1>5, <1>7, <1>8, <2>1, Same
  <1> QED BY <1>6, <1>9 DEF h, a, c, s, m, n, g, q

-----------------------------------------------------------------------------
(* What is found in a head. *)

LEMMA MinIs ==
  ASSUME NEW T \in SUBSET Nat, NEW m \in T, \A k \in T : m <= k
  PROVE  Min(T) = m
  <1>1. Min(T) \in T /\ \A k \in T : Min(T) <= k
    BY DEF Min
  <1>2. Min(T) <= m /\ m <= Min(T) /\ Min(T) \in Nat /\ m \in Nat
    BY <1>1
  <1> QED BY <1>2

LEMMA LinesOfHead ==
  ASSUME WellFormed, NEW k \in 1 .. N
  PROVE  HeaderLines(HeadOf(Requests[k])) = NameLines(Requests[k].names)
  <1> DEFINE h == HeadOf(Requests[k])
             n == Requests[k].names
             l == NameLines(n)
             x == Line("no colon")
             z == Line("empty")
             rest == AfterFirstLine(h)
  <1>1. n \in Seq(DOMAIN Canonical)
    BY Types
  <1>2. /\ h \in Seq(Piece) /\ l \in Seq(Piece) /\ Len(l) = Len(n) /\ Len(h) = Len(n) + 2
        /\ Encloses(h, x, l, z)
    BY HeadIs
  <1>3. \A i \in DOMAIN n : l[i] = Line(n[i])
    BY DEF NameLines
  <1> HIDE DEF h, n, l, x, z
  <1>a. Len(n) \in Nat /\ DOMAIN n = 1 .. Len(n)
    BY <1>1
  <1>b. DOMAIN h = 1 .. Len(n) + 2 /\ DOMAIN l = 1 .. Len(n) /\ Len(h) = 1 + (Len(n) + 1)
    <2>1. DOMAIN h = 1 .. Len(h)
      BY <1>2
    <2>2. DOMAIN l = 1 .. Len(l)
      BY <1>2
    <2>3. Len(h) = Len(n) + 2 /\ Len(l) = Len(n)
      BY <1>2
    <2> QED BY <1>a, <2>1, <2>2, <2>3
  <1>c. \A i \in 1 .. Len(n) : n[i] \in DOMAIN Canonical
    BY <1>1
  <1>4. /\ Len(n) \in Nat /\ DOMAIN n = 1 .. Len(n) /\ DOMAIN h = 1 .. Len(n) + 2
        /\ DOMAIN l = 1 .. Len(n) /\ \A i \in 1 .. Len(n) : n[i] \in DOMAIN Canonical
    BY <1>a, <1>b, <1>c
  <1>5. /\ h[1] = x /\ h[Len(n) + 2] = z
        /\ \A i \in 1 .. Len(n) : h[i + 1] = Line(n[i]) /\ h[i + 1] = l[i]
    BY <1>2, <1>3, <1>4 DEF Encloses
  <1>6. /\ {i \in DOMAIN h : h[i].eol} # {}
        /\ Min({i \in DOMAIN h : h[i].eol}) = 1
    <2>1. 1 \in {i \in DOMAIN h : h[i].eol}
      <3>1. 1 \in DOMAIN h /\ h[1] = x
        BY <1>a, <1>b, <1>5
      <3>2. x.eol
        BY DEF Line, x
      <3> QED BY <3>1, <3>2
    <2>2. \A j \in {i \in DOMAIN h : h[i].eol} : 1 <= j
      BY <1>4
    <2>3. {i \in DOMAIN h : h[i].eol} \in SUBSET Nat
      BY <1>4
    <2> QED BY <2>1, <2>2, <2>3, MinIs
  <1>7. rest = SubSeq(h, 1 + 1, 1 + (Len(n) + 1))
    BY <1>6, <1>b DEF AfterFirstLine
  <1> HIDE DEF rest
  <1>8. /\ rest \in Seq(Piece) /\ Len(rest) = Len(n) + 1
        /\ \A i \in 1 .. Len(n) + 1 : rest[i] = h[1 + i]
    <2>1. 1 + (Len(n) + 1) <= Len(h) /\ Len(n) + 1 \in Nat
      BY <1>a, <1>b
    <2>2. h \in Seq(Piece)
      BY <1>2
    <2> QED BY <1>7, <2>1, <2>2, Slice
  <1>9. /\ \A i \in 1 .. Len(n) : rest[i] = l[i] /\ rest[i].name = n[i]
        /\ rest[Len(n) + 1].name = "empty"
    <2>1. \A i \in 1 .. Len(n) : rest[i] = l[i] /\ rest[i] = Line(n[i])
      <3> TAKE i \in 1 .. Len(n)
      <3>1. i \in 1 .. Len(n) + 1 /\ 1 + i = i + 1
        BY <1>4
      <3>2. rest[i] = h[i + 1]
        BY <1>8, <3>1
      <3> QED BY <1>5, <3>2
    <2>2. rest[Len(n) + 1] = z
      <3>1. rest[Len(n) + 1] = h[1 + (Len(n) + 1)] /\ 1 + (Len(n) + 1) = Len(n) + 2
        BY <1>4, <1>8
      <3> QED BY <1>5, <3>1
    <2>3. z.name = "empty"
      BY DEF Line, z
    <2>4. \A m : Line(m).name = m
      BY DEF Line
    <2> QED BY <2>1, <2>2, <2>3, <2>4
  <1>10. DOMAIN rest = 1 .. Len(n) + 1
    BY <1>8
  <1>11. \A i \in 1 .. Len(n) : n[i] # "empty"
    BY <1>4 DEF Special, WellFormed
  <1> DEFINE ends == {i \in DOMAIN rest : rest[i].name = "empty"}
  <1>12. ends # {} /\ Min(ends) - 1 = Len(n)
    <2>1. ends = {Len(n) + 1}
      <3>1. \A i \in DOMAIN rest : rest[i].name = "empty" <=> i = Len(n) + 1
        BY <1>4, <1>9, <1>10, <1>11
      <3> QED BY <1>4, <1>10, <3>1
    <2> HIDE DEF ends
    <2>2. /\ ends \in SUBSET Nat /\ Len(n) + 1 \in ends /\ Len(n) + 1 \in Nat
          /\ \A j \in ends : Len(n) + 1 <= j
      BY <1>4, <2>1
    <2>3. Min(ends) = Len(n) + 1
      BY <2>2, MinIs
    <2> QED BY <1>4, <2>2, <2>3
  <1>13. HeaderLines(h) = SubSeq(rest, 0 + 1, 0 + Len(n))
    <2>1. HeaderLines(h) = SubSeq(rest, 1, Min(ends) - 1)
      BY <1>12 DEF HeaderLines, rest
    <2>2. 0 + 1 = 1 /\ 0 + Len(n) = Len(n)
      BY <1>4
    <2> HIDE DEF ends
    <2> QED BY <1>12, <2>1, <2>2
  <1> HIDE DEF ends
  <1> DEFINE q == SubSeq(rest, 0 + 1, 0 + Len(n))
  <1>14. q \in Seq(Piece) /\ Len(q) = Len(n) /\ \A i \in 1 .. Len(n) : q[i] = rest[0 + i]
    <2>1. 0 + Len(n) <= Len(rest)
      BY <1>4, <1>8
    <2> QED BY <1>4, <1>8, <2>1, Slice
  <1> HIDE DEF q
  <1>15. q = l
    <2>1. \A i \in 1 .. Len(q) : q[i] = l[i]
      <3> TAKE i \in 1 .. Len(q)
      <3>1. i \in 1 .. Len(n) /\ 0 + i = i
        BY <1>4, <1>14
      <3> QED BY <1>9, <1>14, <3>1
    <2> QED BY <1>2, <1>14, <2>1, Same
  <1> QED BY <1>13, <1>15 DEF h, n, l, q

\* Out of a head come the names of its lines.
LEMMA NamesOfHead ==
  ASSUME WellFormed, NEW k \in 1 .. N
  PROVE  Http1ExtractHeaders(HeadOf(Requests[k])) = Requests[k].names
  <1> DEFINE n == Requests[k].names
             l == NameLines(n)
             starts == {i \in DOMAIN l : (i > 1 => l[i - 1].eol) /\ l[i].name # "indented"}
  <1>1. HeaderLines(HeadOf(Requests[k])) = l
    BY LinesOfHead
  <1>2. n \in Seq(DOMAIN Canonical) /\ l \in Seq(Piece) /\ Len(l) = Len(n)
    BY Types, HeadIs
  <1>3. \A i \in DOMAIN n : l[i].name = n[i] /\ l[i].eol
    BY DEF NameLines, Line
  <1> HIDE DEF n, l
  <1>4. /\ Len(n) \in Nat /\ DOMAIN n = 1 .. Len(n) /\ DOMAIN l = 1 .. Len(n)
        /\ \A i \in 1 .. Len(n) : n[i] \in DOMAIN Canonical
    BY <1>2
  <1>5. \A i \in 1 .. Len(n) : n[i] # "indented" /\ n[i] # "no colon"
    BY <1>4 DEF Special, WellFormed
  <1>6. starts = 1 .. Len(n)
    <2>1. \A i \in 1 .. Len(n) : (i > 1 => l[i - 1].eol) /\ l[i].name # "indented"
      <3> TAKE i \in 1 .. Len(n)
      <3>1. i > 1 => i - 1 \in 1 .. Len(n)
        BY <1>4
      <3> QED BY <1>3, <1>4, <1>5, <3>1
    <2> QED BY <1>4, <2>1
  <1>7. ~ (l # <<>> /\ l[1].name = "indented")
    <2>1. l # <<>> => 1 \in 1 .. Len(n)
      BY <1>2, <1>4
    <2> QED BY <1>3, <1>4, <1>5, <2>1
  <1>8. ~ \E i \in starts : l[i].name = "no colon"
    BY <1>3, <1>4, <1>5, <1>6
  <1>9. Http1ExtractHeaders(HeadOf(Requests[k])) = [i \in starts |-> l[i].name]
    BY <1>1, <1>7, <1>8 DEF Http1ExtractHeaders
  <1>10. [i \in starts |-> l[i].name] = [i \in 1 .. Len(n) |-> n[i]]
    BY <1>3, <1>4, <1>6
  <1>11. [i \in 1 .. Len(n) |-> n[i]] = n
    BY <1>2, <1>4
  <1> QED BY <1>9, <1>10, <1>11 DEF n

-----------------------------------------------------------------------------
(* Where the buffer and the clone are. *)

\* The clone has been emptied up to the head that was searched last; the body
\* behind it stays in the clone.
PlaceInv ==
  /\ done \in 0 .. N /\ pc \in {"head", "names", "body"}
  /\ fed \in Nat /\ read \in Nat /\ taken \in Nat
  /\ taken <= read /\ read <= fed /\ fed <= Len(Connection)
  /\ pc = "head" => read = Start(done) /\ taken = Start(done) - Len(Rest(done))
  /\ pc # "head" =>
       done # 0 /\ read = Start(done - 1) + Len(HeadOf(Requests[done]))
  /\ pc = "names" => taken = Start(done - 1) - Len(Rest(done - 1))
  /\ pc = "body" => taken = read

LEMMA PlaceInit ==
  ASSUME WellFormed
  PROVE  Init => PlaceInv
  <1> SUFFICES ASSUME Init PROVE PlaceInv
    OBVIOUS
  <1>1. N \in Nat /\ Start(0) = 0 /\ Rest(0) = <<>> /\ Len(Connection) \in Nat
    BY Types, ConnectionSeq DEF Start, Rest
  <1>2. Len(<<>>) = 0
    OBVIOUS
  <1> QED BY <1>1, <1>2 DEF Init, PlaceInv

LEMMA PlaceStep ==
  ASSUME WellFormed
  PROVE  PlaceInv /\ [Next]_vars => PlaceInv'
  <1> SUFFICES ASSUME PlaceInv, [Next]_vars PROVE PlaceInv'
    OBVIOUS
  <1> USE DEF PlaceInv
  <1>n. N \in Nat /\ Len(Connection) \in Nat
    BY Types, ConnectionSeq
  <1>1. CASE Fill
    BY <1>1, <1>n DEF Fill
  <1>2. CASE ReadRequest
    <2> DEFINE k == done + 1
    <2>1. /\ pc = "head" /\ k \in 1 .. N /\ k - 1 = done /\ done' = k /\ done # N
          /\ fed' = fed /\ taken' = taken /\ pc' = "names"
          /\ read' = read + Len(HeadOf(Requests[k])) /\ read' <= fed
      BY <1>2, <1>n DEF ReadRequest, N
    <2> HIDE DEF k
    <2>2. Len(HeadOf(Requests[k])) \in Nat
      BY <2>1, RequestStands DEF Stands
    <2>3. Start(k - 1) = Start(done) /\ Rest(k - 1) = Rest(done)
      BY <2>1
    <2> QED BY <1>n, <2>1, <2>2, <2>3
  <1>3. CASE TakeNames
    BY <1>3, <1>n DEF TakeNames
  <1>4. CASE ReadBody
    <2> DEFINE b == Requests[done].body
               h == HeadOf(Requests[done])
    <2>1. /\ pc = "body" /\ done \in 1 .. N /\ done' = done /\ fed' = fed /\ taken' = taken
          /\ pc' = "head" /\ read' = read + Len(b) /\ read' <= fed
          /\ read = Start(done - 1) + Len(h) /\ taken = read
      BY <1>4, <1>n DEF ReadBody
    <2>2. Stands(done, h, b) /\ Rest(done) = b
      BY <2>1, RequestStands DEF Rest
    <2> HIDE DEF b, h
    <2>3. Len(b) \in Nat /\ Start(done) = read + Len(b)
      BY <2>1, <2>2 DEF Stands
    <2> QED BY <1>n, <2>1, <2>2, <2>3
  <1>5. CASE UNCHANGED vars
    BY <1>5 DEF vars
  <1> QED BY <1>1, <1>2, <1>3, <1>4, <1>5 DEF Next

\* The search is given the body of the request before, and the head behind it:
\* what was left of the body in the clone comes first (request.go:133-141).
SearchesBodyAndHead ==
  pc = "names" => Data = Rest(done - 1) \o HeadOf(Requests[done])

LEMMA DataIs ==
  ASSUME WellFormed
  PROVE  PlaceInv => SearchesBodyAndHead
  <1> SUFFICES ASSUME PlaceInv, pc = "names" PROVE Data = Rest(done - 1) \o HeadOf(Requests[done])
    BY DEF SearchesBodyAndHead
  <1>1. /\ done \in 1 .. N /\ fed \in Nat /\ read \in Nat /\ taken \in Nat
        /\ taken = Start(done - 1) - Len(Rest(done - 1))
        /\ read = Start(done - 1) + Len(HeadOf(Requests[done]))
    BY Types DEF PlaceInv
  <1>2. taken + (fed - taken) - (fed - read) = read
    BY <1>1
  <1>3. Data = SubSeq(Connection, taken + 1, read)
    BY <1>2 DEF Data
  <1> QED BY <1>1, <1>3, BodyAndHead

\* Whatever is read ahead, the search for a request's names is given the body of
\* the request before it and then exactly the head of this one.
THEOREM SearchIsBodyAndHead ==
  ASSUME WellFormed
  PROVE  Spec => []SearchesBodyAndHead
  <1>1. Init => PlaceInv
    BY PlaceInit
  <1>2. PlaceInv /\ [Next]_vars => PlaceInv'
    BY PlaceStep
  <1>3. PlaceInv => SearchesBodyAndHead
    BY DataIs
  <1> QED BY <1>1, <1>2, <1>3, PTL DEF Spec

-----------------------------------------------------------------------------
(* The names the handler gets. *)

\* The names of the header are the client's, one for every canonical name; if
\* the client spelled every name in one way, they are the client's names.
AsSent(h, n) ==
  /\ h \subseteq ToSet(n)
  /\ \A x \in ToSet(n) : \E y \in h : Canonical[y] = Canonical[x]
  /\ (\A x, y \in ToSet(n) : Canonical[x] = Canonical[y] => x = y) => h = ToSet(n)

NamesFollowNoBody == pc = "body" /\ Rest(done - 1) = <<>> => AsSent(header, Requests[done].names)

\* What TakeNames makes of a header with the canonical names, if it finds the names n.
Spelled(n, c) == {i \in DOMAIN n : Canonical[n[i]] = c /\ n[i] # c}
Respelled(n, h) == {IF Spelled(n, c) = {} THEN c ELSE n[Min(Spelled(n, c))] : c \in h}

LEMMA RespelledAsSent ==
  ASSUME NEW S, NEW n \in Seq(S)
  PROVE  AsSent(Respelled(n, {Canonical[x] : x \in ToSet(n)}), n)
  <1> DEFINE T == ToSet(n)
             h == Respelled(n, {Canonical[x] : x \in T})
             name(c) == IF Spelled(n, c) = {} THEN c ELSE n[Min(Spelled(n, c))]
  <1>1. h = {name(c) : c \in {Canonical[x] : x \in T}}
    BY DEF Respelled
  <1>2. T = {n[i] : i \in DOMAIN n} /\ DOMAIN n \in SUBSET Nat
    BY DEF ToSet
  <1>3. ASSUME NEW x \in T
        PROVE  name(Canonical[x]) \in T /\ Canonical[name(Canonical[x])] = Canonical[x]
    <2> DEFINE c == Canonical[x]
    <2>1. PICK i \in DOMAIN n : x = n[i]
      BY <1>2
    <2>2. CASE Spelled(n, c) = {}
      <3>1. n[i] = c
        BY <2>1, <2>2 DEF Spelled
      <3> QED BY <2>1, <2>2, <3>1
    <2>3. CASE Spelled(n, c) # {}
      <3>1. Spelled(n, c) \in SUBSET Nat
        BY <1>2 DEF Spelled
      <3>2. PICK m \in Spelled(n, c) : \A k \in Spelled(n, c) : m <= k
        BY <2>3, <3>1, Least
      <3>3. Min(Spelled(n, c)) = m
        BY <3>1, <3>2, MinIs
      <3>4. m \in DOMAIN n /\ Canonical[n[m]] = c
        BY <3>2 DEF Spelled
      <3>5. n[m] \in T /\ name(c) = n[m]
        BY <1>2, <2>3, <3>3, <3>4
      <3> QED BY <3>4, <3>5
    <2> QED BY <2>2, <2>3
  <1> HIDE DEF name, h, T
  <1>4. h \subseteq T
    BY <1>1, <1>3
  <1>5. \A x \in T : \E y \in h : Canonical[y] = Canonical[x]
    <2> TAKE x \in T
    <2>1. name(Canonical[x]) \in h
      BY <1>1
    <2> QED BY <1>3, <2>1
  <1>6. ASSUME \A x, y \in T : Canonical[x] = Canonical[y] => x = y
        PROVE  h = T
    <2>1. ASSUME NEW x \in T PROVE x \in h
      <3>1. PICK y \in h : Canonical[y] = Canonical[x]
        BY <1>5
      <3> QED BY <1>4, <1>6, <3>1
    <2> QED BY <1>4, <2>1
  <1> QED BY <1>4, <1>5, <1>6 DEF AsSent, h, T

HeaderInv ==
  /\ pc = "names" => header = {Canonical[n] : n \in ToSet(Requests[done].names)}
  /\ NamesFollowNoBody

LEMMA HeaderStep ==
  ASSUME WellFormed
  PROVE  PlaceInv /\ HeaderInv /\ [Next]_vars => HeaderInv'
  <1> SUFFICES ASSUME PlaceInv, HeaderInv, [Next]_vars PROVE HeaderInv'
    OBVIOUS
  <1>1. CASE Fill
    BY <1>1 DEF Fill, HeaderInv, NamesFollowNoBody
  <1>2. CASE ReadRequest
    BY <1>2 DEF ReadRequest, HeaderInv, NamesFollowNoBody
  <1>3. CASE TakeNames
    <2> DEFINE n == Requests[done].names
               h == HeadOf(Requests[done])
    <2>1. /\ pc = "names" /\ pc' = "body" /\ done' = done
          /\ header' = Respelled(Http1ExtractHeaders(Data), header)
      BY <1>3 DEF TakeNames, Respelled, Spelled
    <2>2. header = {Canonical[x] : x \in ToSet(n)}
      BY <2>1 DEF HeaderInv
    <2>3. done \in 1 .. N
      BY <2>1, Types DEF PlaceInv
    <2>4. n \in Seq(DOMAIN Canonical) /\ h \in Seq(Piece) /\ Http1ExtractHeaders(h) = n
      BY <2>3, Types, HeadIs, NamesOfHead
    <2>5. Data = Rest(done - 1) \o h
      BY <2>1, DataIs DEF SearchesBodyAndHead
    <2> HIDE DEF n, h
    <2>6. ASSUME Rest(done - 1) = <<>> PROVE AsSent(header', n)
      <3>1. <<>> \o h = h
        BY <2>4
      <3>2. header' = Respelled(n, {Canonical[x] : x \in ToSet(n)})
        BY <2>1, <2>2, <2>4, <2>5, <2>6, <3>1
      <3> QED BY <2>4, <3>2, RespelledAsSent
    <2>7. NamesFollowNoBody'
      BY <2>1, <2>6 DEF NamesFollowNoBody, n
    <2> QED BY <2>1, <2>7 DEF HeaderInv
  <1>4. CASE ReadBody
    BY <1>4 DEF ReadBody, HeaderInv, NamesFollowNoBody
  <1>5. CASE UNCHANGED vars
    BY <1>5 DEF vars, HeaderInv, NamesFollowNoBody
  <1> QED BY <1>1, <1>2, <1>3, <1>4, <1>5 DEF Next

\* A request that follows one without a body, or is the first, reaches the handler
\* under the names the client gave: the fault of getRequestReader is confined to
\* requests behind a body.
THEOREM NamesAreKeptBehindNoBody ==
  ASSUME WellFormed
  PROVE  Spec => []NamesFollowNoBody
  <1>1. Init => PlaceInv /\ HeaderInv
    BY PlaceInit DEF Init, HeaderInv, NamesFollowNoBody
  <1>2. PlaceInv /\ [Next]_vars => PlaceInv'
    BY PlaceStep
  <1>3. PlaceInv /\ HeaderInv /\ [Next]_vars => HeaderInv'
    BY HeaderStep
  <1>4. HeaderInv => NamesFollowNoBody
    BY DEF HeaderInv
  <1> QED BY <1>1, <1>2, <1>3, <1>4, PTL DEF Spec
=============================================================================
