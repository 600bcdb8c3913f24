--------------------------- MODULE PanelHub_proofs ---------------------------
(***************************************************************************)
(* Proofs about PanelHub, for any streams, panels, capacities and batch    *)
(* sizes and any number of messages.                                       *)
(***************************************************************************)
EXTENDS PanelHub, WellFoundedInduction, TLAPS

-----------------------------------------------------------------------------
(* The filter of a log batch. *)

Increasing(q) == \A i, j \in DOMAIN q : i < j => q[i] < q[j]

\* A set of numbers that is not empty has a least one.
LEMMA Least ==
  ASSUME NEW T \in SUBSET Nat, T # {}
  PROVE  \E m \in T : \A k \in T : m <= k
  <1>1. \E x \in T : \A y \in T : ~ (<<y, x>> \in OpToRel(<, Nat))
    BY WFMin, NatLessThanWellFounded
  <1>2. PICK x \in T : \A y \in T : ~ (<<y, x>> \in OpToRel(<, Nat))
    BY <1>1
  <1>3. \A y \in T : ~ (y < x)
    BY <1>2 DEF OpToRel
  <1> QED BY <1>3

\* The table behind Kept, up to a length.
Filtering(q, T, n, f) ==
  f = [k \in 0 .. n |->
        IF k = 0 THEN <<>>
        ELSE IF q[k] \in T THEN Append(f[k - 1], q[k]) ELSE f[k - 1]]

LEMMA FilteringExists ==
  ASSUME NEW q, NEW T, NEW l \in Nat
  PROVE  \E f : Filtering(q, T, l, f)
  <1> DEFINE Bad == {n \in Nat : ~ \E f : Filtering(q, T, n, f)}
  <1> SUFFICES ASSUME Bad # {} PROVE FALSE
    OBVIOUS
  <1>1. PICK n \in Bad : \A k \in Bad : n <= k
    BY Least
  <1>2. n # 0
    <2> DEFINE f == [k \in 0 .. 0 |-> <<>>]
    <2>1. Filtering(q, T, 0, f)
      BY DEF Filtering
    <2> QED BY <2>1
  <1>3. n - 1 \in Nat /\ n - 1 \notin Bad
    BY <1>1, <1>2
  <1>4. PICK g : Filtering(q, T, n - 1, g)
    BY <1>3
  <1> DEFINE f == [k \in 0 .. n |->
                    IF k = n THEN IF q[n] \in T THEN Append(g[n - 1], q[n]) ELSE g[n - 1] ELSE g[k]]
  <1>5. f = [k \in 0 .. n |->
              IF k = 0 THEN <<>>
              ELSE IF q[k] \in T THEN Append(f[k - 1], q[k]) ELSE f[k - 1]]
    <2> SUFFICES ASSUME NEW k \in 0 .. n
                 PROVE  f[k] = IF k = 0 THEN <<>>
                               ELSE IF q[k] \in T THEN Append(f[k - 1], q[k]) ELSE f[k - 1]
      OBVIOUS
    <2>1. CASE k = n
      <3>1. f[n - 1] = g[n - 1]
        BY <1>2, <1>3
      <3> QED BY <1>2, <2>1, <3>1
    <2>2. CASE k # n
      <3>1. k \in 0 .. n - 1 /\ f[k] = g[k]
        BY <1>3, <2>2
      <3>2. g[k] = IF k = 0 THEN <<>>
                   ELSE IF q[k] \in T THEN Append(g[k - 1], q[k]) ELSE g[k - 1]
        BY <1>4, <3>1 DEF Filtering
      <3>3. k # 0 => f[k - 1] = g[k - 1]
        BY <1>3, <3>1
      <3> QED BY <3>1, <3>2, <3>3
    <2> QED BY <2>1, <2>2
  <1>6. \E h : Filtering(q, T, n, h)
    BY <1>5 DEF Filtering
  <1> QED BY <1>1, <1>6

LEMMA KeptIs ==
  ASSUME NEW q \in Seq(Nat), NEW T
  PROVE  \E f : Filtering(q, T, Len(q), f) /\ Kept(q, T) = f[Len(q)]
  <1>1. Len(q) \in Nat
    OBVIOUS
  <1>2. \E f : Filtering(q, T, Len(q), f)
    BY <1>1, FilteringExists
  <1>3. Filtering(q, T, Len(q), CHOOSE f : Filtering(q, T, Len(q), f))
    BY <1>2
  <1>4. Kept(q, T) = (CHOOSE f : Filtering(q, T, Len(q), f))[Len(q)]
    BY DEF Kept, Filtering
  <1> QED BY <1>3, <1>4

\* What the filter returns comes from the sequence and is wanted, in the
\* sequence's order, and nothing wanted is left out.
Filtered(p, q, n, T) ==
  /\ p \in Seq(Nat)
  /\ \A i \in DOMAIN p : \E j \in 1 .. n : p[i] = q[j] /\ q[j] \in T
  /\ Increasing(q) => Increasing(p)
  /\ \A j \in 1 .. n : q[j] \in T => \E i \in DOMAIN p : p[i] = q[j]

\* One element more.
LEMMA FilteredNext ==
  ASSUME NEW q \in Seq(Nat), NEW T, NEW n \in 0 .. Len(q) - 1, NEW p, Filtered(p, q, n, T),
         NEW r, r = IF q[n + 1] \in T THEN Append(p, q[n + 1]) ELSE p
  PROVE  Filtered(r, q, n + 1, T)
  <1>1. n \in Nat /\ n + 1 \in DOMAIN q /\ q[n + 1] \in Nat /\ p \in Seq(Nat)
    BY DEF Filtered
  <1>2. CASE q[n + 1] \notin T
    <2>1. r = p
      BY <1>2
    <2>2. \A j \in 1 .. n + 1 : j \in 1 .. n \/ j = n + 1
      BY <1>1
    <2>3. \A j \in 1 .. n : j \in 1 .. n + 1
      BY <1>1
    <2> QED BY <1>2, <2>1, <2>2, <2>3 DEF Filtered
  <1>3. CASE q[n + 1] \in T
    <2>1. /\ r = Append(p, q[n + 1]) /\ r \in Seq(Nat) /\ Len(r) = Len(p) + 1
          /\ DOMAIN r = 1 .. Len(p) + 1 /\ DOMAIN p = 1 .. Len(p)
          /\ r[Len(p) + 1] = q[n + 1] /\ \A i \in DOMAIN p : r[i] = p[i] /\ p[i] \in Nat
      BY <1>1, <1>3
    <2>2. ASSUME NEW i \in DOMAIN r PROVE \E j \in 1 .. n + 1 : r[i] = q[j] /\ q[j] \in T
      <3>1. CASE i = Len(p) + 1
        BY <1>1, <1>3, <2>1, <3>1
      <3>2. CASE i # Len(p) + 1
        <4>1. i \in DOMAIN p
          BY <2>1, <3>2
        <4>2. PICK j \in 1 .. n : p[i] = q[j] /\ q[j] \in T
          BY <4>1 DEF Filtered
        <4>3. j \in 1 .. n + 1
          BY <1>1
        <4> QED BY <2>1, <4>1, <4>2, <4>3
      <3> QED BY <3>1, <3>2
    <2>3. ASSUME NEW j \in 1 .. n + 1, q[j] \in T PROVE \E i \in DOMAIN r : r[i] = q[j]
      <3>1. CASE j = n + 1
        <4>1. Len(p) \in Nat /\ Len(p) + 1 \in DOMAIN r
          BY <1>1, <2>1
        <4>2. r[Len(p) + 1] = q[j]
          BY <2>1, <3>1
        <4> QED BY <4>1, <4>2
      <3>2. CASE j # n + 1
        <4>1. j \in 1 .. n
          BY <1>1, <3>2
        <4>2. PICK i \in DOMAIN p : p[i] = q[j]
          BY <2>3, <4>1 DEF Filtered
        <4>3. i \in DOMAIN r
          BY <2>1
        <4> QED BY <2>1, <4>2, <4>3
      <3> QED BY <3>1, <3>2
    <2>4. ASSUME Increasing(q) PROVE Increasing(r)
      <3>1. SUFFICES ASSUME NEW i \in DOMAIN r, NEW k \in DOMAIN r, i < k PROVE r[i] < r[k]
        BY DEF Increasing
      <3>2. i \in DOMAIN p
        BY <2>1, <3>1
      <3>3. CASE k = Len(p) + 1
        <4>1. PICK j \in 1 .. n : p[i] = q[j]
          BY <3>2 DEF Filtered
        <4>2. j \in DOMAIN q /\ j < n + 1
          BY <1>1
        <4>3. q[j] < q[n + 1]
          BY <1>1, <2>4, <4>2 DEF Increasing
        <4> QED BY <2>1, <3>2, <3>3, <4>1, <4>3
      <3>4. CASE k # Len(p) + 1
        <4>1. k \in DOMAIN p
          BY <2>1, <3>4
        <4>2. Increasing(p)
          BY <2>4 DEF Filtered
        <4> QED BY <2>1, <3>1, <3>2, <4>1, <4>2 DEF Increasing
      <3> QED BY <3>3, <3>4
    <2> QED BY <2>1, <2>2, <2>3, <2>4 DEF Filtered
  <1> QED BY <1>2, <1>3

LEMMA KeptIsFiltered ==
  ASSUME NEW q \in Seq(Nat), NEW T
  PROVE  Filtered(Kept(q, T), q, Len(q), T)
  <1>1. PICK f : Filtering(q, T, Len(q), f) /\ Kept(q, T) = f[Len(q)]
    BY KeptIs
  <1> DEFINE Bad == {n \in 0 .. Len(q) : ~ Filtered(f[n], q, n, T)}
  <1>2. ASSUME Bad # {} PROVE FALSE
    <2> DEFINE B == Bad
    <2>0. B \in SUBSET Nat /\ B # {}
      BY <1>2
    <2> HIDE DEF B
    <2>1. PICK n \in B : \A k \in B : n <= k
      BY <2>0, Least
    <2> USE DEF B
    <2>2. CASE n = 0
      <3>1. f[0] = <<>>
        BY <1>1 DEF Filtering
      <3>2. Filtered(<<>>, q, 0, T)
        BY DEF Filtered, Increasing
      <3> QED BY <2>1, <2>2, <3>1, <3>2
    <2>3. CASE n # 0
      <3>1. n - 1 \in 0 .. Len(q) - 1 /\ n - 1 \in 0 .. Len(q) /\ n - 1 < n /\ (n - 1) + 1 = n
        BY <2>3
      <3>2. Filtered(f[n - 1], q, n - 1, T)
        BY <2>1, <3>1
      <3>3. f[n] = IF q[n] \in T THEN Append(f[n - 1], q[n]) ELSE f[n - 1]
        BY <1>1, <2>3 DEF Filtering
      <3> DEFINE p == f[n - 1]
                 r == f[n]
                 m == n - 1
      <3>4. Filtered(p, q, m, T) /\ m \in 0 .. Len(q) - 1
            /\ r = IF q[m + 1] \in T THEN Append(p, q[m + 1]) ELSE p
        BY <3>1, <3>2, <3>3
      <3> HIDE DEF p, r, m
      <3>5. Filtered(r, q, m + 1, T)
        BY <3>4, FilteredNext
      <3> QED BY <2>1, <3>1, <3>5 DEF r, m
    <2> QED BY <2>2, <2>3
  <1>3. Len(q) \in 0 .. Len(q)
    OBVIOUS
  <1>4. Filtered(f[Len(q)], q, Len(q), T)
    BY <1>2, <1>3
  <1> QED BY <1>1, <1>4
-----------------------------------------------------------------------------
(* Type correctness. *)

\* A stream: what was dropped, what waits and what is being sent was offered,
\* and a batch that still grows is not full.
StreamType(s) ==
  /\ dropped[s] \subseteq 1 .. offered[s]
  /\ chan[s] \in Seq(1 .. offered[s]) /\ Len(chan[s]) <= Capacity[s]
  /\ batch[s] \in Seq(1 .. offered[s]) /\ Len(batch[s]) <= Limit[s]
  /\ message[s] \in Seq(1 .. offered[s])
  /\ pusher[s] = "collect" => Len(batch[s]) < Limit[s]

StreamTypes ==
  /\ intercepts \in Nat /\ figure \in Nat
  /\ offered \in [Streams -> Nat]
  /\ dropped = [s \in Streams |-> dropped[s]]
  /\ chan = [s \in Streams |-> chan[s]]
  /\ batch = [s \in Streams |-> batch[s]]
  /\ message = [s \in Streams |-> message[s]]
  /\ pusher \in [Streams -> {"collect", "visit", "lock", "write"}]
  /\ \A s \in Streams : StreamType(s)

PanelTypes ==
  /\ pending \in [Streams -> SUBSET Panels]
  /\ target \in [Streams -> SUBSET Panels]
  /\ clients \subseteq Panels
  /\ socket \in [Panels -> {"none", "open", "closed"}]
  /\ stalled \subseteq Panels
  /\ topics \in [Panels -> SUBSET Streams]
  /\ level \in [Panels -> {"INFO"} \cup {q.level : q \in Requests}]

TypeInv == StreamTypes /\ PanelTypes

LEMMA TypeInit == Init => TypeInv
  <1> SUFFICES ASSUME Init PROVE TypeInv
    OBVIOUS
  <1>1. ASSUME NEW s \in Streams PROVE StreamType(s)
    BY <1>1, StreamsAssumption DEF Init, StreamType
  <1>2. StreamTypes
    BY <1>1 DEF Init, StreamTypes
  <1>3. PanelTypes
    BY DEF Init, PanelTypes
  <1> QED BY <1>2, <1>3 DEF TypeInv

\* A step that touches one stream.
LEMMA OneStream ==
  ASSUME StreamTypes, NEW s \in Streams, NEW o, NEW d, NEW m, NEW b, NEW w, NEW at,
         o \in Nat, at \in {"collect", "visit", "lock", "write"},
         offered' = [offered EXCEPT ![s] = o], dropped' = [dropped EXCEPT ![s] = d],
         chan' = [chan EXCEPT ![s] = m], batch' = [batch EXCEPT ![s] = b],
         message' = [message EXCEPT ![s] = w], pusher' = [pusher EXCEPT ![s] = at],
         intercepts' \in Nat, figure' \in Nat,
         d \subseteq 1 .. o, m \in Seq(1 .. o), Len(m) <= Capacity[s],
         b \in Seq(1 .. o), Len(b) <= Limit[s], w \in Seq(1 .. o),
         at = "collect" => Len(b) < Limit[s]
  PROVE  StreamTypes'
  <1>1. /\ offered' \in [Streams -> Nat] /\ pusher' \in [Streams -> {"collect", "visit", "lock", "write"}]
        /\ dropped' = [t \in Streams |-> dropped'[t]]
        /\ chan' = [t \in Streams |-> chan'[t]]
        /\ batch' = [t \in Streams |-> batch'[t]]
        /\ message' = [t \in Streams |-> message'[t]]
    BY DEF StreamTypes
  <1>2. ASSUME NEW t \in Streams PROVE StreamType(t)'
    <2>1. CASE t = s
      <3>1. /\ offered'[t] = o /\ dropped'[t] = d /\ chan'[t] = m /\ batch'[t] = b
            /\ message'[t] = w /\ pusher'[t] = at
        BY <2>1 DEF StreamTypes
      <3> QED BY <2>1, <3>1 DEF StreamType
    <2>2. CASE t # s
      <3>1. /\ offered'[t] = offered[t] /\ dropped'[t] = dropped[t] /\ chan'[t] = chan[t]
            /\ batch'[t] = batch[t] /\ message'[t] = message[t] /\ pusher'[t] = pusher[t]
        BY <2>2 DEF StreamTypes
      <3>2. StreamType(t)
        BY DEF StreamTypes
      <3> QED BY <3>1, <3>2 DEF StreamType
    <2> QED BY <2>1, <2>2
  <1> QED BY <1>1, <1>2 DEF StreamTypes

\* The values of one stream as they are.
LEMMA AsItIs ==
  ASSUME StreamTypes, NEW s \in Streams
  PROVE  /\ offered = [offered EXCEPT ![s] = offered[s]] /\ offered[s] \in Nat
         /\ dropped = [dropped EXCEPT ![s] = dropped[s]]
         /\ chan = [chan EXCEPT ![s] = chan[s]]
         /\ batch = [batch EXCEPT ![s] = batch[s]]
         /\ message = [message EXCEPT ![s] = message[s]]
         /\ pusher = [pusher EXCEPT ![s] = pusher[s]]
         /\ StreamType(s)
  BY DEF StreamTypes

\* A message more, at the end.
LEMMA OneMore ==
  ASSUME NEW n \in Nat, NEW q \in Seq(1 .. n)
  PROVE  /\ q \in Seq(1 .. n + 1)
         /\ Append(q, n + 1) \in Seq(1 .. n + 1) /\ Len(Append(q, n + 1)) = Len(q) + 1
  OBVIOUS

LEMMA TypeOfOffer ==
  ASSUME TypeInv, NEW s \in Streams, Offer(s)
  PROVE  StreamTypes'
  <1> DEFINE n == offered[s]
  <1>1. StreamTypes /\ n \in Nat /\ StreamType(s)
    BY AsItIs DEF TypeInv
  <1>2. /\ offered' = [offered EXCEPT ![s] = n + 1] /\ offered'[s] = n + 1
        /\ UNCHANGED <<intercepts, figure, batch, message, pusher>>
    BY <1>1 DEF Offer, pushVars, StreamTypes
  <1>3. /\ chan[s] \in Seq(1 .. n + 1) /\ batch[s] \in Seq(1 .. n + 1)
        /\ message[s] \in Seq(1 .. n + 1)
        /\ Append(chan[s], n + 1) \in Seq(1 .. n + 1)
        /\ Len(Append(chan[s], n + 1)) = Len(chan[s]) + 1
        /\ dropped[s] \subseteq 1 .. n + 1
    <2>1. /\ chan[s] \in Seq(1 .. n) /\ batch[s] \in Seq(1 .. n) /\ dropped[s] \subseteq 1 .. n
          /\ message[s] \in Seq(1 .. n)
      BY <1>1 DEF StreamType
    <2>2. /\ chan[s] \in Seq(1 .. n + 1) /\ batch[s] \in Seq(1 .. n + 1)
          /\ message[s] \in Seq(1 .. n + 1)
          /\ Append(chan[s], n + 1) \in Seq(1 .. n + 1)
          /\ Len(Append(chan[s], n + 1)) = Len(chan[s]) + 1
      BY <1>1, <2>1, OneMore
    <2> QED BY <1>1, <2>1, <2>2
  <1>4. /\ Len(batch[s]) <= Limit[s] /\ Len(chan[s]) <= Capacity[s]
        /\ pusher[s] = "collect" => Len(batch[s]) < Limit[s]
    BY <1>1 DEF StreamType
  <1>5. pusher[s] \in {"collect", "visit", "lock", "write"} /\ intercepts \in Nat /\ figure \in Nat
    BY <1>1 DEF StreamTypes
  <1>6. CASE Len(chan[s]) < Capacity[s]
    <2>1. chan' = [chan EXCEPT ![s] = Append(chan[s], n + 1)] /\ UNCHANGED dropped
      BY <1>2, <1>6 DEF Offer
    <2>2. Len(chan[s]) + 1 <= Capacity[s]
      BY <1>1, <1>6, StreamsAssumption DEF StreamType
    <2> HIDE DEF n
    <2>3. Len(Append(chan[s], n + 1)) <= Capacity[s] /\ n + 1 \in Nat
      BY <1>1, <1>3, <2>2
    <2>4. /\ dropped' = [dropped EXCEPT ![s] = dropped[s]] /\ batch' = [batch EXCEPT ![s] = batch[s]]
          /\ message' = [message EXCEPT ![s] = message[s]]
          /\ pusher' = [pusher EXCEPT ![s] = pusher[s]] /\ intercepts' \in Nat /\ figure' \in Nat
      BY <1>1, <1>2, <1>5, <2>1, AsItIs
    <2> DEFINE k == n + 1
               m == Append(chan[s], k)
    <2>5. /\ k \in Nat /\ offered' = [offered EXCEPT ![s] = k]
          /\ chan' = [chan EXCEPT ![s] = m] /\ m \in Seq(1 .. k) /\ Len(m) <= Capacity[s]
          /\ dropped[s] \subseteq 1 .. k /\ batch[s] \in Seq(1 .. k) /\ message[s] \in Seq(1 .. k)
      BY <1>2, <1>3, <2>1, <2>3
    <2> HIDE DEF k, m
    <2> QED BY <1>1, <1>4, <1>5, <2>4, <2>5, OneStream
  <1>7. CASE ~ (Len(chan[s]) < Capacity[s])
    <2>1. dropped' = [dropped EXCEPT ![s] = dropped[s] \cup {n + 1}] /\ UNCHANGED chan
      BY <1>2, <1>7 DEF Offer
    <2> HIDE DEF n
    <2>2. dropped[s] \cup {n + 1} \subseteq 1 .. n + 1 /\ n + 1 \in Nat
      BY <1>1, <1>3
    <2>3. /\ chan' = [chan EXCEPT ![s] = chan[s]] /\ batch' = [batch EXCEPT ![s] = batch[s]]
          /\ message' = [message EXCEPT ![s] = message[s]]
          /\ pusher' = [pusher EXCEPT ![s] = pusher[s]] /\ intercepts' \in Nat /\ figure' \in Nat
      BY <1>1, <1>2, <1>5, <2>1, AsItIs
    <2> QED BY <1>1, <1>2, <1>3, <1>4, <1>5, <2>1, <2>2, <2>3, OneStream
  <1> QED BY <1>6, <1>7

\* The message that a pusher takes out of a channel was offered.
LEMMA Taken ==
  ASSUME NEW n \in Nat, NEW q \in Seq(1 .. n), NEW b \in Seq(1 .. n), q # <<>>
  PROVE  /\ Tail(q) \in Seq(1 .. n) /\ Len(Tail(q)) <= Len(q)
         /\ Append(b, Head(q)) \in Seq(1 .. n) /\ Len(Append(b, Head(q))) = Len(b) + 1
         /\ Head(q) \in 1 .. n
  OBVIOUS

LEMMA TypeOfReceive ==
  ASSUME TypeInv, NEW s \in Streams, Receive(s)
  PROVE  StreamTypes'
  <1> DEFINE n == offered[s]
             m == Tail(chan[s])
             b == Append(batch[s], Head(chan[s]))
  <1>1. StreamTypes /\ n \in Nat /\ StreamType(s)
    BY AsItIs DEF TypeInv
  <1>2. /\ chan[s] # <<>> /\ chan' = [chan EXCEPT ![s] = m] /\ batch' = [batch EXCEPT ![s] = b]
        /\ batch'[s] = b /\ UNCHANGED <<intercepts, offered, dropped, message>> /\ pusher[s] = "collect"
    BY <1>1 DEF Receive, StreamTypes, Goto, BeginSend
  <1>3. /\ m \in Seq(1 .. n) /\ Len(m) <= Len(chan[s])
        /\ b \in Seq(1 .. n) /\ Len(b) = Len(batch[s]) + 1
    BY <1>1, <1>2, Taken DEF StreamType
  <1>4. /\ Len(b) <= Limit[s] /\ Len(m) <= Capacity[s] /\ dropped[s] \subseteq 1 .. n
        /\ message[s] \in Seq(1 .. n)
    BY <1>1, <1>2, <1>3, StreamsAssumption DEF StreamType
  <1>5. figure' \in Nat
    <2>1. figure' = intercepts \/ figure' = figure
      BY DEF Receive, BeginSend
    <2> QED BY <1>1, <2>1 DEF StreamTypes
  <1>6. \E at \in {"collect", "visit"} : /\ pusher' = [pusher EXCEPT ![s] = at]
                                         /\ at = "collect" => Len(b) < Limit[s]
    <2>1. CASE Len(b) >= Limit[s]
      BY <1>2, <2>1 DEF Receive, Goto
    <2>2. CASE ~ (Len(b) >= Limit[s])
      <3>1. Len(b) < Limit[s]
        BY <1>1, <1>3, <2>2, StreamsAssumption
      <3> QED BY <1>2, <2>2, <3>1 DEF Receive, Goto
    <2> QED BY <2>1, <2>2
  <1>7. intercepts' \in Nat
    BY <1>1, <1>2 DEF StreamTypes
  <1> HIDE DEF n, m, b
  <1>8. PICK at \in {"collect", "visit"} : /\ pusher' = [pusher EXCEPT ![s] = at]
                                           /\ at = "collect" => Len(b) < Limit[s]
    BY <1>6
  <1>9. /\ offered' = [offered EXCEPT ![s] = offered[s]]
        /\ dropped' = [dropped EXCEPT ![s] = dropped[s]]
        /\ message' = [message EXCEPT ![s] = message[s]]
    BY <1>1, <1>2, AsItIs
  <1>10. at \in {"collect", "visit", "lock", "write"}
    OBVIOUS
  <1> USE DEF n
  <1> QED BY <1>1, <1>2, <1>3, <1>4, <1>5, <1>7, <1>8, <1>9, <1>10, OneStream, ZenonT(60)

\* A sequence of numbers is one over whatever set its numbers are in.
LEMMA SeqOver ==
  ASSUME NEW S, NEW p \in Seq(Nat), \A i \in 1 .. Len(p) : p[i] \in S
  PROVE  p \in Seq(S)
  OBVIOUS

\* What a panel is sent comes from the batch, in its order, and is all that the
\* panel wants of it.
LEMMA ForIsPart ==
  ASSUME StreamTypes, NEW s \in Streams, NEW c
  PROVE  /\ For(c, s) \in Seq(1 .. offered[s])
         /\ \A i \in DOMAIN For(c, s) : \E j \in DOMAIN batch[s] : For(c, s)[i] = batch[s][j]
         /\ Increasing(batch[s]) => Increasing(For(c, s))
         /\ \A j \in DOMAIN batch[s] : (s = "logs" => Wants(c, batch[s][j])) =>
              \E i \in DOMAIN For(c, s) : For(c, s)[i] = batch[s][j]
  <1>1. batch[s] \in Seq(1 .. offered[s]) /\ offered[s] \in Nat
    BY DEF StreamTypes, StreamType
  <1> DEFINE q == batch[s]
             T == {i \in 1 .. offered[s] : Wants(c, i)}
  <1>2. CASE s # "logs"
    BY <1>1, <1>2 DEF For
  <1>3. CASE s = "logs"
    <2>1. q \in Seq(Nat) /\ DOMAIN q = 1 .. Len(q) /\ \A j \in DOMAIN q : q[j] \in 1 .. offered[s]
      BY <1>1
    <2>2. For(c, s) = Kept(q, T)
      BY <1>3 DEF For
    <2>3. \A j \in DOMAIN q : q[j] \in T <=> Wants(c, q[j])
      BY <2>1
    <2> HIDE DEF q, T
    <2>4. Filtered(For(c, s), q, Len(q), T)
      BY <2>1, <2>2, KeptIsFiltered
    <2>5. /\ For(c, s) \in Seq(Nat)
          /\ \A i \in DOMAIN For(c, s) : \E j \in DOMAIN q : For(c, s)[i] = q[j]
          /\ Increasing(q) => Increasing(For(c, s))
          /\ \A j \in DOMAIN q : Wants(c, q[j]) => \E i \in DOMAIN For(c, s) : For(c, s)[i] = q[j]
      BY <2>1, <2>3, <2>4 DEF Filtered
    <2>6. For(c, s) \in Seq(1 .. offered[s])
      <3>1. \A i \in 1 .. Len(For(c, s)) : For(c, s)[i] \in 1 .. offered[s]
        BY <2>1, <2>5
      <3> QED BY <2>5, <3>1, SeqOver
    <2> QED BY <1>3, <2>5, <2>6 DEF q
  <1> QED BY <1>2, <1>3

\* The other steps of a pusher leave its channel alone, and its batch but for
\* the end of a round.
LEMMA TypeOfPush ==
  ASSUME TypeInv, NEW s \in Streams, Push(s)
  PROVE  StreamTypes'
  <1>1. StreamTypes /\ offered[s] \in Nat /\ StreamType(s)
    BY AsItIs DEF TypeInv
  <1>2. CASE Receive(s)
    BY <1>2, TypeOfReceive
  <1>3. CASE EndSend(s)
    <2>1. /\ batch' = [batch EXCEPT ![s] = <<>>] /\ pusher' = [pusher EXCEPT ![s] = "collect"]
          /\ UNCHANGED <<intercepts, figure, offered, dropped, chan, message>>
      BY <1>3 DEF EndSend, Goto, streamVars
    <2>2. <<>> \in Seq(1 .. offered[s]) /\ Len(<<>>) = 0 /\ 0 < Limit[s] /\ 0 <= Limit[s]
      BY StreamsAssumption
    <2>3. /\ chan[s] \in Seq(1 .. offered[s]) /\ Len(chan[s]) <= Capacity[s]
          /\ message[s] \in Seq(1 .. offered[s])
          /\ dropped[s] \subseteq 1 .. offered[s]
      BY <1>1 DEF StreamType
    <2>4. intercepts \in Nat /\ figure \in Nat
      BY <1>1 DEF StreamTypes
    <2> DEFINE b == <<>>
               at == "collect"
    <2>5. /\ b \in Seq(1 .. offered[s]) /\ Len(b) < Limit[s] /\ Len(b) <= Limit[s]
          /\ at \in {"collect", "visit", "lock", "write"}
      BY <2>2
    <2>6. batch' = [batch EXCEPT ![s] = b] /\ pusher' = [pusher EXCEPT ![s] = at]
      BY <2>1
    <2>7. /\ offered' = [offered EXCEPT ![s] = offered[s]]
          /\ dropped' = [dropped EXCEPT ![s] = dropped[s]]
          /\ chan' = [chan EXCEPT ![s] = chan[s]]
          /\ message' = [message EXCEPT ![s] = message[s]]
          /\ intercepts' \in Nat /\ figure' \in Nat
      BY <1>1, <2>1, <2>4, AsItIs
    <2> HIDE DEF b, at
    <2> QED BY <1>1, <2>3, <2>5, <2>6, <2>7, OneStream
  <1>4. ASSUME \/ Tick(s)
               \/ \E c \in Panels :
                    VisitPanel(s, c) \/ Lock(s, c) \/ WriteDone(s, c) \/ WriteFails(s, c)
        PROVE  StreamTypes'
    <2>1. /\ UNCHANGED <<intercepts, offered, dropped, chan, batch>>
          /\ figure' \in {figure, intercepts}
      BY <1>4 DEF Tick, VisitPanel, Lock, WriteDone, WriteFails, BeginSend, Goto, streamVars
    <2>2. \E w, at : /\ message' = [message EXCEPT ![s] = w] /\ w \in Seq(1 .. offered[s])
                     /\ pusher' = [pusher EXCEPT ![s] = at] /\ at \in {"visit", "lock", "write"}
      <3>1. /\ message = [message EXCEPT ![s] = message[s]] /\ message[s] \in Seq(1 .. offered[s])
            /\ pusher = [pusher EXCEPT ![s] = pusher[s]]
        BY <1>1, AsItIs DEF StreamType
      <3>2. CASE Tick(s) \/ \E c \in Panels : Lock(s, c)
        <4>1. message' = message /\ \E at \in {"visit", "write"} : pusher' = [pusher EXCEPT ![s] = at]
          BY <3>2 DEF Tick, Lock, Goto
        <4> QED BY <3>1, <4>1
      <3>3. ASSUME NEW c \in Panels, VisitPanel(s, c)
            PROVE  \E w, at : /\ message' = [message EXCEPT ![s] = w] /\ w \in Seq(1 .. offered[s])
                              /\ pusher' = [pusher EXCEPT ![s] = at]
                              /\ at \in {"visit", "lock", "write"}
        <4>1. CASE UNCHANGED <<pusher, message>>
          <5>1. pusher[s] = "visit"
            BY <3>3 DEF VisitPanel
          <5> QED BY <3>1, <4>1, <5>1
        <4>2. CASE /\ message' = [message EXCEPT ![s] = For(c, s)]
                   /\ pusher' = [pusher EXCEPT ![s] = "lock"]
          <5>1. For(c, s) \in Seq(1 .. offered[s])
            BY <1>1, ForIsPart
          <5> QED BY <4>2, <5>1
        <4> QED BY <3>3, <4>1, <4>2 DEF VisitPanel
      <3>4. CASE \E c \in Panels : WriteDone(s, c) \/ WriteFails(s, c)
        <4>1. /\ message' = [message EXCEPT ![s] = <<>>]
              /\ pusher' = [pusher EXCEPT ![s] = "visit"]
          BY <3>4 DEF WriteDone, WriteFails, Written, Goto
        <4>2. <<>> \in Seq(1 .. offered[s])
          OBVIOUS
        <4> QED BY <4>1, <4>2
      <3> QED BY <1>4, <3>2, <3>3, <3>4
    <2>3. PICK w, at : /\ message' = [message EXCEPT ![s] = w] /\ w \in Seq(1 .. offered[s])
                       /\ pusher' = [pusher EXCEPT ![s] = at] /\ at \in {"visit", "lock", "write"}
      BY <2>2
    <2>4. /\ chan[s] \in Seq(1 .. offered[s]) /\ Len(chan[s]) <= Capacity[s]
          /\ batch[s] \in Seq(1 .. offered[s]) /\ Len(batch[s]) <= Limit[s]
          /\ dropped[s] \subseteq 1 .. offered[s]
      BY <1>1 DEF StreamType
    <2>5. intercepts' \in Nat /\ figure' \in Nat
      BY <1>1, <2>1 DEF StreamTypes
    <2>6. /\ offered' = [offered EXCEPT ![s] = offered[s]]
          /\ dropped' = [dropped EXCEPT ![s] = dropped[s]]
          /\ chan' = [chan EXCEPT ![s] = chan[s]]
          /\ batch' = [batch EXCEPT ![s] = batch[s]]
      BY <1>1, <2>1, AsItIs
    <2>7. at \in {"collect", "visit", "lock", "write"} /\ (at = "collect" => Len(batch[s]) < Limit[s])
      BY <2>3
    <2> QED BY <1>1, <2>3, <2>4, <2>5, <2>6, <2>7, OneStream
  <1> QED BY <1>2, <1>3, <1>4 DEF Push

\* The panels.
LEMMA TypeOfPanels ==
  ASSUME TypeInv, [Next]_vars
  PROVE  PanelTypes'
  <1>1. PanelTypes
    BY DEF TypeInv
  <1>2. CASE CountIntercept \/ (\E s \in Streams : Offer(s)) \/ UNCHANGED vars
    BY <1>1, <1>2 DEF CountIntercept, Offer, vars, pushVars, panelVars, PanelTypes
  <1>3. ASSUME NEW s \in Streams, Receive(s) \/ Tick(s) \/ EndSend(s) PROVE PanelTypes'
    BY <1>1, <1>3 DEF Receive, Tick, EndSend, BeginSend, panelVars, PanelTypes
  <1>4. ASSUME NEW s \in Streams, NEW c \in Panels, VisitPanel(s, c) PROVE PanelTypes'
    BY <1>1, <1>4 DEF VisitPanel, panelVars, PanelTypes
  <1>5. ASSUME NEW s \in Streams, NEW c \in Panels, Lock(s, c) \/ WriteDone(s, c) \/ WriteFails(s, c)
        PROVE  PanelTypes'
    BY <1>1, <1>5 DEF Lock, WriteDone, WriteFails, Written, panelVars, PanelTypes
  <1>6. ASSUME NEW c \in Panels, Connect(c) PROVE PanelTypes'
    BY <1>1, <1>6 DEF Connect, PanelTypes
  <1>7. ASSUME NEW c \in Panels, Subscribe(c) PROVE PanelTypes'
    <2>1. PICK q \in Requests : /\ topics' = [topics EXCEPT ![c] = q.topics]
                                /\ level' = [level EXCEPT ![c] = q.level]
      BY <1>7 DEF Subscribe
    <2>2. q.topics \subseteq Streams
      BY RequestsAssumption
    <2> QED BY <1>1, <1>7, <2>1, <2>2 DEF Subscribe, pushVars, PanelTypes
  <1>8. ASSUME NEW c \in Panels, Stall(c) \/ Leave(c) \/ ReadFails(c) PROVE PanelTypes'
    BY <1>1, <1>8 DEF Stall, Leave, ReadFails, pushVars, PanelTypes
  <1> QED BY <1>2, <1>3, <1>4, <1>5, <1>6, <1>7, <1>8 DEF Next, Push, Panel

LEMMA TypeStep ==
  ASSUME TypeInv, [Next]_vars
  PROVE  TypeInv'
  <1>1. StreamTypes
    BY DEF TypeInv
  <1>2. ASSUME UNCHANGED <<offered, dropped, chan, batch, message, pusher, figure>>, intercepts' \in Nat
        PROVE  StreamTypes'
    BY <1>1, <1>2 DEF StreamTypes, StreamType
  <1>3. CASE UNCHANGED vars
    <2>1. intercepts' \in Nat
      BY <1>1, <1>3 DEF StreamTypes, vars, streamVars
    <2> QED BY <1>2, <1>3, <2>1, TypeOfPanels DEF vars, streamVars, pushVars, TypeInv
  <1>4. CASE CountIntercept
    <2>1. intercepts' \in Nat
      BY <1>1, <1>4 DEF StreamTypes, CountIntercept
    <2> QED BY <1>2, <1>4, <2>1, TypeOfPanels DEF CountIntercept, pushVars, TypeInv
  <1>5. ASSUME NEW c \in Panels, Panel(c) \/ ReadFails(c) PROVE TypeInv'
    <2>1. UNCHANGED <<intercepts, offered, dropped, chan, batch, message, pusher, figure>>
      BY <1>5 DEF Panel, Connect, Subscribe, Stall, Leave, ReadFails, streamVars, pushVars
    <2>2. intercepts' \in Nat
      BY <1>1, <2>1 DEF StreamTypes
    <2> QED BY <1>2, <2>1, <2>2, TypeOfPanels DEF TypeInv
  <1>6. ASSUME NEW s \in Streams, Offer(s) \/ Push(s) PROVE TypeInv'
    BY <1>6, TypeOfOffer, TypeOfPush, TypeOfPanels DEF TypeInv
  <1> QED BY <1>3, <1>4, <1>5, <1>6 DEF Next

LEMMA TypeInvMeans == TypeInv => TypeOK
  BY DEF TypeInv, StreamTypes, StreamType, PanelTypes, TypeOK

\* Channels, batches and panels always have their types; no channel holds more
\* than its capacity and no batch more than its limit.
THEOREM TypeCorrect == Spec => []TypeOK
  BY TypeInit, TypeStep, TypeInvMeans, PTL DEF Spec
-----------------------------------------------------------------------------
(* The count of interceptions beside the list. *)

Upto(q, n) == \A i \in DOMAIN q : q[i] <= n

List(c) == shown[c]["intercept_logs"]

\* What a panel shows of the interceptions, and the number beside it.
ListType(c) ==
  /\ shown[c] = [s \in Streams |-> shown[c][s]]
  /\ List(c) \in Seq(Nat)
  /\ total[c] \in Nat

\* An interception is counted before it is offered; the figure in a message is
\* no older than the batch in it, and no screen has a newer one.
CountInv ==
  /\ shown = [c \in Panels |-> shown[c]] /\ total = [c \in Panels |-> total[c]]
  /\ \A c \in Panels : ListType(c)
  /\ offered["intercept_logs"] <= intercepts
  /\ figure <= intercepts
  /\ pusher["intercept_logs"] # "collect" => Upto(batch["intercept_logs"], figure)
  /\ Upto(message["intercept_logs"], figure)
  /\ \A c \in Panels : total[c] <= figure /\ Upto(List(c), total[c])

LEMMA CountInit ==
  ASSUME Init, "intercept_logs" \in Streams
  PROVE  CountInv
  BY DEF Init, CountInv, ListType, List, Upto

\* What is known of the stream of interceptions.
LEMMA Interceptions ==
  ASSUME TypeInv, "intercept_logs" \in Streams
  PROVE  /\ intercepts \in Nat /\ figure \in Nat /\ offered["intercept_logs"] \in Nat
         /\ chan["intercept_logs"] \in Seq(1 .. offered["intercept_logs"])
         /\ batch["intercept_logs"] \in Seq(1 .. offered["intercept_logs"])
         /\ message["intercept_logs"] \in Seq(1 .. offered["intercept_logs"])
         /\ DOMAIN offered = Streams /\ DOMAIN pusher = Streams /\ DOMAIN batch = Streams
         /\ DOMAIN chan = Streams /\ DOMAIN message = Streams
  BY DEF TypeInv, StreamTypes, StreamType

\* A step that changes no screen.
LEMMA CountKept ==
  ASSUME TypeInv, CountInv, UNCHANGED <<shown, total>>,
         offered'["intercept_logs"] <= intercepts', figure' <= intercepts', figure <= figure',
         intercepts' \in Nat, figure' \in Nat, figure \in Nat,
         pusher'["intercept_logs"] # "collect" => Upto(batch'["intercept_logs"], figure'),
         Upto(message'["intercept_logs"], figure')
  PROVE  CountInv'
  <1>1. ASSUME NEW c \in Panels
        PROVE  ListType(c)' /\ (total[c] <= figure /\ Upto(List(c), total[c]))'
    <2>1. ListType(c) /\ total[c] <= figure /\ Upto(List(c), total[c])
      BY DEF CountInv
    <2> QED BY <2>1 DEF ListType, List, Upto
  <1> QED BY <1>1 DEF CountInv

LEMMA CountOfOffer ==
  ASSUME TypeInv, CountInv, "intercept_logs" \in Streams, NEW s \in Streams, Offer(s)
  PROVE  CountInv'
  <1>1. /\ UNCHANGED <<intercepts, figure, pusher, batch, message, shown, total>>
        /\ intercepts \in Nat /\ figure \in Nat
    BY Interceptions DEF Offer, pushVars, panelVars
  <1>2. offered'["intercept_logs"] <= intercepts
    <2>1. CASE s = "intercept_logs"
      BY <2>1, Interceptions DEF Offer, MayOffer
    <2>2. CASE s # "intercept_logs"
      BY <2>2, Interceptions DEF Offer, CountInv
    <2> QED BY <2>1, <2>2
  <1>3. /\ figure <= intercepts
        /\ pusher["intercept_logs"] # "collect" => Upto(batch["intercept_logs"], figure)
        /\ Upto(message["intercept_logs"], figure)
    BY DEF CountInv
  <1> QED BY <1>1, <1>2, <1>3, CountKept

\* Numbers of messages that were offered have been counted.
LEMMA OfferedAreCounted ==
  ASSUME NEW n \in Nat, NEW k \in Nat, n <= k, NEW q \in Seq(1 .. n)
  PROVE  Upto(q, k)
  BY DEF Upto

\* What is below a figure stays below a later one.
LEMMA UptoLater ==
  ASSUME NEW n \in Nat, NEW q \in Seq(1 .. n), NEW j \in Nat, NEW k \in Nat, j <= k, Upto(q, j)
  PROVE  Upto(q, k)
  <1>1. \A i \in DOMAIN q : q[i] \in Nat
    OBVIOUS
  <1> QED BY <1>1 DEF Upto

LEMMA CountOfPush ==
  ASSUME TypeInv, CountInv, "intercept_logs" \in Streams, NEW s \in Streams,
         \/ Receive(s) \/ Tick(s) \/ EndSend(s)
         \/ \E c \in Panels : VisitPanel(s, c) \/ Lock(s, c) \/ WriteFails(s, c)
  PROVE  CountInv'
  <1> DEFINE I == "intercept_logs"
  <1>1. /\ intercepts \in Nat /\ figure \in Nat /\ offered[I] \in Nat
        /\ chan[I] \in Seq(1 .. offered[I]) /\ batch[I] \in Seq(1 .. offered[I])
        /\ offered[I] <= intercepts /\ figure <= intercepts
        /\ pusher[I] # "collect" => Upto(batch[I], figure)
        /\ Upto(message[I], figure) /\ Upto(message[I], intercepts)
    BY Interceptions, UptoLater DEF CountInv
  <1>2. UNCHANGED <<intercepts, offered, shown, total>>
    BY DEF Receive, Tick, EndSend, VisitPanel, Lock, WriteFails, streamVars, panelVars
  <1>3. CASE s # I
    <2>1. /\ figure' = figure /\ pusher'[I] = pusher[I] /\ batch'[I] = batch[I]
          /\ message'[I] = message[I]
      BY <1>3, Interceptions DEF Receive, Tick, EndSend, VisitPanel, Lock, WriteFails, Written,
         BeginSend, Goto, streamVars
    <2> QED BY <1>1, <1>2, <2>1, CountKept
  <1>4. CASE s = I
    <2>1. CASE Receive(I)
      <3>1. chan[I] # <<>> /\ batch'[I] = Append(batch[I], Head(chan[I])) /\ message' = message
        BY <2>1, Interceptions DEF Receive
      <3>2. batch'[I] \in Seq(1 .. offered[I])
        BY <1>1, <3>1, Taken
      <3>3. Upto(batch'[I], intercepts)
        BY <1>1, <3>2, OfferedAreCounted
      <3>4. \/ pusher'[I] = "collect" /\ figure' = figure
            \/ figure' = intercepts
        BY <2>1, Interceptions DEF Receive, BeginSend, Goto
      <3> QED BY <1>1, <1>2, <3>1, <3>3, <3>4, CountKept
    <2>2. CASE Tick(I)
      <3>1. figure' = intercepts /\ batch' = batch /\ message' = message
        BY <2>2 DEF Tick, BeginSend
      <3>2. Upto(batch[I], intercepts)
        BY <1>1, OfferedAreCounted
      <3> QED BY <1>1, <1>2, <3>1, <3>2, CountKept
    <2>3. CASE EndSend(I)
      <3>1. figure' = figure /\ pusher'[I] = "collect" /\ message' = message
        BY <2>3, Interceptions DEF EndSend, Goto
      <3> QED BY <1>1, <1>2, <3>1, CountKept
    <2>4. ASSUME NEW c \in Panels, VisitPanel(I, c) \/ Lock(I, c) \/ WriteFails(I, c)
          PROVE  CountInv'
      <3>1. figure' = figure /\ batch' = batch /\ pusher[I] # "collect"
        BY <2>4 DEF VisitPanel, Lock, WriteFails, Goto
      <3>2. message'[I] \in {message[I], For(c, I), <<>>} /\ For(c, I) = batch[I]
        BY <2>4, Interceptions DEF VisitPanel, Lock, WriteFails, Written, For
      <3>3. Upto(message'[I], figure)
        BY <1>1, <3>1, <3>2 DEF Upto
      <3> QED BY <1>1, <1>2, <3>1, <3>3, CountKept
    <2> QED BY <1>4, <2>1, <2>2, <2>3, <2>4
  <1> QED BY <1>3, <1>4

\* A list that a batch is added to, with the figure that came with it.
LEMMA Extended ==
  ASSUME NEW p \in Seq(Nat), NEW q \in Seq(Nat), NEW n \in Nat, NEW m \in Nat, m <= n,
         Upto(p, m), Upto(q, n)
  PROVE  p \o q \in Seq(Nat) /\ Upto(p \o q, n)
  <1>1. p \o q \in Seq(Nat) /\ DOMAIN (p \o q) = 1 .. Len(p) + Len(q)
    OBVIOUS
  <1>2. ASSUME NEW i \in DOMAIN (p \o q) PROVE (p \o q)[i] <= n
    <2>1. CASE i <= Len(p)
      <3>1. i \in DOMAIN p /\ (p \o q)[i] = p[i] /\ p[i] \in Nat
        BY <1>1, <2>1
      <3> QED BY <3>1 DEF Upto
    <2>2. CASE ~ (i <= Len(p))
      <3>1. i - Len(p) \in DOMAIN q /\ (p \o q)[i] = q[i - Len(p)]
        BY <1>1, <2>2
      <3> QED BY <3>1 DEF Upto
    <2> QED BY <2>1, <2>2
  <1> QED BY <1>1, <1>2 DEF Upto

LEMMA CountOfWrite ==
  ASSUME TypeInv, CountInv, "intercept_logs" \in Streams, NEW s \in Streams, NEW c \in Panels,
         WriteDone(s, c)
  PROVE  CountInv'
  <1> DEFINE I == "intercept_logs"
  <1>1. /\ intercepts \in Nat /\ figure \in Nat /\ offered[I] \in Nat
        /\ message[I] \in Seq(1 .. offered[I])
        /\ offered[I] <= intercepts /\ figure <= intercepts
        /\ pusher[I] # "collect" => Upto(batch[I], figure)
        /\ Upto(message[I], figure)
    BY Interceptions DEF CountInv
  <1>2. /\ UNCHANGED <<intercepts, offered, batch, figure>>
        /\ shown' = [shown EXCEPT ![c][s] = shown[c][s] \o message[s]]
        /\ total' = IF s = I THEN [total EXCEPT ![c] = figure] ELSE total
        /\ pusher[s] = "write" /\ pusher'[s] = "visit"
        /\ s # I => pusher'[I] = pusher[I]
        /\ message'[I] \in {message[I], <<>>}
    BY Interceptions DEF WriteDone, Written, Goto, streamVars
  <1>3. (pusher'[I] # "collect" => Upto(batch[I], figure)) /\ Upto(message'[I], figure)
    BY <1>1, <1>2 DEF Upto
  <1>4. \A d \in Panels : d # c => shown'[d] = shown[d] /\ total'[d] = total[d]
    BY <1>2 DEF CountInv
  <1>5. /\ shown' = [d \in Panels |-> shown'[d]] /\ total' = [d \in Panels |-> total'[d]]
    BY <1>2 DEF CountInv
  <1>6. ListType(c) /\ total[c] <= figure /\ Upto(List(c), total[c])
    BY DEF CountInv
  <1>7. /\ shown'[c] = [shown[c] EXCEPT ![s] = shown[c][s] \o message[s]]
        /\ total'[c] = IF s = I THEN figure ELSE total[c]
    BY <1>2 DEF CountInv
  <1>8. shown'[c] = [t \in Streams |-> shown'[c][t]]
    BY <1>6, <1>7 DEF ListType
  <1>9. shown'[c][I] \in Seq(Nat) /\ total'[c] \in Nat /\ total'[c] <= figure
        /\ Upto(shown'[c][I], total'[c])
    <2>1. CASE s = I
      <3>1. shown'[c][I] = shown[c][I] \o message[I]
        BY <1>6, <1>7, <2>1 DEF ListType
      <3>2. Upto(message[I], figure) /\ message[I] \in Seq(Nat) /\ shown[c][I] \in Seq(Nat)
        BY <1>1, <1>2, <1>6, <2>1 DEF ListType, List
      <3>3. total[c] \in Nat /\ total[c] <= figure /\ Upto(shown[c][I], total[c])
        BY <1>6 DEF ListType, List
      <3>4. /\ shown[c][I] \o message[I] \in Seq(Nat) /\ Upto(shown[c][I] \o message[I], figure)
        BY <1>1, <3>2, <3>3, Extended
      <3>5. total'[c] = figure
        BY <1>7, <2>1
      <3> QED BY <1>1, <3>1, <3>4, <3>5
    <2>2. CASE s # I
      <3>1. shown'[c][I] = shown[c][I] /\ total'[c] = total[c]
        BY <1>6, <1>7, <2>2 DEF ListType
      <3> QED BY <1>6, <3>1 DEF ListType, List
    <2> QED BY <2>1, <2>2
  <1>10. ASSUME NEW d \in Panels
         PROVE  ListType(d)' /\ (total[d] <= figure /\ Upto(List(d), total[d]))'
    <2>1. CASE d = c
      BY <1>2, <1>8, <1>9, <2>1 DEF ListType, List
    <2>2. CASE d # c
      <3>1. ListType(d) /\ total[d] <= figure /\ Upto(List(d), total[d])
        BY DEF CountInv
      <3> QED BY <1>2, <1>4, <2>2, <3>1 DEF ListType, List
    <2> QED BY <2>1, <2>2
  <1> QED BY <1>1, <1>2, <1>3, <1>5, <1>10 DEF CountInv

LEMMA CountStep ==
  ASSUME TypeInv, CountInv, "intercept_logs" \in Streams, [Next]_vars
  PROVE  CountInv'
  <1>1. /\ intercepts \in Nat /\ figure \in Nat /\ offered["intercept_logs"] \in Nat
        /\ offered["intercept_logs"] <= intercepts /\ figure <= intercepts
        /\ pusher["intercept_logs"] # "collect" => Upto(batch["intercept_logs"], figure)
        /\ Upto(message["intercept_logs"], figure)
    BY Interceptions DEF CountInv
  <1>2. ASSUME UNCHANGED <<offered, batch, message, pusher, figure, shown, total>>,
               intercepts' \in {intercepts, intercepts + 1}
        PROVE  CountInv'
    BY <1>1, <1>2, CountKept
  <1>3. CASE CountIntercept \/ UNCHANGED vars
    BY <1>2, <1>3 DEF CountIntercept, vars, streamVars, pushVars, panelVars
  <1>4. ASSUME NEW c \in Panels, Panel(c) \/ ReadFails(c) PROVE CountInv'
    <2>1. UNCHANGED <<intercepts, offered, batch, message, pusher, figure, shown, total>>
      BY <1>4 DEF Panel, Connect, Subscribe, Stall, Leave, ReadFails, streamVars, pushVars
    <2> QED BY <1>2, <2>1
  <1>5. ASSUME NEW s \in Streams, Offer(s) PROVE CountInv'
    BY <1>5, CountOfOffer
  <1>6. ASSUME NEW s \in Streams, Push(s) PROVE CountInv'
    BY <1>6, CountOfPush, CountOfWrite DEF Push
  <1> QED BY <1>3, <1>4, <1>5, <1>6 DEF Next

\* No panel ever shows an interception that the number beside the list does not
\* count, whatever was dropped and whoever was slow.
THEOREM CountIsCovering ==
  ASSUME "intercept_logs" \in Streams
  PROVE  Spec => []CountCoversList
  <1>1. Init => CountInv
    BY CountInit
  <1>2. TypeInv /\ CountInv /\ [Next]_vars => CountInv'
    BY CountStep
  <1>3. CountInv => CountCoversList
    BY DEF CountInv, Upto, List, CountCoversList
  <1> QED BY <1>1, <1>2, <1>3, TypeInit, TypeStep, PTL DEF Spec

-----------------------------------------------------------------------------
(* The rounds of the pushers. *)

\* A pusher that collects has no panel before it, one that writes has one
\* panel before it, which it does not visit again in this round.
Round(s) ==
  /\ pusher[s] = "collect" => pending[s] = {}
  /\ pusher[s] \in {"collect", "visit"} => target[s] = {} /\ message[s] = <<>>
  /\ target[s] \cap pending[s] = {}
  /\ \A c, d \in target[s] : c = d

\* A panel that has not come yet is nowhere.
Absent(c) ==
  /\ c \notin clients
  /\ topics[c] = {}
  /\ \A s \in Streams : c \notin pending[s] \cup target[s] /\ shown[c][s] = <<>>

ShownType == shown \in [Panels -> [Streams -> Seq(Nat)]]

RoundInv ==
  /\ ShownType
  /\ \A s \in Streams : Round(s)
  /\ \A c \in Panels : socket[c] = "none" => Absent(c)

LEMMA RoundInit == Init => RoundInv
  BY DEF Init, RoundInv, ShownType, Round, Absent

\* The functions of the streams and of the panels.
LEMMA Domains ==
  ASSUME TypeInv
  PROVE  /\ pusher \in [Streams -> {"collect", "visit", "lock", "write"}]
         /\ pending \in [Streams -> SUBSET Panels] /\ target \in [Streams -> SUBSET Panels]
         /\ message = [s \in Streams |-> message[s]]
         /\ batch = [s \in Streams |-> batch[s]] /\ chan = [s \in Streams |-> chan[s]]
         /\ dropped = [s \in Streams |-> dropped[s]]
         /\ offered \in [Streams -> Nat] /\ clients \subseteq Panels
         /\ socket \in [Panels -> {"none", "open", "closed"}]
         /\ topics \in [Panels -> SUBSET Streams]
         /\ \A s \in Streams : /\ chan[s] \in Seq(1 .. offered[s])
                               /\ batch[s] \in Seq(1 .. offered[s])
                               /\ message[s] \in Seq(1 .. offered[s])
  BY DEF TypeInv, StreamTypes, StreamType, PanelTypes

\* A step that brings no panel and writes nothing.
LEMMA RoundKept ==
  ASSUME RoundInv, UNCHANGED shown, clients' \subseteq clients,
         \A c \in Panels : /\ socket'[c] = "none" => socket[c] = "none"
                           /\ socket[c] = "none" => topics'[c] = topics[c]
                           /\ \A s \in Streams : /\ c \in pending'[s] => c \in pending[s] \cup clients
                                                 /\ c \in target'[s] => c \in pending[s] \cup target[s],
         \A s \in Streams : Round(s)'
  PROVE  RoundInv'
  <1>1. ASSUME NEW c \in Panels, socket'[c] = "none" PROVE Absent(c)'
    <2>1. Absent(c) /\ socket[c] = "none"
      BY <1>1 DEF RoundInv
    <2> QED BY <2>1 DEF Absent
  <1> QED BY <1>1 DEF RoundInv, ShownType

LEMMA RoundOfPush ==
  ASSUME TypeInv, RoundInv, NEW s \in Streams, Push(s)
  PROVE  \A t \in Streams : Round(t)'
  <1>1. \A t \in Streams : Round(t)
    BY DEF RoundInv
  <1>2. ASSUME NEW t \in Streams, t # s PROVE Round(t)'
    <2>1. /\ pusher'[t] = pusher[t] /\ pending'[t] = pending[t] /\ target'[t] = target[t]
          /\ message'[t] = message[t]
      BY <1>2, Domains DEF Push, Receive, Tick, EndSend, VisitPanel, Lock, WriteDone, WriteFails,
         Written, BeginSend, Goto
    <2> QED BY <1>1, <2>1 DEF Round
  <1>3. Round(s)'
    <2>1. CASE Receive(s) \/ Tick(s)
      BY <1>1, <2>1, Domains DEF Receive, Tick, BeginSend, Goto, Round
    <2>2. CASE EndSend(s)
      BY <1>1, <2>2, Domains DEF EndSend, Goto, Round
    <2>3. ASSUME NEW c \in Panels, VisitPanel(s, c) PROVE Round(s)'
      BY <1>1, <2>3, Domains DEF VisitPanel, Round
    <2>4. ASSUME NEW c \in Panels, Lock(s, c) PROVE Round(s)'
      BY <1>1, <2>4, Domains DEF Lock, Goto, Round
    <2>5. ASSUME NEW c \in Panels, WriteDone(s, c) \/ WriteFails(s, c) PROVE Round(s)'
      BY <1>1, <2>5, Domains DEF WriteDone, WriteFails, Written, Goto, Round
    <2> QED BY <2>1, <2>2, <2>3, <2>4, <2>5 DEF Push
  <1> QED BY <1>2, <1>3

LEMMA RoundStep ==
  ASSUME TypeInv, RoundInv, [Next]_vars
  PROVE  RoundInv'
  <1>1. \A t \in Streams : Round(t)
    BY DEF RoundInv
  <1>2. ASSUME UNCHANGED <<pushVars, topics, shown>>, clients' \subseteq clients,
               \A c \in Panels : socket'[c] = "none" => socket[c] = "none"
        PROVE  RoundInv'
    <2>1. \A t \in Streams : Round(t)'
      BY <1>1, <1>2 DEF Round, pushVars
    <2> QED BY <1>2, <2>1, RoundKept DEF pushVars
  <1>3. CASE CountIntercept \/ (\E s \in Streams : Offer(s)) \/ UNCHANGED vars
    BY <1>2, <1>3 DEF CountIntercept, Offer, vars, panelVars
  <1>4. ASSUME NEW c \in Panels, Stall(c) \/ Leave(c) \/ ReadFails(c) PROVE RoundInv'
    BY <1>2, <1>4, Domains DEF Stall, Leave, ReadFails
  <1>5. ASSUME NEW c \in Panels, Subscribe(c) PROVE RoundInv'
    <2>1. \A t \in Streams : Round(t)'
      BY <1>1, <1>5 DEF Subscribe, Round, pushVars
    <2>2. socket[c] = "open" /\ UNCHANGED <<pending, target, clients, socket, shown>>
          /\ \A d \in Panels : d # c => topics'[d] = topics[d]
      BY <1>5, Domains DEF Subscribe, pushVars
    <2> QED BY <2>1, <2>2, RoundKept
  <1>6. ASSUME NEW c \in Panels, Connect(c) PROVE RoundInv'
    <2>1. PICK S \in SUBSET {s \in Streams : pusher[s] # "collect"} :
            pending' = [s \in Streams |-> IF s \in S THEN pending[s] \cup {c} ELSE pending[s]]
      BY <1>6 DEF Connect
    <2>2. /\ UNCHANGED <<pusher, target, message, topics, shown>>
          /\ socket[c] = "none" /\ socket' = [socket EXCEPT ![c] = "open"]
          /\ clients' = clients \cup {c}
      BY <1>6 DEF Connect
    <2>3. Absent(c)
      BY <2>2 DEF RoundInv
    <2>4. ASSUME NEW t \in Streams PROVE Round(t)'
      <3>1. c \notin target[t] /\ Round(t)
        BY <1>1, <2>3 DEF Absent
      <3>2. /\ pending'[t] \subseteq pending[t] \cup {c}
            /\ pusher[t] = "collect" => pending'[t] = pending[t]
        BY <2>1
      <3> QED BY <2>2, <3>1, <3>2 DEF Round
    <2>5. ASSUME NEW d \in Panels, socket'[d] = "none" PROVE Absent(d)'
      <3>1. d # c /\ socket[d] = "none"
        BY <2>2, <2>5, Domains
      <3>2. Absent(d)
        BY <3>1 DEF RoundInv
      <3> QED BY <2>1, <2>2, <3>1, <3>2 DEF Absent
    <2> QED BY <2>2, <2>4, <2>5 DEF RoundInv, ShownType
  <1>7. ASSUME NEW s \in Streams, Push(s) PROVE RoundInv'
    <2>1. \A t \in Streams : Round(t)'
      BY <1>7, RoundOfPush
    <2>2. ASSUME NEW c \in Panels, WriteDone(s, c) PROVE RoundInv'
      <3>1. /\ UNCHANGED <<pending, clients, topics, socket>>
            /\ target' = [target EXCEPT ![s] = {}] /\ socket[c] = "open"
            /\ shown' = [shown EXCEPT ![c][s] = shown[c][s] \o message[s]]
        BY <2>2 DEF WriteDone, Written
      <3>2. ASSUME NEW d \in Panels, socket'[d] = "none" PROVE Absent(d)'
        <4>1. d # c /\ socket[d] = "none"
          BY <3>1, <3>2
        <4>2. Absent(d) /\ shown'[d] = shown[d]
          BY <3>1, <4>1 DEF RoundInv, ShownType
        <4>3. \A t \in Streams : target'[t] \subseteq target[t]
          BY <3>1, Domains
        <4> QED BY <3>1, <4>2, <4>3 DEF Absent
      <3>3. ShownType'
        <4>1. message[s] \in Seq(Nat) /\ shown[c][s] \in Seq(Nat)
          BY Domains DEF RoundInv, ShownType
        <4>2. shown[c][s] \o message[s] \in Seq(Nat)
          BY <4>1
        <4> QED BY <3>1, <4>2 DEF RoundInv, ShownType
      <3> QED BY <2>1, <3>2, <3>3 DEF RoundInv
    <2>3. CASE Receive(s) \/ Tick(s) \/ EndSend(s)
      BY <2>1, <2>3, Domains, RoundKept DEF Receive, Tick, EndSend, BeginSend, panelVars
    <2>4. ASSUME NEW c \in Panels, VisitPanel(s, c) \/ Lock(s, c) PROVE RoundInv'
      <3>1. UNCHANGED <<clients, socket, topics, shown>>
        BY <2>4 DEF VisitPanel, Lock, panelVars
      <3>2. ASSUME NEW t \in Streams
            PROVE  /\ pending'[t] \subseteq pending[t]
                   /\ target'[t] \subseteq pending[t] \cup target[t]
        <4>1. CASE Lock(s, c)
          BY <4>1 DEF Lock
        <4>2. CASE VisitPanel(s, c)
          BY <4>2, Domains DEF VisitPanel
        <4> QED BY <2>4, <4>1, <4>2
      <3> QED BY <2>1, <3>1, <3>2, RoundKept
    <2>5. ASSUME NEW c \in Panels, WriteFails(s, c) PROVE RoundInv'
      <3>1. /\ UNCHANGED <<pending, topics, shown>> /\ clients' \subseteq clients
            /\ target' = [target EXCEPT ![s] = {}] /\ socket' = [socket EXCEPT ![c] = "closed"]
        BY <2>5 DEF WriteFails, Written
      <3> QED BY <2>1, <3>1, Domains, RoundKept
    <2> QED BY <1>7, <2>2, <2>3, <2>4, <2>5 DEF Push
  <1> QED BY <1>3, <1>4, <1>5, <1>6, <1>7 DEF Next, Panel

-----------------------------------------------------------------------------
(* The order of what a panel shows. *)

Above(q, n) == \A i \in DOMAIN q : n < q[i]

Before(p, q) == \A i \in DOMAIN p : Above(q, p[i])

PartOf(p, q) == \A i \in DOMAIN p : \E j \in DOMAIN q : p[i] = q[j]

\* What is sent is older than what waits.
StreamOrder(s) ==
  /\ Increasing(batch[s]) /\ Increasing(chan[s]) /\ Increasing(message[s])
  /\ Before(batch[s], chan[s]) /\ PartOf(message[s], batch[s])

\* The batch that the pusher collects or sends has yet to reach the panel.
Coming(c, s) == pusher[s] = "collect" \/ c \in pending[s] \cup target[s]

\* What a panel shows is older than all that it may still get.
ShownOrder(c, s) ==
  LET newest == View!Newest(shown[c][s]) IN
  /\ newest <= offered[s]
  /\ Above(chan[s], newest)
  /\ Coming(c, s) => Above(batch[s], newest)

OrderInv ==
  /\ \A s \in Streams : StreamOrder(s)
  /\ \A c \in Panels, s \in Streams : ShownOrder(c, s)

LEMMA OrderInit == Init => OrderInv
  BY DEF Init, OrderInv, StreamOrder, ShownOrder, Increasing, Above, Before, PartOf, View!Newest

\* The newest of a sequence of numbers is a number; it is 0 or one of them.
LEMMA NewestIsNat ==
  ASSUME NEW q \in Seq(Nat)
  PROVE  /\ View!Newest(q) \in Nat
         /\ q = <<>> => View!Newest(q) = 0
         /\ q # <<>> => \E i \in DOMAIN q : View!Newest(q) = q[i]
  BY DEF View!Newest

\* A message more at the end of a channel.
LEMMA OneMoreInOrder ==
  ASSUME NEW n \in Nat, NEW q \in Seq(1 .. n)
  PROVE  /\ Increasing(q) => Increasing(Append(q, n + 1))
         /\ \A k \in 0 .. n : Above(q, k) => Above(Append(q, n + 1), k)
  <1> DEFINE r == Append(q, n + 1)
  <1>1. /\ DOMAIN r = 1 .. Len(q) + 1 /\ DOMAIN q = 1 .. Len(q) /\ r[Len(q) + 1] = n + 1
        /\ \A i \in DOMAIN q : r[i] = q[i] /\ q[i] \in 1 .. n
    OBVIOUS
  <1>2. \A i \in DOMAIN r : i \in DOMAIN q \/ i = Len(q) + 1
    BY <1>1
  <1>3. ASSUME Increasing(q), NEW i \in DOMAIN r, NEW j \in DOMAIN r, i < j PROVE r[i] < r[j]
    <2>1. i \in DOMAIN q
      BY <1>1, <1>3
    <2>2. CASE j \in DOMAIN q
      BY <1>1, <1>3, <2>1, <2>2 DEF Increasing
    <2>3. CASE j = Len(q) + 1
      BY <1>1, <2>1, <2>3
    <2> QED BY <1>2, <2>2, <2>3
  <1>4. ASSUME NEW k \in 0 .. n, Above(q, k), NEW i \in DOMAIN r PROVE k < r[i]
    BY <1>1, <1>2, <1>4 DEF Above
  <1> QED BY <1>3, <1>4 DEF Increasing, Above

\* The oldest message of a channel goes to the end of a batch.
LEMMA TakenInOrder ==
  ASSUME NEW n \in Nat, NEW q \in Seq(1 .. n), NEW b \in Seq(1 .. n), q # <<>>,
         Increasing(q), Increasing(b), Before(b, q),
         NEW t, t = Tail(q), NEW a, a = Append(b, Head(q))
  PROVE  /\ Increasing(t) /\ Increasing(a)
         /\ Before(a, t) /\ PartOf(b, a)
  <1>1. /\ DOMAIN q = 1 .. Len(q) /\ Len(q) \in Nat /\ Len(q) > 0 /\ Head(q) = q[1]
        /\ DOMAIN t = 1 .. Len(q) - 1 /\ \A i \in DOMAIN t : t[i] = q[i + 1] /\ i + 1 \in DOMAIN q
        /\ \A i \in DOMAIN q : q[i] \in 1 .. n
    OBVIOUS
  <1>2. /\ DOMAIN b = 1 .. Len(b) /\ Len(b) \in Nat /\ DOMAIN a = 1 .. Len(b) + 1
        /\ a[Len(b) + 1] = q[1] /\ \A i \in DOMAIN b : a[i] = b[i] /\ b[i] \in 1 .. n
    BY <1>1
  <1>3. 1 \in DOMAIN q
    BY <1>1
  <1>4. \A i \in DOMAIN t : q[1] < t[i]
    <2>1. \A i \in DOMAIN t : 1 < i + 1 /\ i + 1 \in DOMAIN q /\ t[i] = q[i + 1]
      BY <1>1
    <2> QED BY <1>3, <2>1 DEF Increasing
  <1>5. \A i \in DOMAIN a : i \in DOMAIN b \/ i = Len(b) + 1
    BY <1>2
  <1>6. Increasing(t)
    BY <1>1 DEF Increasing
  <1>7. Increasing(a)
    <2>1. SUFFICES ASSUME NEW i \in DOMAIN a, NEW j \in DOMAIN a, i < j PROVE a[i] < a[j]
      BY DEF Increasing
    <2>2. i \in DOMAIN b
      BY <1>2, <2>1
    <2>3. CASE j \in DOMAIN b
      BY <1>2, <2>1, <2>2, <2>3 DEF Increasing
    <2>4. CASE j = Len(b) + 1
      BY <1>2, <1>3, <2>2, <2>4 DEF Before, Above
    <2> QED BY <1>5, <2>3, <2>4
  <1>8. ASSUME NEW i \in DOMAIN a PROVE Above(t, a[i])
    <2>1. CASE i \in DOMAIN b
      BY <1>1, <1>2, <2>1 DEF Before, Above
    <2>2. CASE i = Len(b) + 1
      BY <1>2, <1>4, <2>2 DEF Above
    <2> QED BY <1>5, <2>1, <2>2
  <1>9. \A i \in DOMAIN b : i \in DOMAIN a /\ b[i] = a[i]
    BY <1>2
  <1> QED BY <1>6, <1>7, <1>8, <1>9 DEF Before, PartOf

LEMMA TakenAbove ==
  ASSUME NEW n \in Nat, NEW q \in Seq(1 .. n), NEW b \in Seq(1 .. n), q # <<>>,
         NEW t, t = Tail(q), NEW a, a = Append(b, Head(q)), NEW k \in Nat, Above(q, k)
  PROVE  Above(t, k) /\ (Above(b, k) => Above(a, k))
  <1>1. /\ DOMAIN q = 1 .. Len(q) /\ Len(q) \in Nat /\ Len(q) > 0 /\ Head(q) = q[1]
        /\ DOMAIN t = 1 .. Len(q) - 1 /\ \A i \in DOMAIN t : t[i] = q[i + 1] /\ i + 1 \in DOMAIN q
    OBVIOUS
  <1>2. 1 \in DOMAIN q /\ DOMAIN b = 1 .. Len(b) /\ DOMAIN a = 1 .. Len(b) + 1 /\ Len(b) \in Nat
        /\ a[Len(b) + 1] = q[1] /\ \A i \in DOMAIN b : a[i] = b[i]
    BY <1>1
  <1>3. \A i \in DOMAIN a : i \in DOMAIN b \/ i = Len(b) + 1
    BY <1>2
  <1> QED BY <1>1, <1>2, <1>3 DEF Above

\* A step that moves no message; whoever the batch comes to is one it came to
\* before, or one that shows nothing.
LEMMA OrderKept ==
  ASSUME TypeInv, RoundInv, OrderInv, UNCHANGED <<offered, chan, batch, shown>>,
         \A s \in Streams : \/ message'[s] = message[s]
                            \/ message'[s] = <<>>
                            \/ \E c \in Panels : message'[s] = For(c, s),
         \A c \in Panels, s \in Streams : Coming(c, s)' => Coming(c, s) \/ shown[c][s] = <<>>
  PROVE  OrderInv'
  <1>1. ASSUME NEW s \in Streams PROVE StreamOrder(s)'
    <2>1. StreamOrder(s)
      BY DEF OrderInv
    <2>2. /\ Increasing(message'[s])
          /\ PartOf(message'[s], batch[s])
      <3>1. CASE message'[s] = <<>>
        BY <3>1 DEF Increasing, PartOf
      <3>2. CASE message'[s] = message[s]
        BY <2>1, <3>2 DEF StreamOrder
      <3>3. ASSUME NEW c \in Panels, message'[s] = For(c, s)
            PROVE  /\ Increasing(message'[s])
                   /\ PartOf(message'[s], batch[s])
        <4>1. PartOf(For(c, s), batch[s]) /\ (Increasing(batch[s]) => Increasing(For(c, s)))
          BY ForIsPart DEF TypeInv, PartOf
        <4> QED BY <2>1, <3>3, <4>1 DEF StreamOrder
      <3> QED BY <3>1, <3>2, <3>3
    <2> QED BY <2>1, <2>2 DEF StreamOrder
  <1>2. ASSUME NEW c \in Panels, NEW s \in Streams PROVE ShownOrder(c, s)'
    <2>1. ShownOrder(c, s)
      BY DEF OrderInv
    <2>2. CASE Coming(c, s)' => Coming(c, s)
      BY <2>1, <2>2 DEF ShownOrder, Above
    <2>3. CASE shown[c][s] = <<>>
      <3>1. View!Newest(shown[c][s]) = 0
        BY <2>3 DEF View!Newest
      <3>2. \A i \in DOMAIN batch[s] : 0 < batch[s][i]
        BY Domains
      <3> QED BY <2>1, <3>1, <3>2 DEF ShownOrder, Above
    <2> QED BY <2>2, <2>3
  <1> QED BY <1>1, <1>2 DEF OrderInv

LEMMA OrderOfOffer ==
  ASSUME TypeInv, RoundInv, OrderInv, NEW s \in Streams, Offer(s)
  PROVE  OrderInv'
  <1> DEFINE n == offered[s]
             more == Append(chan[s], n + 1)
  <1>1. /\ UNCHANGED <<batch, message, pusher, pending, target, shown>>
        /\ offered' = [offered EXCEPT ![s] = n + 1]
        /\ chan' = chan \/ chan' = [chan EXCEPT ![s] = more]
    BY Domains DEF Offer, pushVars, panelVars
  <1>2. /\ n \in Nat /\ chan[s] \in Seq(1 .. n) /\ batch[s] \in Seq(1 .. n)
        /\ StreamOrder(s) /\ shown \in [Panels -> [Streams -> Seq(Nat)]]
    BY Domains DEF OrderInv, RoundInv, ShownType
  <1>3. /\ Increasing(more)
        /\ \A k \in 0 .. n : Above(chan[s], k) => Above(more, k)
    BY <1>2, OneMoreInOrder DEF StreamOrder
  <1>4. chan'[s] \in {chan[s], more} /\ offered'[s] = n + 1
    BY <1>1, Domains
  <1> HIDE DEF more
  <1>5. StreamOrder(s)'
    <2>1. \A i \in DOMAIN batch[s] : batch[s][i] \in 0 .. n
      BY <1>2
    <2> QED BY <1>1, <1>2, <1>3, <1>4, <2>1 DEF StreamOrder, Before
  <1>6. ASSUME NEW c \in Panels PROVE ShownOrder(c, s)'
    <2>1. ShownOrder(c, s) /\ View!Newest(shown[c][s]) \in Nat
      BY <1>2, NewestIsNat DEF OrderInv
    <2>2. View!Newest(shown[c][s]) \in 0 .. n
      BY <1>2, <2>1 DEF ShownOrder
    <2>3. Above(chan'[s], View!Newest(shown[c][s]))
      BY <1>3, <1>4, <2>1, <2>2 DEF ShownOrder
    <2>4. View!Newest(shown[c][s]) <= n + 1
      BY <1>2, <2>2
    <2>5. /\ shown' = shown /\ batch' = batch
          /\ Coming(c, s)' => Coming(c, s)
          /\ Coming(c, s) => Above(batch[s], View!Newest(shown[c][s]))
      BY <1>1, <2>1 DEF Coming, ShownOrder
    <2> QED BY <1>4, <2>3, <2>4, <2>5 DEF ShownOrder
  <1>7. ASSUME NEW t \in Streams, t # s
        PROVE  StreamOrder(t)' /\ \A c \in Panels : ShownOrder(c, t)'
    <2>1. chan'[t] = chan[t] /\ offered'[t] = offered[t] /\ batch'[t] = batch[t] /\ message'[t] = message[t]
      BY <1>1, <1>7, Domains
    <2>2. StreamOrder(t)'
      BY <2>1 DEF OrderInv, StreamOrder
    <2>3. ASSUME NEW c \in Panels PROVE ShownOrder(c, t)'
      <3>1. ShownOrder(c, t)
        BY DEF OrderInv
      <3>2. Coming(c, t)' => Coming(c, t)
        BY <1>1 DEF Coming
      <3> QED BY <1>1, <2>1, <3>1, <3>2 DEF ShownOrder
    <2> QED BY <2>2, <2>3
  <1> QED BY <1>5, <1>6, <1>7 DEF OrderInv

LEMMA OrderOfReceive ==
  ASSUME TypeInv, RoundInv, OrderInv, NEW s \in Streams, Receive(s)
  PROVE  OrderInv'
  <1> DEFINE n == offered[s]
             rest == Tail(chan[s])
             more == Append(batch[s], Head(chan[s]))
  <1>1. /\ UNCHANGED <<offered, message, target, shown>> /\ pusher[s] = "collect"
        /\ chan[s] # <<>> /\ chan' = [chan EXCEPT ![s] = rest]
        /\ batch' = [batch EXCEPT ![s] = more] /\ chan'[s] = rest /\ batch'[s] = more
    BY Domains DEF Receive, Goto, panelVars
  <1>2. \A t \in Streams : t # s => pusher'[t] = pusher[t] /\ pending'[t] = pending[t]
    BY Domains DEF Receive, Goto, BeginSend
  <1>3. /\ n \in Nat /\ chan[s] \in Seq(1 .. n) /\ batch[s] \in Seq(1 .. n)
        /\ StreamOrder(s) /\ shown \in [Panels -> [Streams -> Seq(Nat)]]
    BY Domains DEF OrderInv, RoundInv, ShownType
  <1> DEFINE q == chan[s]
             b == batch[s]
  <1>4. /\ n \in Nat /\ q \in Seq(1 .. n) /\ b \in Seq(1 .. n) /\ q # <<>>
        /\ Increasing(q) /\ Increasing(b) /\ Before(b, q)
        /\ rest = Tail(q) /\ more = Append(b, Head(q))
    BY <1>1, <1>3 DEF StreamOrder
  <1> HIDE DEF n, rest, more, q, b
  <1>5. StreamOrder(s)'
    <2>1. Increasing(rest) /\ Increasing(more) /\ Before(more, rest) /\ PartOf(b, more)
      BY <1>4, TakenInOrder
    <2>2. PartOf(message[s], more) /\ Increasing(message[s])
      BY <1>3, <2>1 DEF StreamOrder, PartOf, b
    <2> QED BY <1>1, <2>1, <2>2 DEF StreamOrder
  <1>6. ASSUME NEW c \in Panels PROVE ShownOrder(c, s)'
    <2> DEFINE k == View!Newest(shown[c][s])
    <2>1. ShownOrder(c, s) /\ k \in Nat /\ Coming(c, s)
      BY <1>1, <1>3, NewestIsNat DEF OrderInv, Coming
    <2>2. Above(q, k) /\ Above(b, k) /\ k <= offered[s]
      BY <2>1 DEF ShownOrder, q, b
    <2> HIDE DEF k
    <2>3. Above(rest, k) /\ Above(more, k)
      BY <1>4, <2>1, <2>2, TakenAbove
    <2> QED BY <1>1, <2>2, <2>3 DEF ShownOrder, k
  <1>7. ASSUME NEW t \in Streams, t # s
        PROVE  StreamOrder(t)' /\ \A c \in Panels : ShownOrder(c, t)'
    <2>1. chan'[t] = chan[t] /\ batch'[t] = batch[t]
      BY <1>1, <1>7, Domains
    <2>2. StreamOrder(t)'
      BY <1>1, <2>1 DEF OrderInv, StreamOrder
    <2>3. ASSUME NEW c \in Panels PROVE ShownOrder(c, t)'
      <3>1. ShownOrder(c, t)
        BY DEF OrderInv
      <3>2. Coming(c, t)' => Coming(c, t)
        BY <1>1, <1>2, <1>7 DEF Coming
      <3> QED BY <1>1, <2>1, <3>1, <3>2 DEF ShownOrder
    <2> QED BY <2>2, <2>3
  <1> QED BY <1>5, <1>6, <1>7 DEF OrderInv

\* An empty batch is before everything.
LEMMA OrderOfEndSend ==
  ASSUME TypeInv, RoundInv, OrderInv, NEW s \in Streams, EndSend(s)
  PROVE  OrderInv'
  <1>1. /\ UNCHANGED <<offered, chan, message, pending, target, shown>> /\ pusher[s] = "visit"
        /\ batch' = [batch EXCEPT ![s] = <<>>] /\ batch'[s] = <<>>
        /\ \A t \in Streams : t # s => pusher'[t] = pusher[t] /\ batch'[t] = batch[t]
    BY Domains DEF EndSend, Goto, streamVars, panelVars
  <1>2. message[s] = <<>>
    BY <1>1 DEF RoundInv, Round
  <1>3. ASSUME NEW t \in Streams PROVE StreamOrder(t)'
    <2>1. CASE t = s
      BY <1>1, <1>2, <2>1 DEF OrderInv, StreamOrder, Increasing, Before, PartOf
    <2>2. CASE t # s
      BY <1>1, <2>2 DEF OrderInv, StreamOrder
    <2> QED BY <2>1, <2>2
  <1>4. ASSUME NEW c \in Panels, NEW t \in Streams PROVE ShownOrder(c, t)'
    <2>1. ShownOrder(c, t)
      BY DEF OrderInv
    <2>2. CASE t = s
      BY <1>1, <2>1, <2>2 DEF ShownOrder, Above
    <2>3. CASE t # s
      <3>1. Coming(c, t)' => Coming(c, t)
        BY <1>1, <2>3 DEF Coming
      <3> QED BY <1>1, <2>1, <2>3, <3>1 DEF ShownOrder
    <2> QED BY <2>2, <2>3
  <1> QED BY <1>3, <1>4 DEF OrderInv

LEMMA SameSeq ==
  ASSUME NEW p \in Seq(Nat), NEW q \in Seq(Nat), Len(p) = Len(q), \A i \in 1 .. Len(p) : p[i] = q[i]
  PROVE  p = q
  OBVIOUS

\* What a sequence has after its first l elements.
LEMMA Suffix ==
  ASSUME NEW x \in Seq(Nat), NEW l \in Nat, NEW n \in Nat, Len(x) = l + n
  PROVE  /\ SubSeq(x, l + 1, Len(x)) \in Seq(Nat)
         /\ Len(SubSeq(x, l + 1, Len(x))) = n
         /\ \A i \in 1 .. n : SubSeq(x, l + 1, Len(x))[i] = x[l + i]
  <1> DEFINE r == SubSeq(x, l + 1, l + n)
  <1>1. r \in Seq(Nat) /\ Len(r) = n
    OBVIOUS
  <1>2. ASSUME NEW i \in 1 .. n PROVE r[i] = x[l + i]
    <2>1. i \in Int /\ 1 <= i /\ i <= n /\ (l + 1) + i - 1 = l + i
      OBVIOUS
    <2> QED BY <2>1, SMTT(30)
  <1> QED BY <1>1, <1>2

\* A screen with a message added.
LEMMA Joined ==
  ASSUME NEW p \in Seq(Nat), NEW w \in Seq(Nat)
  PROVE  /\ p \o w \in Seq(Nat)
         /\ SubSeq(p \o w, Len(p) + 1, Len(p \o w)) = w
         /\ w = <<>> => p \o w = p
         /\ w # <<>> => View!Newest(p \o w) = w[Len(w)] /\ Len(w) \in DOMAIN w
  <1>1. p \o w \in Seq(Nat) /\ Len(p \o w) = Len(p) + Len(w)
        /\ \A i \in 1 .. Len(w) : (p \o w)[Len(p) + i] = w[i]
    OBVIOUS
  <1>2. w = <<>> => p \o w = p
    OBVIOUS
  <1>3. ASSUME w # <<>> PROVE View!Newest(p \o w) = w[Len(w)] /\ Len(w) \in DOMAIN w
    <2>1. Len(w) > 0 /\ Len(w) \in 1 .. Len(w) /\ Len(w) \in DOMAIN w /\ p \o w # <<>>
      BY <1>1, <1>3
    <2> QED BY <1>1, <2>1 DEF View!Newest
  <1>4. SubSeq(p \o w, Len(p) + 1, Len(p \o w)) = w
    <2> DEFINE x == p \o w
               l == Len(p)
               r == SubSeq(x, l + 1, Len(x))
    <2>1. /\ x \in Seq(Nat) /\ l \in Nat /\ Len(x) = l + Len(w) /\ Len(w) \in Nat
          /\ \A i \in 1 .. Len(w) : x[l + i] = w[i]
      BY <1>1
    <2> HIDE DEF x, l
    <2>2. r \in Seq(Nat) /\ Len(r) = Len(w) /\ \A i \in 1 .. Len(w) : r[i] = x[l + i]
      BY <2>1, Suffix
    <2>3. r = w
      <3> HIDE DEF r
      <3>1. \A i \in 1 .. Len(r) : r[i] = w[i]
        BY <2>1, <2>2
      <3> QED BY <2>2, <3>1, SameSeq
    <2> QED BY <2>3 DEF x, l
  <1> QED BY <1>1, <1>2, <1>3, <1>4

LEMMA OrderOfWrite ==
  ASSUME TypeInv, RoundInv, OrderInv, NEW s \in Streams, NEW c \in Panels, WriteDone(s, c)
  PROVE  OrderInv' /\ View!Show(c, s)
  <1> DEFINE p == shown[c][s]
             w == message[s]
  <1>1. /\ UNCHANGED <<offered, chan, batch, pending>> /\ c \in target[s] /\ pusher[s] = "write"
        /\ target' = [target EXCEPT ![s] = {}] /\ message' = [message EXCEPT ![s] = <<>>]
        /\ shown' = [shown EXCEPT ![c][s] = p \o w] /\ pusher' = [pusher EXCEPT ![s] = "visit"]
    BY DEF WriteDone, Written, Goto, streamVars
  <1>2. /\ p \in Seq(Nat) /\ w \in Seq(Nat) /\ shown \in [Panels -> [Streams -> Seq(Nat)]]
        /\ w \in Seq(1 .. offered[s]) /\ offered[s] \in Nat
        /\ batch[s] \in Seq(1 .. offered[s])
    BY Domains DEF RoundInv, ShownType
  <1>3. StreamOrder(s) /\ ShownOrder(c, s) /\ Coming(c, s)
    BY <1>1 DEF OrderInv, Coming
  <1>4. shown'[c][s] = p \o w
    BY <1>1, <1>2
  <1>5. \A d \in Panels, t \in Streams : ~ (d = c /\ t = s) => shown'[d][t] = shown[d][t]
    BY <1>1, <1>2
  <1>6. /\ SubSeq(p \o w, Len(p) + 1, Len(p \o w)) = w
        /\ w = <<>> => p \o w = p
        /\ w # <<>> => View!Newest(p \o w) = w[Len(w)] /\ Len(w) \in DOMAIN w
    BY <1>2, Joined
  <1> HIDE DEF p, w
  <1>7. \A i \in DOMAIN w : /\ w[i] \in 1 .. offered[s] /\ View!Newest(p) < w[i]
                            /\ Above(chan[s], w[i])
    <2>1. \A i \in DOMAIN w : \E j \in DOMAIN batch[s] : w[i] = batch[s][j]
      BY <1>3 DEF StreamOrder, PartOf, w
    <2>2. \A j \in DOMAIN batch[s] : /\ batch[s][j] \in 1 .. offered[s] /\ Above(chan[s], batch[s][j])
                                     /\ View!Newest(p) < batch[s][j]
      BY <1>2, <1>3 DEF StreamOrder, Before, ShownOrder, Above, p
    <2> QED BY <2>1, <2>2
  <1>8. View!Show(c, s)
    <2>1. View!Newest(p) \in Nat
      BY <1>2, NewestIsNat
    <2>2. \A i \in DOMAIN w : w[i] \in View!Newest(p) + 1 .. offered[s]
      BY <1>2, <1>7, <2>1
    <2>3. \A i, j \in DOMAIN w : i < j => w[i] < w[j]
      BY <1>3 DEF StreamOrder, Increasing, w
    <2>4. UNCHANGED offered /\ shown' = [shown EXCEPT ![c][s] = p \o w]
      BY <1>1 DEF p, w
    <2> QED BY <1>4, <1>6, <2>2, <2>3, <2>4 DEF View!Show, p
  <1>9. ASSUME NEW t \in Streams PROVE StreamOrder(t)'
    <2>1. StreamOrder(t)
      BY DEF OrderInv
    <2>2. CASE t = s
      <3>1. message'[t] = <<>>
        BY <1>1, <2>2, Domains
      <3> QED BY <1>1, <2>1, <3>1 DEF StreamOrder, Increasing, PartOf
    <2>3. CASE t # s
      <3>1. message'[t] = message[t]
        BY <1>1, <2>3, Domains
      <3> QED BY <1>1, <2>1, <3>1 DEF StreamOrder
    <2> QED BY <2>2, <2>3
  <1>10. ASSUME NEW d \in Panels, NEW t \in Streams PROVE ShownOrder(d, t)'
    <2>1. ShownOrder(d, t)
      BY DEF OrderInv
    <2>2. CASE d = c /\ t = s
      <3>1. ~ Coming(c, s)'
        <4>1. c \notin pending[s]
          BY <1>1 DEF RoundInv, Round
        <4>2. pusher'[s] = "visit" /\ target'[s] = {}
          BY <1>1, Domains
        <4> QED BY <1>1, <4>1, <4>2 DEF Coming
      <3>2. View!Newest(p \o w) <= offered[s] /\ Above(chan[s], View!Newest(p \o w))
        <4>1. CASE w = <<>>
          BY <1>3, <1>6, <4>1 DEF ShownOrder, p
        <4>2. CASE w # <<>>
          <5>1. View!Newest(p \o w) = w[Len(w)] /\ Len(w) \in DOMAIN w
            BY <1>6, <4>2
          <5>2. w[Len(w)] \in 1 .. offered[s] /\ Above(chan[s], w[Len(w)])
            BY <1>7, <5>1
          <5> QED BY <1>2, <5>1, <5>2
        <4> QED BY <4>1, <4>2
      <3> QED BY <1>1, <1>4, <2>2, <3>1, <3>2 DEF ShownOrder
    <2>3. CASE ~ (d = c /\ t = s)
      <3>1. shown'[d][t] = shown[d][t]
        BY <1>5, <2>3
      <3>2. Coming(d, t)' => Coming(d, t)
        <4>1. target'[t] \subseteq target[t] /\ (pusher'[t] = "collect" => pusher[t] = "collect")
          BY <1>1, Domains
        <4> QED BY <1>1, <4>1 DEF Coming
      <3> QED BY <1>1, <2>1, <3>1, <3>2 DEF ShownOrder
    <2> QED BY <2>2, <2>3
  <1> QED BY <1>8, <1>9, <1>10 DEF OrderInv

LEMMA OrderStep ==
  ASSUME TypeInv, RoundInv, OrderInv, [Next]_vars
  PROVE  OrderInv'
  <1>1. ASSUME UNCHANGED <<offered, chan, batch, pushVars, shown>> PROVE OrderInv'
    BY <1>1, OrderKept DEF pushVars, Coming
  <1>2. CASE CountIntercept \/ UNCHANGED vars
    BY <1>1, <1>2 DEF CountIntercept, vars, streamVars, pushVars, panelVars
  <1>3. ASSUME NEW c \in Panels, Subscribe(c) \/ Stall(c) \/ Leave(c) \/ ReadFails(c) PROVE OrderInv'
    BY <1>1, <1>3 DEF Subscribe, Stall, Leave, ReadFails, streamVars, pushVars
  <1>4. ASSUME NEW c \in Panels, Connect(c) PROVE OrderInv'
    <2>1. PICK S \in SUBSET {s \in Streams : pusher[s] # "collect"} :
            pending' = [s \in Streams |-> IF s \in S THEN pending[s] \cup {c} ELSE pending[s]]
      BY <1>4 DEF Connect
    <2>2. UNCHANGED <<offered, chan, batch, message, pusher, target, shown>> /\ Absent(c)
      BY <1>4 DEF Connect, RoundInv, streamVars
    <2>3. ASSUME NEW d \in Panels, NEW s \in Streams, Coming(d, s)'
          PROVE  Coming(d, s) \/ shown[d][s] = <<>>
      BY <2>1, <2>2, <2>3 DEF Coming, Absent
    <2> QED BY <2>2, <2>3, OrderKept
  <1>5. ASSUME NEW s \in Streams, Tick(s) PROVE OrderInv'
    <2>1. /\ UNCHANGED <<offered, chan, batch, message, target, shown>> /\ pusher[s] = "collect"
          /\ \A t \in Streams : t # s => pusher'[t] = pusher[t] /\ pending'[t] = pending[t]
      BY <1>5, Domains DEF Tick, BeginSend, Goto, streamVars, panelVars
    <2>2. \A d \in Panels, t \in Streams : Coming(d, t)' => Coming(d, t)
      BY <2>1 DEF Coming
    <2> QED BY <2>1, <2>2, OrderKept
  <1>6. ASSUME NEW s \in Streams, NEW c \in Panels, VisitPanel(s, c) PROVE OrderInv'
    <2>1. /\ UNCHANGED <<offered, chan, batch, shown>> /\ c \in pending[s]
          /\ pending' = [pending EXCEPT ![s] = pending[s] \ {c}]
          /\ \/ UNCHANGED <<pusher, target, message>>
             \/ /\ pusher' = [pusher EXCEPT ![s] = "lock"] /\ target' = [target EXCEPT ![s] = {c}]
                /\ message' = [message EXCEPT ![s] = For(c, s)]
      BY <1>6 DEF VisitPanel, streamVars, panelVars
    <2>2. ASSUME NEW d \in Panels, NEW t \in Streams, Coming(d, t)' PROVE Coming(d, t)
      <3>1. /\ pending'[t] \subseteq pending[t] /\ target'[t] \subseteq target[t] \cup pending[t]
            /\ pusher'[t] = "collect" => pusher[t] = "collect"
        BY <2>1, Domains
      <3> QED BY <2>2, <3>1 DEF Coming
    <2>3. \A t \in Streams : message'[t] = message[t] \/ message'[t] = For(c, t)
      BY <2>1, Domains
    <2> QED BY <2>1, <2>2, <2>3, OrderKept
  <1>7. ASSUME NEW s \in Streams, NEW c \in Panels, Lock(s, c) \/ WriteFails(s, c) PROVE OrderInv'
    <2>1. /\ UNCHANGED <<offered, chan, batch, pending, shown>>
          /\ \A t \in Streams : /\ message'[t] \in {message[t], <<>>} /\ target'[t] \subseteq target[t]
                                /\ pusher'[t] = "collect" => pusher[t] = "collect"
      BY <1>7, Domains DEF Lock, WriteFails, Written, Goto, streamVars, panelVars
    <2>2. \A d \in Panels, t \in Streams : Coming(d, t)' => Coming(d, t)
      BY <2>1 DEF Coming
    <2> QED BY <2>1, <2>2, OrderKept
  <1>8. ASSUME NEW s \in Streams, Push(s) PROVE OrderInv'
    BY <1>5, <1>6, <1>7, <1>8, OrderOfReceive, OrderOfEndSend, OrderOfWrite DEF Push
  <1> QED BY <1>2, <1>3, <1>4, <1>8, OrderOfOffer DEF Next, Panel

\* A step offers a message, shows some, or does neither.
LEMMA ViewStep ==
  ASSUME TypeInv, RoundInv, OrderInv, [Next]_vars
  PROVE  [View!Next]_View!vars
  <1>1. ASSUME UNCHANGED <<offered, shown>> PROVE [View!Next]_View!vars
    BY <1>1 DEF View!vars
  <1>2. CASE CountIntercept \/ UNCHANGED vars
    BY <1>1, <1>2 DEF CountIntercept, vars, streamVars, panelVars
  <1>3. ASSUME NEW c \in Panels, Panel(c) \/ ReadFails(c) PROVE [View!Next]_View!vars
    BY <1>1, <1>3 DEF Panel, Connect, Subscribe, Stall, Leave, ReadFails, streamVars
  <1>4. ASSUME NEW s \in Streams, Offer(s) PROVE [View!Next]_View!vars
    BY <1>4 DEF Offer, panelVars, View!Next, View!Offer
  <1>5. ASSUME NEW s \in Streams, NEW c \in Panels, WriteDone(s, c) PROVE [View!Next]_View!vars
    BY <1>5, OrderOfWrite DEF View!Next
  <1>6. ASSUME NEW s \in Streams, Push(s) PROVE [View!Next]_View!vars
    BY <1>1, <1>5, <1>6 DEF Push, Receive, Tick, EndSend, VisitPanel, Lock, WriteFails, streamVars,
       panelVars
  <1> QED BY <1>2, <1>3, <1>4, <1>6 DEF Next

\* The hub implements a live view: every panel shows a part of what was offered
\* to a stream, in order and nothing twice.
THEOREM ShowsInOrder == Spec => InOrder
  <1>1. Init => View!Init
    BY DEF Init, View!Init
  <1>2. TypeInv /\ RoundInv /\ OrderInv /\ [Next]_vars => [View!Next]_View!vars
    BY ViewStep
  <1>3. TypeInv /\ RoundInv /\ [Next]_vars => RoundInv'
    BY RoundStep
  <1>4. TypeInv /\ RoundInv /\ OrderInv /\ [Next]_vars => OrderInv'
    BY OrderStep
  <1> QED BY <1>1, <1>2, <1>3, <1>4, TypeInit, TypeStep, RoundInit, OrderInit, PTL
          DEF Spec, InOrder, View!Spec

-----------------------------------------------------------------------------
(* What a channel has accepted. *)

LEMMA ContainsMore ==
  ASSUME NEW q \in Seq(Nat), NEW x \in Nat, NEW i
  PROVE  Contains(Append(q, x), i) <=> Contains(q, i) \/ i = x
  <1> DEFINE r == Append(q, x)
  <1>1. /\ Len(r) = Len(q) + 1 /\ Len(q) \in Nat /\ r[Len(q) + 1] = x
        /\ \A k \in 1 .. Len(q) : r[k] = q[k]
    OBVIOUS
  <1>2. \A k \in 1 .. Len(r) : k \in 1 .. Len(q) \/ k = Len(q) + 1
    BY <1>1
  <1>3. 1 .. Len(q) \subseteq 1 .. Len(r) /\ Len(q) + 1 \in 1 .. Len(r)
    BY <1>1
  <1> HIDE DEF r
  <1>4. Contains(r, i) <=> Contains(q, i) \/ i = x
    BY <1>1, <1>2, <1>3 DEF Contains
  <1> QED BY <1>4 DEF r

LEMMA ContainsTail ==
  ASSUME NEW q \in Seq(Nat), q # <<>>, NEW i, Contains(q, i)
  PROVE  i = Head(q) \/ Contains(Tail(q), i)
  <1> DEFINE t == Tail(q)
  <1>1. PICK k \in 1 .. Len(q) : q[k] = i
    BY DEF Contains
  <1>2. CASE k = 1
    BY <1>1, <1>2
  <1>3. CASE k # 1
    <2>1. k - 1 \in 1 .. Len(t) /\ t[k - 1] = q[k]
      BY <1>3
    <2> HIDE DEF t
    <2>2. Contains(t, i)
      BY <1>1, <2>1 DEF Contains
    <2> QED BY <2>2 DEF t
  <1> QED BY <1>2, <1>3

LEMMA ContainsJoined ==
  ASSUME NEW p \in Seq(Nat), NEW w \in Seq(Nat), NEW i, Contains(p, i) \/ Contains(w, i)
  PROVE  Contains(p \o w, i)
  <1> DEFINE r == p \o w
  <1>1. /\ Len(r) = Len(p) + Len(w) /\ Len(p) \in Nat /\ Len(w) \in Nat
        /\ \A k \in 1 .. Len(p) : r[k] = p[k]
        /\ \A k \in 1 .. Len(w) : r[Len(p) + k] = w[k]
    OBVIOUS
  <1>2. /\ \A k \in 1 .. Len(p) : k \in 1 .. Len(r)
        /\ \A k \in 1 .. Len(w) : Len(p) + k \in 1 .. Len(r)
    BY <1>1
  <1> HIDE DEF r
  <1>3. Contains(r, i)
    BY <1>1, <1>2 DEF Contains
  <1> QED BY <1>3 DEF r

\* What a panel is to get of a stream.
Wanted(c, s) == {i \in Accepted(c, s) : s = "logs" => Wants(c, i)}

\* It waits, is collected or sent, or is shown; while the batch is written to
\* the panel, it is in what is written.
Promise(c, s) ==
  \A i \in Wanted(c, s) :
    /\ \/ Contains(chan[s], i)
       \/ Contains(shown[c][s], i)
       \/ Contains(batch[s], i) /\ Coming(c, s)
    /\ c \in target[s] /\ Contains(batch[s], i) => Contains(message[s], i)

\* Who has to get anything at all.
Listening(c) == c \in clients /\ socket[c] = "open"

AcceptInv ==
  /\ since \in [Panels -> [Streams -> Nat]]
  /\ \A c \in Panels : Listening(c) => \A s \in topics[c] : Promise(c, s)

LEMMA AcceptInit == Init => AcceptInv
  BY DEF Init, AcceptInv, Listening

\* A step that leaves a stream to a panel as it is, but for who visits whom.
LEMMA PromiseKept ==
  ASSUME NEW c \in Panels, NEW s \in Streams, Promise(c, s),
         offered'[s] = offered[s], dropped'[s] = dropped[s], chan'[s] = chan[s], batch'[s] = batch[s],
         shown'[c][s] = shown[c][s], since'[c] = since[c], level'[c] = level[c],
         Coming(c, s) => Coming(c, s)',
         c \in target'[s] => c \in target[s] /\ message'[s] = message[s]
  PROVE  Promise(c, s)'
  <1>1. Wanted(c, s)' = Wanted(c, s)
    BY DEF Wanted, Accepted, Wants
  <1> QED BY <1>1 DEF Promise

\* A stream that a step does not touch.
Untouched(c, s) ==
  /\ offered'[s] = offered[s] /\ dropped'[s] = dropped[s] /\ chan'[s] = chan[s]
  /\ batch'[s] = batch[s] /\ message'[s] = message[s] /\ pusher'[s] = pusher[s]
  /\ pending'[s] = pending[s] /\ target'[s] = target[s]
  /\ shown'[c][s] = shown[c][s] /\ UNCHANGED <<since, level>>

LEMMA PromiseOfOthers ==
  ASSUME TypeInv, RoundInv, NEW c \in Panels, NEW s \in Streams, NEW t \in Streams,
         Offer(t) \/ Push(t), t # s, Promise(c, s)
  PROVE  Promise(c, s)'
  <1>1. Untouched(c, s)
    <2>1. CASE Offer(t)
      BY <2>1, Domains DEF Offer, pushVars, panelVars, Untouched
    <2>2. CASE Receive(t) \/ Tick(t) \/ EndSend(t)
      BY <2>2, Domains DEF Receive, Tick, EndSend, BeginSend, Goto, streamVars, panelVars, Untouched
    <2>3. ASSUME NEW d \in Panels, VisitPanel(t, d) \/ Lock(t, d) \/ WriteFails(t, d)
          PROVE  Untouched(c, s)
      BY <2>3, Domains DEF VisitPanel, Lock, WriteFails, Written, Goto, streamVars, panelVars,
         Untouched
    <2>4. ASSUME NEW d \in Panels, WriteDone(t, d) PROVE Untouched(c, s)
      <3>1. shown \in [Panels -> [Streams -> Seq(Nat)]]
        BY DEF RoundInv, ShownType
      <3> QED BY <2>4, <3>1, Domains DEF WriteDone, Written, Goto, streamVars, Untouched
    <2> QED BY <2>1, <2>2, <2>3, <2>4 DEF Push
  <1>2. Coming(c, s)' <=> Coming(c, s)
    BY <1>1 DEF Coming, Untouched
  <1> QED BY <1>1, <1>2, PromiseKept DEF Untouched

\* What a panel wants of a batch is in what it is sent of it.
LEMMA WantedIsSent ==
  ASSUME TypeInv, NEW c, NEW s \in Streams, NEW i \in Wanted(c, s), Contains(batch[s], i)
  PROVE  Contains(For(c, s), i)
  <1>1. PICK j \in 1 .. Len(batch[s]) : batch[s][j] = i
    BY DEF Contains
  <1>2. j \in DOMAIN batch[s] /\ (s = "logs" => Wants(c, batch[s][j]))
    BY <1>1, Domains DEF Wanted
  <1>3. /\ For(c, s) \in Seq(1 .. offered[s])
        /\ \E k \in DOMAIN For(c, s) : For(c, s)[k] = batch[s][j]
    BY <1>2, ForIsPart DEF TypeInv
  <1>4. DOMAIN For(c, s) = 1 .. Len(For(c, s))
    BY <1>3
  <1> QED BY <1>1, <1>3, <1>4 DEF Contains

\* What the channel takes is in the channel; what it does not take is not
\* promised.
LEMMA PromiseOfOffer ==
  ASSUME TypeInv, AcceptInv, NEW c \in Panels, NEW s \in Streams, Offer(s), Promise(c, s)
  PROVE  Promise(c, s)'
  <1> DEFINE n == offered[s]
  <1>1. /\ n \in Nat /\ chan[s] \in Seq(1 .. n) /\ batch[s] \in Seq(1 .. n)
        /\ offered'[s] = n + 1
        /\ UNCHANGED <<batch, message, pusher, pending, target, shown, since, level>>
    BY Domains DEF Offer, pushVars, panelVars
  <1>2. \/ chan'[s] = Append(chan[s], n + 1) /\ dropped'[s] = dropped[s]
        \/ chan'[s] = chan[s] /\ dropped'[s] = dropped[s] \cup {n + 1}
    BY <1>1, Domains DEF Offer
  <1>3. ASSUME NEW i \in Wanted(c, s)', i # n + 1 PROVE i \in Wanted(c, s)
    <2>1. since[c][s] \in Nat /\ since'[c][s] = since[c][s]
      BY <1>1 DEF AcceptInv
    <2>2. i \in since[c][s] + 1 .. n + 1 /\ i \notin dropped'[s]
      BY <1>1, <1>3, <2>1 DEF Wanted, Accepted
    <2>3. i \in since[c][s] + 1 .. n /\ i \notin dropped[s]
      <3>1. i \in since[c][s] + 1 .. n
        BY <1>1, <1>3, <2>1, <2>2
      <3>2. dropped[s] \subseteq dropped'[s]
        BY <1>2
      <3> QED BY <2>2, <3>1, <3>2
    <2>4. s = "logs" => Wants(c, i)
      BY <1>1, <1>3 DEF Wanted, Wants
    <2> QED BY <2>3, <2>4 DEF Wanted, Accepted
  <1> DEFINE q == chan[s]
             x == n + 1
  <1>8. q \in Seq(Nat) /\ x \in Nat /\ chan'[s] \in {q, Append(q, x)}
    BY <1>1, <1>2
  <1>9. x \notin dropped'[s] => chan'[s] = Append(q, x)
    BY <1>2
  <1> HIDE DEF q, x
  <1>4. ASSUME NEW i, Contains(q, i) PROVE Contains(chan'[s], i)
    <2>1. Contains(Append(q, x), i)
      BY <1>4, <1>8, ContainsMore
    <2> QED BY <1>4, <1>8, <2>1
  <1>5. ASSUME x \in Wanted(c, s)' PROVE Contains(chan'[s], x)
    <2>1. x \notin dropped'[s]
      BY <1>5 DEF Wanted, Accepted
    <2> QED BY <1>8, <1>9, <2>1, ContainsMore
  <1>6. ~ Contains(batch[s], x)
    BY <1>1 DEF Contains, x
  <1>7. Coming(c, s) <=> Coming(c, s)'
    BY <1>1 DEF Coming
  <1>10. \A i \in Wanted(c, s)' : i = x \/ i \in Wanted(c, s)
    BY <1>3 DEF x
  <1> HIDE DEF n
  <1> QED BY <1>1, <1>4, <1>5, <1>6, <1>7, <1>10 DEF Promise, q

\* What leaves the channel is in the batch, and the batch comes to every panel
\* that is there.
LEMMA PromiseOfReceive ==
  ASSUME TypeInv, RoundInv, NEW c \in Panels, NEW s \in Streams, c \in clients,
         Receive(s) \/ Tick(s), Promise(c, s)
  PROVE  Promise(c, s)'
  <1>1. /\ UNCHANGED <<offered, dropped, target, message, shown, since, level>>
        /\ pusher[s] = "collect" /\ target[s] = {}
        /\ pusher'[s] = "collect" \/ pending'[s] = clients
    BY Domains DEF Receive, Tick, Goto, BeginSend, streamVars, panelVars, RoundInv, Round
  <1>2. Wanted(c, s)' = Wanted(c, s)
    BY <1>1 DEF Wanted, Accepted, Wants
  <1>3. Coming(c, s)'
    BY <1>1 DEF Coming
  <1>4. ASSUME NEW i
        PROVE  /\ Contains(chan[s], i) => Contains(chan'[s], i) \/ Contains(batch'[s], i)
               /\ Contains(batch[s], i) => Contains(batch'[s], i)
    <2>1. CASE Tick(s)
      BY <2>1 DEF Tick, streamVars
    <2>2. CASE Receive(s)
      <3>1. /\ chan[s] # <<>> /\ chan'[s] = Tail(chan[s])
            /\ batch'[s] = Append(batch[s], Head(chan[s]))
        BY <2>2, Domains DEF Receive
      <3>2. chan[s] \in Seq(Nat) /\ batch[s] \in Seq(Nat) /\ Head(chan[s]) \in Nat
        BY <3>1, Domains
      <3>3. Contains(batch'[s], i) <=> Contains(batch[s], i) \/ i = Head(chan[s])
        BY <3>1, <3>2, ContainsMore
      <3>4. Contains(chan[s], i) => i = Head(chan[s]) \/ Contains(chan'[s], i)
        BY <3>1, <3>2, ContainsTail
      <3> QED BY <3>3, <3>4
    <2> QED BY <2>1, <2>2
  <1> QED BY <1>1, <1>2, <1>3, <1>4 DEF Promise

\* A panel that wants something of the batch is written to, and what it wants
\* is in what it is sent.
LEMMA PromiseOfVisit ==
  ASSUME TypeInv, RoundInv, NEW c \in Panels, NEW s \in Streams, NEW d \in Panels,
         s \in topics[c], VisitPanel(s, d), Promise(c, s)
  PROVE  Promise(c, s)'
  <1>1. /\ UNCHANGED <<offered, dropped, chan, batch, shown, since, level>> /\ d \in pending[s]
        /\ pusher[s] = "visit" /\ pending'[s] = pending[s] \ {d} /\ target[s] = {}
    BY Domains DEF VisitPanel, streamVars, panelVars, RoundInv, Round
  <1>2. Wanted(c, s)' = Wanted(c, s)
    BY <1>1 DEF Wanted, Accepted, Wants
  <1>3. CASE s \in topics[d] /\ For(d, s) # <<>>
    <2>1. target'[s] = {d} /\ message'[s] = For(d, s)
      BY <1>3, Domains DEF VisitPanel
    <2>2. Coming(c, s) => Coming(c, s)'
      BY <1>1, <2>1 DEF Coming
    <2>3. ASSUME NEW i \in Wanted(c, s), c \in target'[s], Contains(batch[s], i)
          PROVE  Contains(message'[s], i)
      <3>1. Contains(For(c, s), i)
        BY <2>3, WantedIsSent
      <3> QED BY <2>1, <2>3, <3>1
    <2> QED BY <1>1, <1>2, <2>2, <2>3 DEF Promise
  <1>4. CASE ~ (s \in topics[d] /\ For(d, s) # <<>>)
    <2>1. UNCHANGED <<target, message>>
      BY <1>4 DEF VisitPanel
    <2>2. ASSUME NEW i \in Wanted(c, s), Contains(batch[s], i), Coming(c, s) PROVE Coming(c, s)'
      <3>1. CASE c = d
        <4>1. Contains(For(c, s), i) /\ For(c, s) = <<>>
          BY <1>4, <2>2, <3>1, WantedIsSent
        <4> QED BY <4>1 DEF Contains
      <3>2. CASE c # d
        BY <1>1, <2>1, <2>2, <3>2 DEF Coming
      <3> QED BY <3>1, <3>2
    <2> QED BY <1>1, <1>2, <2>1, <2>2 DEF Promise
  <1> QED BY <1>3, <1>4

\* What was written is on the screen.
LEMMA PromiseOfWrite ==
  ASSUME TypeInv, RoundInv, NEW c \in Panels, NEW s \in Streams, NEW d \in Panels,
         WriteDone(s, d), Promise(c, s)
  PROVE  Promise(c, s)'
  <1>1. /\ UNCHANGED <<offered, dropped, chan, batch, pending, since, level>> /\ d \in target[s]
        /\ pusher[s] = "write" /\ target'[s] = {} /\ target[s] = {d}
        /\ shown' = [shown EXCEPT ![d][s] = shown[d][s] \o message[s]]
    BY Domains DEF WriteDone, Written, Goto, streamVars, RoundInv, Round
  <1>2. /\ shown \in [Panels -> [Streams -> Seq(Nat)]] /\ message[s] \in Seq(Nat)
        /\ shown[d][s] \in Seq(Nat)
    BY Domains DEF RoundInv, ShownType
  <1>3. Wanted(c, s)' = Wanted(c, s)
    BY <1>1 DEF Wanted, Accepted, Wants
  <1>4. CASE c = d
    <2>1. shown'[c][s] = shown[c][s] \o message[s] /\ c \in target[s]
      BY <1>1, <1>2, <1>4
    <2>2. ASSUME NEW i, Contains(shown[c][s], i) \/ Contains(message[s], i)
          PROVE  Contains(shown'[c][s], i)
      BY <1>2, <1>4, <2>1, <2>2, ContainsJoined
    <2> QED BY <1>1, <1>3, <2>1, <2>2 DEF Promise
  <1>5. CASE c # d
    <2>1. shown'[c][s] = shown[c][s]
      BY <1>1, <1>2, <1>5
    <2>2. Coming(c, s) => Coming(c, s)'
      BY <1>1, <1>5 DEF Coming
    <2> QED BY <1>1, <1>3, <2>1, <2>2 DEF Promise
  <1> QED BY <1>4, <1>5

\* A round ends when it has come to every panel.
LEMMA PromiseOfEndSend ==
  ASSUME TypeInv, RoundInv, NEW c \in Panels, NEW s \in Streams, EndSend(s), Promise(c, s)
  PROVE  Promise(c, s)'
  <1>1. /\ UNCHANGED <<offered, dropped, chan, target, message, shown, since, level>>
        /\ pusher[s] = "visit" /\ pending[s] = {} /\ target[s] = {}
    BY DEF EndSend, Goto, streamVars, panelVars, RoundInv, Round
  <1>2. Wanted(c, s)' = Wanted(c, s) /\ ~ Coming(c, s)
    BY <1>1 DEF Wanted, Accepted, Wants, Coming
  <1> QED BY <1>1, <1>2 DEF Promise

LEMMA AcceptStep ==
  ASSUME TypeInv, RoundInv, AcceptInv, [Next]_vars
  PROVE  AcceptInv'
  <1>1. since' \in [Panels -> [Streams -> Nat]]
    <2>1. since' = since \/ \E c \in Panels : since' = [since EXCEPT ![c] = offered]
      BY DEF Next, CountIntercept, Offer, Push, Receive, Tick, EndSend, VisitPanel, Lock, WriteDone,
         WriteFails, Panel, Connect, Subscribe, Stall, Leave, ReadFails, vars, panelVars
    <2> QED BY <2>1, Domains DEF AcceptInv
  <1> SUFFICES ASSUME NEW c \in Panels, Listening(c)', NEW s \in topics'[c]
               PROVE  Promise(c, s)'
    BY <1>1 DEF AcceptInv
  <1>2. ASSUME UNCHANGED <<offered, dropped, chan, batch, shown, pusher, target, message>>,
               since'[c] = since[c], level'[c] = level[c], topics'[c] = topics[c], Listening(c),
               \A t \in Streams : pending[t] \subseteq pending'[t]
        PROVE  Promise(c, s)'
    <2>1. s \in Streams /\ Promise(c, s)
      BY <1>2, Domains DEF AcceptInv
    <2>2. Coming(c, s) => Coming(c, s)'
      BY <1>2, <2>1 DEF Coming
    <2> QED BY <1>2, <2>1, <2>2, PromiseKept
  <1>3. CASE CountIntercept \/ UNCHANGED vars
    BY <1>2, <1>3 DEF CountIntercept, vars, streamVars, pushVars, panelVars, Listening
  <1>4. ASSUME NEW d \in Panels, Stall(d) \/ Leave(d) \/ ReadFails(d) PROVE Promise(c, s)'
    <2>1. Listening(c)
      BY <1>4, Domains DEF Stall, Leave, ReadFails, Listening
    <2> QED BY <1>2, <1>4, <2>1 DEF Stall, Leave, ReadFails, streamVars, pushVars
  <1>5. ASSUME NEW d \in Panels, Connect(d) PROVE Promise(c, s)'
    <2>1. /\ UNCHANGED <<streamVars, batch, shown, pusher, target, message, since, level, topics>>
          /\ socket[d] = "none" /\ socket' = [socket EXCEPT ![d] = "open"]
          /\ clients' = clients \cup {d}
          /\ \A t \in Streams : pending[t] \subseteq pending'[t]
      BY <1>5 DEF Connect
    <2>2. c # d
      BY <2>1 DEF RoundInv, Absent
    <2>3. Listening(c)
      BY <2>1, <2>2, Domains DEF Listening
    <2> QED BY <1>2, <2>1, <2>3 DEF streamVars
  <1>6. ASSUME NEW d \in Panels, Subscribe(d) PROVE Promise(c, s)'
    <2>1. /\ UNCHANGED <<streamVars, pushVars, clients, socket, shown>>
          /\ since' = [since EXCEPT ![d] = offered]
          /\ \A e \in Panels : e # d => topics'[e] = topics[e] /\ level'[e] = level[e]
      BY <1>6, Domains DEF Subscribe, TypeInv, PanelTypes
    <2>2. CASE c = d
      <3>1. since'[c][s] = offered[s] /\ offered'[s] = offered[s]
        BY <2>1, <2>2 DEF AcceptInv, streamVars
      <3>2. s \in Streams /\ offered[s] \in Nat
        BY Domains, TypeOfPanels DEF PanelTypes
      <3>3. Accepted(c, s)' = {}
        BY <3>1, <3>2 DEF Accepted
      <3> QED BY <3>3 DEF Promise, Wanted
    <2>3. CASE c # d
      <3>1. since'[c] = since[c] /\ Listening(c)
        BY <2>1, <2>3 DEF AcceptInv, Listening
      <3> QED BY <1>2, <2>1, <2>3, <3>1 DEF streamVars, pushVars
    <2> QED BY <2>2, <2>3
  <1>7. ASSUME NEW t \in Streams, Offer(t) \/ Push(t) PROVE Promise(c, s)'
    <2>1. /\ UNCHANGED topics /\ clients' \subseteq clients
          /\ socket'[c] = "open" => socket[c] = "open"
      BY <1>7, Domains DEF Offer, Push, Receive, Tick, EndSend, VisitPanel, Lock, WriteDone, WriteFails,
         panelVars
    <2>2. s \in Streams /\ Listening(c) /\ s \in topics[c] /\ Promise(c, s) /\ c \in clients
      BY <2>1, Domains DEF AcceptInv, Listening
    <2>3. CASE t # s
      BY <1>7, <2>2, <2>3, PromiseOfOthers
    <2>4. CASE t = s
      <3>1. CASE Offer(s)
        BY <2>2, <3>1, PromiseOfOffer
      <3>2. CASE Receive(s) \/ Tick(s)
        BY <2>2, <3>2, PromiseOfReceive
      <3>3. CASE EndSend(s)
        BY <2>2, <3>3, PromiseOfEndSend
      <3>4. ASSUME NEW d \in Panels, VisitPanel(s, d) PROVE Promise(c, s)'
        BY <2>2, <3>4, PromiseOfVisit
      <3>5. ASSUME NEW d \in Panels, WriteDone(s, d) PROVE Promise(c, s)'
        BY <2>2, <3>5, PromiseOfWrite
      <3>6. ASSUME NEW d \in Panels, Lock(s, d) PROVE Promise(c, s)'
        <4>1. UNCHANGED <<offered, dropped, chan, batch, shown, pending, target, message, since, level>>
              /\ pusher[s] = "lock" /\ pusher'[s] = "write"
          BY <3>6, Domains DEF Lock, Goto, streamVars, panelVars
        <4>2. Coming(c, s) => Coming(c, s)'
          BY <4>1 DEF Coming
        <4> QED BY <2>2, <4>1, <4>2, PromiseKept
      <3>7. ASSUME NEW d \in Panels, WriteFails(s, d) PROVE Promise(c, s)'
        <4>1. /\ UNCHANGED <<offered, dropped, chan, batch, shown, pending, since, level>>
              /\ pusher[s] = "write" /\ target'[s] = {} /\ target[s] = {d} /\ c # d
          BY <3>7, Domains DEF WriteFails, Written, Goto, streamVars, RoundInv, Round, Listening
        <4>2. Coming(c, s) => Coming(c, s)'
          BY <4>1 DEF Coming
        <4> QED BY <2>2, <4>1, <4>2, PromiseKept
      <3> QED BY <1>7, <2>4, <3>1, <3>2, <3>3, <3>4, <3>5, <3>6, <3>7 DEF Push
    <2> QED BY <2>3, <2>4
  <1> QED BY <1>3, <1>4, <1>5, <1>6, <1>7 DEF Next, Panel

LEMMA AcceptMeans ==
  ASSUME TypeInv, AcceptInv
  PROVE  AcceptedAreShown
  <1> SUFFICES ASSUME NEW c \in clients, socket[c] = "open", NEW s \in topics[c],
                      NEW i \in Accepted(c, s)
               PROVE  \/ s = "logs" /\ ~ Wants(c, i)
                      \/ Contains(chan[s], i)
                      \/ Contains(shown[c][s], i)
                      \/ /\ Contains(batch[s], i)
                         /\ pusher[s] = "collect" \/ c \in pending[s] \cup target[s]
    BY DEF AcceptedAreShown
  <1>1. Promise(c, s)
    BY Domains DEF AcceptInv, Listening
  <1>2. i \in Wanted(c, s) \/ (s = "logs" /\ ~ Wants(c, i))
    BY DEF Wanted
  <1> QED BY <1>1, <1>2 DEF Promise, Coming

\* What a channel accepts after a panel has subscribed is on its way to that
\* panel or on its screen, for any number of panels, streams and messages.
THEOREM NothingAcceptedIsLost == Spec => []AcceptedAreShown
  BY TypeInit, TypeStep, RoundInit, RoundStep, AcceptInit, AcceptStep, AcceptMeans, PTL DEF Spec
=============================================================================
