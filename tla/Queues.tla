-------------------------------- MODULE Queues --------------------------------
(***************************************************************************)
(* First-in first-out queues of frames, as proofs about the transfers need *)
(* them: what is known of a queue when a frame is appended, or taken off   *)
(* its head.  Frames are told apart by sets of frames.                     *)
(***************************************************************************)
EXTENDS Naturals, Sequences, TLAPS

Contents(q) == {q[k] : k \in DOMAIN q}

\* No frame of S waits / at most one frame of S waits.
None(q, S) == \A k \in DOMAIN q : q[k] \notin S
AtMostOne(q, S) == \A j, k \in DOMAIN q : q[j] \in S /\ q[k] \in S => j = k

\* Behind a frame of S no frame of D waits.
NoneBehind(q, S, D) ==
    \A j, k \in DOMAIN q : q[j] \in S /\ q[k] \in D => k < j

End(m) == m.from + m.bytes

\* The data frames D in q carry the bytes from position a up to position b,
\* each going on where the one before it ends.
Chain(q, D, a, b) ==
    /\ a <= b
    /\ None(q, D) => a = b
    /\ \A k \in DOMAIN q : q[k] \in D =>
          /\ a <= q[k].from
          /\ End(q[k]) <= b
          /\ (\A j \in DOMAIN q : q[j] \in D => k <= j) => q[k].from = a
          /\ (\A j \in DOMAIN q : q[j] \in D => j <= k) => End(q[k]) = b
    /\ \A j, k \in DOMAIN q : q[j] \in D /\ q[k] \in D /\ j < k =>
          /\ End(q[j]) <= q[k].from
          /\ (\A l \in DOMAIN q : q[l] \in D => l <= j \/ k <= l) =>
                 End(q[j]) = q[k].from
-----------------------------------------------------------------------------
\* What Append and Tail do, position by position.
LEMMA AppendAt ==
    ASSUME NEW T, NEW q \in Seq(T), NEW m \in T
    PROVE  /\ Append(q, m) \in Seq(T)
           /\ Len(q) \in Nat
           /\ DOMAIN q = 1..Len(q)
           /\ DOMAIN Append(q, m) = 1..(Len(q) + 1)
           /\ Append(q, m)[Len(q) + 1] = m
           /\ \A k \in 1..Len(q) : Append(q, m)[k] = q[k]
OBVIOUS

\* The tail of a queue is the queue without its first place.
LEMMA TailAt ==
    ASSUME NEW T, NEW q \in Seq(T), q # <<>>
    PROVE  /\ Tail(q) \in Seq(T)
           /\ Len(q) \in Nat \ {0}
           /\ DOMAIN q = 1..Len(q)
           /\ Head(q) = q[1]
           /\ Head(q) \in T
           /\ DOMAIN Tail(q) = 1..(Len(q) - 1)
           /\ \A k \in 1..(Len(q) - 1) : Tail(q)[k] = q[k + 1]
OBVIOUS

\* A queue followed by one frame is the frame appended to the queue.
LEMMA ConcatOne ==
    ASSUME NEW T, NEW q \in Seq(T), NEW m \in T
    PROVE  q \o <<m>> = Append(q, m)
OBVIOUS

\* ... and followed by nothing it is the queue.
LEMMA ConcatNone ==
    ASSUME NEW T, NEW q \in Seq(T)
    PROVE  q \o <<>> = q
OBVIOUS
-----------------------------------------------------------------------------
\* An empty queue holds nothing.
LEMMA EmptyQueue ==
    ASSUME NEW S, NEW D, NEW a \in Nat
    PROVE  /\ Contents(<<>>) = {}
           /\ None(<<>>, S)
           /\ AtMostOne(<<>>, S)
           /\ NoneBehind(<<>>, S, D)
           /\ Chain(<<>>, D, a, a)
BY DEF Contents, None, AtMostOne, NoneBehind, Chain

\* Appending a frame adds that frame.
LEMMA ContentsAppend ==
    ASSUME NEW T, NEW q \in Seq(T), NEW m \in T
    PROVE  Contents(Append(q, m)) = Contents(q) \union {m}
<1>1. Contents(Append(q, m)) \subseteq Contents(q) \union {m}
  BY AppendAt DEF Contents
<1>2. Contents(q) \union {m} \subseteq Contents(Append(q, m))
  BY AppendAt DEF Contents
<1>3. QED
  BY <1>1, <1>2

\* The head of a queue is one of its frames, its tail holds no others.
LEMMA ContentsTail ==
    ASSUME NEW T, NEW q \in Seq(T), q # <<>>
    PROVE  /\ Head(q) \in Contents(q)
           /\ Contents(Tail(q)) \subseteq Contents(q)
           /\ Contents(q) = Contents(Tail(q)) \union {Head(q)}
           /\ Contents(q) \subseteq T
<1>1. Head(q) \in Contents(q)
  BY TailAt DEF Contents
<1>2. Contents(Tail(q)) \subseteq Contents(q)
  BY TailAt DEF Contents
<1>3. ASSUME NEW k \in DOMAIN q
      PROVE  q[k] \in Contents(Tail(q)) \union {Head(q)}
  <2>1. CASE k = 1
    BY <2>1, TailAt
  <2>2. CASE k # 1
    <3>1. k - 1 \in DOMAIN Tail(q) /\ Tail(q)[k - 1] = q[k]
      BY <2>2, TailAt
    <3>2. QED
      BY <3>1 DEF Contents
  <2>3. QED
    BY <2>1, <2>2
<1>4. Contents(q) \subseteq T
  BY DEF Contents
<1>5. QED
  BY <1>1, <1>2, <1>3, <1>4 DEF Contents

\* None says that no frame of S is among the contents.
LEMMA NoneContents ==
    ASSUME NEW q, NEW S
    PROVE  None(q, S) <=> Contents(q) \cap S = {}
BY DEF None, Contents

\* A frame outside S changes nothing about S; a frame of S is the only one if
\* none was there.
LEMMA MarksAppend ==
    ASSUME NEW T, NEW q \in Seq(T), NEW m \in T, NEW S, NEW D
    PROVE  /\ m \notin S /\ None(q, S) => None(Append(q, m), S)
           /\ m \notin S /\ AtMostOne(q, S) => AtMostOne(Append(q, m), S)
           /\ None(q, S) => AtMostOne(Append(q, m), S)
           /\ m \notin D /\ NoneBehind(q, S, D) => NoneBehind(Append(q, m), S, D)
           /\ m \notin S /\ None(q, S) => NoneBehind(Append(q, m), S, D)
<1> DEFINE r == Append(q, m)
<1>1. /\ Len(q) \in Nat
      /\ DOMAIN q = 1..Len(q)
      /\ DOMAIN r = 1..(Len(q) + 1)
      /\ r[Len(q) + 1] = m
      /\ \A k \in 1..Len(q) : r[k] = q[k]
  BY AppendAt
<1> HIDE DEF r
<1>2. m \notin S /\ None(q, S) => None(r, S)
  BY <1>1 DEF None
<1>3. m \notin S /\ AtMostOne(q, S) => AtMostOne(r, S)
  BY <1>1 DEF AtMostOne
<1>4. None(q, S) => AtMostOne(r, S)
  BY <1>1 DEF None, AtMostOne
<1>5. m \notin D /\ NoneBehind(q, S, D) => NoneBehind(r, S, D)
  BY <1>1 DEF NoneBehind
<1>6. m \notin S /\ None(q, S) => NoneBehind(r, S, D)
  BY <1>1 DEF None, NoneBehind
<1>7. QED
  BY <1>2, <1>3, <1>4, <1>5, <1>6 DEF r

\* Taking off the head keeps all of this; if the head was the one frame of S,
\* nothing of S and nothing behind it remains.
LEMMA MarksTail ==
    ASSUME NEW T, NEW q \in Seq(T), q # <<>>, NEW S, NEW D
    PROVE  /\ None(q, S) => None(Tail(q), S)
           /\ AtMostOne(q, S) => AtMostOne(Tail(q), S)
           /\ NoneBehind(q, S, D) => NoneBehind(Tail(q), S, D)
           /\ Head(q) \in S /\ AtMostOne(q, S) => None(Tail(q), S)
           /\ Head(q) \in S /\ NoneBehind(q, S, D) => None(Tail(q), D)
<1> DEFINE r == Tail(q)
<1>1. /\ Len(q) \in Nat \ {0}
      /\ DOMAIN q = 1..Len(q)
      /\ Head(q) = q[1]
      /\ DOMAIN r = 1..(Len(q) - 1)
      /\ \A k \in 1..(Len(q) - 1) : r[k] = q[k + 1]
  BY TailAt
<1>2. \A k \in DOMAIN r : k + 1 \in DOMAIN q /\ k + 1 # 1 /\ r[k] = q[k + 1]
  BY <1>1
<1>3. DOMAIN r \subseteq Nat
  BY <1>1
<1>4. 1 \in DOMAIN q
  BY <1>1
<1> HIDE DEF r
<1>5. None(q, S) => None(r, S)
  BY <1>2 DEF None
<1>6. AtMostOne(q, S) => AtMostOne(r, S)
  BY <1>2, <1>3 DEF AtMostOne
<1>7. NoneBehind(q, S, D) => NoneBehind(r, S, D)
  BY <1>2, <1>3 DEF NoneBehind
<1>8. Head(q) \in S /\ AtMostOne(q, S) => None(r, S)
  BY <1>1, <1>2, <1>4 DEF AtMostOne, None
<1>9. Head(q) \in S /\ NoneBehind(q, S, D) => None(r, D)
  BY <1>1, <1>2, <1>3, <1>4 DEF NoneBehind, None
<1>10. QED
  BY <1>5, <1>6, <1>7, <1>8, <1>9 DEF r
-----------------------------------------------------------------------------
\* Without data frames a chain has no length.
LEMMA ChainNone ==
    ASSUME NEW q, NEW D, NEW a \in Nat, NEW b \in Nat, None(q, D)
    PROVE  Chain(q, D, a, b) <=> a = b
BY DEF None, Chain

\* A chain goes from its beginning to its end.
LEMMA ChainGrows ==
    ASSUME NEW q, NEW D, NEW a, NEW b, Chain(q, D, a, b)
    PROVE  a <= b
BY DEF Chain

\* A frame that is not of D leaves the chain as it is.
LEMMA ChainAppendOther ==
    ASSUME NEW T, NEW q \in Seq(T), NEW m \in T, NEW D, m \notin D,
           NEW a \in Nat, NEW b \in Nat, Chain(q, D, a, b)
    PROVE  Chain(Append(q, m), D, a, b)
<1> DEFINE r == Append(q, m)
<1>1. /\ Len(q) \in Nat
      /\ DOMAIN q = 1..Len(q)
      /\ DOMAIN r = 1..(Len(q) + 1)
      /\ r[Len(q) + 1] = m
      /\ \A k \in 1..Len(q) : r[k] = q[k]
  BY AppendAt
<1> HIDE DEF r
<1>2. \A k \in DOMAIN r : r[k] \in D => k \in DOMAIN q /\ r[k] = q[k]
  BY <1>1
<1>3. \A k \in DOMAIN q : k \in DOMAIN r /\ r[k] = q[k]
  BY <1>1
<1>4. QED
  BY <1>2, <1>3 DEF Chain, None, r

\* A data frame that goes on at the end of a chain makes it longer.
LEMMA ChainAppend ==
    ASSUME NEW T, NEW q \in Seq(T), NEW m \in T, NEW D, m \in D,
           \A d \in D : d.from \in Nat /\ d.bytes \in Nat,
           NEW a \in Nat, NEW b \in Nat, Chain(q, D, a, b), m.from = b
    PROVE  Chain(Append(q, m), D, a, b + m.bytes)
<1> DEFINE r == Append(q, m)
           n == Len(q) + 1
           c == b + m.bytes
<1>1. /\ n \in Nat
      /\ n \in DOMAIN r
      /\ r[n] = m
      /\ DOMAIN q \subseteq Nat
      /\ \A k \in DOMAIN q : k < n /\ k \in DOMAIN r /\ r[k] = q[k]
      /\ \A k \in DOMAIN r : k = n \/ k \in DOMAIN q
  <2>1. /\ Len(q) \in Nat
        /\ DOMAIN q = 1..Len(q)
        /\ DOMAIN r = 1..(Len(q) + 1)
        /\ r[Len(q) + 1] = m
        /\ \A k \in 1..Len(q) : r[k] = q[k]
    BY AppendAt
  <2>2. QED
    BY <2>1
<1> HIDE DEF r, n
<1>2. End(m) = c /\ c \in Nat /\ b <= c /\ a <= b
  BY DEF End, Chain
<1>3. \A k \in DOMAIN q : q[k] \in D => a <= q[k].from /\ End(q[k]) <= b
  BY DEF Chain
<1>4. \A k \in DOMAIN q : q[k] \in D => q[k].from \in Nat /\ End(q[k]) \in Nat
  BY DEF End
<1> HIDE DEF c
<1>5. a <= c
  BY <1>2
<1>6. ~None(r, D)
  BY <1>1 DEF None
<1>7. ASSUME NEW k \in DOMAIN r, r[k] \in D
      PROVE  /\ a <= r[k].from
             /\ End(r[k]) <= c
             /\ (\A j \in DOMAIN r : r[j] \in D => k <= j) => r[k].from = a
             /\ (\A j \in DOMAIN r : r[j] \in D => j <= k) => End(r[k]) = c
  <2>1. CASE k = n
    <3>1. (\A j \in DOMAIN r : r[j] \in D => k <= j) => None(q, D)
      BY <1>1, <2>1 DEF None
    <3>2. None(q, D) => a = b
      BY DEF Chain
    <3>3. QED
      BY <1>1, <1>2, <2>1, <3>1, <3>2
  <2>2. CASE k \in DOMAIN q
    <3>1. r[k] = q[k] /\ a <= r[k].from /\ End(r[k]) <= c
      BY <1>1, <1>2, <1>3, <1>4, <1>7, <2>2
    <3>2. (\A j \in DOMAIN r : r[j] \in D => k <= j) => r[k].from = a
      BY <1>1, <1>7, <2>2, <3>1 DEF Chain
    <3>3. ~(\A j \in DOMAIN r : r[j] \in D => j <= k)
      BY <1>1, <2>2
    <3>4. QED
      BY <3>1, <3>2, <3>3
  <2>3. QED
    BY <1>1, <2>1, <2>2
<1>8. ASSUME NEW j \in DOMAIN r, NEW k \in DOMAIN r, r[j] \in D, r[k] \in D, j < k
      PROVE  /\ End(r[j]) <= r[k].from
             /\ (\A l \in DOMAIN r : r[l] \in D => l <= j \/ k <= l) =>
                    End(r[j]) = r[k].from
  <2>1. j \in DOMAIN q /\ r[j] = q[j]
    BY <1>1, <1>8
  <2>2. CASE k = n
    <3>1. r[k].from = b /\ End(r[j]) <= b
      BY <1>1, <1>3, <1>8, <2>1, <2>2
    <3>2. (\A l \in DOMAIN r : r[l] \in D => l <= j \/ k <= l) =>
              \A l \in DOMAIN q : q[l] \in D => l <= j
      BY <1>1, <2>2
    <3>3. (\A l \in DOMAIN q : q[l] \in D => l <= j) => End(q[j]) = b
      BY <1>8, <2>1 DEF Chain
    <3>4. QED
      BY <2>1, <3>1, <3>2, <3>3
  <2>3. CASE k \in DOMAIN q
    <3>1. r[k] = q[k]
      BY <1>1, <2>3
    <3>2. (\A l \in DOMAIN r : r[l] \in D => l <= j \/ k <= l) =>
              \A l \in DOMAIN q : q[l] \in D => l <= j \/ k <= l
      BY <1>1
    <3>3. QED
      BY <1>8, <2>1, <2>3, <3>1, <3>2 DEF Chain
  <2>4. QED
    BY <1>1, <2>2, <2>3
<1>9. Chain(r, D, a, c)
  BY <1>5, <1>6, <1>7, <1>8 DEF Chain
<1>10. QED
  BY <1>9 DEF r, c

\* How the positions of the tail lie in the queue.
LEMMA TailPlaces ==
    ASSUME NEW T, NEW q \in Seq(T), q # <<>>
    PROVE  /\ DOMAIN q \subseteq Nat
           /\ 1 \in DOMAIN q /\ Head(q) = q[1]
           /\ DOMAIN Tail(q) \subseteq Nat
           /\ \A k \in DOMAIN Tail(q) :
                 k + 1 \in DOMAIN q /\ 1 < k + 1 /\ Tail(q)[k] = q[k + 1]
           /\ \A k \in DOMAIN q : k = 1 \/ \E i \in DOMAIN Tail(q) : k = i + 1
<1>1. /\ Len(q) \in Nat \ {0}
      /\ DOMAIN q = 1..Len(q)
      /\ DOMAIN Tail(q) = 1..(Len(q) - 1)
      /\ Head(q) = q[1]
      /\ \A k \in 1..(Len(q) - 1) : Tail(q)[k] = q[k + 1]
  BY TailAt
<1>2. ASSUME NEW k \in DOMAIN q, k # 1
      PROVE  k - 1 \in DOMAIN Tail(q) /\ k = (k - 1) + 1
  BY <1>1, <1>2
<1>3. QED
  BY <1>1, <1>2

\* Taking off a frame that is not of D leaves the chain as it is.
LEMMA ChainTailOther ==
    ASSUME NEW T, NEW q \in Seq(T), q # <<>>, NEW D, Head(q) \notin D,
           NEW a \in Nat, NEW b \in Nat, Chain(q, D, a, b)
    PROVE  Chain(Tail(q), D, a, b)
<1> DEFINE r == Tail(q)
<1>1. /\ DOMAIN q \subseteq Nat
      /\ DOMAIN r \subseteq Nat
      /\ q[1] \notin D
      /\ \A k \in DOMAIN r : k + 1 \in DOMAIN q /\ r[k] = q[k + 1]
      /\ \A k \in DOMAIN q : k = 1 \/ \E i \in DOMAIN r : k = i + 1
  BY TailPlaces
<1> HIDE DEF r
<1>2. None(r, D) => a = b
  <2>1. None(r, D) => None(q, D)
    BY <1>1 DEF None
  <2>2. QED
    BY <2>1 DEF Chain
<1>3. ASSUME NEW k \in DOMAIN r, r[k] \in D
      PROVE  /\ a <= r[k].from
             /\ End(r[k]) <= b
             /\ (\A j \in DOMAIN r : r[j] \in D => k <= j) => r[k].from = a
             /\ (\A j \in DOMAIN r : r[j] \in D => j <= k) => End(r[k]) = b
  <2>1. k + 1 \in DOMAIN q /\ r[k] = q[k + 1] /\ k \in Nat
    BY <1>1
  <2>2. (\A j \in DOMAIN r : r[j] \in D => k <= j) =>
            \A j \in DOMAIN q : q[j] \in D => k + 1 <= j
    BY <1>1, <2>1
  <2>3. (\A j \in DOMAIN r : r[j] \in D => j <= k) =>
            \A j \in DOMAIN q : q[j] \in D => j <= k + 1
    BY <1>1, <2>1
  <2>4. QED
    BY <1>3, <2>1, <2>2, <2>3 DEF Chain
<1>4. ASSUME NEW j \in DOMAIN r, NEW k \in DOMAIN r, r[j] \in D, r[k] \in D, j < k
      PROVE  /\ End(r[j]) <= r[k].from
             /\ (\A l \in DOMAIN r : r[l] \in D => l <= j \/ k <= l) =>
                    End(r[j]) = r[k].from
  <2>1. /\ j + 1 \in DOMAIN q /\ r[j] = q[j + 1] /\ j \in Nat
        /\ k + 1 \in DOMAIN q /\ r[k] = q[k + 1] /\ k \in Nat
    BY <1>1
  <2>2. (\A l \in DOMAIN r : r[l] \in D => l <= j \/ k <= l) =>
            \A l \in DOMAIN q : q[l] \in D => l <= j + 1 \/ k + 1 <= l
    BY <1>1, <2>1
  <2>3. j + 1 < k + 1
    BY <1>4, <2>1
  <2>4. QED
    BY <1>4, <2>1, <2>2, <2>3 DEF Chain
<1>5. a <= b
  BY DEF Chain
<1>6. Chain(r, D, a, b)
  BY <1>2, <1>3, <1>4, <1>5 DEF Chain
<1>7. QED
  BY <1>6 DEF r

\* A data frame at the head of a chain begins where the chain does; the rest
\* goes on behind it.
LEMMA ChainTail ==
    ASSUME NEW T, NEW q \in Seq(T), q # <<>>, NEW D, Head(q) \in D,
           \A d \in D : d.from \in Nat /\ d.bytes \in Nat,
           NEW a \in Nat, NEW b \in Nat, Chain(q, D, a, b)
    PROVE  /\ Head(q).from = a
           /\ End(Head(q)) \in Nat
           /\ Chain(Tail(q), D, End(Head(q)), b)
<1> DEFINE r == Tail(q)
           c == End(q[1])
<1>1. /\ DOMAIN q \subseteq Nat
      /\ DOMAIN r \subseteq Nat
      /\ 1 \in DOMAIN q /\ q[1] \in D /\ Head(q) = q[1]
      /\ \A k \in DOMAIN q : 1 <= k
      /\ \A k \in DOMAIN r : k + 1 \in DOMAIN q /\ r[k] = q[k + 1] /\ 1 < k + 1
      /\ \A k \in DOMAIN q : k = 1 \/ \E i \in DOMAIN r : k = i + 1
  BY TailPlaces, TailAt
<1> HIDE DEF r
<1>2. q[1].from = a /\ c \in Nat /\ c <= b
  BY <1>1 DEF Chain, End
<1>3. None(r, D) => c = b
  <2>1. None(r, D) => \A j \in DOMAIN q : q[j] \in D => j <= 1
    BY <1>1 DEF None
  <2>2. QED
    BY <1>1, <2>1 DEF Chain
<1>4. ASSUME NEW k \in DOMAIN r, r[k] \in D
      PROVE  /\ c <= r[k].from
             /\ End(r[k]) <= b
             /\ (\A j \in DOMAIN r : r[j] \in D => k <= j) => r[k].from = c
             /\ (\A j \in DOMAIN r : r[j] \in D => j <= k) => End(r[k]) = b
  <2>1. k + 1 \in DOMAIN q /\ r[k] = q[k + 1] /\ k \in Nat /\ 1 < k + 1
    BY <1>1
  <2>2. (\A j \in DOMAIN r : r[j] \in D => k <= j) =>
            \A l \in DOMAIN q : q[l] \in D => l <= 1 \/ k + 1 <= l
    BY <1>1, <2>1
  <2>3. (\A j \in DOMAIN r : r[j] \in D => j <= k) =>
            \A j \in DOMAIN q : q[j] \in D => j <= k + 1
    BY <1>1, <2>1
  <2>4. c <= r[k].from /\ ((\A l \in DOMAIN q : q[l] \in D => l <= 1 \/ k + 1 <= l)
                              => r[k].from = c)
    BY <1>1, <1>4, <2>1 DEF Chain
  <2>5. End(r[k]) <= b /\ ((\A j \in DOMAIN q : q[j] \in D => j <= k + 1)
                              => End(r[k]) = b)
    BY <1>4, <2>1 DEF Chain
  <2>6. QED
    BY <2>2, <2>3, <2>4, <2>5
<1>5. ASSUME NEW j \in DOMAIN r, NEW k \in DOMAIN r, r[j] \in D, r[k] \in D, j < k
      PROVE  /\ End(r[j]) <= r[k].from
             /\ (\A l \in DOMAIN r : r[l] \in D => l <= j \/ k <= l) =>
                    End(r[j]) = r[k].from
  <2>1. /\ j + 1 \in DOMAIN q /\ r[j] = q[j + 1] /\ j \in Nat
        /\ k + 1 \in DOMAIN q /\ r[k] = q[k + 1] /\ k \in Nat
    BY <1>1
  <2>2. (\A l \in DOMAIN r : r[l] \in D => l <= j \/ k <= l) =>
            \A l \in DOMAIN q : q[l] \in D => l <= j + 1 \/ k + 1 <= l
    <3>1. SUFFICES ASSUME \A l \in DOMAIN r : r[l] \in D => l <= j \/ k <= l,
                          NEW l \in DOMAIN q, q[l] \in D, l # 1
                   PROVE  l <= j + 1 \/ k + 1 <= l
      BY <2>1
    <3>2. PICK i \in DOMAIN r : l = i + 1
      BY <1>1, <3>1
    <3>3. i \in Nat /\ r[i] = q[l] /\ (i <= j \/ k <= i)
      BY <1>1, <3>1, <3>2
    <3>4. QED
      BY <2>1, <3>2, <3>3
  <2>3. j + 1 < k + 1
    BY <1>5, <2>1
  <2>4. QED
    BY <1>5, <2>1, <2>2, <2>3 DEF Chain
<1>6. Chain(r, D, c, b)
  <2> HIDE DEF c
  <2>1. QED
    BY <1>2, <1>3, <1>4, <1>5 DEF Chain
<1>7. QED
  BY <1>1, <1>2, <1>6 DEF r, c
-----------------------------------------------------------------------------
\* From q to r nothing is added or moved that S and D tell apart.
Calm(q, r, S, D) ==
    /\ Contents(r) \cap (S \union D) \subseteq Contents(q)
    /\ None(q, S) => None(r, S)
    /\ None(q, D) => None(r, D)
    /\ AtMostOne(q, S) => AtMostOne(r, S)
    /\ NoneBehind(q, S, D) => NoneBehind(r, S, D)

\* From q to r every chain of D stays what it is.
Keeps(q, r, D) == \A a, b \in Nat : Chain(q, D, a, b) => Chain(r, D, a, b)

\* A queue left alone is calm; so is an emptied one.
LEMMA CalmSame ==
    ASSUME NEW q, NEW S, NEW D
    PROVE  /\ Calm(q, q, S, D) /\ Keeps(q, q, D)
           /\ Calm(q, <<>>, S, D)
BY DEF Calm, Keeps, Contents, None, AtMostOne, NoneBehind

\* Appending a frame of neither kind.
LEMMA CalmAppend ==
    ASSUME NEW T, NEW q \in Seq(T), NEW m \in T, NEW S, NEW D,
           m \notin S, m \notin D
    PROVE  Calm(q, Append(q, m), S, D) /\ Keeps(q, Append(q, m), D)
<1>1. Contents(Append(q, m)) \cap (S \union D) \subseteq Contents(q)
  BY ContentsAppend
<1>2. Keeps(q, Append(q, m), D)
  BY ChainAppendOther DEF Keeps
<1>3. QED
  BY <1>1, <1>2, MarksAppend DEF Calm

\* Taking off the head.
LEMMA CalmTail ==
    ASSUME NEW T, NEW q \in Seq(T), q # <<>>, NEW S, NEW D
    PROVE  /\ Calm(q, Tail(q), S, D)
           /\ Head(q) \notin D => Keeps(q, Tail(q), D)
<1>1. Contents(Tail(q)) \cap (S \union D) \subseteq Contents(q)
  BY ContentsTail
<1>2. Head(q) \notin D => Keeps(q, Tail(q), D)
  BY ChainTailOther DEF Keeps
<1>3. QED
  BY <1>1, <1>2, MarksTail DEF Calm

\* Two calm steps make one.
LEMMA CalmTwice ==
    ASSUME NEW p, NEW q, NEW r, NEW S, NEW D,
           Calm(p, q, S, D), Calm(q, r, S, D), Keeps(p, q, D), Keeps(q, r, D)
    PROVE  Calm(p, r, S, D) /\ Keeps(p, r, D)
BY DEF Calm, Keeps
-----------------------------------------------------------------------------
\* Multiples of d.
LEMMA Multiple ==
    ASSUME NEW d \in Nat \ {0}
    PROVE  /\ \A k \in Nat : (k * d) % d = 0
           /\ \A c \in Nat : c % d = 0 => \E k \in Nat : c = k * d
<1>1. ASSUME NEW k \in Nat PROVE (k * d) % d = 0
  OBVIOUS
<1>2. ASSUME NEW c \in Nat, c % d = 0 PROVE \E k \in Nat : c = k * d
  <2>1. c \div d \in Nat /\ c = (c \div d) * d
    BY <1>2
  <2>2. QED
    BY <2>1
<1>3. QED
  BY <1>1, <1>2

Multiples(d) == {c \in Nat : c % d = 0}

\* A buffer does not lead out of a segment that is a whole number of buffers.
LEMMA BufferInSegment ==
    ASSUME NEW buf \in Nat \ {0}, NEW flux \in Multiples(buf), flux # 0,
           NEW b \in Multiples(flux), NEW c \in Multiples(buf), NEW n \in Nat,
           c < b + flux, n <= buf
    PROVE  /\ c + n <= b + flux
           /\ c + n \in Multiples(flux) \/ c + n < b + flux
           /\ n = buf => c + n \in Multiples(buf)
<1>0. /\ flux \in Nat \ {0} /\ flux % buf = 0
      /\ b \in Nat /\ c \in Nat /\ b % flux = 0 /\ c % buf = 0
  BY DEF Multiples
<1>1. PICK x \in Nat : b = x * flux
  BY <1>0, Multiple
<1>2. PICK f \in Nat : flux = f * buf
  BY <1>0, Multiple
<1>3. PICK y \in Nat : c = y * buf
  BY <1>0, Multiple
<1>4. c + buf = (y + 1) * buf /\ b + flux = (x + 1) * flux
  BY <1>0, <1>1, <1>3
<1>5. PICK z \in Nat : b + flux = z * buf
  <2>1. (x + 1) * (f * buf) = ((x + 1) * f) * buf /\ (x + 1) * f \in Nat
    BY <1>0
  <2>2. QED
    BY <1>2, <1>4, <2>1
<1>6. y < z
  <2>1. y * buf < z * buf
    BY <1>0, <1>3, <1>5
  <2>2. QED
    BY <2>1
<1>7. (y + 1) * buf <= z * buf
  <2>1. y + 1 <= z
    BY <1>6
  <2>2. QED
    BY <2>1
<1>8. c + n <= b + flux
  BY <1>0, <1>4, <1>5, <1>7
<1>9. (b + flux) % flux = 0 /\ (c + buf) % buf = 0
  <2>1. ((x + 1) * flux) % flux = 0 /\ ((y + 1) * buf) % buf = 0
    BY <1>0, Multiple
  <2>2. QED
    BY <1>4, <2>1
<1>10. QED
  <2>1. c + n < b + flux \/ c + n = b + flux
    BY <1>0, <1>8
  <2>2. c + n \in Multiples(flux) \/ c + n < b + flux
    BY <1>0, <1>9, <2>1 DEF Multiples
  <2>3. n = buf => c + n \in Multiples(buf)
    BY <1>0, <1>9 DEF Multiples
  <2>4. QED
    BY <1>8, <2>2, <2>3
=============================================================================
