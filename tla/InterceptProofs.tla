---------------------------- MODULE InterceptProofs ----------------------------
(***************************************************************************)
(* Proofs about Intercept and Modifiers for any connections, messages,     *)
(* entries, scripts and limit.                                             *)
(*                                                                         *)
(* First what the modifiers do to a message.  Reading ahead only moves     *)
(* bytes from frames into a buffer, so the bytes of a body are those of    *)
(* its frames, read and unread (FlattenSeq, by induction over lengths);    *)
(* a modifier keeps them unless a script may replace them.  The payloads   *)
(* the manager makes of a configuration answer a url when, and as, the     *)
(* first url rule of the configuration does (Corr).                        *)
(*                                                                         *)
(* Then the handlers.  While a request is in service, what is pending      *)
(* under its tag is the request as the modifier let it through, and so it  *)
(* stays until the response pairs with it (InService).  The records are    *)
(* exchanges that were answered, no two of one, and none is missing        *)
(* (StoreInv).                                                             *)
(***************************************************************************)
EXTENDS Intercept, WellFoundedInduction, SequenceTheorems, TLAPS

-------------------------------------------------------------------------------
(* FlattenSeq, by induction over the length of its argument.                 *)

LEMMA ConcatInThree ==
  ASSUME NEW A, NEW x \in Seq(A), NEW y \in Seq(A), NEW z \in Seq(A)
  PROVE  (x \o y) \o z = x \o (y \o z)
  BY ConcatAssociative, Z3

LEMMA NatSetInduction ==
  ASSUME NEW S, 0 \in S, \A n \in Nat : n \in S => n + 1 \in S PROVE Nat \subseteq S
<1> SUFFICES ASSUME Nat \ S # {} PROVE FALSE
  OBVIOUS
<1>1. PICK x \in Nat \ S : \A y \in Nat \ S : <<y, x>> \notin OpToRel(<, Nat)
  BY NatLessThanWellFounded, WFMin
<1>2. \A y \in Nat \ S : ~(y < x)
  BY <1>1 DEF OpToRel
<1>3. x # 0 /\ x - 1 \in Nat /\ x - 1 < x
  OBVIOUS
<1>4. x - 1 \in S
  BY <1>2, <1>3
<1> QED
  BY <1>3, <1>4

IsFlat(f, q, n) == f = [i \in 1 .. n |-> IF i = 1 THEN q[i] ELSE f[i - 1] \o q[i]]

LEMMA FlatExists == ASSUME NEW q, NEW n \in Nat PROVE \E f : IsFlat(f, q, n)
<1> DEFINE S == {m \in Nat : \E f : IsFlat(f, q, m)}
<1>1. 0 \in S
  <2>1. IsFlat([i \in 1 .. 0 |-> q[i]], q, 0)
    BY DEF IsFlat
  <2> QED
    BY <2>1
<1>2. ASSUME NEW m \in Nat, m \in S PROVE m + 1 \in S
  <2>1. PICK f : IsFlat(f, q, m)
    BY <1>2
  <2>2. PICK g : g = [i \in 1 .. m + 1 |-> IF i = m + 1
                                             THEN (IF i = 1 THEN q[i] ELSE f[m] \o q[i])
                                             ELSE f[i]]
    OBVIOUS
  <2>3. ASSUME NEW i \in 1 .. m + 1
        PROVE  g[i] = IF i = 1 THEN q[i] ELSE g[i - 1] \o q[i]
    <3>1. CASE i = m + 1 /\ i = 1
      BY <2>2, <3>1
    <3>2. CASE i = m + 1 /\ i # 1
      <4>0. g[i] = f[m] \o q[i]
        BY <2>2, <3>2
      <4>1. i - 1 = m /\ m \in 1 .. m + 1 /\ m # m + 1
        BY <3>2
      <4>2. g[m] = f[m]
        BY <2>2, <4>1
      <4> QED
        BY <3>2, <4>0, <4>1, <4>2
    <3>3. CASE i = 1 /\ i # m + 1
      <4>1. i \in 1 .. m /\ g[i] = f[i]
        BY <2>2, <3>3
      <4> QED
        BY <2>1, <3>3, <4>1 DEF IsFlat
    <3>4. CASE i # 1 /\ i # m + 1
      <4>1. i \in 1 .. m /\ i - 1 \in 1 .. m + 1 /\ i - 1 # m + 1
        BY <3>4
      <4>2. g[i] = f[i] /\ g[i - 1] = f[i - 1]
        BY <2>2, <3>4, <4>1
      <4>3. f[i] = f[i - 1] \o q[i]
        BY <2>1, <3>4, <4>1 DEF IsFlat
      <4> QED
        BY <3>4, <4>2, <4>3
    <3> QED
      BY <3>1, <3>2, <3>3, <3>4
  <2>4. g = [i \in 1 .. m + 1 |-> IF i = 1 THEN q[i] ELSE g[i - 1] \o q[i]]
    BY <2>2, <2>3
  <2>5. IsFlat(g, q, m + 1)
    BY <2>4 DEF IsFlat
  <2> QED
    BY <2>5
<1> HIDE DEF S
<1>3. n \in S
  BY <1>1, <1>2, NatSetInduction
<1> QED
  BY <1>3 DEF S

\* What FlattenSeq makes of a sequence of n elements.
LEMMA FlatOf ==
  ASSUME NEW q, NEW n \in Nat, Len(q) = n, n # 0
  PROVE  \E f : IsFlat(f, q, n) /\ FlattenSeq(q) = f[n]
<1>1. PICK f : f = CHOOSE g : IsFlat(g, q, n)
  OBVIOUS
<1>2. IsFlat(f, q, n)
  BY <1>1, FlatExists
<1>3. FlattenSeq(q) = f[n]
  BY <1>1 DEF FlattenSeq, IsFlat
<1> QED
  BY <1>2, <1>3

LEMMA FlatNothing == FlattenSeq(<<>>) = <<>>
  BY DEF FlattenSeq

LEMMA FlatOne == ASSUME NEW q, Len(q) = 1 PROVE FlattenSeq(q) = q[1]
<1>1. PICK n \in Nat : n = 1 /\ Len(q) = n /\ n # 0
  OBVIOUS
<1>2. PICK f : IsFlat(f, q, n) /\ FlattenSeq(q) = f[n]
  BY <1>1, FlatOf
<1>3. f[1] = q[1]
  BY <1>1, <1>2 DEF IsFlat
<1> QED
  BY <1>1, <1>2, <1>3

\* The function is the same for two sequences as far as they agree.
Agree(p, q, m) == \A i \in 1 .. m : p[i] = q[i]

LEMMA FlatAgree ==
  ASSUME NEW p, NEW q, NEW m \in Nat, NEW n \in Nat, NEW f, NEW g, IsFlat(f, p, m), IsFlat(g, q, n),
         m <= n, Agree(p, q, m)
  PROVE  Agree(f, g, m)
<1> DEFINE S == {k \in Nat : k \in 1 .. m => f[k] = g[k]}
<1>1. 0 \in S
  OBVIOUS
<1>2. ASSUME NEW k \in Nat, k \in S PROVE k + 1 \in S
  <2> SUFFICES ASSUME k + 1 \in 1 .. m PROVE f[k + 1] = g[k + 1]
    OBVIOUS
  <2>1. CASE k = 0
    BY <2>1 DEF IsFlat, Agree
  <2>2. CASE k # 0
    <3>1. k \in 1 .. m /\ (k + 1) - 1 = k /\ k + 1 # 1 /\ k + 1 \in 1 .. n
      BY <2>2
    <3>2. f[k] = g[k] /\ p[k + 1] = q[k + 1]
      BY <1>2, <3>1 DEF Agree
    <3>3. f[k + 1] = f[(k + 1) - 1] \o p[k + 1]
      BY <3>1 DEF IsFlat
    <3>4. g[k + 1] = g[(k + 1) - 1] \o q[k + 1]
      BY <3>1 DEF IsFlat
    <3> QED
      BY <3>1, <3>2, <3>3, <3>4
  <2> QED
    BY <2>1, <2>2
<1> HIDE DEF S
<1>3. Nat \subseteq S
  BY <1>1, <1>2, NatSetInduction
<1> QED
  BY <1>3 DEF S, Agree

LEMMA FlatAppend ==
  ASSUME NEW A, NEW q \in Seq(Seq(A)), NEW x \in Seq(A)
  PROVE  FlattenSeq(Append(q, x)) = FlattenSeq(q) \o x
<1>0. Len(q) \in Nat /\ Append(q, x) \in Seq(Seq(A))
  OBVIOUS
<1>1. PICK n \in Nat, r \in Seq(Seq(A)) : n = Len(q) /\ r = Append(q, x)
  BY <1>0
<1>2. Len(r) = n + 1 /\ r[n + 1] = x /\ \A i \in 1 .. n : r[i] = q[i]
  BY <1>1
<1>3. CASE n = 0
  <2>1. q = <<>>
    BY <1>1, <1>3, EmptySeq
  <2>2. FlattenSeq(r) = x
    BY <1>2, <1>3, FlatOne
  <2> QED
    BY <1>1, <2>1, <2>2, FlatNothing
<1>4. CASE n # 0
  <2>1. PICK f : IsFlat(f, q, n) /\ FlattenSeq(q) = f[n]
    BY <1>1, <1>4, FlatOf
  <2>0. PICK k \in Nat : k = n + 1 /\ n <= k /\ k # 0
    OBVIOUS
  <2>2. PICK g : IsFlat(g, r, k) /\ FlattenSeq(r) = g[k]
    BY <1>2, <2>0, FlatOf
  <2>3. Agree(q, r, n)
    BY <1>2 DEF Agree
  <2>9. Agree(f, g, n)
    BY <2>0, <2>1, <2>2, <2>3, FlatAgree
  <2>4. f[n] = g[n]
    BY <1>4, <2>9 DEF Agree
  <2>5. n + 1 \in 1 .. n + 1 /\ n + 1 # 1 /\ (n + 1) - 1 = n
    BY <1>4
  <2>6. g[n + 1] = g[(n + 1) - 1] \o r[n + 1]
    BY <2>0, <2>2, <2>5 DEF IsFlat
  <2> QED
    BY <1>1, <1>2, <2>0, <2>1, <2>2, <2>4, <2>5, <2>6
<1> QED
  BY <1>3, <1>4

LEMMA FlatType == ASSUME NEW A, NEW q \in Seq(Seq(A)) PROVE FlattenSeq(q) \in Seq(A)
<1> DEFINE S == {k \in Nat : \A p \in Seq(Seq(A)) : Len(p) = k => FlattenSeq(p) \in Seq(A)}
<1>1. 0 \in S
  <2>1. \A p \in Seq(Seq(A)) : Len(p) = 0 => p = <<>>
    OBVIOUS
  <2> QED
    BY <2>1, FlatNothing
<1>2. ASSUME NEW k \in Nat, k \in S PROVE k + 1 \in S
  <2> SUFFICES ASSUME NEW p \in Seq(Seq(A)), Len(p) = k + 1 PROVE FlattenSeq(p) \in Seq(A)
    OBVIOUS
  <2>1. PICK r, x : r = SubSeq(p, 1, k) /\ x = p[k + 1]
    OBVIOUS
  <2>2. r \in Seq(Seq(A)) /\ Len(r) = k /\ x \in Seq(A) /\ p = Append(r, x)
    BY <2>1
  <2>3. FlattenSeq(r) \in Seq(A)
    BY <1>2, <2>2
  <2>4. FlattenSeq(p) = FlattenSeq(r) \o x
    BY <2>2, FlatAppend
  <2> QED
    BY <2>2, <2>3, <2>4
<1> HIDE DEF S
<1>3. Nat \subseteq S
  BY <1>1, <1>2, NatSetInduction
<1> QED
  BY <1>3 DEF S

LEMMA FlatConcat ==
  ASSUME NEW A, NEW p \in Seq(Seq(A)), NEW q \in Seq(Seq(A))
  PROVE  FlattenSeq(p \o q) = FlattenSeq(p) \o FlattenSeq(q)
<1> DEFINE S == {k \in Nat : \A r \in Seq(Seq(A)) :
                   Len(r) = k => FlattenSeq(p \o r) = FlattenSeq(p) \o FlattenSeq(r)}
<1>1. 0 \in S
  <2>1. \A r \in Seq(Seq(A)) : Len(r) = 0 => r = <<>>
    OBVIOUS
  <2>2. p \o <<>> = p /\ FlattenSeq(p) \o <<>> = FlattenSeq(p)
    BY FlatType
  <2> QED
    BY <2>1, <2>2, FlatNothing
<1>2. ASSUME NEW k \in Nat, k \in S PROVE k + 1 \in S
  <2> SUFFICES ASSUME NEW t \in Seq(Seq(A)), Len(t) = k + 1
               PROVE  FlattenSeq(p \o t) = FlattenSeq(p) \o FlattenSeq(t)
    OBVIOUS
  <2>1. PICK r, x : r = SubSeq(t, 1, k) /\ x = t[k + 1]
    OBVIOUS
  <2>2. r \in Seq(Seq(A)) /\ Len(r) = k /\ x \in Seq(A) /\ t = Append(r, x)
    BY <2>1
  <2>3. FlattenSeq(p \o r) = FlattenSeq(p) \o FlattenSeq(r)
    BY <1>2, <2>2
  <2>4. FlattenSeq(t) = FlattenSeq(r) \o x
    BY <2>2, FlatAppend
  <2>5. p \o t = Append(p \o r, x) /\ p \o r \in Seq(Seq(A))
    BY <2>2
  <2>6. FlattenSeq(p \o t) = FlattenSeq(p \o r) \o x
    BY <2>2, <2>5, FlatAppend
  <2>7. FlattenSeq(p) \in Seq(A) /\ FlattenSeq(r) \in Seq(A)
    BY <2>2, FlatType
  <2>8. PICK a \in Seq(A), b \in Seq(A) : a = FlattenSeq(p) /\ b = FlattenSeq(r)
    BY <2>7
  <2>9. x \in Seq(A)
    BY <2>2
  <2>10. (a \o b) \o x = a \o (b \o x)
    BY <2>9, ConcatInThree, SMTT(30)
  <2> QED
    BY <2>3, <2>4, <2>6, <2>8, <2>10
<1> HIDE DEF S
<1>3. Nat \subseteq S
  BY <1>1, <1>2, NatSetInduction
<1>4. Len(q) \in Nat
  OBVIOUS
<1> QED
  BY <1>3, <1>4 DEF S

-------------------------------------------------------------------------------
(* Bodies.                                                                   *)

Chunk(x) == IF IsData(x) THEN x.bytes ELSE <<>>
ChunksOf(q) == [i \in DOMAIN q |-> Chunk(q[i])]
FramesIn(R, A) == \A x \in R : IsData(x) => x.bytes \in Seq(A)

LEMMA BytesAreChunks == ASSUME NEW q PROVE Bytes(q) = FlattenSeq(ChunksOf(q))
  BY DEF Bytes, ChunksOf, Chunk

LEMMA ChunksType ==
  ASSUME NEW R, NEW A, FramesIn(R, A), NEW q \in Seq(R)
  PROVE  ChunksOf(q) \in Seq(Seq(A)) /\ Len(ChunksOf(q)) = Len(q)
<1>1. \A x \in R : Chunk(x) \in Seq(A)
  BY DEF FramesIn, Chunk
<1>2. DOMAIN q = 1 .. Len(q) /\ Len(q) \in Nat /\ \A i \in 1 .. Len(q) : q[i] \in R
  OBVIOUS
<1>3. PICK n \in Nat : n = Len(q)
  BY <1>2
<1>4. ChunksOf(q) = [i \in 1 .. n |-> Chunk(q[i])]
  BY <1>2, <1>3 DEF ChunksOf
<1> QED
  BY <1>1, <1>2, <1>3, <1>4

LEMMA BytesType ==
  ASSUME NEW R, NEW A, FramesIn(R, A), NEW q \in Seq(R) PROVE Bytes(q) \in Seq(A)
  BY ChunksType, FlatType, BytesAreChunks

LEMMA BytesConcat ==
  ASSUME NEW R, NEW A, FramesIn(R, A), NEW p \in Seq(R), NEW q \in Seq(R)
  PROVE  Bytes(p \o q) = Bytes(p) \o Bytes(q)
<1>1. PICK a, b, c : a = ChunksOf(p) /\ b = ChunksOf(q) /\ c = ChunksOf(p \o q)
  OBVIOUS
<1>2. /\ a \in Seq(Seq(A)) /\ Len(a) = Len(p) /\ b \in Seq(Seq(A)) /\ Len(b) = Len(q)
  BY <1>1, ChunksType
<1>3. p \o q \in Seq(R) /\ Len(p \o q) = Len(p) + Len(q)
  BY ConcatProperties
<1>4. c \in Seq(Seq(A)) /\ Len(c) = Len(p) + Len(q)
  BY <1>1, <1>3, ChunksType
<1>5. PICK m \in Nat, n \in Nat : m = Len(p) /\ n = Len(q)
  OBVIOUS
<1>6. ASSUME NEW i \in 1 .. m + n PROVE c[i] = (a \o b)[i]
  <2>1. c[i] = Chunk((p \o q)[i])
    BY <1>1, <1>3, <1>5 DEF ChunksOf
  <2>2. CASE i <= m
    <3>1. (p \o q)[i] = p[i] /\ (a \o b)[i] = a[i] /\ i \in 1 .. m
      BY <1>2, <1>5, <2>2
    <3>2. a[i] = Chunk(p[i])
      BY <1>1, <1>5, <3>1 DEF ChunksOf
    <3> QED
      BY <2>1, <3>1, <3>2
  <2>3. CASE i > m
    <3>1. (p \o q)[i] = q[i - m] /\ (a \o b)[i] = b[i - m] /\ i - m \in 1 .. n
      BY <1>2, <1>5, <2>3
    <3>2. b[i - m] = Chunk(q[i - m])
      BY <1>1, <1>5, <3>1 DEF ChunksOf
    <3> QED
      BY <2>1, <3>1, <3>2
  <2>4. i <= m \/ i > m
    OBVIOUS
  <2> QED
    BY <2>2, <2>3, <2>4
<1>7. c = a \o b
  <2>0. a \o b \in Seq(Seq(A)) /\ Len(a \o b) = Len(a) + Len(b)
    BY <1>2, ConcatProperties
  <2>1. a \o b \in Seq(Seq(A)) /\ Len(a \o b) = m + n
    BY <1>2, <1>5, <2>0
  <2> QED
    BY <1>4, <1>5, <1>6, <2>1, SeqEqual
<1>8. FlattenSeq(c) = FlattenSeq(a) \o FlattenSeq(b)
  BY <1>2, <1>7, FlatConcat
<1> QED
  BY <1>1, <1>8, BytesAreChunks

LEMMA BytesOne == ASSUME NEW b PROVE Bytes(<<Data(b)>>) = b
<1>1. PICK q : q = ChunksOf(<<Data(b)>>)
  OBVIOUS
<1>2. Chunk(Data(b)) = b
  BY DEF Chunk, IsData, Data
<1>3. Len(q) = 1 /\ q[1] = b
  BY <1>1, <1>2 DEF ChunksOf
<1> QED
  BY <1>1, <1>3, FlatOne, BytesAreChunks

LEMMA BytesNothing == Bytes(<<>>) = <<>>
<1>1. ChunksOf(<<>>) = <<>>
  BY DEF ChunksOf
<1> QED
  BY <1>1, FlatNothing, BytesAreChunks

\* What was read, followed by the rest.
LEMMA BytesPartial ==
  ASSUME NEW R, NEW A, FramesIn(R, A), NEW b \in Seq(A), NEW r \in Seq(R)
  PROVE  Bytes(<<Data(b)>> \o r) = b \o Bytes(r)
<1>1. PICK S : S = R \cup {Data(b)}
  OBVIOUS
<1>2. FramesIn(S, A)
  BY <1>1 DEF FramesIn, Data
<1>3. <<Data(b)>> \in Seq(S) /\ r \in Seq(S)
  BY <1>1
<1>4. Bytes(<<Data(b)>> \o r) = Bytes(<<Data(b)>>) \o Bytes(r)
  BY <1>2, <1>3, BytesConcat
<1> QED
  BY <1>4, BytesOne

LEMMA WithinLimit ==
  ASSUME NEW k \in Nat PROVE (~(k > SizeLimit) => k <= SizeLimit) /\ 0 <= SizeLimit
  BY ModAssumption

LEMMA OverLimit ==
  ASSUME NEW k \in Nat, NEW l \in Nat, k > SizeLimit PROVE k + l > SizeLimit
  BY ModAssumption

\* The number of frames read: all, or as many as exceed the limit.
Over(q) == {n \in DOMAIN q : Len(Bytes(SubSeq(q, 1, n))) > SizeLimit}
Stop(q) == IF Over(q) = {} THEN Len(q) ELSE CHOOSE n \in Over(q) : \A k \in Over(q) : n <= k

LEMMA StopFacts ==
  ASSUME NEW R, NEW q \in Seq(R)
  PROVE  /\ Stop(q) \in 0 .. Len(q)
         /\ Over(q) # {} => Stop(q) \in Over(q)
         /\ \A n \in Over(q) : Stop(q) <= n
<1>1. CASE Over(q) = {}
  BY <1>1 DEF Stop
<1>2. CASE Over(q) # {}
  <2>1. Over(q) \subseteq 1 .. Len(q) /\ Over(q) \subseteq Nat
    BY DEF Over
  <2>2. PICK x \in Over(q) : \A y \in Over(q) : <<y, x>> \notin OpToRel(<, Nat)
    BY <1>2, <2>1, NatLessThanWellFounded, WFMin
  <2>3. \A y \in Over(q) : ~(y < x)
    BY <2>1, <2>2 DEF OpToRel
  <2>4. \A y \in Over(q) : x <= y
    BY <2>1, <2>3
  <2>5. Stop(q) \in Over(q) /\ \A k \in Over(q) : Stop(q) <= k
    BY <1>2, <2>4 DEF Stop
  <2> QED
    BY <2>1, <2>5
<1> QED
  BY <1>1, <1>2

IsRead(d) == DOMAIN d = {"st", "bytes", "rest"}

\* read_at_most loses nothing of the body, reads more than the limit when it
\* stops early, and stops early when the body is over the limit.
LEMMA ReadFacts ==
  ASSUME NEW R, NEW A, FramesIn(R, A), NEW q \in Seq(R), NEW d, d = ReadAtMost(q), d.st # "error"
  PROVE  /\ IsRead(d) /\ d.st \in {"full", "partial"}
         /\ d.st = "partial" => /\ d.bytes \in Seq(A) /\ Len(d.bytes) > SizeLimit
                                /\ d.rest \in Seq(R) /\ Bytes(q) = d.bytes \o Bytes(d.rest)
         /\ d.st = "full" => d.bytes = Bytes(q) /\ Len(Bytes(q)) <= SizeLimit
<1>1. PICK n \in 0 .. Len(q) : n = Stop(q)
  BY StopFacts
<1>2. d = IF \E i \in 1 .. n : ~IsData(q[i]) THEN [st |-> "error"]
          ELSE [st    |-> IF Over(q) = {} THEN "full" ELSE "partial",
                bytes |-> Bytes(SubSeq(q, 1, n)),
                rest  |-> SubSeq(q, n + 1, Len(q))]
  BY <1>1 DEF ReadAtMost, Stop, Over
<1>3. d = [st    |-> IF Over(q) = {} THEN "full" ELSE "partial",
           bytes |-> Bytes(SubSeq(q, 1, n)),
           rest  |-> SubSeq(q, n + 1, Len(q))]
  BY <1>2
<1>4. IsRead(d) /\ d.st = (IF Over(q) = {} THEN "full" ELSE "partial")
      /\ d.bytes = Bytes(SubSeq(q, 1, n)) /\ d.rest = SubSeq(q, n + 1, Len(q))
  BY <1>3 DEF IsRead
<1>5. PICK a, b : a = SubSeq(q, 1, n) /\ b = SubSeq(q, n + 1, Len(q))
  OBVIOUS
<1>6. a \in Seq(R) /\ b \in Seq(R)
  BY <1>5
<1>7. a \o b = q
  <2>1. 1 \in 1 .. Len(q) + 1 /\ n \in 1 - 1 .. Len(q) /\ Len(q) \in n .. Len(q)
    OBVIOUS
  <2>2. a \o b = SubSeq(q, 1, Len(q))
    BY <1>5, <2>1, ConcatAdjacentSubSeq
  <2> QED
    BY <2>2
<1>8. Bytes(q) = Bytes(a) \o Bytes(b) /\ Bytes(a) \in Seq(A)
  BY <1>6, <1>7, BytesConcat, BytesType
<1>9. ASSUME Over(q) # {} PROVE Len(d.bytes) > SizeLimit
  <2>1. n \in Over(q)
    BY <1>1, <1>9, StopFacts
  <2> QED
    BY <1>4, <2>1 DEF Over
<1>10. ASSUME Over(q) = {} PROVE d.bytes = Bytes(q) /\ Len(Bytes(q)) <= SizeLimit
  <2>1. n = Len(q)
    BY <1>1, <1>10 DEF Stop
  <2>2. SubSeq(q, 1, Len(q)) = q
    OBVIOUS
  <2>3. Len(Bytes(q)) \in Nat
    BY BytesType
  <2>4. CASE q = <<>>
    <3>1. Bytes(q) = <<>> /\ Len(<<>>) = 0
      BY <2>4, BytesNothing, EmptySeq
    <3>2. Len(Bytes(q)) = 0
      BY <3>1
    <3> QED
      BY <1>4, <1>5, <2>1, <2>2, <3>2, WithinLimit
  <2>5. CASE q # <<>>
    <3>1. Len(q) \in DOMAIN q
      BY <2>5, EmptySeq
    <3>2. ~(Len(Bytes(q)) > SizeLimit)
      BY <1>10, <2>2, <3>1 DEF Over
    <3> QED
      BY <1>4, <2>1, <2>2, <2>3, <3>2, WithinLimit
  <2> QED
    BY <2>4, <2>5
<1> QED
  BY <1>4, <1>5, <1>6, <1>8, <1>9, <1>10

\* A body that is in hand: read in full, read in part, or not read.
DataOK(d, R, A) ==
  /\ IsRead(d) /\ d.st \in {"full", "partial", "not_read"}
  /\ d.st = "partial" => d.bytes \in Seq(A) /\ Len(d.bytes) > SizeLimit /\ d.rest \in Seq(R)

\* What is recorded of a body is what goes on (to_captured_body, into_body).
LEMMA CapturedAsSent ==
  ASSUME NEW R, NEW A, FramesIn(R, A), NEW d, DataOK(d, R, A)
  PROVE  CapturedRight(CapturedBody(d), IntoBody(d))
<1>1. CASE d.st = "full"
  <2>1. IntoBody(d) = <<Data(d.bytes)>> /\ CapturedBody(d) = [cap |-> "full", bytes |-> d.bytes]
    BY <1>1 DEF IntoBody, CapturedBody
  <2>2. Bytes(IntoBody(d)) = d.bytes
    BY <2>1, BytesOne
  <2> QED
    BY <2>1, <2>2 DEF CapturedRight
<1>2. CASE d.st = "partial"
  <2>1. IntoBody(d) = <<Data(d.bytes)>> \o d.rest /\ CapturedBody(d).cap = "exceeded"
    BY <1>2 DEF IntoBody, PartialRead, CapturedBody
  <2>2. PICK b \in Seq(A), r \in Seq(R) : b = d.bytes /\ r = d.rest /\ Len(b) > SizeLimit
    BY <1>2 DEF DataOK
  <2>3. Bytes(IntoBody(d)) = b \o Bytes(r) /\ Bytes(r) \in Seq(A)
    BY <2>1, <2>2, BytesPartial, BytesType
  <2>4. Len(Bytes(IntoBody(d))) = Len(b) + Len(Bytes(r)) /\ Len(Bytes(r)) \in Nat
    BY <2>3
  <2>5. PICK k \in Nat, l \in Nat : k = Len(b) /\ l = Len(Bytes(r)) /\ k > SizeLimit
    BY <2>2, <2>4
  <2>6. k + l > SizeLimit
    BY <2>5, OverLimit
  <2>7. Len(Bytes(IntoBody(d))) > SizeLimit
    BY <2>4, <2>5, <2>6
  <2> QED
    BY <2>1, <2>7 DEF CapturedRight
<1>3. CASE d.st = "not_read"
  <2>1. CapturedBody(d).cap = "none"
    BY <1>3 DEF CapturedBody
  <2> QED
    BY <2>1 DEF CapturedRight
<1> QED
  BY <1>1, <1>2, <1>3 DEF DataOK

-------------------------------------------------------------------------------
(* The steps of the payloads.                                                *)

\* A message, and what a step may make of its body: only a script changes it,
\* and only one that was read in full.
IsMsg(m) == DOMAIN m = {"status", "headers", "data"} /\ IsRead(m.data)
KeepsBody(m, u, scripted) ==
  /\ IsMsg(u) /\ u.data.st = m.data.st
  /\ m.data.st # "full" \/ ~scripted => u.data = m.data
Scripted(payloads, scripted) ==
  \A i \in 1 .. Len(payloads) : payloads[i].kind = "script" => scripted

LEMMA ScriptKeeps ==
  ASSUME NEW e, NEW kind, NEW url, NEW m, IsMsg(m)
  PROVE  KeepsBody(m, TryRewriteScript(e, kind, url, m), TRUE)
<1>1. PICK r : r = RunJs(e, url, IF m.data.st = "full" THEN Some(m.data.bytes) ELSE None, m.status,
                         m.headers)
  OBVIOUS
<1>2. PICK u : u = TryRewriteScript(e, kind, url, m)
  OBVIOUS
<1>3. CASE u = m
  BY <1>2, <1>3 DEF KeepsBody
<1>4. CASE u # m
  <2>1. PICK s, h, d : /\ u = [status |-> s, headers |-> h, data |-> d]
                       /\ d = IF m.data.st = "full" /\ r.val.body.some
                              THEN [m.data EXCEPT !.bytes = r.val.body.val] ELSE m.data
    BY <1>1, <1>2, <1>4 DEF TryRewriteScript
  <2>2. IsRead(d) /\ d.st = m.data.st /\ (m.data.st # "full" => d = m.data)
    BY <2>1 DEF IsMsg, IsRead
  <2> QED
    BY <1>2, <2>1, <2>2 DEF KeepsBody, IsMsg
<1> QED
  BY <1>3, <1>4

LEMMA HeaderKeeps ==
  ASSUME NEW m, IsMsg(m), NEW h, NEW scripted PROVE KeepsBody(m, [m EXCEPT !.headers = h], scripted)
  BY DEF KeepsBody, IsMsg

LEMMA StepKeeps ==
  ASSUME NEW e, NEW m, IsMsg(m), NEW scripted \in BOOLEAN, e.kind = "script" => scripted
  PROVE  /\ \A url : KeepsBody(m, RequestStep(e, url, m), scripted)
         /\ \A url, req : KeepsBody(m, ResponseStep(e, req, url, m), scripted)
<1>1. KeepsBody(m, m, scripted)
  BY DEF KeepsBody
<1>2. CASE e.kind = "script"
  <2>1. ASSUME NEW url PROVE KeepsBody(m, RequestStep(e, url, m), scripted)
    <3>1. RequestStep(e, url, m) = TryRewriteScript(e, "req", url, m)
      BY <1>2 DEF RequestStep
    <3> QED
      BY <1>2, <3>1, ScriptKeeps DEF KeepsBody
  <2>2. ASSUME NEW url, NEW req PROVE KeepsBody(m, ResponseStep(e, req, url, m), scripted)
    <3>1. ResponseStep(e, req, url, m) \in {TryRewriteScript(e, "resp", url.val, m), m}
      BY <1>2 DEF ResponseStep
    <3> QED
      BY <1>1, <1>2, <3>1, ScriptKeeps DEF KeepsBody
  <2> QED
    BY <2>1, <2>2
<1>3. CASE e.kind # "script"
  <2>1. ASSUME NEW url PROVE KeepsBody(m, RequestStep(e, url, m), scripted)
    <3>1. PICK h : RequestStep(e, url, m) \in {[m EXCEPT !.headers = h], m}
      BY <1>3 DEF RequestStep
    <3> QED
      BY <1>1, <3>1, HeaderKeeps
  <2>2. ASSUME NEW url, NEW req PROVE KeepsBody(m, ResponseStep(e, req, url, m), scripted)
    <3>1. PICK h : ResponseStep(e, req, url, m) \in {[m EXCEPT !.headers = h], m}
      BY <1>3 DEF ResponseStep
    <3> QED
      BY <1>1, <3>1, HeaderKeeps
  <2> QED
    BY <2>1, <2>2
<1> QED
  BY <1>2, <1>3

LEMMA KeepsTransitive ==
  ASSUME NEW m, NEW u, NEW v, NEW scripted \in BOOLEAN, KeepsBody(m, u, scripted), KeepsBody(u, v, scripted)
  PROVE  KeepsBody(m, v, scripted)
  BY DEF KeepsBody

\* The function of the messages after each payload exists.
IsReqSteps(f, ps, url, m, n) ==
  f = [i \in 0 .. n |-> IF i = 0 THEN m ELSE RequestStep(ps[i], url, f[i - 1])]
IsRespSteps(f, ps, req, url, m, n) ==
  f = [i \in 0 .. n |-> IF i = 0 THEN m ELSE ResponseStep(ps[i], req, url, f[i - 1])]

LEMMA ReqStepsExist ==
  ASSUME NEW ps, NEW url, NEW m, NEW n \in Nat PROVE \E f : IsReqSteps(f, ps, url, m, n)
<1> DEFINE S == {k \in Nat : \E f : IsReqSteps(f, ps, url, m, k)}
<1>1. 0 \in S
  <2>1. IsReqSteps([i \in 0 .. 0 |-> m], ps, url, m, 0)
    BY DEF IsReqSteps
  <2> QED
    BY <2>1
<1>2. ASSUME NEW k \in Nat, k \in S PROVE k + 1 \in S
  <2>1. PICK f : IsReqSteps(f, ps, url, m, k)
    BY <1>2
  <2>2. PICK g : g = [i \in 0 .. k + 1 |-> IF i = k + 1 THEN RequestStep(ps[i], url, f[k]) ELSE f[i]]
    OBVIOUS
  <2>3. ASSUME NEW i \in 0 .. k + 1
        PROVE  g[i] = IF i = 0 THEN m ELSE RequestStep(ps[i], url, g[i - 1])
    <3>1. CASE i = k + 1
      <4>1. g[i] = RequestStep(ps[i], url, f[k]) /\ i # 0 /\ i - 1 = k /\ g[k] = f[k]
        BY <2>2, <3>1
      <4> QED
        BY <4>1
    <3>2. CASE i = 0
      BY <2>1, <2>2, <3>2 DEF IsReqSteps
    <3>3. CASE i \in 1 .. k
      <4>1. g[i] = f[i] /\ g[i - 1] = f[i - 1] /\ i \in 0 .. k /\ i # 0
        BY <2>2, <3>3
      <4>2. f[i] = RequestStep(ps[i], url, f[i - 1])
        BY <2>1, <4>1 DEF IsReqSteps
      <4> QED
        BY <4>1, <4>2
    <3> QED
      BY <3>1, <3>2, <3>3
  <2>4. g = [i \in 0 .. k + 1 |-> IF i = 0 THEN m ELSE RequestStep(ps[i], url, g[i - 1])]
    BY <2>2, <2>3
  <2>5. IsReqSteps(g, ps, url, m, k + 1)
    BY <2>4 DEF IsReqSteps
  <2> QED
    BY <2>5
<1> HIDE DEF S
<1>3. n \in S
  BY <1>1, <1>2, NatSetInduction
<1> QED
  BY <1>3 DEF S

LEMMA RespStepsExist ==
  ASSUME NEW ps, NEW req, NEW url, NEW m, NEW n \in Nat PROVE \E f : IsRespSteps(f, ps, req, url, m, n)
<1> DEFINE S == {k \in Nat : \E f : IsRespSteps(f, ps, req, url, m, k)}
<1>1. 0 \in S
  <2>1. IsRespSteps([i \in 0 .. 0 |-> m], ps, req, url, m, 0)
    BY DEF IsRespSteps
  <2> QED
    BY <2>1
<1>2. ASSUME NEW k \in Nat, k \in S PROVE k + 1 \in S
  <2>1. PICK f : IsRespSteps(f, ps, req, url, m, k)
    BY <1>2
  <2>2. PICK g : g = [i \in 0 .. k + 1 |-> IF i = k + 1 THEN ResponseStep(ps[i], req, url, f[k]) ELSE f[i]]
    OBVIOUS
  <2>3. ASSUME NEW i \in 0 .. k + 1
        PROVE  g[i] = IF i = 0 THEN m ELSE ResponseStep(ps[i], req, url, g[i - 1])
    <3>1. CASE i = k + 1
      <4>1. g[i] = ResponseStep(ps[i], req, url, f[k]) /\ i # 0 /\ i - 1 = k /\ g[k] = f[k]
        BY <2>2, <3>1
      <4> QED
        BY <4>1
    <3>2. CASE i = 0
      BY <2>1, <2>2, <3>2 DEF IsRespSteps
    <3>3. CASE i \in 1 .. k
      <4>1. g[i] = f[i] /\ g[i - 1] = f[i - 1] /\ i \in 0 .. k /\ i # 0
        BY <2>2, <3>3
      <4>2. f[i] = ResponseStep(ps[i], req, url, f[i - 1])
        BY <2>1, <4>1 DEF IsRespSteps
      <4> QED
        BY <4>1, <4>2
    <3> QED
      BY <3>1, <3>2, <3>3
  <2>4. g = [i \in 0 .. k + 1 |-> IF i = 0 THEN m ELSE ResponseStep(ps[i], req, url, g[i - 1])]
    BY <2>2, <2>3
  <2>5. IsRespSteps(g, ps, req, url, m, k + 1)
    BY <2>4 DEF IsRespSteps
  <2> QED
    BY <2>5
<1> HIDE DEF S
<1>3. n \in S
  BY <1>1, <1>2, NatSetInduction
<1> QED
  BY <1>3 DEF S

LEMMA RequestStepsKeep ==
  ASSUME NEW ps, NEW n \in Nat, Len(ps) = n, NEW url, NEW m, IsMsg(m),
         NEW scripted \in BOOLEAN, Scripted(ps, scripted)
  PROVE  KeepsBody(m, RequestSteps(ps, url, m), scripted)
<1>1. PICK f : f = CHOOSE g : IsReqSteps(g, ps, url, m, n)
  OBVIOUS
<1>2. IsReqSteps(f, ps, url, m, n)
  BY <1>1, ReqStepsExist
<1>3. RequestSteps(ps, url, m) = f[n]
  BY <1>1 DEF RequestSteps, IsReqSteps
<1> DEFINE S == {k \in Nat : k <= n => KeepsBody(m, f[k], scripted)}
<1>4. 0 \in S
  BY <1>2 DEF IsReqSteps, KeepsBody
<1>5. ASSUME NEW k \in Nat, k \in S PROVE k + 1 \in S
  <2> SUFFICES ASSUME k + 1 <= n PROVE KeepsBody(m, f[k + 1], scripted)
    OBVIOUS
  <2>1. PICK i \in 1 .. n : i = k + 1 /\ i - 1 = k /\ i \in 0 .. n /\ i # 0 /\ k <= n
    OBVIOUS
  <2>2. f[i] = RequestStep(ps[i], url, f[i - 1])
    BY <1>2, <2>1 DEF IsReqSteps
  <2>3. KeepsBody(m, f[k], scripted) /\ IsMsg(f[k])
    BY <1>5, <2>1 DEF KeepsBody
  <2>4. KeepsBody(f[k], f[i], scripted)
    BY <2>1, <2>2, <2>3, StepKeeps DEF Scripted
  <2> QED
    BY <2>1, <2>3, <2>4, KeepsTransitive
<1> HIDE DEF S
<1>6. n \in S
  BY <1>4, <1>5, NatSetInduction
<1> QED
  BY <1>3, <1>6 DEF S

LEMMA ResponseStepsKeep ==
  ASSUME NEW ps, NEW n \in Nat, Len(ps) = n, NEW req, NEW url, NEW m, IsMsg(m),
         NEW scripted \in BOOLEAN, Scripted(ps, scripted)
  PROVE  KeepsBody(m, ResponseSteps(ps, req, url, m), scripted)
<1>1. PICK f : f = CHOOSE g : IsRespSteps(g, ps, req, url, m, n)
  OBVIOUS
<1>2. IsRespSteps(f, ps, req, url, m, n)
  BY <1>1, RespStepsExist
<1>3. ResponseSteps(ps, req, url, m) = f[n]
  BY <1>1 DEF ResponseSteps, IsRespSteps
<1> DEFINE S == {k \in Nat : k <= n => KeepsBody(m, f[k], scripted)}
<1>4. 0 \in S
  BY <1>2 DEF IsRespSteps, KeepsBody
<1>5. ASSUME NEW k \in Nat, k \in S PROVE k + 1 \in S
  <2> SUFFICES ASSUME k + 1 <= n PROVE KeepsBody(m, f[k + 1], scripted)
    OBVIOUS
  <2>1. PICK i \in 1 .. n : i = k + 1 /\ i - 1 = k /\ i \in 0 .. n /\ i # 0 /\ k <= n
    OBVIOUS
  <2>2. f[i] = ResponseStep(ps[i], req, url, f[i - 1])
    BY <1>2, <2>1 DEF IsRespSteps
  <2>3. KeepsBody(m, f[k], scripted) /\ IsMsg(f[k])
    BY <1>5, <2>1 DEF KeepsBody
  <2>4. KeepsBody(f[k], f[i], scripted)
    BY <2>1, <2>2, <2>3, StepKeeps DEF Scripted
  <2> QED
    BY <2>1, <2>3, <2>4, KeepsTransitive
<1> HIDE DEF S
<1>6. n \in S
  BY <1>4, <1>5, NatSetInduction
<1> QED
  BY <1>3, <1>6 DEF S

-------------------------------------------------------------------------------
(* Lists: sequences over whatever is in them.                                *)

LEMMA ListIn == ASSUME NEW A, NEW s \in Seq(A) PROVE IsList(s)
<1>1. \A i \in 1 .. Len(s) : s[i] \in Range(s)
  BY DEF Range
<1>2. Len(s) \in Nat /\ s = [i \in 1 .. Len(s) |-> s[i]]
  OBVIOUS
<1> QED
  BY <1>1, <1>2 DEF IsList

LEMMA ListWithin == ASSUME NEW A, NEW s, IsList(s), Range(s) \subseteq A PROVE s \in Seq(A)
<1>1. s \in Seq(Range(s))
  BY DEF IsList
<1>2. PICK R : R = Range(s)
  OBVIOUS
<1> QED
  BY <1>1, <1>2

LEMMA ListFacts == ASSUME NEW s, IsList(s) PROVE Len(s) \in Nat /\ DOMAIN s = 1 .. Len(s)
<1>1. PICK R : s \in Seq(R)
  BY DEF IsList
<1> QED
  BY <1>1

LEMMA ListOf == ASSUME NEW n \in Nat, NEW s, DOMAIN s = 1 .. n, s = [i \in 1 .. n |-> s[i]]
                PROVE  IsList(s) /\ Len(s) = n
<1>1. PICK R : R = Range(s)
  OBVIOUS
<1>2. \A i \in 1 .. n : s[i] \in R
  BY <1>1 DEF Range
<1>3. s \in Seq(R) /\ Len(s) = n
  BY <1>2
<1> QED
  BY <1>1, <1>3 DEF IsList

\* A list of lists has a set that all of them are over.
LEMMA ListsTogether ==
  ASSUME NEW q, IsList(q), \A i \in DOMAIN q : IsList(q[i]) PROVE \E A : q \in Seq(Seq(A))
<1>1. PICK A : A = UNION {Range(q[i]) : i \in DOMAIN q}
  OBVIOUS
<1>2. ASSUME NEW i \in DOMAIN q PROVE q[i] \in Seq(A)
  <2>1. Range(q[i]) \subseteq A
    BY <1>1
  <2> QED
    BY <2>1, ListWithin
<1>3. PICK R : q \in Seq(R)
  BY DEF IsList
<1>4. q \in Seq(Seq(A))
  BY <1>2, <1>3
<1> QED
  BY <1>4

LEMMA FlatIsList == ASSUME NEW q, IsList(q), \A i \in DOMAIN q : IsList(q[i]) PROVE IsList(FlattenSeq(q))
  BY ListsTogether, FlatType, ListIn

Added(u, s, x) == /\ IsList(u) /\ Len(u) = Len(s) + 1 /\ u[Len(s) + 1] = x
                  /\ \A i \in 1 .. Len(s) : u[i] = s[i]

LEMMA ListAppend == ASSUME NEW s, IsList(s), NEW x PROVE Added(Append(s, x), s, x)
<1>1. PICK A : s \in Seq(A)
  BY DEF IsList
<1>2. PICK B : B = A \cup {x}
  OBVIOUS
<1>3. s \in Seq(B) /\ x \in B
  BY <1>1, <1>2
<1>4. PICK u : u = Append(s, x)
  OBVIOUS
<1>5. u \in Seq(B) /\ Len(u) = Len(s) + 1 /\ u[Len(s) + 1] = x /\ \A i \in 1 .. Len(s) : u[i] = s[i]
  BY <1>3, <1>4
<1>6. IsList(u)
  BY <1>5, ListIn
<1> QED
  BY <1>4, <1>5, <1>6 DEF Added

Replaced(u, s, k, x) == /\ IsList(u) /\ Len(u) = Len(s) /\ u[k] = x
                        /\ \A i \in 1 .. Len(s) : i # k => u[i] = s[i]

LEMMA ListExcept ==
  ASSUME NEW s, IsList(s), NEW k \in 1 .. Len(s), NEW x PROVE Replaced([s EXCEPT ![k] = x], s, k, x)
<1>0. PICK u : u = [s EXCEPT ![k] = x]
  OBVIOUS
<1>1. Len(s) \in Nat /\ DOMAIN s = 1 .. Len(s)
  BY ListFacts
<1>2. PICK n \in Nat : n = Len(s)
  BY <1>1
<1>3. DOMAIN u = 1 .. n /\ u = [i \in 1 .. n |-> u[i]] /\ u[k] = x /\ \A i \in 1 .. n : i # k => u[i] = s[i]
  BY <1>0, <1>1, <1>2
<1>4. IsList(u) /\ Len(u) = n
  BY <1>3, ListOf
<1> QED
  BY <1>0, <1>2, <1>3, <1>4 DEF Replaced

\* The frames of a message of a scene.
LEMMA FramesOfScene ==
  ASSUME NEW q, IsList(q), \A i \in DOMAIN q : IsData(q[i]) => IsList(q[i].bytes)
  PROVE  \E R, A : FramesIn(R, A) /\ q \in Seq(R)
<1>1. PICK R : R = Range(q)
  OBVIOUS
<1>2. q \in Seq(R)
  BY <1>1 DEF IsList
<1>3. PICK A : A = UNION {Range(x.bytes) : x \in R}
  OBVIOUS
<1>4. ASSUME NEW x \in R, IsData(x) PROVE x.bytes \in Seq(A)
  <2>1. IsList(x.bytes)
    BY <1>1, <1>4 DEF Range
  <2>2. Range(x.bytes) \subseteq A
    BY <1>3
  <2> QED
    BY <2>1, <2>2, ListWithin
<1>5. FramesIn(R, A)
  BY <1>4 DEF FramesIn
<1> QED
  BY <1>2, <1>5

-------------------------------------------------------------------------------
(* modify_request and modify_response.                                       *)

Framed(q) == IsList(q) /\ \A i \in DOMAIN q : IsData(q[i]) => IsList(q[i].bytes)
Rewritable(q, scripted) == scripted /\ Len(Bytes(q)) <= SizeLimit
Taken(q, read) == IF read THEN ReadAtMost(q) ELSE NotRead(q)

\* The body of a message goes on as it came unless a script may change it, and
\* what is captured of it is what goes on.
LEMMA BodyGoesOn ==
  ASSUME NEW q, Framed(q), NEW scripted \in BOOLEAN, NEW read \in BOOLEAN, scripted => read,
         NEW d, d = Taken(q, read), d.st # "error", NEW m, m.data = d, NEW u, KeepsBody(m, u, scripted)
  PROVE  /\ CapturedRight(CapturedBody(u.data), IntoBody(u.data))
         /\ ~Rewritable(q, scripted) => Bytes(IntoBody(u.data)) = Bytes(q)
<1>1. PICK R, A : FramesIn(R, A) /\ q \in Seq(R)
  BY FramesOfScene DEF Framed
<1>2. CASE read
  <2>1. d = ReadAtMost(q)
    BY <1>2 DEF Taken
  <2>2. /\ IsRead(d) /\ d.st \in {"full", "partial"}
        /\ d.st = "partial" => /\ d.bytes \in Seq(A) /\ Len(d.bytes) > SizeLimit
                               /\ d.rest \in Seq(R) /\ Bytes(q) = d.bytes \o Bytes(d.rest)
        /\ d.st = "full" => d.bytes = Bytes(q) /\ Len(Bytes(q)) <= SizeLimit
    BY <1>1, <2>1, ReadFacts
  <2>3. DataOK(u.data, R, A)
    BY <2>2 DEF DataOK, KeepsBody, IsMsg
  <2>4. CapturedRight(CapturedBody(u.data), IntoBody(u.data))
    BY <1>1, <2>3, CapturedAsSent
  <2>5. ASSUME ~Rewritable(q, scripted) PROVE Bytes(IntoBody(u.data)) = Bytes(q)
    <3>1. u.data = d
      BY <2>2, <2>5 DEF Rewritable, KeepsBody
    <3>2. CASE d.st = "full"
      <4>1. IntoBody(d) = <<Data(d.bytes)>>
        BY <3>2 DEF IntoBody
      <4> QED
        BY <2>2, <3>1, <3>2, <4>1, BytesOne
    <3>3. CASE d.st = "partial"
      <4>1. IntoBody(d) = <<Data(d.bytes)>> \o d.rest
        BY <3>3 DEF IntoBody, PartialRead
      <4>2. PICK b \in Seq(A), r \in Seq(R) : b = d.bytes /\ r = d.rest
        BY <2>2, <3>3
      <4>3. Bytes(IntoBody(d)) = b \o Bytes(r)
        BY <1>1, <4>1, <4>2, BytesPartial
      <4> QED
        BY <2>2, <3>1, <3>3, <4>2, <4>3
    <3> QED
      BY <2>2, <3>2, <3>3
  <2> QED
    BY <2>4, <2>5
<1>3. CASE ~read
  <2>1. d = [st |-> "not_read", bytes |-> <<>>, rest |-> q] /\ ~scripted
    BY <1>3 DEF Taken, NotRead
  <2>2. u.data = d
    BY <2>1 DEF KeepsBody
  <2>3. IntoBody(d) = q /\ CapturedBody(d).cap = "none"
    BY <2>1 DEF IntoBody, CapturedBody
  <2> QED
    BY <2>2, <2>3 DEF CapturedRight
<1> QED
  BY <1>2, <1>3

ResOK(res) == /\ IsList(res.payloads)
              /\ res.contains_script \in BOOLEAN /\ res.capture_request \in BOOLEAN
              /\ res.capture_response \in BOOLEAN
              /\ Scripted(res.payloads, res.contains_script)

\* The first of the rules that match.
IsFirst(i, hits) == i \in hits /\ \A j \in hits : i <= j

LEMMA FirstExists ==
  ASSUME NEW n \in Nat, NEW hits, hits \subseteq 1 .. n, hits # {},
         NEW i, i = CHOOSE k \in hits : \A j \in hits : k <= j
  PROVE  IsFirst(i, hits)
<1>1. hits \subseteq Nat
  OBVIOUS
<1>2. PICK x \in hits : \A y \in hits : <<y, x>> \notin OpToRel(<, Nat)
  BY <1>1, NatLessThanWellFounded, WFMin
<1>3. \A y \in hits : ~(y < x)
  BY <1>1, <1>2 DEF OpToRel
<1>4. \A y \in hits : x <= y
  BY <1>1, <1>3
<1> QED
  BY <1>4 DEF IsFirst

\* The payloads in front of the k-th.
LEMMA FrontFacts ==
  ASSUME NEW ps, IsList(ps), NEW k \in 1 .. Len(ps), NEW scripted, Scripted(ps, scripted),
         NEW qs, qs = SubSeq(ps, 1, k - 1)
  PROVE  Len(qs) \in Nat /\ Scripted(qs, scripted)
<1>1. PICK A : ps \in Seq(A)
  BY DEF IsList
<1>2. Len(ps) \in Nat
  BY <1>1
<1>3. PICK n \in Nat : n = k - 1 /\ n <= Len(ps)
  BY <1>2
<1>4. Len(qs) = n /\ \A i \in 1 .. n : qs[i] = ps[i] /\ i \in 1 .. Len(ps)
  BY <1>1, <1>2, <1>3
<1> QED
  BY <1>4 DEF Scripted

Hits(res, url) == IF url.some THEN UrlRuleOf(res, url.val) ELSE {}
UrlOf(req, port) == FullUri(req.version, req.headers, req.uri, port)

LEMMA HitsFacts ==
  ASSUME NEW res, ResOK(res), NEW url, Hits(res, url) # {},
         NEW hit, hit = CHOOSE i \in Hits(res, url) : \A j \in Hits(res, url) : i <= j
  PROVE  IsFirst(hit, Hits(res, url)) /\ hit \in 1 .. Len(res.payloads)
<1>1. PICK n \in Nat : n = Len(res.payloads) /\ DOMAIN res.payloads = 1 .. n
  BY ListFacts DEF ResOK
<1>2. Hits(res, url) \subseteq 1 .. n
  BY <1>1 DEF Hits, UrlRuleOf
<1>3. IsFirst(hit, Hits(res, url))
  BY <1>2, FirstExists
<1> QED
  BY <1>1, <1>2, <1>3 DEF IsFirst

\* modify_request: the dump is what goes to the server.
RequestRight(r, res, req) ==
  /\ r.dump.headers = r.headers
  /\ CapturedRight(r.dump.body, r.frames)
  /\ ~Rewritable(req.frames, res.contains_script) => Bytes(r.frames) = Bytes(req.frames)
FakeRight(fake, res, url) ==
  IF Hits(res, url) = {} THEN fake = None
  ELSE \E i : /\ IsFirst(i, Hits(res, url))
              /\ fake = Some(GeneratedResponse(res.payloads[i], url.val))

LEMMA ModifyRequestFacts ==
  ASSUME NEW res, ResOK(res), NEW req, Framed(req.frames), NEW port,
         NEW r, r = ModifyRequest(res, req, port), r.some
  PROVE  RequestRight(r.val, res, req) /\ FakeRight(r.val.fake, res, UrlOf(req, port))
<1> DEFINE url  == FullUri(req.version, req.headers, req.uri, port)
           d    == IF res.capture_request \/ res.contains_script
                   THEN ReadAtMost(req.frames) ELSE NotRead(req.frames)
           hits == IF url.some THEN UrlRuleOf(res, url.val) ELSE {}
           hit  == CHOOSE i \in hits : \A j \in hits : i <= j
           seen == IF ~url.some THEN <<>>
                   ELSE IF hits = {} THEN res.payloads
                   ELSE SubSeq(res.payloads, 1, hit - 1)
           start == [status  |-> "", data |-> d,
                     headers |-> IF url.some
                                 THEN [req.headers EXCEPT !["content-length"] = <<>>]
                                 ELSE req.headers]
           u    == RequestSteps(seen, url.val, start)
<1>9. r = IF d.st = "error" THEN None
          ELSE Some([fake    |-> IF hits = {} THEN None
                             ELSE Some(GeneratedResponse(res.payloads[hit], url.val)),
                 dump    |-> [uri  |-> IF hits = {} THEN req.uri ELSE url.val,
                              version |-> req.version, headers |-> u.headers,
                              body |-> CapturedBody(u.data)],
                 headers |-> u.headers,
                 frames  |-> IntoBody(u.data)])
  BY DEF ModifyRequest
<1>1. url = UrlOf(req, port)
  BY DEF UrlOf
<1>2. PICK scripted \in BOOLEAN, read \in BOOLEAN :
        scripted = res.contains_script /\ read = (res.capture_request \/ res.contains_script)
  BY DEF ResOK
<1>3. d = Taken(req.frames, read)
  BY <1>2 DEF Taken
<1>4. hits = Hits(res, url)
  BY DEF Hits
<1>5. hit = CHOOSE i \in hits : \A j \in hits : i <= j
  OBVIOUS
<1>6. seen = IF ~url.some THEN <<>>
             ELSE IF hits = {} THEN res.payloads
             ELSE SubSeq(res.payloads, 1, hit - 1)
  OBVIOUS
<1>7. DOMAIN start = {"status", "data", "headers"} /\ start.data = d
  OBVIOUS
<1>8. u = RequestSteps(seen, url.val, start)
  OBVIOUS
<1> HIDE DEF url, d, hits, hit, seen, start, u
<1>10. d.st # "error"
  BY <1>9 DEF None
<1>11. /\ r.val.fake = IF hits = {} THEN None ELSE Some(GeneratedResponse(res.payloads[hit], url.val))
       /\ r.val.dump.headers = u.headers /\ r.val.dump.body = CapturedBody(u.data)
       /\ r.val.headers = u.headers /\ r.val.frames = IntoBody(u.data)
  <2>1. PICK fake, dump : /\ fake = IF hits = {} THEN None
                                    ELSE Some(GeneratedResponse(res.payloads[hit], url.val))
                          /\ dump = [uri  |-> IF hits = {} THEN req.uri ELSE url.val,
                                     version |-> req.version, headers |-> u.headers,
                                     body |-> CapturedBody(u.data)]
    OBVIOUS
  <2>2. r = Some([fake |-> fake, dump |-> dump, headers |-> u.headers, frames |-> IntoBody(u.data)])
    BY <1>9, <1>10, <2>1
  <2>3. r.val = [fake |-> fake, dump |-> dump, headers |-> u.headers, frames |-> IntoBody(u.data)]
    BY <2>2 DEF Some
  <2> QED
    BY <2>1, <2>3
<1>12. FakeRight(r.val.fake, res, url)
  BY <1>4, <1>5, <1>11, HitsFacts DEF FakeRight
<1>13. IsMsg(start) /\ start.data = d
  <2>1. IsRead(d)
    <3>1. CASE read
      <4>1. PICK R, A : FramesIn(R, A) /\ req.frames \in Seq(R)
        BY FramesOfScene DEF Framed
      <4> QED
        BY <1>3, <1>10, <3>1, <4>1, ReadFacts DEF Taken
    <3>2. CASE ~read
      BY <1>3, <3>2 DEF Taken, NotRead, IsRead
    <3> QED
      BY <3>1, <3>2
  <2> QED
    BY <1>7, <2>1 DEF IsMsg
<1>14. PICK n \in Nat : n = Len(seen) /\ Scripted(seen, scripted)
  <2>1. CASE ~url.some
    BY <1>6, <2>1 DEF Scripted
  <2>2. CASE url.some /\ hits = {}
    BY <1>2, <1>6, <2>2, ListFacts DEF ResOK
  <2>3. CASE url.some /\ hits # {}
    <3>1. hit \in 1 .. Len(res.payloads)
      BY <1>4, <1>5, <2>3, HitsFacts
    <3>2. seen = SubSeq(res.payloads, 1, hit - 1)
      BY <1>6, <2>3
    <3> QED
      BY <1>2, <3>1, <3>2, FrontFacts DEF ResOK
  <2> QED
    BY <2>1, <2>2, <2>3
<1>15. PICK v : v = url.val
  OBVIOUS
<1>16. KeepsBody(start, u, scripted)
  BY <1>8, <1>13, <1>14, <1>15, RequestStepsKeep
<1>17. scripted => read
  BY <1>2
<1>18. /\ CapturedRight(CapturedBody(u.data), IntoBody(u.data))
       /\ ~Rewritable(req.frames, scripted) => Bytes(IntoBody(u.data)) = Bytes(req.frames)
  BY <1>3, <1>10, <1>13, <1>16, <1>17, BodyGoesOn
<1>19. RequestRight(r.val, res, req)
  BY <1>2, <1>11, <1>18 DEF RequestRight
<1> QED
  BY <1>1, <1>12, <1>19

\* modify_response: the dump is what goes to the client.
ResponseRight(r, res, resp) ==
  /\ r.dump.headers = r.headers /\ r.dump.status = r.status
  /\ CapturedRight(r.dump.body, r.frames)
  /\ ~Rewritable(resp.frames, res.contains_script) => Bytes(r.frames) = Bytes(resp.frames)

LEMMA ModifyResponseFacts ==
  ASSUME NEW res, ResOK(res), NEW dump, NEW resp, Framed(resp.frames), NEW port,
         NEW r, r = ModifyResponse(res, dump, resp, port), r.some
  PROVE  ResponseRight(r.val, res, resp)
<1>1. PICK url : url = FullUri(dump.version, dump.headers, dump.uri, port)
  OBVIOUS
<1>2. PICK scripted \in BOOLEAN, read \in BOOLEAN :
        scripted = res.contains_script /\ read = (res.capture_response \/ res.contains_script)
  BY DEF ResOK
<1>3. PICK d : d = Taken(resp.frames, read)
  OBVIOUS
<1>4. PICK start : start = [status |-> resp.status, headers |-> resp.headers, data |-> d]
  OBVIOUS
<1>5. PICK seen : seen = res.payloads
  OBVIOUS
<1>14. PICK n \in Nat : n = Len(seen) /\ Scripted(seen, scripted)
  BY <1>2, <1>5, ListFacts DEF ResOK
<1>6. PICK u : u = ResponseSteps(seen, dump, url, start)
  OBVIOUS
<1>7. r = IF d.st = "error" THEN None
          ELSE Some([status  |-> u.status,
                 headers |-> u.headers,
                 frames  |-> IntoBody(u.data),
                 dump    |-> [status |-> u.status, headers |-> u.headers,
                              body |-> CapturedBody(u.data)]])
  BY <1>1, <1>2, <1>3, <1>4, <1>5, <1>6 DEF ModifyResponse, Taken
<1>8. d.st # "error"
  BY <1>7 DEF None
<1>9. /\ r.val.dump.headers = u.headers /\ r.val.dump.body = CapturedBody(u.data)
      /\ r.val.dump.status = u.status /\ r.val.status = u.status
      /\ r.val.headers = u.headers /\ r.val.frames = IntoBody(u.data)
  BY <1>7, <1>8 DEF Some
<1>10. IsMsg(start) /\ start.data = d
  <2>1. IsRead(d)
    <3>1. CASE read
      <4>1. PICK R, A : FramesIn(R, A) /\ resp.frames \in Seq(R)
        BY FramesOfScene DEF Framed
      <4> QED
        BY <1>3, <1>8, <3>1, <4>1, ReadFacts DEF Taken
    <3>2. CASE ~read
      BY <1>3, <3>2 DEF Taken, NotRead, IsRead
    <3> QED
      BY <3>1, <3>2
  <2> QED
    BY <1>4, <2>1 DEF IsMsg
<1>11. KeepsBody(start, u, scripted)
  BY <1>6, <1>10, <1>14, ResponseStepsKeep
<1>12. scripted => read
  BY <1>2
<1>13. /\ CapturedRight(CapturedBody(u.data), IntoBody(u.data))
       /\ ~Rewritable(resp.frames, scripted) => Bytes(IntoBody(u.data)) = Bytes(resp.frames)
  BY <1>3, <1>8, <1>10, <1>11, <1>12, BodyGoesOn
<1> QED
  BY <1>2, <1>9, <1>13 DEF ResponseRight

-------------------------------------------------------------------------------
(* The inductive invariant.                                                  *)

UrlHits(ps, url) == {i \in DOMAIN ps : ps[i].kind = "url" /\ IsMatch(ps[i].reg, url)}

\* The payloads answer a url exactly when some rule does, with the code of the
\* first rule.
Corr(ps, rules, url) ==
  /\ UrlHits(ps, url) = {} <=> rules = <<>>
  /\ \A i : IsFirst(i, UrlHits(ps, url)) => ps[i].code = rules[1][3]
RulesAgree(ps, conf, host) == \A url : Corr(ps, UrlRules(conf, host, url), url)

\* The manager is made of a configuration of the scene.
MadeOf(m, conf) == NewManager(conf).some /\ m = NewManager(conf).val
MgrInv == \E conf \in {scene.entries, scene.reloaded} : MadeOf(mgr, conf)

Kept(q, frames, res) == ~Rewritable(q, res.contains_script) => Bytes(frames) = Bytes(q)
SameRequest(dump, m) == dump.headers = m.headers /\ CapturedRight(dump.body, m.frames)
SameAnswer(dump, m) == /\ dump.headers = m.headers /\ dump.status = m.status
                       /\ CapturedRight(dump.body, m.frames)

RuleFor(x, cn) ==
  LET url == UrlOf(x.req, cn.port)
  IN  url.some /\ UrlRules(cn.conf, cn.host, url.val) # <<>>
RuleCode(x, cn) == UrlRules(cn.conf, cn.host, UrlOf(x.req, cn.port).val)[1][3]

\* An exchange of a connection.
ExOK(x, cn, sc) ==
  /\ DOMAIN x = {"req", "got", "reply", "answer"}
  /\ x.req \in sc.requests /\ (x.reply.some => x.reply.val \in sc.replies)
  /\ x.got.some => Kept(x.req.frames, x.got.val.frames, cn.res) /\ ~RuleFor(x, cn)
  /\ x.reply.some /\ x.answer.some => Kept(x.reply.val.frames, x.answer.val.frames, cn.res)
  /\ x.answer.some /\ RuleFor(x, cn) => x.answer.val.status = RuleCode(x, cn)

\* The exchange in service: its request as the modifier let it through, which
\* is pending until the response.
Passed(cn, x, tag, m) == /\ tag \in DOMAIN cn.pending /\ SameRequest(cn.pending[tag], m)
                         /\ Kept(x.req.frames, m.frames, cn.res) /\ ~RuleFor(x, cn)
InService(cn, x, tag) ==
  /\ ~x.answer.some
  /\ cn.phase \in {"request", "connect"} => ~x.got.some
  /\ cn.phase # "response" => ~x.reply.some
  /\ cn.phase = "response" => x.reply.some
  /\ cn.phase = "connect" => cn.out.some /\ Passed(cn, x, tag, cn.out.val)
  /\ cn.phase \in {"wait", "response"} => x.got.some /\ Passed(cn, x, tag, x.got.val)
Busy(cn) == cn.phase \in {"request", "connect", "wait", "response"}

IsConn(cn) == /\ DOMAIN cn = {"phase", "port", "host", "conf", "res", "pending", "sender", "out"}
              /\ cn.phase # "new"
              /\ ResOK(cn.res) /\ RulesAgree(cn.res.payloads, cn.conf, cn.host)
ConnOK(cn, h) == \/ cn = NoConn /\ h = <<>>
                 \/ IsConn(cn) /\ (Busy(cn) => Len(h) > 0 /\ InService(cn, h[Len(h)], Len(h)))
ConnInv == DOMAIN conn = Conns /\ \A c \in Conns : ConnOK(conn[c], hist[c])
HistInv == /\ DOMAIN hist = Conns
           /\ \A c \in Conns : /\ IsList(hist[c])
                               /\ \A t \in 1 .. Len(hist[c]) : ExOK(hist[c][t], conn[c], scene)

\* A recorded exchange.
EntryOK(e, x) == /\ x.answer.some /\ SameAnswer(e.resp, x.answer.val)
                 /\ x.got.some => SameRequest(e.req, x.got.val)
Stored(e, h) == /\ e.conn \in Conns /\ e.tag \in 1 .. Len(h[e.conn])
                /\ EntryOK(e, h[e.conn][e.tag])
IsOf(e, c, t) == e.conn = c /\ e.tag = t
StoreInv ==
  /\ IsList(contents)
  /\ \A i \in 1 .. Len(contents) : Stored(contents[i], hist)
  /\ \A i, j \in 1 .. Len(contents) : IsOf(contents[j], contents[i].conn, contents[i].tag) => j = i
  /\ \A c \in Conns : \A t \in 1 .. Len(hist[c]) :
       hist[c][t].reply.some /\ hist[c][t].answer.some =>
         \E i \in 1 .. Len(contents) : IsOf(contents[i], c, t)

IInv == scene \in Scenes /\ MgrInv /\ ConnInv /\ HistInv /\ StoreInv

-------------------------------------------------------------------------------
(* The rules of a configuration and the payloads made of it.                 *)

Lists(q) == IsList(q) /\ \A i \in 1 .. Len(q) : IsList(q[i])

LEMMA ListPeel ==
  ASSUME NEW s, IsList(s), NEW k \in Nat, Len(s) = k + 1
  PROVE  \E r, x : /\ s = Append(r, x) /\ IsList(r) /\ Len(r) = k
                   /\ x = s[k + 1] /\ \A i \in 1 .. k : r[i] = s[i]
<1>1. PICK A : s \in Seq(A)
  BY DEF IsList
<1>2. PICK r, x : r = SubSeq(s, 1, k) /\ x = s[k + 1]
  OBVIOUS
<1>3. r \in Seq(A) /\ Len(r) = k /\ s = Append(r, x) /\ \A i \in 1 .. k : r[i] = s[i]
  BY <1>1, <1>2
<1>4. IsList(r)
  BY <1>3, ListIn
<1> QED
  BY <1>2, <1>3, <1>4

LEMMA ListsPeel ==
  ASSUME NEW s, Lists(s), NEW k \in Nat, Len(s) = k + 1
  PROVE  \E r, x : /\ s = Append(r, x) /\ Lists(r) /\ IsList(x) /\ Len(r) = k
                   /\ x = s[k + 1] /\ \A i \in 1 .. k : r[i] = s[i]
<1>1. PICK r, x : /\ s = Append(r, x) /\ IsList(r) /\ Len(r) = k
                  /\ x = s[k + 1] /\ \A i \in 1 .. k : r[i] = s[i]
  BY ListPeel DEF Lists
<1>2. IsList(x) /\ \A i \in 1 .. k : IsList(r[i])
  BY <1>1 DEF Lists
<1> QED
  BY <1>1, <1>2 DEF Lists

LEMMA FlatLists == ASSUME NEW q, Lists(q) PROVE IsList(FlattenSeq(q))
  BY FlatIsList, ListFacts DEF Lists

LEMMA FlatPush ==
  ASSUME NEW q, Lists(q), NEW x, IsList(x) PROVE FlattenSeq(Append(q, x)) = FlattenSeq(q) \o x
<1>1. PICK A : q \in Seq(Seq(A))
  BY ListsTogether, ListFacts DEF Lists
<1>2. PICK B : B = A \cup Range(x)
  OBVIOUS
<1>3. x \in Seq(B)
  BY <1>2, ListWithin
<1>4. \A a \in Seq(A) : a \in Seq(B)
  BY <1>2
<1>5. q \in Seq(Seq(B))
  BY <1>1, <1>4
<1> QED
  BY <1>3, <1>5, FlatAppend

LEMMA EmptyList == ASSUME NEW s, IsList(s), Len(s) = 0 PROVE s = <<>>
<1>1. PICK A : s \in Seq(A)
  BY DEF IsList
<1> QED
  BY <1>1, EmptySeq

LEMMA ListConcat ==
  ASSUME NEW a, IsList(a), NEW b, IsList(b), NEW c, c = a \o b
  PROVE  /\ IsList(c) /\ Len(c) = Len(a) + Len(b)
         /\ \A i \in 1 .. Len(a) : c[i] = a[i]
         /\ \A i \in 1 .. Len(b) : c[Len(a) + i] = b[i]
<1>1. PICK A : A = Range(a) \cup Range(b)
  OBVIOUS
<1>2. a \in Seq(A) /\ b \in Seq(A)
  BY <1>1, ListWithin
<1>3. c \in Seq(A) /\ Len(c) = Len(a) + Len(b)
  BY <1>2, ConcatProperties
<1>4. \A i \in 1 .. Len(a) : c[i] = a[i]
  BY <1>2
<1>5. \A i \in 1 .. Len(b) : c[Len(a) + i] = b[i]
  BY <1>2
<1> QED
  BY <1>3, <1>4, <1>5, ListIn

Hit(e, url) == e.kind = "url" /\ IsMatch(e.reg, url)

\* Payloads and rules that correspond still do one after the other.
LEMMA CorrConcat ==
  ASSUME NEW url, NEW a, IsList(a), NEW b, IsList(b), NEW p, IsList(p), NEW q, IsList(q),
         Corr(a, p, url), Corr(b, q, url), NEW c, c = a \o b, NEW r, r = p \o q
  PROVE  Corr(c, r, url)
<1>0. PICK m \in Nat, n \in Nat : m = Len(a) /\ n = Len(b) /\ DOMAIN a = 1 .. m /\ DOMAIN b = 1 .. n
  BY ListFacts
<1>1. /\ DOMAIN c = 1 .. m + n
      /\ \A i \in 1 .. m : c[i] = a[i]
      /\ \A i \in 1 .. n : c[m + i] = b[i]
  BY <1>0, ListConcat, ListFacts
<1>2. \A i \in 1 .. m : i \in UrlHits(c, url) <=> i \in UrlHits(a, url)
  BY <1>0, <1>1 DEF UrlHits
<1>3. \A i \in 1 .. n : m + i \in UrlHits(c, url) <=> i \in UrlHits(b, url)
  BY <1>0, <1>1 DEF UrlHits
<1>4. UrlHits(a, url) \subseteq 1 .. m /\ UrlHits(b, url) \subseteq 1 .. n /\ UrlHits(c, url) \subseteq 1 .. m + n
  BY <1>0, <1>1 DEF UrlHits
<1>5. \A i \in 1 .. m + n : i \in 1 .. m \/ (i - m \in 1 .. n /\ i = m + (i - m))
  OBVIOUS
<1>6. CASE p # <<>>
  <2>1. UrlHits(a, url) # {}
    BY <1>6 DEF Corr
  <2>2. UrlHits(c, url) # {}
    BY <1>2, <1>4, <2>1
  <2>3. r # <<>> /\ r[1] = p[1]
    <3>1. PICK k \in Nat : k = Len(p) /\ k # 0
      BY <1>6, ListFacts, EmptyList
    <3>2. Len(r) = k + Len(q) /\ Len(q) \in Nat /\ r[1] = p[1]
      BY <3>1, ListConcat, ListFacts
    <3>3. Len(r) # 0
      BY <3>1, <3>2
    <3> QED
      BY <3>2, <3>3
  <2>4. ASSUME NEW i, IsFirst(i, UrlHits(c, url)) PROVE c[i].code = r[1][3]
    <3>1. PICK j \in 1 .. m : j \in UrlHits(a, url)
      BY <1>4, <2>1
    <3>2. i <= j /\ i \in 1 .. m + n
      BY <1>2, <1>4, <2>4, <3>1 DEF IsFirst
    <3>3. i \in 1 .. m
      BY <3>1, <3>2
    <3>4. IsFirst(i, UrlHits(a, url))
      BY <1>2, <1>4, <2>4, <3>3 DEF IsFirst
    <3> QED
      BY <1>1, <2>3, <3>3, <3>4 DEF Corr
  <2> QED
    BY <2>2, <2>3, <2>4 DEF Corr
<1>7. CASE p = <<>>
  <2>1. UrlHits(a, url) = {}
    BY <1>7 DEF Corr
  <2>2. r = q
    <3>1. PICK A : q \in Seq(A)
      BY DEF IsList
    <3> QED
      BY <1>7, <3>1
  <2>3. UrlHits(c, url) = {} <=> UrlHits(b, url) = {}
    <3>1. ASSUME NEW i \in UrlHits(c, url) PROVE UrlHits(b, url) # {}
      <4>1. i \in 1 .. m + n /\ i \notin 1 .. m
        BY <1>2, <1>4, <2>1
      <4>2. PICK k \in 1 .. n : i = m + k
        BY <1>5, <4>1
      <4> QED
        BY <1>3, <4>2
    <3>2. ASSUME NEW k \in UrlHits(b, url) PROVE UrlHits(c, url) # {}
      BY <1>3, <1>4
    <3> QED
      BY <3>1, <3>2
  <2>4. ASSUME NEW i, IsFirst(i, UrlHits(c, url)) PROVE c[i].code = r[1][3]
    <3>1. i \in 1 .. m + n /\ i \in UrlHits(c, url) /\ \A j \in UrlHits(c, url) : i <= j
      BY <1>4, <2>4 DEF IsFirst
    <3>2. i \notin 1 .. m
      BY <1>2, <2>1, <3>1
    <3>3. PICK k \in 1 .. n : i = m + k
      BY <1>5, <3>1, <3>2
    <3>4. k \in UrlHits(b, url)
      BY <1>3, <3>1, <3>3
    <3>5. ASSUME NEW j \in UrlHits(b, url) PROVE k <= j
      <4>1. j \in 1 .. n /\ m + j \in UrlHits(c, url)
        BY <1>3, <1>4
      <4>2. m + k <= m + j
        BY <3>1, <3>3, <4>1
      <4> QED
        BY <4>1, <4>2
    <3>6. IsFirst(k, UrlHits(b, url))
      BY <3>4, <3>5 DEF IsFirst
    <3>7. b[k].code = q[1][3]
      BY <3>6 DEF Corr
    <3> QED
      BY <1>1, <2>2, <3>3, <3>7
  <2> QED
    BY <2>2, <2>3, <2>4 DEF Corr
<1> QED
  BY <1>6, <1>7

CorrEach(p, q, url) == \A i \in 1 .. Len(p) : Corr(p[i], q[i], url)

LEMMA CorrFlat ==
  ASSUME NEW url, NEW p, Lists(p), NEW q, Lists(q), Len(p) = Len(q), CorrEach(p, q, url)
  PROVE  Corr(FlattenSeq(p), FlattenSeq(q), url)
<1> DEFINE S == {k \in Nat : \A a, b : Lists(a) /\ Lists(b) /\ Len(a) = k /\ Len(b) = k
                               /\ CorrEach(a, b, url) => Corr(FlattenSeq(a), FlattenSeq(b), url)}
<1>1. 0 \in S
  <2>1. \A a : Lists(a) /\ Len(a) = 0 => a = <<>>
    BY EmptyList DEF Lists
  <2>2. Corr(<<>>, <<>>, url)
    BY DEF Corr, UrlHits, IsFirst
  <2> QED
    BY <2>1, <2>2, FlatNothing
<1>2. ASSUME NEW k \in Nat, k \in S PROVE k + 1 \in S
  <2> SUFFICES ASSUME NEW a, NEW b, Lists(a), Lists(b), Len(a) = k + 1, Len(b) = k + 1, CorrEach(a, b, url)
               PROVE  Corr(FlattenSeq(a), FlattenSeq(b), url)
    OBVIOUS
  <2>1. PICK c, x : /\ a = Append(c, x) /\ Lists(c) /\ IsList(x) /\ Len(c) = k
                    /\ x = a[k + 1] /\ \A i \in 1 .. k : c[i] = a[i]
    BY ListsPeel
  <2>2. PICK d, y : /\ b = Append(d, y) /\ Lists(d) /\ IsList(y) /\ Len(d) = k
                    /\ y = b[k + 1] /\ \A i \in 1 .. k : d[i] = b[i]
    BY ListsPeel
  <2>3. CorrEach(c, d, url) /\ Corr(x, y, url)
    BY <2>1, <2>2 DEF CorrEach
  <2>4. Corr(FlattenSeq(c), FlattenSeq(d), url)
    BY <1>2, <2>1, <2>2, <2>3
  <2>5. FlattenSeq(a) = FlattenSeq(c) \o x /\ FlattenSeq(b) = FlattenSeq(d) \o y
    BY <2>1, <2>2, FlatPush
  <2>6. PICK u, v : u = FlattenSeq(c) /\ v = FlattenSeq(d) /\ IsList(u) /\ IsList(v)
    BY <2>1, <2>2, FlatLists
  <2>7. PICK w, z : w = u \o x /\ z = v \o y
    OBVIOUS
  <2>8. Corr(w, z, url)
    BY <2>1, <2>2, <2>3, <2>4, <2>6, <2>7, CorrConcat
  <2> QED
    BY <2>5, <2>6, <2>7, <2>8
<1> HIDE DEF S
<1>3. Nat \subseteq S
  BY <1>1, <1>2, NatSetInduction
<1>4. Len(p) \in Nat
  BY ListFacts DEF Lists
<1> QED
  BY <1>3, <1>4 DEF S

EngineOf(f) == IF f[1] \in CaptureLines THEN <<>> ELSE <<Engine(f).val>>
RuleOf(f, url) == IF f[1] = "url" /\ IsMatch(f[2], url) THEN <<f>> ELSE <<>>

LEMMA OneIsList == ASSUME NEW x PROVE IsList(<<>>) /\ IsList(<<x>>) /\ Len(<<x>>) = 1 /\ <<x>>[1] = x
<1>1. <<>> \in Seq({}) /\ <<x>> \in Seq({x})
  OBVIOUS
<1> QED
  BY <1>1, ListIn

LEMMA NoneCorr == ASSUME NEW url PROVE Corr(<<>>, <<>>, url)
  BY DEF Corr, UrlHits, IsFirst

\* An engine answers the urls that its line's rule is for.
LEMMA LineCorr ==
  ASSUME NEW f, f[1] \notin CaptureLines => Engine(f).some, NEW url
  PROVE  Corr(EngineOf(f), RuleOf(f, url), url)
<1>1. CASE f[1] \in CaptureLines
  <2>1. EngineOf(f) = <<>> /\ RuleOf(f, url) = <<>>
    BY <1>1 DEF EngineOf, RuleOf, CaptureLines
  <2> QED
    BY <2>1, NoneCorr
<1>2. CASE f[1] \notin CaptureLines
  <2>1. PICK e : e = Engine(f).val /\ Engine(f).some
    BY <1>2
  <2>2. PICK s, ok : s = EngineOf(f) /\ s = <<e>> /\ ok = RuleOf(f, url)
    BY <1>2, <2>1 DEF EngineOf
  <2>3. DOMAIN s = {1} /\ s[1] = e
    BY <2>2
  <2>4. CASE f[1] = "url"
    <3>1. Engine(f) = UrlFromLine(f)
      BY <2>4 DEF Engine
    <3>2. PICK t : UrlFromLine(f) = Some([kind |-> "url", code |-> f[3], reg |-> f[2], chunks |-> t])
      <4>1. ASSUME NEW t, t = IF f[3] = "404" THEN Some(<<>>) ELSE ParseChunks(f[2], f[4])
            PROVE  UrlFromLine(f) \in {None, Some([kind |-> "url", code |-> f[3], reg |-> f[2],
                                                    chunks |-> t.val])}
        BY <4>1, Zenon DEF UrlFromLine
      <4>2. ~None.some
        BY DEF None
      <4> QED
        BY <2>1, <3>1, <4>1, <4>2
    <3>3. e.kind = "url" /\ e.code = f[3] /\ e.reg = f[2]
      BY <2>1, <3>1, <3>2 DEF Some
    <3>4. CASE IsMatch(f[2], url)
      <4>1. UrlHits(s, url) = {1}
        BY <2>3, <3>3, <3>4 DEF UrlHits
      <4>2. ok = <<f>>
        BY <2>2, <2>4, <3>4 DEF RuleOf
      <4>3. ok # <<>> /\ ok[1] = f
        BY <4>2
      <4> QED
        BY <2>2, <2>3, <3>3, <4>1, <4>3 DEF Corr, IsFirst
    <3>5. CASE ~IsMatch(f[2], url)
      <4>1. UrlHits(s, url) = {}
        BY <2>3, <3>3, <3>5 DEF UrlHits
      <4>2. ok = <<>>
        BY <2>2, <3>5 DEF RuleOf
      <4> QED
        BY <2>2, <4>1, <4>2 DEF Corr, IsFirst
    <3> QED
      BY <3>4, <3>5
  <2>5. CASE f[1] # "url"
    <3>1. e.kind # "url"
      <4>1. CASE f[1] \in {"header-req", "header-resp"}
        <5>1. Engine(f) = HeaderFromLine(f)
          BY <4>1 DEF Engine
        <5>2. PICK o : HeaderFromLine(f) = Some([kind |-> f[1], reg |-> f[2], operand |-> o])
          <6>1. ASSUME NEW o, o = HeaderOperand(f[3], HeaderValues(f))
                PROVE  HeaderFromLine(f) \in {None, Some([kind |-> f[1], reg |-> f[2], operand |-> o.val])}
            BY <6>1, Zenon DEF HeaderFromLine
          <6>2. ~None.some
            BY DEF None
          <6> QED
            BY <2>1, <5>1, <6>1, <6>2
        <5> QED
          BY <2>1, <2>5, <5>1, <5>2 DEF Some
      <4>2. CASE f[1] = "script"
        <5>1. Engine(f) = ScriptFromConfig(f)
          BY <4>2 DEF Engine
        <5>2. ScriptFromConfig(f) = Some([kind |-> "script", stype |-> f[2], pattern |-> f[3], script |-> f[4]])
          BY <2>1, <5>1 DEF ScriptFromConfig, None
        <5> QED
          BY <2>1, <5>1, <5>2 DEF Some
      <4>3. CASE f[1] \notin {"header-req", "header-resp", "script"}
        BY <2>1, <2>5, <4>3 DEF Engine, None
      <4> QED
        BY <4>1, <4>2, <4>3
    <3>2. UrlHits(s, url) = {}
      BY <2>3, <3>1 DEF UrlHits
    <3>3. ok = <<>>
      BY <2>2, <2>5 DEF RuleOf
    <3> QED
      BY <2>2, <3>2, <3>3 DEF Corr, IsFirst
  <2> QED
    BY <2>4, <2>5
<1> QED
  BY <1>1, <1>2

LEMMA MapIsLists ==
  ASSUME NEW s, IsList(s), NEW u, DOMAIN u = DOMAIN s, u = [i \in DOMAIN s |-> u[i]],
         \A i \in DOMAIN s : IsList(u[i])
  PROVE  Lists(u) /\ Len(u) = Len(s)
<1>1. PICK n \in Nat : n = Len(s) /\ DOMAIN s = 1 .. n
  BY ListFacts
<1>2. IsList(u) /\ Len(u) = n
  BY <1>1, ListOf
<1> QED
  BY <1>1, <1>2 DEF Lists

LEMMA ParsedRight ==
  ASSUME NEW lines, IsList(lines), ParseActions(lines).some, NEW ps, ps = ParseActions(lines).val.payloads
  PROVE  /\ IsList(ps)
         /\ \A url : IsList(UrlLines(lines, url)) /\ Corr(ps, UrlLines(lines, url), url)
<1>1. PICK a : a = [i \in DOMAIN lines |-> EngineOf(lines[i])]
  OBVIOUS
<1>2. ps = FlattenSeq(a) /\ \A i \in DOMAIN lines : lines[i][1] \notin CaptureLines => Engine(lines[i]).some
  <2>1. \A i \in DOMAIN lines : lines[i][1] \notin CaptureLines => Engine(lines[i]).some
    BY DEF ParseActions, None
  <2>2. PICK r, s : ParseActions(lines) = Some([payloads |-> FlattenSeq(a), capture_request |-> r,
                                                capture_response |-> s])
    BY <1>1, <2>1 DEF ParseActions, EngineOf
  <2> QED
    BY <2>1, <2>2 DEF Some
<1>3. Lists(a) /\ Len(a) = Len(lines) /\ \A i \in DOMAIN lines : a[i] = EngineOf(lines[i])
  <2>1. \A i \in DOMAIN lines : IsList(a[i]) /\ a[i] = EngineOf(lines[i])
    BY <1>1, OneIsList DEF EngineOf
  <2> QED
    BY <1>1, <2>1, MapIsLists
<1>4. ASSUME NEW url PROVE IsList(UrlLines(lines, url)) /\ Corr(ps, UrlLines(lines, url), url)
  <2>1. PICK b : b = [i \in DOMAIN lines |-> RuleOf(lines[i], url)]
    OBVIOUS
  <2>2. UrlLines(lines, url) = FlattenSeq(b)
    BY <2>1 DEF UrlLines, RuleOf
  <2>3. \A i \in DOMAIN lines : IsList(b[i]) /\ b[i] = RuleOf(lines[i], url)
    BY <2>1, OneIsList DEF RuleOf
  <2>4. Lists(b) /\ Len(b) = Len(lines)
    BY <2>1, <2>3, MapIsLists
  <2>5. CorrEach(a, b, url)
    BY <1>2, <1>3, <2>3, LineCorr, ListFacts DEF CorrEach
  <2>6. Len(a) = Len(b)
    BY <1>3, <2>4
  <2> QED
    BY <1>2, <1>3, <2>2, <2>4, <2>5, <2>6, CorrFlat, FlatLists
<1> QED
  BY <1>2, <1>3, <1>4, FlatLists

EntryOf(e) == IF ~e.enabled THEN <<>>
              ELSE <<[filters |-> e.filters, payload |-> ParseActions(e.actions).val]>>
Pay(x, host) == IF Lets(x, host) THEN x.payload.payloads ELSE <<>>
PayOf(e, host) == IF e.enabled /\ host \in e.filters THEN ParseActions(e.actions).val.payloads ELSE <<>>
RulesIn(e, host, url) == IF e.enabled /\ host \in e.filters THEN UrlLines(e.actions, url) ELSE <<>>

\* The manager has no entry for a disabled one, whose payloads are none.
EntryPays(x, y, host) == \/ x = <<>> /\ y = <<>>
                         \/ \E z : x = <<z>> /\ y = Pay(z, host)
PaysEach(a, b, host) == \A i \in 1 .. Len(a) : EntryPays(a[i], b[i], host)
Paying(s, host) == \A i \in 1 .. Len(s) : IsList(Pay(s[i], host))

LEMMA PayAppend ==
  ASSUME NEW host, NEW s, IsList(s), Paying(s, host), NEW z, IsList(Pay(z, host)), NEW u, u = Append(s, z)
  PROVE  PayloadsFor(u, host) = PayloadsFor(s, host) \o Pay(z, host) /\ IsList(u) /\ Paying(u, host)
<1>1. PICK n \in Nat : n = Len(s) /\ DOMAIN s = 1 .. n
  BY ListFacts
<1>2. IsList(u) /\ Len(u) = n + 1 /\ u[n + 1] = z /\ \A i \in 1 .. n : u[i] = s[i]
  <2>1. Added(Append(s, z), s, z)
    BY ListAppend
  <2> QED
    BY <1>1, <2>1 DEF Added
<1>3. DOMAIN u = 1 .. n + 1
  BY <1>2, ListFacts
<1>4. PICK a, b : a = [i \in 1 .. n |-> Pay(s[i], host)] /\ b = [i \in 1 .. n + 1 |-> Pay(u[i], host)]
  OBVIOUS
<1>5. PayloadsFor(s, host) = FlattenSeq(a) /\ PayloadsFor(u, host) = FlattenSeq(b)
  BY <1>1, <1>3, <1>4 DEF PayloadsFor, Pay
<1>6. DOMAIN a = DOMAIN s /\ a = [i \in DOMAIN s |-> a[i]] /\ \A i \in DOMAIN s : IsList(a[i])
  BY <1>1, <1>4 DEF Paying
<1>7. Lists(a) /\ Len(a) = n
  BY <1>1, <1>6, MapIsLists
<1>8. b = Append(a, Pay(z, host))
  <2>1. PICK x : x = Pay(z, host) /\ IsList(x)
    OBVIOUS
  <2>2. PICK c : c = Append(a, x)
    OBVIOUS
  <2>3. IsList(c) /\ Len(c) = n + 1 /\ c[n + 1] = x /\ \A i \in 1 .. n : c[i] = a[i]
    <3>1. Added(Append(a, x), a, x)
      BY <1>7, ListAppend DEF Lists
    <3> QED
      BY <1>7, <2>2, <3>1 DEF Added
  <2>4. DOMAIN c = 1 .. n + 1 /\ DOMAIN b = 1 .. n + 1
    BY <1>4, <2>3, ListFacts
  <2>5. ASSUME NEW i \in 1 .. n + 1 PROVE b[i] = c[i]
    <3>1. CASE i = n + 1
      BY <1>2, <1>4, <2>1, <2>3, <3>1
    <3>2. CASE i # n + 1
      BY <1>2, <1>4, <2>3, <3>2
    <3> QED
      BY <3>1, <3>2
  <2>6. PICK A : c \in Seq(A)
    BY <2>3 DEF IsList
  <2>7. c = [i \in 1 .. n + 1 |-> c[i]]
    BY <2>3, <2>6
  <2> QED
    BY <1>4, <2>1, <2>2, <2>4, <2>5, <2>7
<1>9. PICK x : x = Pay(z, host) /\ IsList(x)
  OBVIOUS
<1>10. FlattenSeq(b) = FlattenSeq(a) \o x
  BY <1>7, <1>8, <1>9, FlatPush
<1>11. ASSUME NEW i \in 1 .. Len(u) PROVE IsList(Pay(u[i], host))
  <2>1. CASE i = n + 1
    BY <1>2, <2>1
  <2>2. CASE i # n + 1
    BY <1>1, <1>2, <2>2 DEF Paying
  <2> QED
    BY <2>1, <2>2
<1> QED
  BY <1>2, <1>5, <1>9, <1>10, <1>11 DEF Paying

LEMMA PayloadsOfManager ==
  ASSUME NEW host, NEW p, Lists(p), NEW q, Lists(q), Len(p) = Len(q), PaysEach(p, q, host)
  PROVE  PayloadsFor(FlattenSeq(p), host) = FlattenSeq(q)
<1> DEFINE S == {k \in Nat : \A a, b : Lists(a) /\ Lists(b) /\ Len(a) = k /\ Len(b) = k
                               /\ PaysEach(a, b, host) =>
                                 /\ Paying(FlattenSeq(a), host)
                                 /\ PayloadsFor(FlattenSeq(a), host) = FlattenSeq(b)}
<1>1. 0 \in S
  <2>1. \A a : Lists(a) /\ Len(a) = 0 => a = <<>>
    BY EmptyList DEF Lists
  <2>2. PayloadsFor(<<>>, host) = <<>>
    <3>1. [i \in DOMAIN <<>> |-> IF Lets(<<>>[i], host) THEN <<>>[i].payload.payloads ELSE <<>>] = <<>>
      OBVIOUS
    <3> QED
      BY <3>1, FlatNothing DEF PayloadsFor
  <2>3. Paying(<<>>, host)
    BY DEF Paying
  <2> QED
    BY <2>1, <2>2, <2>3, FlatNothing
<1>2. ASSUME NEW k \in Nat, k \in S PROVE k + 1 \in S
  <2> SUFFICES ASSUME NEW a, NEW b, Lists(a), Lists(b), Len(a) = k + 1, Len(b) = k + 1, PaysEach(a, b, host)
               PROVE  Paying(FlattenSeq(a), host) /\ PayloadsFor(FlattenSeq(a), host) = FlattenSeq(b)
    OBVIOUS
  <2>1. PICK c, x : /\ a = Append(c, x) /\ Lists(c) /\ IsList(x) /\ Len(c) = k
                    /\ x = a[k + 1] /\ \A i \in 1 .. k : c[i] = a[i]
    BY ListsPeel
  <2>2. PICK d, y : /\ b = Append(d, y) /\ Lists(d) /\ IsList(y) /\ Len(d) = k
                    /\ y = b[k + 1] /\ \A i \in 1 .. k : d[i] = b[i]
    BY ListsPeel
  <2>3. PaysEach(c, d, host) /\ EntryPays(x, y, host)
    BY <2>1, <2>2 DEF PaysEach
  <2>4. Paying(FlattenSeq(c), host) /\ PayloadsFor(FlattenSeq(c), host) = FlattenSeq(d)
    BY <1>2, <2>1, <2>2, <2>3
  <2>5. FlattenSeq(a) = FlattenSeq(c) \o x /\ FlattenSeq(b) = FlattenSeq(d) \o y
    BY <2>1, <2>2, FlatPush
  <2>6. PICK u, v : u = FlattenSeq(c) /\ v = FlattenSeq(d) /\ IsList(u) /\ IsList(v)
    BY <2>1, <2>2, FlatLists
  <2>7. CASE x = <<>> /\ y = <<>>
    <3>1. u \o <<>> = u /\ v \o <<>> = v
      BY <2>6 DEF IsList
    <3> QED
      BY <2>4, <2>5, <2>6, <2>7, <3>1
  <2>8. CASE \E z : x = <<z>> /\ y = Pay(z, host)
    <3>1. PICK z : x = <<z>> /\ y = Pay(z, host)
      BY <2>8
    <3>2. PICK w : w = Append(u, z)
      OBVIOUS
    <3>3. u \o <<z>> = w
      <4>1. PICK B : B = Range(u) \cup {z}
        OBVIOUS
      <4>2. u \in Seq(B) /\ z \in B
        BY <2>6, <4>1, ListWithin
      <4> QED
        BY <3>2, <4>2
    <3>4. PayloadsFor(w, host) = PayloadsFor(u, host) \o y /\ Paying(w, host)
      BY <2>2, <2>4, <2>6, <3>1, <3>2, PayAppend
    <3> QED
      BY <2>4, <2>5, <2>6, <3>1, <3>3, <3>4
  <2> QED
    BY <2>3, <2>7, <2>8 DEF EntryPays
<1> HIDE DEF S
<1>3. Nat \subseteq S
  BY <1>1, <1>2, NatSetInduction
<1>4. Len(p) \in Nat
  BY ListFacts DEF Lists
<1> QED
  BY <1>3, <1>4 DEF S

Configured(conf) == IsList(conf) /\ \A i \in DOMAIN conf : IsList(conf[i].actions)

\* InterceptionManager::matches on the manager of a configuration: the payloads
\* of the entries for the host, answering the urls that its rules are for.
LEMMA MatchesRight ==
  ASSUME NEW conf, Configured(conf), NEW m, MadeOf(m, conf), NEW host, NEW res, res = Matches(m, host)
  PROVE  ResOK(res) /\ m.conf = conf /\ RulesAgree(res.payloads, conf, host)
<1>1. PICK a, b : /\ a = [i \in DOMAIN conf |-> EntryOf(conf[i])]
                  /\ b = [i \in DOMAIN conf |-> PayOf(conf[i], host)]
  OBVIOUS
<1>2. \A i \in DOMAIN conf : conf[i].enabled => ParseActions(conf[i].actions).some
  BY DEF MadeOf, NewManager, None
<1>3. m.conf = conf /\ m.entries = FlattenSeq(a)
  <2>1. NewManager(conf) = Some([conf |-> conf, entries |-> FlattenSeq(a)])
    BY <1>1 DEF MadeOf, NewManager, None, EntryOf
  <2> QED
    BY <2>1 DEF MadeOf, Some
<1>4. \A i \in DOMAIN conf : a[i] = EntryOf(conf[i]) /\ b[i] = PayOf(conf[i], host)
  BY <1>1
<1>5. Lists(a) /\ Len(a) = Len(conf)
  <2>1. ASSUME NEW i \in DOMAIN conf PROVE IsList(a[i])
    <3>1. PICK z : z = [filters |-> conf[i].filters, payload |-> ParseActions(conf[i].actions).val]
      OBVIOUS
    <3>2. a[i] = <<>> \/ a[i] = <<z>>
      BY <1>4, <3>1 DEF EntryOf
    <3> QED
      BY <3>2, OneIsList
  <2> QED
    BY <1>1, <2>1, MapIsLists DEF Configured
<1>6. Lists(b) /\ Len(b) = Len(conf)
  <2>1. ASSUME NEW i \in DOMAIN conf PROVE IsList(b[i])
    <3>1. CASE conf[i].enabled /\ host \in conf[i].filters
      <4>1. b[i] = ParseActions(conf[i].actions).val.payloads
        BY <1>4, <3>1 DEF PayOf
      <4> QED
        BY <1>2, <3>1, <4>1, ParsedRight DEF Configured
    <3>2. CASE ~(conf[i].enabled /\ host \in conf[i].filters)
      BY <1>4, <3>2, OneIsList DEF PayOf
    <3> QED
      BY <3>1, <3>2
  <2> QED
    BY <1>1, <2>1, MapIsLists DEF Configured
<1>7. PaysEach(a, b, host)
  <2> SUFFICES ASSUME NEW i \in DOMAIN conf PROVE EntryPays(a[i], b[i], host)
    BY <1>5, ListFacts DEF PaysEach, Configured
  <2>1. CASE ~conf[i].enabled
    BY <1>4, <2>1 DEF EntryPays, EntryOf, PayOf
  <2>2. CASE conf[i].enabled
    <3>1. PICK z : z = [filters |-> conf[i].filters, payload |-> ParseActions(conf[i].actions).val]
      OBVIOUS
    <3>2. a[i] = <<z>>
      BY <1>4, <2>2, <3>1 DEF EntryOf
    <3>3. b[i] = Pay(z, host)
      BY <1>4, <2>2, <3>1 DEF PayOf, Pay, Lets
    <3> QED
      BY <3>2, <3>3 DEF EntryPays
  <2> QED
    BY <2>1, <2>2
<1>8. Len(a) = Len(b)
  BY <1>5, <1>6
<1>9. PICK ps : ps = FlattenSeq(b) /\ IsList(ps) /\ ps = PayloadsFor(m.entries, host)
  BY <1>3, <1>5, <1>6, <1>7, <1>8, PayloadsOfManager, FlatLists
<1>10. ResOK(res) /\ res.payloads = ps
  <2>1. PICK r, s : /\ res = [payloads |-> ps, capture_request |-> r, capture_response |-> s,
                              contains_script |-> \E i \in DOMAIN ps : ps[i].kind = "script"]
                    /\ r \in BOOLEAN /\ s \in BOOLEAN
    BY <1>9 DEF Matches
  <2>2. DOMAIN ps = 1 .. Len(ps)
    BY <1>9, ListFacts
  <2> QED
    BY <1>9, <2>1, <2>2 DEF ResOK, Scripted
<1>11. ASSUME NEW url PROVE Corr(ps, UrlRules(conf, host, url), url)
  <2>1. PICK d : d = [i \in DOMAIN conf |-> RulesIn(conf[i], host, url)]
    OBVIOUS
  <2>2. UrlRules(conf, host, url) = FlattenSeq(d)
    BY <2>1 DEF UrlRules, RulesIn
  <2>3. ASSUME NEW i \in DOMAIN conf PROVE IsList(d[i]) /\ Corr(b[i], d[i], url)
    <3>1. CASE conf[i].enabled /\ host \in conf[i].filters
      <4>1. b[i] = ParseActions(conf[i].actions).val.payloads /\ d[i] = UrlLines(conf[i].actions, url)
        BY <1>4, <2>1, <3>1 DEF PayOf, RulesIn
      <4> QED
        BY <1>2, <3>1, <4>1, ParsedRight DEF Configured
    <3>2. CASE ~(conf[i].enabled /\ host \in conf[i].filters)
      <4>1. b[i] = <<>> /\ d[i] = <<>>
        BY <1>4, <2>1, <3>2 DEF PayOf, RulesIn
      <4> QED
        BY <4>1, OneIsList, NoneCorr
    <3> QED
      BY <3>1, <3>2
  <2>4. Lists(d) /\ Len(d) = Len(conf)
    BY <2>1, <2>3, MapIsLists DEF Configured
  <2>5. CorrEach(b, d, url)
    BY <1>6, <2>3, ListFacts DEF CorrEach, Configured
  <2>6. Len(b) = Len(d)
    BY <1>6, <2>4
  <2> QED
    BY <1>6, <1>9, <2>2, <2>4, <2>5, <2>6, CorrFlat
<1> QED
  BY <1>3, <1>10, <1>11 DEF RulesAgree

-------------------------------------------------------------------------------
(* What a step does to the connections and to the exchanges.                 *)

ConnSet(c, r) == /\ DOMAIN conn' = Conns /\ conn'[c] = r
                 /\ \A d \in Conns : d # c => conn'[d] = conn[d]
HistSet(c, y) == /\ DOMAIN hist' = Conns /\ \A d \in Conns : d # c => hist'[d] = hist[d]
                 /\ IsList(hist'[c]) /\ Len(hist'[c]) = Len(hist[c])
                 /\ hist'[c][Len(hist[c])] = y
                 /\ \A t \in 1 .. Len(hist[c]) : t # Len(hist[c]) => hist'[c][t] = hist[c][t]
SameSetup(a, b) == a.res = b.res /\ a.port = b.port /\ a.conf = b.conf /\ a.host = b.host

LEMMA ExOfSetup ==
  ASSUME NEW a, NEW b, SameSetup(a, b), NEW x, NEW sc, ExOK(x, b, sc) PROVE ExOK(x, a, sc)
<1>1. (RuleFor(x, a) <=> RuleFor(x, b)) /\ RuleCode(x, a) = RuleCode(x, b)
  BY DEF RuleFor, RuleCode, SameSetup
<1>2. a.res = b.res
  BY DEF SameSetup
<1> QED
  BY <1>1, <1>2 DEF ExOK

\* A step that leaves the exchanges alone.
LEMMA OnlyConn ==
  ASSUME IInv, NEW c \in Conns, NEW r, ConnSet(c, r), SameSetup(r, conn[c]) \/ hist[c] = <<>>,
         ConnOK(r, hist[c]), UNCHANGED <<scene, mgr, contents, hist>>
  PROVE  IInv'
<1>1. ConnInv'
  BY DEF IInv, ConnInv, ConnSet
<1>2. HistInv'
  <2>1. DOMAIN hist' = Conns
    BY DEF IInv, HistInv
  <2>2. ASSUME NEW d \in Conns, NEW t \in 1 .. Len(hist[d]) PROVE ExOK(hist[d][t], conn'[d], scene)
    <3>1. ExOK(hist[d][t], conn[d], scene)
      BY DEF IInv, HistInv
    <3>2. CASE d # c
      BY <3>1, <3>2 DEF ConnSet
    <3>3. CASE d = c
      <4>1. hist[c] # <<>>
        BY <3>3
      <4>2. SameSetup(conn'[d], conn[d])
        BY <3>3, <4>1 DEF ConnSet
      <4>3. PICK a, b : a = conn'[d] /\ b = conn[d]
        OBVIOUS
      <4> QED
        BY <3>1, <4>2, <4>3, ExOfSetup
    <3> QED
      BY <3>2, <3>3
  <2>3. \A d \in Conns : IsList(hist[d])
    BY DEF IInv, HistInv
  <2> QED
    BY <2>1, <2>2, <2>3 DEF HistInv
<1>3. StoreInv' /\ MgrInv'
  BY DEF IInv, StoreInv, MgrInv
<1> QED
  BY <1>1, <1>2, <1>3 DEF IInv

Recorded(c, y) ==
  \/ contents' = contents /\ ~(y.answer.some /\ y.reply.some)
  \/ \E e : contents' = Append(contents, e) /\ IsOf(e, c, Len(hist[c])) /\ EntryOK(e, y)

\* A step on the exchange in service, which no record is of yet.
LEMMA StoreServed ==
  ASSUME IInv, NEW c \in Conns, NEW y, HistSet(c, y), Len(hist[c]) > 0,
         ~hist[c][Len(hist[c])].answer.some, Recorded(c, y)
  PROVE  StoreInv'
<1>0. PICK n \in Nat : n = Len(hist[c]) /\ n \in 1 .. n
  <2>1. IsList(hist[c])
    BY DEF IInv, HistInv
  <2>2. Len(hist[c]) \in Nat
    BY <2>1, ListFacts
  <2> QED
    BY <2>2
<1>1. \A d \in Conns : Len(hist'[d]) = Len(hist[d])
  BY DEF HistSet
<1>2. \A d \in Conns : \A t \in 1 .. Len(hist[d]) : ~(d = c /\ t = n) => hist'[d][t] = hist[d][t]
  BY <1>0 DEF HistSet
<1>3. hist'[c][n] = y
  BY <1>0 DEF HistSet
<1>4. ASSUME NEW e, Stored(e, hist) PROVE Stored(e, hist') /\ ~IsOf(e, c, n)
  <2>1. ~IsOf(e, c, n)
    BY <1>0, <1>4 DEF Stored, EntryOK, IsOf
  <2>2. hist'[e.conn][e.tag] = hist[e.conn][e.tag]
    BY <1>2, <1>4, <2>1 DEF Stored, IsOf
  <2> QED
    BY <1>1, <1>4, <2>1, <2>2 DEF Stored
<1>5. /\ IsList(contents)
      /\ \A i \in 1 .. Len(contents) : Stored(contents[i], hist)
      /\ \A i, j \in 1 .. Len(contents) : IsOf(contents[j], contents[i].conn, contents[i].tag) => j = i
  BY DEF IInv, StoreInv
<1>6. ASSUME NEW d \in Conns, NEW t \in 1 .. Len(hist[d]), hist[d][t].reply.some, hist[d][t].answer.some
      PROVE  \E i \in 1 .. Len(contents) : IsOf(contents[i], d, t)
  BY <1>6 DEF IInv, StoreInv
<1>7. CASE contents' = contents /\ ~(y.answer.some /\ y.reply.some)
  <2>1. ASSUME NEW d \in Conns, NEW t \in 1 .. Len(hist'[d]), hist'[d][t].reply.some, hist'[d][t].answer.some
        PROVE  \E i \in 1 .. Len(contents) : IsOf(contents[i], d, t)
    <3>1. ~(d = c /\ t = n) /\ t \in 1 .. Len(hist[d])
      BY <1>1, <1>3, <1>7, <2>1
    <3> QED
      BY <1>2, <1>6, <2>1, <3>1
  <2>2. \A i \in 1 .. Len(contents) : Stored(contents[i], hist')
    BY <1>4, <1>5
  <2> QED
    BY <1>5, <1>7, <2>1, <2>2 DEF StoreInv
<1>8. CASE \E e : contents' = Append(contents, e) /\ IsOf(e, c, n) /\ EntryOK(e, y)
  <2>1. PICK e : contents' = Append(contents, e) /\ IsOf(e, c, n) /\ EntryOK(e, y)
    BY <1>8
  <2>2. Added(Append(contents, e), contents, e)
    BY <1>5, ListAppend
  <2>3. PICK m \in Nat : m = Len(contents)
    BY <1>5, ListFacts
  <2>4. PICK u : u = contents'
    OBVIOUS
  <2>5. IsList(u) /\ Len(u) = m + 1 /\ u[m + 1] = e /\ \A i \in 1 .. m : u[i] = contents[i]
    BY <2>1, <2>2, <2>3, <2>4 DEF Added
  <2>6. Stored(e, hist')
    BY <1>0, <1>1, <1>3, <2>1 DEF Stored, IsOf
  <2>7. \A i \in 1 .. m : Stored(u[i], hist') /\ ~IsOf(u[i], c, n)
    BY <1>4, <1>5, <2>3, <2>5
  <2>8. \A i \in 1 .. m + 1 : i \in 1 .. m \/ i = m + 1
    OBVIOUS
  <2>9. \A i \in 1 .. m + 1 : Stored(u[i], hist')
    BY <2>5, <2>6, <2>7, <2>8
  <2>10. ASSUME NEW i \in 1 .. m + 1, NEW j \in 1 .. m + 1, IsOf(u[j], u[i].conn, u[i].tag) PROVE j = i
    <3>1. CASE i \in 1 .. m /\ j \in 1 .. m
      BY <1>5, <2>3, <2>5, <2>10, <3>1
    <3>2. CASE i = m + 1 /\ j \in 1 .. m
      BY <2>1, <2>5, <2>7, <2>10, <3>2 DEF IsOf
    <3>3. CASE i \in 1 .. m /\ j = m + 1
      BY <2>1, <2>5, <2>7, <2>10, <3>3 DEF IsOf
    <3> QED
      BY <2>8, <3>1, <3>2, <3>3
  <2>11. ASSUME NEW d \in Conns, NEW t \in 1 .. Len(hist'[d]), hist'[d][t].reply.some, hist'[d][t].answer.some
         PROVE  \E i \in 1 .. m + 1 : IsOf(u[i], d, t)
    <3>1. CASE d = c /\ t = n
      <4>1. m + 1 \in 1 .. m + 1
        OBVIOUS
      <4> QED
        BY <2>1, <2>5, <3>1, <4>1
    <3>2. CASE ~(d = c /\ t = n)
      <4>1. t \in 1 .. Len(hist[d]) /\ hist'[d][t] = hist[d][t]
        BY <1>1, <1>2, <3>2
      <4>2. PICK i \in 1 .. m : IsOf(contents[i], d, t)
        BY <1>6, <2>3, <2>11, <4>1
      <4> QED
        BY <2>5, <4>2
    <3> QED
      BY <3>1, <3>2
  <2> QED
    BY <2>4, <2>5, <2>9, <2>10, <2>11 DEF StoreInv
<1> QED
  BY <1>0, <1>7, <1>8 DEF Recorded

LEMMA Served ==
  ASSUME IInv, NEW c \in Conns, NEW r, ConnSet(c, r), SameSetup(r, conn[c]),
         NEW y, HistSet(c, y), Len(hist[c]) > 0, ~hist[c][Len(hist[c])].answer.some,
         ConnOK(r, hist'[c]), ExOK(y, r, scene), Recorded(c, y), UNCHANGED <<scene, mgr>>
  PROVE  IInv'
<1>1. StoreInv'
  BY StoreServed
<1>2. ConnInv'
  BY DEF IInv, ConnInv, ConnSet, HistSet
<1>3. \A d \in Conns : IsList(hist[d]) /\ \A t \in 1 .. Len(hist[d]) : ExOK(hist[d][t], conn[d], scene)
  BY DEF IInv, HistInv
<1>4. ASSUME NEW d \in Conns
      PROVE  IsList(hist'[d]) /\ \A t \in 1 .. Len(hist'[d]) : ExOK(hist'[d][t], conn'[d], scene)
  <2>1. CASE d # c
    BY <1>3, <2>1 DEF HistSet, ConnSet
  <2>2. CASE d = c
    <3>1. IsList(hist'[c]) /\ Len(hist'[c]) = Len(hist[c]) /\ conn'[c] = r
      BY DEF HistSet, ConnSet
    <3>2. ASSUME NEW t \in 1 .. Len(hist[c]) PROVE ExOK(hist'[c][t], r, scene)
      <4>1. CASE t = Len(hist[c])
        BY <4>1 DEF HistSet
      <4>2. CASE t # Len(hist[c])
        <5>1. hist'[c][t] = hist[c][t] /\ ExOK(hist[c][t], conn[c], scene)
          BY <1>3, <4>2 DEF HistSet
        <5>2. PICK b, x : b = conn[c] /\ x = hist[c][t]
          OBVIOUS
        <5>3. ExOK(x, r, scene)
          BY <5>1, <5>2, ExOfSetup
        <5> QED
          BY <5>1, <5>2, <5>3
      <4> QED
        BY <4>1, <4>2
    <3> QED
      BY <2>2, <3>1, <3>2
  <2> QED
    BY <2>1, <2>2
<1>5. HistInv'
  <2>1. DOMAIN hist' = Conns
    BY DEF HistSet
  <2> QED
    BY <1>4, <2>1 DEF HistInv
<1>6. MgrInv'
  BY DEF IInv, MgrInv
<1> QED
  BY <1>1, <1>2, <1>5, <1>6 DEF IInv

HistAdd(c, y) == /\ DOMAIN hist' = Conns /\ \A d \in Conns : d # c => hist'[d] = hist[d]
                 /\ Added(hist'[c], hist[c], y)

\* A new exchange.
LEMMA Started ==
  ASSUME IInv, NEW c \in Conns, NEW r, ConnSet(c, r), SameSetup(r, conn[c]),
         NEW y, HistAdd(c, y), ~y.answer.some, ConnOK(r, hist'[c]), ExOK(y, r, scene),
         UNCHANGED <<scene, mgr, contents>>
  PROVE  IInv'
<1>0. PICK n \in Nat : n = Len(hist[c])
  <2>1. IsList(hist[c])
    BY DEF IInv, HistInv
  <2> QED
    BY <2>1, ListFacts
<1>1. /\ IsList(hist'[c]) /\ Len(hist'[c]) = n + 1 /\ hist'[c][n + 1] = y
      /\ \A t \in 1 .. n : hist'[c][t] = hist[c][t]
  BY <1>0 DEF HistAdd, Added
<1>2. ConnInv'
  BY DEF IInv, ConnInv, ConnSet, HistAdd
<1>3. \A d \in Conns : IsList(hist[d]) /\ \A t \in 1 .. Len(hist[d]) : ExOK(hist[d][t], conn[d], scene)
  BY DEF IInv, HistInv
<1>4. ASSUME NEW d \in Conns
      PROVE  IsList(hist'[d]) /\ \A t \in 1 .. Len(hist'[d]) : ExOK(hist'[d][t], conn'[d], scene)
  <2>1. CASE d # c
    BY <1>3, <2>1 DEF HistAdd, ConnSet
  <2>2. CASE d = c
    <3>1. conn'[c] = r
      BY DEF ConnSet
    <3>2. ASSUME NEW t \in 1 .. n + 1 PROVE ExOK(hist'[c][t], r, scene)
      <4>1. CASE t = n + 1
        BY <1>1, <4>1
      <4>2. CASE t # n + 1
        <5>0. t \in 1 .. n
          BY <4>2
        <5>1. hist'[c][t] = hist[c][t] /\ ExOK(hist[c][t], conn[c], scene)
          BY <1>0, <1>1, <1>3, <5>0
        <5>2. PICK b, x : b = conn[c] /\ x = hist[c][t]
          OBVIOUS
        <5>3. ExOK(x, r, scene)
          BY <5>1, <5>2, ExOfSetup
        <5> QED
          BY <5>1, <5>2, <5>3
      <4> QED
        BY <4>1, <4>2
    <3> QED
      BY <1>1, <2>2, <3>1, <3>2
  <2> QED
    BY <2>1, <2>2
<1>5. HistInv'
  <2>1. DOMAIN hist' = Conns
    BY DEF HistAdd
  <2> QED
    BY <1>4, <2>1 DEF HistInv
<1>6. StoreInv'
  <2>1. ASSUME NEW e, Stored(e, hist) PROVE Stored(e, hist')
    <3>1. CASE e.conn # c
      BY <2>1, <3>1 DEF Stored, HistAdd
    <3>2. CASE e.conn = c
      <4>1. e.tag \in 1 .. n
        BY <1>0, <2>1, <3>2 DEF Stored
      <4>2. e.tag \in 1 .. n + 1 /\ hist'[c][e.tag] = hist[c][e.tag]
        BY <1>1, <4>1
      <4> QED
        BY <1>1, <2>1, <3>2, <4>2 DEF Stored
    <3> QED
      BY <3>1, <3>2
  <2>2. \A i \in 1 .. Len(contents) : Stored(contents[i], hist')
    BY <2>1 DEF IInv, StoreInv
  <2>3. ASSUME NEW d \in Conns, NEW t \in 1 .. Len(hist'[d]), hist'[d][t].reply.some, hist'[d][t].answer.some
        PROVE  \E i \in 1 .. Len(contents) : IsOf(contents[i], d, t)
    <3>1. CASE d # c
      BY <2>3, <3>1 DEF IInv, StoreInv, HistAdd
    <3>2. CASE d = c
      <4>1. t # n + 1
        BY <1>1, <2>3, <3>2
      <4>2. t \in 1 .. n
        BY <1>1, <3>2, <4>1
      <4>3. t \in 1 .. Len(hist[c]) /\ hist'[c][t] = hist[c][t]
        BY <1>0, <1>1, <4>2
      <4> QED
        BY <2>3, <3>2, <4>3 DEF IInv, StoreInv
    <3> QED
      BY <3>1, <3>2
  <2>4. /\ IsList(contents)
        /\ \A i, j \in 1 .. Len(contents) : IsOf(contents[j], contents[i].conn, contents[i].tag) => j = i
    BY DEF IInv, StoreInv
  <2> QED
    BY <2>2, <2>3, <2>4 DEF StoreInv
<1>7. MgrInv'
  BY DEF IInv, MgrInv
<1> QED
  BY <1>2, <1>5, <1>6, <1>7 DEF IInv

-------------------------------------------------------------------------------
(* The actions.                                                              *)

LEMMA SceneFacts ==
  ASSUME scene \in Scenes
  PROVE  /\ Configured(scene.entries) /\ Configured(scene.reloaded)
         /\ \A m \in scene.requests \cup scene.replies : Framed(m.frames)
  BY ScenesAssumption DEF Configured, Framed

\* A connection in service has a modifier.
LEMMA ConnFacts ==
  ASSUME IInv, NEW c \in Conns, conn[c].phase # "new"
  PROVE  /\ IsConn(conn[c])
         /\ Busy(conn[c]) => /\ Len(hist[c]) > 0
                             /\ InService(conn[c], hist[c][Len(hist[c])], Len(hist[c]))
<1>1. ConnOK(conn[c], hist[c])
  BY DEF IInv, ConnInv
<1>2. conn[c] # NoConn
  BY DEF NoConn
<1> QED
  BY <1>1, <1>2 DEF ConnOK

LEMMA ConnSetFacts ==
  ASSUME IInv, NEW c \in Conns, NEW r, conn' = [conn EXCEPT ![c] = r] PROVE ConnSet(c, r)
  BY DEF IInv, ConnInv, ConnSet

LEMMA CloseFacts ==
  ASSUME IInv, NEW c \in Conns, conn[c].phase # "new", Close(c)
  PROVE  \E r : ConnSet(c, r) /\ SameSetup(r, conn[c]) /\ \A h : ConnOK(r, h)
<1>1. PICK cn : cn = conn[c]
  OBVIOUS
<1>2. PICK r : r = [cn EXCEPT !.phase = "closed", !.sender = "none", !.pending = <<>>, !.out = None]
  OBVIOUS
<1>3. conn' = [conn EXCEPT ![c] = r]
  BY <1>1, <1>2 DEF Close
<1>4. ConnSet(c, r)
  BY <1>3, ConnSetFacts
<1>5. IsConn(cn)
  BY <1>1, ConnFacts
<1>6. DOMAIN r = DOMAIN cn /\ r.phase = "closed" /\ SameSetup(r, cn)
  BY <1>2, <1>5 DEF IsConn, SameSetup
<1>7. IsConn(r) /\ ~Busy(r)
  BY <1>5, <1>6 DEF IsConn, Busy, SameSetup
<1> QED
  BY <1>1, <1>4, <1>6, <1>7 DEF ConnOK

LEMMA CloseKeeps ==
  ASSUME IInv, NEW c \in Conns, conn[c].phase # "new", Close(c), UNCHANGED <<scene, mgr, contents, hist>>
  PROVE  IInv'
  BY CloseFacts, OnlyConn

LEMMA InitHolds == Init => IInv
<1> SUFFICES ASSUME Init PROVE IInv
  OBVIOUS
<1>1. MgrInv
  BY DEF Init, MgrInv, MadeOf
<1>2. ConnInv
  BY DEF Init, ConnInv, ConnOK
<1>0. IsList(<<>>) /\ Len(<<>>) = 0
  BY OneIsList
<1>5. \A c \in Conns : hist[c] = <<>>
  BY DEF Init
<1>3. HistInv
  BY <1>0, <1>5 DEF Init, HistInv
<1>4. StoreInv
  <2>1. contents = <<>>
    BY DEF Init
  <2>2. ASSUME NEW i \in 1 .. Len(<<>>) PROVE FALSE
    BY <1>0
  <2>3. \A c \in Conns : \A t \in 1 .. Len(hist[c]) : FALSE
    BY <1>5, <2>2
  <2> QED
    BY <1>0, <2>1, <2>2, <2>3 DEF StoreInv
<1> QED
  BY <1>1, <1>2, <1>3, <1>4 DEF IInv, Init

LEMMA ReloadKeeps == IInv /\ Reload => IInv'
<1> SUFFICES ASSUME IInv, Reload PROVE IInv'
  OBVIOUS
<1>1. MgrInv'
  <2>1. CASE NewManager(scene.reloaded).some
    <3>1. mgr' = NewManager(scene.reloaded).val /\ scene' = scene
      BY <2>1 DEF Reload, OrElse
    <3> QED
      BY <2>1, <3>1 DEF MgrInv, MadeOf
  <2>2. CASE ~NewManager(scene.reloaded).some
    <3>1. mgr' = mgr /\ scene' = scene
      BY <2>2 DEF Reload, OrElse
    <3> QED
      BY <3>1 DEF IInv, MgrInv
  <2> QED
    BY <2>1, <2>2
<1>2. ConnInv' /\ HistInv' /\ StoreInv' /\ scene' = scene
  BY DEF IInv, Reload, ConnInv, HistInv, StoreInv
<1> QED
  BY <1>1, <1>2 DEF IInv

LEMMA SubmitKeeps == ASSUME IInv, NEW c \in Conns, NEW dest, Submit(c, dest) PROVE IInv'
<1>1. PICK res : res = Matches(mgr, dest.host)
  OBVIOUS
<1>2. PICK phase \in {"relayed", "idle", "tls", "refused"} :
        conn' = [conn EXCEPT ![c] = NewModifier(phase, dest, res)]
  <2>1. \E phase \in (IF dest.domain /\ dest.port \in {80, 443} /\ ShouldIntercept(res)
                       THEN NewHttps(dest) ELSE {"relayed"}) :
          conn' = [conn EXCEPT ![c] = NewModifier(phase, dest, res)]
    BY <1>1, Zenon DEF Submit
  <2>2. NewHttps(dest) \subseteq {"idle", "tls", "refused"}
    BY DEF NewHttps, SignSiteCert
  <2> QED
    BY <2>1, <2>2
<1>3. PICK r : r = NewModifier(phase, dest, res)
  OBVIOUS
<1>4. ConnSet(c, r)
  BY <1>2, <1>3, ConnSetFacts
<1>5. hist[c] = <<>>
  <2>1. ConnOK(conn[c], hist[c]) /\ conn[c].phase = "new"
    BY DEF IInv, ConnInv, Submit
  <2> QED
    BY <2>1 DEF ConnOK, IsConn
<1>13. PICK m : m = mgr
  OBVIOUS
<1>6. PICK conf \in {scene.entries, scene.reloaded} : m = mgr /\ MadeOf(m, conf)
  BY <1>13 DEF IInv, MgrInv
<1>7. Configured(conf)
  BY <1>6, SceneFacts DEF IInv
<1>8. PICK host : host = dest.host
  OBVIOUS
<1>9. ResOK(res) /\ m.conf = conf /\ RulesAgree(res.payloads, conf, host)
  BY <1>1, <1>6, <1>7, <1>8, MatchesRight
<1>10. /\ DOMAIN r = {"phase", "port", "host", "conf", "res", "pending", "sender", "out"}
       /\ r.phase = phase /\ r.res = res /\ r.conf = mgr.conf /\ r.host = host
  BY <1>3, <1>8 DEF NewModifier
<1>11. IsConn(r) /\ ~Busy(r)
  BY <1>2, <1>6, <1>9, <1>10 DEF IsConn, Busy
<1>12. ConnOK(r, hist[c])
  BY <1>11 DEF ConnOK
<1> QED
  BY <1>4, <1>5, <1>12, OnlyConn DEF Submit

LEMMA TlsAcceptKeeps == ASSUME IInv, NEW c \in Conns, TlsAccept(c) PROVE IInv'
<1>1. conn[c].phase = "tls" /\ UNCHANGED <<scene, mgr, contents, hist>>
  BY DEF TlsAccept
<1>2. CASE Close(c)
  BY <1>1, <1>2, CloseKeeps
<1>3. CASE conn' = [conn EXCEPT ![c].phase = "idle"]
  <2>1. PICK cn, r : cn = conn[c] /\ r = [cn EXCEPT !.phase = "idle"]
    OBVIOUS
  <2>2. ConnSet(c, r)
    BY <1>3, <2>1, ConnSetFacts
  <2>3. IsConn(cn)
    BY <1>1, <2>1, ConnFacts
  <2>4. DOMAIN r = DOMAIN cn /\ r.phase = "idle" /\ SameSetup(r, cn)
    BY <2>1, <2>3 DEF IsConn, SameSetup
  <2>5. IsConn(r) /\ ~Busy(r)
    BY <2>3, <2>4 DEF IsConn, Busy, SameSetup
  <2>6. ConnOK(r, hist[c])
    BY <2>5 DEF ConnOK
  <2> QED
    BY <1>1, <2>1, <2>2, <2>4, <2>6, OnlyConn
<1> QED
  BY <1>2, <1>3 DEF TlsAccept

LEMMA HistSetFacts ==
  ASSUME IInv, NEW c \in Conns, NEW n, n = Len(hist[c]), n > 0, NEW y,
         hist' = [hist EXCEPT ![c] = [hist[c] EXCEPT ![n] = y]]
  PROVE  HistSet(c, y)
<1>1. PICK h : h = hist[c] /\ IsList(h)
  BY DEF IInv, HistInv
<1>2. n \in 1 .. Len(h)
  BY <1>1, ListFacts
<1>3. Replaced([h EXCEPT ![n] = y], h, n, y)
  BY <1>1, <1>2, ListExcept
<1>4. DOMAIN hist' = Conns /\ hist'[c] = [h EXCEPT ![n] = y] /\ \A d \in Conns : d # c => hist'[d] = hist[d]
  BY <1>1 DEF IInv, HistInv
<1> QED
  BY <1>1, <1>3, <1>4 DEF HistSet, Replaced

LEMMA ExchangeFacts ==
  ASSUME NEW req, NEW y, y = Exchange(req)
  PROVE  /\ DOMAIN y = {"req", "got", "reply", "answer"} /\ y.req = req
         /\ ~y.got.some /\ ~y.reply.some /\ ~y.answer.some
<1>1. y.got = None /\ y.reply = None /\ y.answer = None /\ y.req = req
      /\ DOMAIN y = {"req", "got", "reply", "answer"}
  BY DEF Exchange
<1>2. ~None.some
  BY DEF None
<1> QED
  BY <1>1, <1>2

LEMMA ClientRequestKeeps ==
  ASSUME IInv, NEW c \in Conns, NEW req \in scene.requests, ClientRequest(c, req) PROVE IInv'
<1>1. conn[c].phase = "idle" /\ UNCHANGED <<scene, mgr, contents>>
  BY DEF ClientRequest
<1>2. PICK cn, r : cn = conn[c] /\ r = [cn EXCEPT !.phase = "request"]
  OBVIOUS
<1>3. ConnSet(c, r)
  BY <1>2, ConnSetFacts DEF ClientRequest
<1>4. IsConn(cn)
  BY <1>1, <1>2, ConnFacts
<1>5. DOMAIN r = DOMAIN cn /\ r.phase = "request" /\ SameSetup(r, cn)
  BY <1>2, <1>4 DEF IsConn, SameSetup
<1>6. IsConn(r)
  BY <1>4, <1>5 DEF IsConn, SameSetup
<1>7. PICK y : y = Exchange(req)
  OBVIOUS
<1>8. /\ DOMAIN y = {"req", "got", "reply", "answer"} /\ y.req = req
      /\ ~y.got.some /\ ~y.reply.some /\ ~y.answer.some
  BY <1>7, ExchangeFacts
<1>9. PICK h : h = hist[c] /\ IsList(h)
  BY DEF IInv, HistInv
<1>10. Added(Append(h, y), h, y)
  BY <1>9, ListAppend
<1>11. HistAdd(c, y)
  <2>1. DOMAIN hist' = Conns /\ hist'[c] = Append(h, y) /\ \A d \in Conns : d # c => hist'[d] = hist[d]
    BY <1>7, <1>9 DEF IInv, HistInv, ClientRequest
  <2> QED
    BY <1>9, <1>10, <2>1 DEF HistAdd
<1>12. ExOK(y, r, scene)
  BY <1>8 DEF ExOK
<1>13. ConnOK(r, hist'[c])
  <2>1. PICK n \in Nat : n = Len(h)
    BY <1>9, ListFacts
  <2>2. PICK k, u : u = hist'[c] /\ k = Len(u) /\ k = n + 1 /\ u[k] = y /\ k > 0
    BY <1>9, <1>11, <2>1 DEF HistAdd, Added
  <2>3. InService(r, y, k)
    BY <1>5, <1>8 DEF InService
  <2> QED
    BY <1>6, <2>2, <2>3 DEF ConnOK
<1> QED
  BY <1>1, <1>2, <1>3, <1>5, <1>8, <1>11, <1>12, <1>13, Started

LEMMA ServerFailsKeeps == ASSUME IInv, NEW c \in Conns, ServerFails(c) PROVE IInv'
<1>1. UNCHANGED <<scene, mgr, contents, hist>> /\ conn[c].phase \in {"wait", "idle"}
  BY DEF ServerFails
<1>2. CASE Close(c)
  BY <1>1, <1>2, CloseKeeps
<1>3. CASE conn[c].phase = "idle" /\ conn' = [conn EXCEPT ![c].sender = "dead"]
  <2>1. PICK cn, r : cn = conn[c] /\ r = [cn EXCEPT !.sender = "dead"]
    OBVIOUS
  <2>2. ConnSet(c, r)
    BY <1>3, <2>1, ConnSetFacts
  <2>3. IsConn(cn)
    BY <1>1, <2>1, ConnFacts
  <2>4. DOMAIN r = DOMAIN cn /\ r.phase = cn.phase /\ SameSetup(r, cn)
    BY <2>1, <2>3 DEF IsConn, SameSetup
  <2>5. IsConn(r) /\ ~Busy(r)
    BY <1>3, <2>1, <2>3, <2>4 DEF IsConn, Busy, SameSetup
  <2>6. ConnOK(r, hist[c])
    BY <2>5 DEF ConnOK
  <2> QED
    BY <1>1, <2>1, <2>2, <2>4, <2>6, OnlyConn
<1> QED
  BY <1>2, <1>3 DEF ServerFails

LEMMA ClientLeavesKeeps == ASSUME IInv, NEW c \in Conns, ClientLeaves(c) PROVE IInv'
  BY CloseKeeps DEF ClientLeaves

\* The exchange in service.
LEMMA InServiceFacts ==
  ASSUME IInv, NEW c \in Conns, NEW cn, cn = conn[c], Busy(cn), NEW n, n = Len(hist[c]), NEW x, x = hist[c][n]
  PROVE  IsConn(cn) /\ n \in Nat /\ n > 0 /\ InService(cn, x, n) /\ ExOK(x, cn, scene) /\ ~x.answer.some
<1>1. conn[c].phase # "new"
  BY DEF Busy
<1>2. IsConn(cn) /\ n > 0 /\ InService(cn, x, n)
  BY <1>1, ConnFacts
<1>3. IsList(hist[c])
  BY DEF IInv, HistInv
<1>4. n \in Nat /\ n \in 1 .. Len(hist[c])
  BY <1>2, <1>3, ListFacts
<1>5. ExOK(x, cn, scene)
  BY <1>4 DEF IInv, HistInv
<1> QED
  BY <1>2, <1>4, <1>5 DEF InService

LEMMA ServerRepliesKeeps ==
  ASSUME IInv, NEW c \in Conns, NEW resp \in scene.replies, ServerReplies(c, resp) PROVE IInv'
<1>1. PICK cn, n, x : cn = conn[c] /\ n = Len(hist[c]) /\ x = hist[c][n]
  OBVIOUS
<1>2. cn.phase = "wait" /\ Busy(cn) /\ UNCHANGED <<scene, mgr, contents>>
  BY <1>1 DEF ServerReplies, Busy
<1>3. IsConn(cn) /\ n \in Nat /\ n > 0 /\ InService(cn, x, n) /\ ExOK(x, cn, scene) /\ ~x.answer.some
  BY <1>1, <1>2, InServiceFacts
<1>4. PICK r, y : r = [cn EXCEPT !.phase = "response"] /\ y = [x EXCEPT !.reply = Some(resp)]
  OBVIOUS
<1>5. ConnSet(c, r)
  BY <1>1, <1>4, ConnSetFacts DEF ServerReplies
<1>6. hist' = [hist EXCEPT ![c] = [hist[c] EXCEPT ![n] = y]]
  BY <1>1, <1>4 DEF ServerReplies, Tag
<1>7. HistSet(c, y)
  BY <1>1, <1>3, <1>6, HistSetFacts
<1>8. DOMAIN r = DOMAIN cn /\ r.phase = "response" /\ SameSetup(r, cn) /\ r.pending = cn.pending
  BY <1>3, <1>4 DEF IsConn, SameSetup
<1>9. IsConn(r)
  BY <1>3, <1>8 DEF IsConn, SameSetup
<1>10. /\ DOMAIN y = {"req", "got", "reply", "answer"} /\ y.req = x.req /\ y.got = x.got
       /\ y.answer = x.answer /\ y.reply.some /\ y.reply.val = resp
  BY <1>3, <1>4 DEF ExOK, Some
<1>11. (RuleFor(y, r) <=> RuleFor(x, cn)) /\ r.res = cn.res
  BY <1>8, <1>10 DEF RuleFor, SameSetup
<1>12. ExOK(y, r, scene)
  BY <1>3, <1>10, <1>11 DEF ExOK
<1>13. InService(r, y, n)
  BY <1>2, <1>3, <1>8, <1>10, <1>11 DEF InService, Passed
<1>14. ConnOK(r, hist'[c])
  BY <1>1, <1>3, <1>7, <1>9, <1>13 DEF ConnOK, HistSet
<1>15. Recorded(c, y)
  BY <1>2, <1>3, <1>10 DEF Recorded
<1> QED
  BY <1>1, <1>2, <1>3, <1>5, <1>7, <1>8, <1>12, <1>14, <1>15, Served

LEMMA ConnectKeeps == ASSUME IInv, NEW c \in Conns, Connect(c) PROVE IInv'
<1>1. PICK cn, n, x : cn = conn[c] /\ n = Len(hist[c]) /\ x = hist[c][n]
  OBVIOUS
<1>2. cn.phase = "connect" /\ Busy(cn) /\ UNCHANGED <<scene, mgr, contents>>
  BY <1>1 DEF Connect, Busy
<1>3. IsConn(cn) /\ n \in Nat /\ n > 0 /\ InService(cn, x, n) /\ ExOK(x, cn, scene) /\ ~x.answer.some
  BY <1>1, <1>2, InServiceFacts
<1>4. CASE Close(c) /\ UNCHANGED hist
  BY <1>1, <1>2, <1>4, CloseKeeps
<1>5. CASE /\ conn' = [conn EXCEPT ![c].phase = "wait",
                                ![c].sender = IF conn[c].port = 443 THEN "live"
                                              ELSE "none",
                                ![c].out = None]
           /\ hist' = [hist EXCEPT ![c][Tag(c)].got = conn[c].out]
  <2>1. PICK s : s = IF cn.port = 443 THEN "live" ELSE "none"
    OBVIOUS
  <2>4. PICK r, y : r = [cn EXCEPT !.phase = "wait", !.sender = s, !.out = None] /\ y = [x EXCEPT !.got = cn.out]
    OBVIOUS
  <2>2. conn' = [conn EXCEPT ![c] = r]
    BY <1>1, <1>5, <2>1, <2>4
  <2>5. ConnSet(c, r)
    BY <2>2, ConnSetFacts
  <2>6. hist' = [hist EXCEPT ![c] = [hist[c] EXCEPT ![n] = y]]
    BY <1>1, <1>5, <2>4 DEF Tag
  <2>7. HistSet(c, y)
    BY <1>1, <1>3, <2>6, HistSetFacts
  <2>8. DOMAIN r = DOMAIN cn /\ r.phase = "wait" /\ SameSetup(r, cn) /\ r.pending = cn.pending
    BY <1>3, <2>4 DEF IsConn, SameSetup
  <2>9. IsConn(r)
    BY <1>3, <2>8 DEF IsConn, SameSetup
  <2>10. /\ DOMAIN y = {"req", "got", "reply", "answer"} /\ y.req = x.req /\ y.got = cn.out
         /\ y.answer = x.answer /\ y.reply = x.reply
    BY <1>3, <2>4 DEF ExOK
  <2>11. (RuleFor(y, r) <=> RuleFor(x, cn)) /\ r.res = cn.res
    BY <2>8, <2>10 DEF RuleFor, SameSetup
  <2>12. cn.out.some /\ Passed(cn, x, n, cn.out.val) /\ ~x.reply.some
    BY <1>2, <1>3 DEF InService
  <2>13. ExOK(y, r, scene)
    BY <1>3, <2>10, <2>11, <2>12 DEF ExOK, Passed
  <2>14. InService(r, y, n)
    BY <1>3, <2>8, <2>10, <2>11, <2>12 DEF InService, Passed
  <2>15. ConnOK(r, hist'[c])
    BY <1>1, <1>3, <2>7, <2>9, <2>14 DEF ConnOK, HistSet
  <2>16. Recorded(c, y)
    BY <1>2, <1>3, <2>10 DEF Recorded
  <2> QED
    BY <1>1, <1>2, <1>3, <2>5, <2>7, <2>8, <2>13, <2>15, <2>16, Served
<1> QED
  BY <1>4, <1>5 DEF Connect

LEMMA RuleFacts ==
  ASSUME NEW cn, IsConn(cn), NEW x, NEW fake, FakeRight(fake, cn.res, UrlOf(x.req, cn.port))
  PROVE  /\ fake.some \in BOOLEAN
         /\ ~fake.some => ~RuleFor(x, cn)
         /\ fake.some => /\ fake.val.frames = <<>>
                         /\ RuleFor(x, cn) => fake.val.status = RuleCode(x, cn)
<1>1. PICK url, res : url = UrlOf(x.req, cn.port) /\ res = cn.res
  OBVIOUS
<1>2. PICK rules : rules = UrlRules(cn.conf, cn.host, url.val)
  OBVIOUS
<1>3. Corr(res.payloads, rules, url.val)
  BY <1>1, <1>2 DEF IsConn, RulesAgree
<1>4. url.some => Hits(res, url) = UrlHits(res.payloads, url.val)
  BY DEF Hits, UrlRuleOf, UrlHits
<1>5. (RuleFor(x, cn) <=> url.some /\ rules # <<>>) /\ RuleCode(x, cn) = rules[1][3]
  BY <1>1, <1>2 DEF RuleFor, RuleCode
<1>6. CASE Hits(res, url) = {}
  <2>1. fake = None
    BY <1>1, <1>6 DEF FakeRight
  <2>2. fake.some = FALSE
    BY <2>1 DEF None
  <2> QED
    BY <1>3, <1>4, <1>5, <1>6, <2>2 DEF Corr
<1>7. CASE Hits(res, url) # {}
  <2>1. PICK i : IsFirst(i, Hits(res, url)) /\ fake = Some(GeneratedResponse(res.payloads[i], url.val))
    BY <1>1, <1>7 DEF FakeRight
  <2>2. PICK e : e = res.payloads[i]
    OBVIOUS
  <2>3. fake.some = TRUE /\ fake.val = GeneratedResponse(e, url.val)
    BY <2>1, <2>2 DEF Some
  <2>4. fake.val.frames = <<>> /\ fake.val.status = e.code
    BY <2>3 DEF GeneratedResponse
  <2>5. ASSUME RuleFor(x, cn) PROVE e.code = rules[1][3]
    <3>1. url.some
      BY <1>5, <2>5
    <3> QED
      BY <1>3, <1>4, <2>1, <2>2, <3>1 DEF Corr
  <2> QED
    BY <1>5, <2>3, <2>4, <2>5
<1> QED
  BY <1>6, <1>7

LEMMA HandleRequestKeeps == ASSUME IInv, NEW c \in Conns, HandleRequest(c) PROVE IInv'
<1>1. PICK cn, n, x : cn = conn[c] /\ n = Len(hist[c]) /\ x = hist[c][n]
  OBVIOUS
<1>2. cn.phase = "request" /\ Busy(cn) /\ UNCHANGED <<scene, mgr>>
  BY <1>1 DEF HandleRequest, Busy
<1>3. IsConn(cn) /\ n \in Nat /\ n > 0 /\ InService(cn, x, n) /\ ExOK(x, cn, scene) /\ ~x.answer.some
  BY <1>1, <1>2, InServiceFacts
<1>4. PICK res, req, port, q : res = cn.res /\ req = x.req /\ port = cn.port /\ q = ModifyRequest(res, req, port)
  OBVIOUS
<1>5. ~x.got.some /\ ~x.reply.some
  BY <1>2, <1>3 DEF InService
<1>6. ASSUME q.some
      PROVE  RequestRight(q.val, res, req) /\ FakeRight(q.val.fake, res, UrlOf(req, port))
  <2>1. ResOK(res) /\ Framed(req.frames)
    BY <1>3, <1>4, SceneFacts DEF IsConn, ExOK, IInv
  <2> QED
    BY <1>4, <1>6, <2>1, ModifyRequestFacts
<1>7. ASSUME q.some
      PROVE  /\ q.val.fake.some \in BOOLEAN
             /\ ~q.val.fake.some => ~RuleFor(x, cn)
             /\ q.val.fake.some => /\ q.val.fake.val.frames = <<>>
                                   /\ RuleFor(x, cn) => q.val.fake.val.status = RuleCode(x, cn)
  <2>1. PICK fake : fake = q.val.fake
    OBVIOUS
  <2> QED
    BY <1>3, <1>4, <1>6, <1>7, <2>1, RuleFacts
<1>8. CASE Close(c) /\ UNCHANGED <<contents, hist>>
  BY <1>1, <1>2, <1>8, CloseKeeps
<1>9. ASSUME q.some, q.val.fake.some,
             hist' = [hist EXCEPT ![c][Tag(c)].answer = Some(q.val.fake.val)],
             contents' = IF ~res.capture_response THEN contents
                         ELSE Append(contents,
                                Record(c, q.val.dump,
                                       [status |-> q.val.fake.val.status,
                                        headers |-> q.val.fake.val.headers,
                                        body |-> CapturedBody([st |-> "full", bytes |-> <<>>])])),
             Close(c)
      PROVE  IInv'
  <2>1. PICK fake, y : fake = q.val.fake.val /\ y = [x EXCEPT !.answer = Some(fake)]
    OBVIOUS
  <2>2. PICK r : ConnSet(c, r) /\ SameSetup(r, conn[c]) /\ \A h : ConnOK(r, h)
    BY <1>1, <1>2, <1>9, CloseFacts
  <2>3. hist' = [hist EXCEPT ![c] = [hist[c] EXCEPT ![n] = y]]
    BY <1>1, <1>9, <2>1 DEF Tag
  <2>4. HistSet(c, y)
    BY <1>1, <1>3, <2>3, HistSetFacts
  <2>5. /\ DOMAIN y = {"req", "got", "reply", "answer"} /\ y.req = x.req /\ y.got = x.got
        /\ y.answer.some /\ y.answer.val = fake /\ y.reply = x.reply
    BY <1>3, <2>1 DEF ExOK, Some
  <2>6. (RuleFor(y, r) <=> RuleFor(x, cn)) /\ RuleCode(y, r) = RuleCode(x, cn)
    BY <1>1, <2>2, <2>5 DEF RuleFor, RuleCode, SameSetup
  <2>7. ExOK(y, r, scene)
    BY <1>3, <1>5, <1>7, <1>9, <2>1, <2>5, <2>6 DEF ExOK
  <2>8. Recorded(c, y)
    <3>1. CASE contents' = contents
      BY <1>5, <2>5, <3>1 DEF Recorded
    <3>2. CASE contents' # contents
      <4>1. PICK b : b = CapturedBody([st |-> "full", bytes |-> <<>>])
        OBVIOUS
      <4>2. PICK e : e = Record(c, q.val.dump, [status |-> fake.status, headers |-> fake.headers, body |-> b])
        OBVIOUS
      <4>3. contents' = Append(contents, e)
        BY <1>9, <2>1, <3>2, <4>1, <4>2
      <4>4. e.conn = c /\ e.tag = n /\ e.resp.status = fake.status /\ e.resp.headers = fake.headers /\ e.resp.body = b
        BY <1>1, <4>2 DEF Record, Tag
      <4>5. b.cap = "full" /\ b.bytes = <<>>
        BY <4>1 DEF CapturedBody
      <4>6. CapturedRight(b, fake.frames)
        <5>1. fake.frames = <<>>
          BY <1>7, <1>9, <2>1
        <5> QED
          BY <4>5, <5>1, BytesNothing DEF CapturedRight
      <4>7. EntryOK(e, y)
        BY <1>5, <2>5, <4>4, <4>6 DEF EntryOK, SameAnswer
      <4> QED
        BY <1>1, <4>3, <4>4, <4>7 DEF Recorded, IsOf
    <3> QED
      BY <3>1, <3>2
  <2> QED
    BY <1>1, <1>2, <1>3, <2>2, <2>4, <2>7, <2>8, Served
<1>10. ASSUME q.some, ~q.val.fake.some,
              conn' = [conn EXCEPT
                 ![c].phase = "connect",
                 ![c].pending = [t \in DOMAIN @ \cup {Tag(c)} |->
                                   IF t = Tag(c) THEN Pending(c, q.val)
                                   ELSE @[t]],
                 ![c].out = Some([headers |-> q.val.headers,
                                  frames  |-> q.val.frames])],
              UNCHANGED <<contents, hist>>
       PROVE  IInv'
  <2>1. PICK p, o : /\ p = [t \in DOMAIN cn.pending \cup {n} |-> IF t = n THEN q.val.dump ELSE cn.pending[t]]
                    /\ o = [headers |-> q.val.headers, frames  |-> q.val.frames]
    OBVIOUS
  <2>2. PICK r : r = [cn EXCEPT !.phase = "connect", !.pending = p, !.out = Some(o)]
    OBVIOUS
  <2>3. conn' = [conn EXCEPT ![c] = r]
    BY <1>1, <1>10, <2>1, <2>2 DEF Tag, Pending
  <2>4. ConnSet(c, r)
    BY <2>3, ConnSetFacts
  <2>5. DOMAIN r = DOMAIN cn /\ r.phase = "connect" /\ SameSetup(r, cn) /\ r.pending = p /\ r.out = Some(o)
    BY <1>3, <2>2 DEF IsConn, SameSetup
  <2>6. IsConn(r)
    BY <1>3, <2>5 DEF IsConn, SameSetup
  <2>7. n \in DOMAIN p /\ p[n] = q.val.dump
    BY <2>1
  <2>8. r.out.some /\ r.out.val = o /\ o.headers = q.val.headers /\ o.frames = q.val.frames
    BY <2>1, <2>5 DEF Some
  <2>9. (RuleFor(x, r) <=> RuleFor(x, cn)) /\ r.res = cn.res
    BY <2>5 DEF RuleFor, SameSetup
  <2>10. Passed(r, x, n, o)
    BY <1>4, <1>6, <1>7, <1>10, <2>5, <2>7, <2>8, <2>9 DEF Passed, RequestRight, SameRequest, Kept
  <2>11. InService(r, x, n)
    BY <1>3, <1>5, <2>5, <2>8, <2>10 DEF InService
  <2>12. ConnOK(r, hist[c])
    BY <1>1, <1>3, <2>6, <2>11 DEF ConnOK
  <2> QED
    BY <1>1, <1>2, <1>10, <2>4, <2>5, <2>12, OnlyConn
<1> QED
  BY <1>1, <1>4, <1>8, <1>9, <1>10 DEF HandleRequest, Tag

LEMMA HandleResponseKeeps == ASSUME IInv, NEW c \in Conns, HandleResponse(c) PROVE IInv'
<1>1. PICK cn, n, x : cn = conn[c] /\ n = Len(hist[c]) /\ x = hist[c][n]
  OBVIOUS
<1>2. cn.phase = "response" /\ Busy(cn) /\ UNCHANGED <<scene, mgr>>
  BY <1>1 DEF HandleResponse, Busy
<1>3. IsConn(cn) /\ n \in Nat /\ n > 0 /\ InService(cn, x, n) /\ ExOK(x, cn, scene) /\ ~x.answer.some
  BY <1>1, <1>2, InServiceFacts
<1>4. x.reply.some /\ x.got.some /\ Passed(cn, x, n, x.got.val)
  BY <1>2, <1>3 DEF InService
<1>5. PICK res, dump, resp, port, q :
        /\ res = cn.res /\ dump = cn.pending[n] /\ resp = x.reply.val /\ port = cn.port
        /\ q = ModifyResponse(res, dump, resp, port)
  OBVIOUS
<1>6. ASSUME q.some PROVE ResponseRight(q.val, res, resp)
  <2>1. ResOK(res) /\ Framed(resp.frames)
    BY <1>3, <1>4, <1>5, SceneFacts DEF IsConn, ExOK, IInv
  <2> QED
    BY <1>5, <1>6, <2>1, ModifyResponseFacts
<1>7. CASE Close(c) /\ UNCHANGED <<contents, hist>>
  BY <1>1, <1>2, <1>7, CloseKeeps
<1>8. ASSUME q.some, contents' = Append(contents, Record(c, dump, q.val.dump)),
             hist' = [hist EXCEPT ![c][Tag(c)].answer =
                          Some([status |-> q.val.status,
                                headers |-> q.val.headers,
                                frames |-> q.val.frames])],
             conn' = [conn EXCEPT
                 ![c].phase = "idle",
                 ![c].pending = [t \in DOMAIN @ \ {Tag(c)} |-> @[t]]]
      PROVE  IInv'
  <2>1. PICK a, p : /\ a = [status |-> q.val.status, headers |-> q.val.headers, frames |-> q.val.frames]
                    /\ p = [t \in DOMAIN cn.pending \ {n} |-> cn.pending[t]]
    OBVIOUS
  <2>2. PICK r, y : r = [cn EXCEPT !.phase = "idle", !.pending = p] /\ y = [x EXCEPT !.answer = Some(a)]
    OBVIOUS
  <2>3. conn' = [conn EXCEPT ![c] = r]
    BY <1>1, <1>8, <2>1, <2>2 DEF Tag
  <2>4. ConnSet(c, r)
    BY <2>3, ConnSetFacts
  <2>5. hist' = [hist EXCEPT ![c] = [hist[c] EXCEPT ![n] = y]]
    BY <1>1, <1>8, <2>1, <2>2 DEF Tag
  <2>6. HistSet(c, y)
    BY <1>1, <1>3, <2>5, HistSetFacts
  <2>7. DOMAIN r = DOMAIN cn /\ r.phase = "idle" /\ SameSetup(r, cn)
    BY <1>3, <2>2 DEF IsConn, SameSetup
  <2>8. IsConn(r) /\ ~Busy(r)
    BY <1>3, <2>7 DEF IsConn, SameSetup, Busy
  <2>9. ConnOK(r, hist'[c])
    BY <2>8 DEF ConnOK
  <2>10. /\ DOMAIN y = {"req", "got", "reply", "answer"} /\ y.req = x.req /\ y.got = x.got
         /\ y.answer.some /\ y.answer.val = a /\ y.reply = x.reply
    BY <1>3, <2>2 DEF ExOK, Some
  <2>11. a.status = q.val.status /\ a.headers = q.val.headers /\ a.frames = q.val.frames
    BY <2>1
  <2>12. (RuleFor(y, r) <=> RuleFor(x, cn)) /\ r.res = cn.res
    BY <2>7, <2>10 DEF RuleFor, SameSetup
  <2>13. ResponseRight(q.val, res, resp)
    BY <1>6, <1>8
  <2>14. ExOK(y, r, scene)
    BY <1>3, <1>4, <1>5, <2>10, <2>11, <2>12, <2>13 DEF ExOK, Passed, ResponseRight, Kept
  <2>15. PICK e : e = Record(c, dump, q.val.dump)
    OBVIOUS
  <2>16. e.conn = c /\ e.tag = n /\ e.req = dump /\ e.resp = q.val.dump
    BY <1>1, <2>15 DEF Record, Tag
  <2>17. EntryOK(e, y)
    BY <1>4, <1>5, <2>10, <2>11, <2>13, <2>16 DEF EntryOK, SameAnswer, ResponseRight, Passed
  <2>18. Recorded(c, y)
    BY <1>1, <1>8, <2>15, <2>16, <2>17 DEF Recorded, IsOf
  <2> QED
    BY <1>1, <1>2, <1>3, <2>4, <2>6, <2>7, <2>9, <2>14, <2>18, Served
<1>9. n \in DOMAIN cn.pending
  BY <1>4 DEF Passed
<1> QED
  BY <1>1, <1>5, <1>7, <1>8, <1>9 DEF HandleResponse, Tag

LEMMA NextHolds == IInv /\ [Next]_vars => IInv'
<1> SUFFICES ASSUME IInv, [Next]_vars PROVE IInv'
  OBVIOUS
<1>1. CASE UNCHANGED vars
  BY <1>1 DEF vars, IInv, MgrInv, ConnInv, HistInv, StoreInv
<1>2. CASE Reload
  BY <1>2, ReloadKeeps
<1>3. ASSUME NEW c \in Conns, Step(c) PROVE IInv'
  BY <1>3, SubmitKeeps, TlsAcceptKeeps, ClientRequestKeeps, HandleRequestKeeps, ConnectKeeps,
     ServerRepliesKeeps, ServerFailsKeeps, HandleResponseKeeps, ClientLeavesKeeps DEF Step
<1> QED
  BY <1>1, <1>2, <1>3 DEF Next

\* The invariant of an intercepted connection: what is pending for the exchange
\* in service is what its request became, every record is of an answered
\* exchange, and the payloads of a connection answer the urls that the rules of
\* the configuration it was accepted under are for.
THEOREM InterceptInvariant == Spec => []IInv
  BY InitHolds, NextHolds, PTL DEF Spec

LEMMA ExchangeIs ==
  ASSUME IInv, NEW x \in Exchanges
  PROVE  x[1] \in Conns /\ x[2] \in 1 .. Len(hist[x[1]]) /\ ExOK(Ex(x), conn[x[1]], scene)
<1>1. x[1] \in Conns /\ x[2] \in 1 .. MaxRequests /\ x[2] <= Len(hist[x[1]])
  BY DEF Exchanges
<1>2. IsList(hist[x[1]])
  BY <1>1 DEF IInv, HistInv
<1>3. x[2] \in 1 .. Len(hist[x[1]])
  BY <1>1, <1>2, ListFacts, ScenesAssumption
<1> QED
  BY <1>1, <1>3 DEF IInv, HistInv, Ex

\* Every record is of an exchange that took place, once, and says what passed:
\* the request the server got and the answer the client got, whatever was
\* rewritten; and no answer of a server goes unrecorded (pending and contents
\* of intercept_modifier.rs).
THEOREM RecordsAreTrue == Spec => []RecordedIsWhatPassed
<1>1. IInv => RecordedIsWhatPassed
  <2> SUFFICES ASSUME IInv PROVE RecordedIsWhatPassed
    OBVIOUS
  <2>1. DOMAIN contents = 1 .. Len(contents)
    BY ListFacts DEF IInv, StoreInv
  <2>2. \A i \in 1 .. Len(contents) : Stored(contents[i], hist)
    BY DEF IInv, StoreInv
  <2>3. ASSUME NEW i \in DOMAIN contents, NEW e, e = contents[i], NEW x, x = hist[e.conn][e.tag]
        PROVE  /\ \A j \in DOMAIN contents :
                    contents[j].conn = e.conn /\ contents[j].tag = e.tag => j = i
               /\ x.got.some => /\ e.req.headers = x.got.val.headers
                                /\ CapturedRight(e.req.body, x.got.val.frames)
               /\ x.answer.some
               /\ e.resp.headers = x.answer.val.headers
               /\ e.resp.status = x.answer.val.status
               /\ CapturedRight(e.resp.body, x.answer.val.frames)
    <3>1. EntryOK(e, x)
      BY <2>1, <2>2, <2>3 DEF Stored
    <3>2. \A j \in DOMAIN contents : contents[j].conn = e.conn /\ contents[j].tag = e.tag => j = i
      BY <2>1, <2>3 DEF IInv, StoreInv, IsOf
    <3> QED
      BY <3>1, <3>2 DEF EntryOK, SameAnswer, SameRequest
  <2>4. ASSUME NEW x \in Exchanges, Ex(x).reply.some, Ex(x).answer.some
        PROVE  \E i \in DOMAIN contents : contents[i].conn = x[1] /\ contents[i].tag = x[2]
    BY <2>1, <2>4, ExchangeIs DEF IInv, StoreInv, IsOf, Ex
  <2> QED
    BY <2>3, <2>4 DEF RecordedIsWhatPassed
<1> QED
  BY <1>1, InterceptInvariant, PTL

\* A body that no script may change, because there is none or because it is
\* over the limit, arrives byte for byte, in both directions (read_at_most,
\* PartialReadStream, into_body).
THEOREM BodiesArrive == Spec => []BodyIntact
<1>1. IInv => BodyIntact
  <2> SUFFICES ASSUME IInv, NEW x \in Exchanges, NEW e, e = Ex(x)
               PROVE  /\ e.got.some /\ ~MayRewrite(x[1], e.req.frames) =>
                           Bytes(e.got.val.frames) = Bytes(e.req.frames)
                      /\ e.reply.some /\ e.answer.some
                           /\ ~MayRewrite(x[1], e.reply.val.frames) =>
                           Bytes(e.answer.val.frames) = Bytes(e.reply.val.frames)
    BY DEF BodyIntact
  <2>1. ExOK(e, conn[x[1]], scene)
    BY ExchangeIs
  <2>2. \A q : MayRewrite(x[1], q) <=> Rewritable(q, conn[x[1]].res.contains_script)
    BY DEF MayRewrite, Rewritable
  <2> QED
    BY <2>1, <2>2 DEF ExOK, Kept
<1> QED
  BY <1>1, InterceptInvariant, PTL

\* A url rule of the configuration the connection was accepted under keeps its
\* requests from every server, and the first one answers, whatever stands before
\* it and whatever is reloaded meanwhile (modify_request, parse_actions,
\* InterceptionManager::matches).
THEOREM UrlRulesAnswer == Spec => []UrlRuleHolds
<1>1. IInv => UrlRuleHolds
  <2> SUFFICES ASSUME IInv, NEW x \in Exchanges, NEW e, e = Ex(x), NEW cn, cn = conn[x[1]],
                      NEW url, url = FullUri(e.req.version, e.req.headers, e.req.uri, cn.port),
                      NEW rules, rules = UrlRules(cn.conf, cn.host, url.val), url.some, rules # <<>>
               PROVE  /\ ~e.got.some
                      /\ e.answer.some => e.answer.val.status = rules[1][3]
    BY DEF UrlRuleHolds
  <2>1. ExOK(e, cn, scene)
    BY ExchangeIs
  <2>2. RuleFor(e, cn) /\ RuleCode(e, cn) = rules[1][3]
    BY DEF RuleFor, RuleCode, UrlOf
  <2> QED
    BY <2>1, <2>2 DEF ExOK
<1> QED
  BY <1>1, InterceptInvariant, PTL
===============================================================================
