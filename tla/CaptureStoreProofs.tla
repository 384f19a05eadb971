-------------------------- MODULE CaptureStoreProofs --------------------------
(***************************************************************************)
(* Proofs about HttpCapturer and its composition with the database, for    *)
(* any keep_count, any grace threshold and any number of captures.  First  *)
(* the capturer alone: its invariant ties the offset of the vector to what *)
(* went to the database, and says that an eviction leaves at least         *)
(* keep_count exchanges, which is what get_range_copy relies on when it    *)
(* clips a range to the newest keep_count.                                 *)
(***************************************************************************)
EXTENDS CaptureStore, SequenceTheorems, TLAPS

Vec == [in_mem_offset : Nat, inner : Seq(Nat)]
Listing == [src : {"none", "all", "range"}, items : SUBSET (Nat \X Nat)]

TypeOK == /\ contents \in Vec /\ pushed \in Nat /\ saved \in Seq(Nat)
          /\ listing \in Listing
          /\ down \in BOOLEAN

\* The k-th exchange captured is the k-th of what was saved and what is in
\* memory, and in_mem_offset counts what was saved.
LogInv ==
  /\ contents.in_mem_offset = Len(saved)
  /\ pushed = Len(saved) + Len(contents.inner)
  /\ \A i \in 1 .. Len(saved) : saved[i] = i - 1
  /\ \A i \in 1 .. Len(contents.inner) :
       contents.inner[i] = contents.in_mem_offset + i - 1

\* What the API may show is in memory.
RoomInv == ~down => \/ contents.in_mem_offset = 0
                    \/ Len(contents.inner) >= KeepCount

\* The ids of an /intercept/all listing are those of the exchanges.
ListedInv == listing.src = "all" =>
               \A item \in listing.items : item[1] = item[2]

CapInv == TypeOK /\ LogInv /\ RoomInv /\ ListedInv /\ PayloadIsListed

-------------------------------------------------------------------------------
(* What evict_with keeps and hands out, for any number to be left.           *)

LEMMA EvictSplits ==
  ASSUME NEW v \in Vec, NEW left \in Nat
  PROVE  /\ EV!EvictWith(v, left) \in Vec
         /\ EV!EvictWithOut(v, left) \in Seq(Nat)
         /\ EV!EvictWith(v, left).in_mem_offset
              = v.in_mem_offset + Len(EV!EvictWithOut(v, left))
         /\ Len(EV!EvictWith(v, left).inner)
              = Len(v.inner) - Len(EV!EvictWithOut(v, left))
         /\ Len(EV!EvictWithOut(v, left))
              = IF Len(v.inner) > left THEN Len(v.inner) - left ELSE 0
         /\ \A i \in 1 .. Len(EV!EvictWithOut(v, left)) :
              EV!EvictWithOut(v, left)[i] = v.inner[i]
         /\ \A i \in 1 .. Len(EV!EvictWith(v, left).inner) :
              EV!EvictWith(v, left).inner[i]
                = v.inner[Len(EV!EvictWithOut(v, left)) + i]
<1>1. v.inner \in Seq(Nat) /\ Len(v.inner) \in Nat /\ v.in_mem_offset \in Nat
  BY DEF Vec
<1>2. CASE Len(v.inner) > left
  <2> DEFINE n == Len(v.inner) - left
  <2>1. n \in Nat /\ n \in 1 .. Len(v.inner) /\ Len(v.inner) - n = left
    BY <1>1, <1>2
  <2>2. /\ EV!EvictWithOut(v, left) = SubSeq(v.inner, 1, n)
        /\ EV!EvictWith(v, left)
             = [in_mem_offset |-> v.in_mem_offset + n,
                inner |-> SubSeq(v.inner, n + 1, Len(v.inner))]
    BY <1>2 DEF EV!EvictWithOut, EV!EvictWith, EV!DropLast, EV!LastN
  <2> HIDE DEF n
  <2>3. /\ SubSeq(v.inner, 1, n) \in Seq(Nat) /\ Len(SubSeq(v.inner, 1, n)) = n
        /\ \A i \in 1 .. n : SubSeq(v.inner, 1, n)[i] = v.inner[i]
    BY <1>1, <2>1
  <2>4. /\ SubSeq(v.inner, n + 1, Len(v.inner)) \in Seq(Nat)
        /\ Len(SubSeq(v.inner, n + 1, Len(v.inner))) = left
        /\ \A i \in 1 .. left :
             SubSeq(v.inner, n + 1, Len(v.inner))[i] = v.inner[n + i]
    BY <1>1, <2>1
  <2>5. n = Len(v.inner) - left /\ left = Len(v.inner) - n
    BY <2>1 DEF n
  <2>6. PICK out, kept, w : /\ out = EV!EvictWithOut(v, left)
                            /\ w = EV!EvictWith(v, left)
                            /\ kept = SubSeq(v.inner, n + 1, Len(v.inner))
    OBVIOUS
  <2>7. /\ w \in Vec /\ w.inner = kept
        /\ w.in_mem_offset = v.in_mem_offset + n
    <3>1. /\ w = [in_mem_offset |-> v.in_mem_offset + n, inner |-> kept]
          /\ kept \in Seq(Nat) /\ v.in_mem_offset + n \in Nat
      <4>1. w = [in_mem_offset |-> v.in_mem_offset + n, inner |-> kept]
        BY <2>2, <2>6
      <4>2. kept \in Seq(Nat)
        BY <2>4, <2>6
      <4>3. v.in_mem_offset + n \in Nat
        BY <1>1, <2>1
      <4> QED
        BY <4>1, <4>2, <4>3
    <3> QED
      BY <3>1 DEF Vec
  <2>8. /\ out \in Seq(Nat) /\ Len(out) = n
        /\ \A i \in 1 .. Len(out) : out[i] = v.inner[i]
    BY <2>2, <2>3, <2>6
  <2>9. /\ Len(kept) = left
        /\ \A i \in 1 .. Len(kept) : kept[i] = v.inner[Len(out) + i]
    BY <2>4, <2>6, <2>8
  <2> HIDE <2>2, <2>3, <2>4
  <2> QED
    BY <1>2, <2>5, <2>6, <2>7, <2>8, <2>9
<1>3. CASE Len(v.inner) <= left
  <2>1. EV!EvictWithOut(v, left) = <<>> /\ EV!EvictWith(v, left) = v
    BY <1>1, <1>3 DEF EV!EvictWithOut, EV!EvictWith
  <2> QED
    BY <1>1, <1>3, <2>1
<1> QED
  BY <1>1, <1>2, <1>3

\* Two sequences in a row, each counting on from the one before.
LEMMA CountsOn ==
  ASSUME NEW s \in Seq(Nat), NEW t \in Seq(Nat),
         \A i \in 1 .. Len(s) : s[i] = i - 1,
         \A i \in 1 .. Len(t) : t[i] = Len(s) + i - 1
  PROVE  /\ s \o t \in Seq(Nat) /\ Len(s \o t) = Len(s) + Len(t)
         /\ \A i \in 1 .. Len(s \o t) : (s \o t)[i] = i - 1
<1>1. s \o t \in Seq(Nat) /\ Len(s \o t) = Len(s) + Len(t)
  OBVIOUS
<1>2. ASSUME NEW i \in 1 .. Len(s) + Len(t) PROVE (s \o t)[i] = i - 1
  <2>1. CASE i <= Len(s)
    BY <2>1
  <2>2. CASE i > Len(s)
    <3>1. i - Len(s) \in 1 .. Len(t)
      BY <2>2
    <3>2. (s \o t)[i] = t[i - Len(s)]
      BY <2>2
    <3> QED
      BY <3>1, <3>2
  <2> QED
    BY <2>1, <2>2
<1> QED
  BY <1>1, <1>2

-------------------------------------------------------------------------------
(* The capturer's steps.                                                     *)

LEMMA CapInitInv == Init => CapInv
<1> SUFFICES ASSUME Init PROVE CapInv
  OBVIOUS
<1>1. /\ contents = [in_mem_offset |-> 0, inner |-> <<>>] /\ pushed = 0
      /\ saved = <<>> /\ listing = [src |-> "none", items |-> {}]
      /\ payload = [some |-> FALSE] /\ down = FALSE
  BY DEF Init, EV!NewVec, None
<1>2. TypeOK
  <2>1. contents \in Vec /\ saved \in Seq(Nat)
    BY <1>1 DEF Vec
  <2>2. listing \in Listing
    BY <1>1 DEF Listing
  <2> QED
    BY <1>1, <2>1, <2>2 DEF TypeOK
<1>3. LogInv
  BY <1>1 DEF LogInv
<1>4. RoomInv /\ ListedInv /\ PayloadIsListed
  BY <1>1 DEF RoomInv, ListedInv, PayloadIsListed
<1> QED
  BY <1>2, <1>3, <1>4 DEF CapInv

\* An eviction keeps the numbering, whatever it leaves.
LEMMA EvictInv ==
  ASSUME TypeOK, LogInv, NEW left \in Nat, NEW v, NEW rows,
         v = EV!EvictWith(contents, left),
         rows = EV!EvictWithOut(contents, left)
  PROVE  /\ v \in Vec
         /\ saved \o rows \in Seq(Nat)
         /\ v.in_mem_offset = Len(saved \o rows)
         /\ pushed = Len(saved \o rows) + Len(v.inner)
         /\ \A i \in 1 .. Len(saved \o rows) : (saved \o rows)[i] = i - 1
         /\ \A i \in 1 .. Len(v.inner) : v.inner[i] = v.in_mem_offset + i - 1
         /\ Len(v.inner) = IF Len(contents.inner) > left THEN left
                           ELSE Len(contents.inner)
         /\ Len(contents.inner) <= left => v = contents
<1>1. /\ contents \in Vec
      /\ contents.inner \in Seq(Nat) /\ Len(contents.inner) \in Nat
      /\ contents.in_mem_offset \in Nat
      /\ saved \in Seq(Nat) /\ Len(saved) \in Nat
  BY DEF TypeOK, Vec
<1>2. /\ v \in Vec /\ rows \in Seq(Nat)
      /\ v.in_mem_offset = contents.in_mem_offset + Len(rows)
      /\ Len(v.inner) = Len(contents.inner) - Len(rows)
      /\ Len(rows) = IF Len(contents.inner) > left
                     THEN Len(contents.inner) - left ELSE 0
      /\ \A i \in 1 .. Len(rows) : rows[i] = contents.inner[i]
      /\ \A i \in 1 .. Len(v.inner) : v.inner[i] = contents.inner[Len(rows) + i]
  BY <1>1, EvictSplits
<1>3. Len(contents.inner) <= left => v = contents
  BY <1>1 DEF EV!EvictWith
<1>4. Len(rows) \in Nat /\ Len(v.inner) \in Nat /\ Len(rows) <= Len(contents.inner)
  BY <1>1, <1>2
<1>5. \A i \in 1 .. Len(rows) : rows[i] = Len(saved) + i - 1
  BY <1>1, <1>2, <1>4 DEF LogInv
<1>6. /\ saved \o rows \in Seq(Nat) /\ Len(saved \o rows) = Len(saved) + Len(rows)
      /\ \A i \in 1 .. Len(saved \o rows) : (saved \o rows)[i] = i - 1
  <2>1. saved \in Seq(Nat) /\ rows \in Seq(Nat)
    BY <1>1, <1>2
  <2>2. \A i \in 1 .. Len(saved) : saved[i] = i - 1
    BY DEF LogInv
  <2> QED
    BY <1>5, <2>1, <2>2, CountsOn
<1>7. ASSUME NEW i \in 1 .. Len(v.inner)
      PROVE  v.inner[i] = v.in_mem_offset + i - 1
  <2>1. Len(rows) + i \in 1 .. Len(contents.inner) /\ i \in Nat
    BY <1>1, <1>2, <1>4
  <2>2. contents.inner[Len(rows) + i] = contents.in_mem_offset + (Len(rows) + i) - 1
    BY <2>1 DEF LogInv
  <2>3. v.inner[i] = contents.inner[Len(rows) + i]
    BY <1>2
  <2>4. v.in_mem_offset = contents.in_mem_offset + Len(rows)
        /\ contents.in_mem_offset \in Nat
    BY <1>1, <1>2
  <2> QED
    BY <1>4, <2>1, <2>2, <2>3, <2>4
<1>8. v.in_mem_offset = Len(saved \o rows)
  BY <1>2, <1>6 DEF LogInv
<1>9. pushed = Len(saved \o rows) + Len(v.inner)
  <2>1. /\ Len(saved \o rows) = Len(saved) + Len(rows)
        /\ Len(v.inner) = Len(contents.inner) - Len(rows)
        /\ pushed = Len(saved) + Len(contents.inner)
    BY <1>2, <1>6 DEF LogInv
  <2>2. PICK a, b, c : a = Len(saved) /\ b = Len(rows) /\ c = Len(contents.inner)
    OBVIOUS
  <2>3. a \in Nat /\ b \in Nat /\ c \in Nat
    BY <1>1, <1>4, <2>2
  <2>4. a + c = (a + b) + (c - b)
    BY <2>3
  <2> QED
    BY <2>1, <2>2, <2>4
<1>10. Len(v.inner) = IF Len(contents.inner) > left THEN left
                      ELSE Len(contents.inner)
  BY <1>1, <1>2
<1> QED
  BY <1>2, <1>3, <1>6, <1>7, <1>8, <1>9, <1>10

LEMMA CaptureInv == ASSUME CapInv, Capture PROVE CapInv'
<1>1. PICK v, rows : v = Evicted /\ rows = EvictedRows
  OBVIOUS
<1>2. /\ v \in Vec
      /\ saved \o rows \in Seq(Nat)
      /\ v.in_mem_offset = Len(saved \o rows)
      /\ pushed = Len(saved \o rows) + Len(v.inner)
      /\ \A i \in 1 .. Len(saved \o rows) : (saved \o rows)[i] = i - 1
      /\ \A i \in 1 .. Len(v.inner) : v.inner[i] = v.in_mem_offset + i - 1
      /\ v.in_mem_offset = 0 \/ Len(v.inner) >= KeepCount
  <2>1. CASE OverGrace
    <3>1. Len(contents.inner) > KeepCount /\ KeepCount \in Nat
      BY <2>1, HCAssumption DEF OverGrace, EV!RealLen, CapInv, TypeOK, Vec
    <3>2. /\ v = EV!EvictWith(contents, KeepCount)
          /\ rows = EV!EvictWithOut(contents, KeepCount)
      BY <1>1, <2>1 DEF Evicted, EvictedRows
    <3>3. TypeOK /\ LogInv
      BY DEF CapInv
    <3>4. /\ v \in Vec
          /\ saved \o rows \in Seq(Nat)
          /\ v.in_mem_offset = Len(saved \o rows)
          /\ pushed = Len(saved \o rows) + Len(v.inner)
          /\ \A i \in 1 .. Len(saved \o rows) : (saved \o rows)[i] = i - 1
          /\ \A i \in 1 .. Len(v.inner) : v.inner[i] = v.in_mem_offset + i - 1
          /\ Len(v.inner) = KeepCount
      BY <3>1, <3>2, <3>3, EvictInv
    <3>5. Len(v.inner) >= KeepCount
      BY <3>1, <3>4
    <3> QED
      BY <3>4, <3>5
  <2>2. CASE ~OverGrace
    <3>1. v = contents /\ rows = <<>>
      BY <1>1, <2>2 DEF Evicted, EvictedRows
    <3>2. saved \o rows = saved
      BY <3>1 DEF CapInv, TypeOK
    <3> QED
      BY <3>1, <3>2 DEF CapInv, TypeOK, LogInv, RoomInv, Capture
  <2> QED
    BY <2>1, <2>2
<1>3. /\ contents' = [v EXCEPT !.inner = Append(v.inner, pushed)]
      /\ saved' = saved \o rows /\ pushed' = pushed + 1
      /\ UNCHANGED <<listing, payload, down>> /\ pushed \in Nat
  BY <1>1 DEF Capture, EV!Push, CapInv, TypeOK
<1>4. PICK s : s = Append(v.inner, pushed)
  OBVIOUS
<1>5. /\ s \in Seq(Nat) /\ Len(s) = Len(v.inner) + 1 /\ Len(v.inner) \in Nat
      /\ \A i \in 1 .. Len(v.inner) : s[i] = v.inner[i]
      /\ s[Len(v.inner) + 1] = pushed
  <2>1. v.inner \in Seq(Nat) /\ pushed \in Nat
    BY <1>2, <1>3 DEF Vec
  <2> QED
    BY <1>4, <2>1
<1>10. /\ contents' \in Vec
       /\ contents'.in_mem_offset = v.in_mem_offset /\ contents'.inner = s
  <2>1. v \in Vec
        /\ contents' = [v EXCEPT !.inner = s] /\ s \in Seq(Nat)
    BY <1>2, <1>3, <1>4, <1>5
  <2> QED
    BY <2>1 DEF Vec
<1>6. TypeOK'
  <2>1. contents' \in Vec /\ pushed' \in Nat /\ saved' \in Seq(Nat)
    <3>1. pushed' \in Nat
      BY <1>3
    <3>2. saved' \in Seq(Nat)
      BY <1>2, <1>3
    <3> QED
      BY <1>10, <3>1, <3>2
  <2>2. listing' \in Listing /\ down' \in BOOLEAN
    BY <1>3 DEF CapInv, TypeOK
  <2> QED
    BY <2>1, <2>2 DEF TypeOK
<1>7. LogInv'
  <2>1. ASSUME NEW i \in 1 .. Len(s) PROVE s[i] = v.in_mem_offset + i - 1
    <3>1. CASE i \in 1 .. Len(v.inner)
      BY <1>2, <1>5, <3>1
    <3>2. CASE i = Len(v.inner) + 1
      <4>1. s[i] = pushed /\ pushed = v.in_mem_offset + Len(v.inner)
        BY <1>2, <1>5, <3>2
      <4>2. Len(v.inner) \in Nat /\ v.in_mem_offset \in Nat
        BY <1>2, <1>5 DEF Vec
      <4> QED
        BY <3>2, <4>1, <4>2
    <3> QED
      BY <1>5, <3>1, <3>2
  <2>2. /\ contents'.in_mem_offset = Len(saved')
        /\ \A i \in 1 .. Len(saved') : saved'[i] = i - 1
    BY <1>2, <1>3, <1>10
  <2>3. pushed' = Len(saved') + Len(contents'.inner)
    <3>1. /\ pushed' = pushed + 1 /\ Len(saved') = Len(saved \o rows)
          /\ pushed = Len(saved \o rows) + Len(v.inner)
          /\ Len(contents'.inner) = Len(v.inner) + 1
      BY <1>2, <1>3, <1>5, <1>10
    <3>2. PICK a, b : a = Len(v.inner) /\ b = Len(saved \o rows)
      OBVIOUS
    <3>3. a \in Nat /\ b \in Nat
      BY <1>2, <1>5, <3>2
    <3>4. (b + a) + 1 = b + (a + 1)
      BY <3>3
    <3> QED
      BY <3>1, <3>2, <3>4
  <2> QED
    BY <1>10, <2>1, <2>2, <2>3 DEF LogInv
<1>8. RoomInv'
  BY <1>2, <1>5, <1>10, HCAssumption DEF RoomInv
<1>9. ListedInv' /\ PayloadIsListed'
  BY <1>3 DEF CapInv, ListedInv, PayloadIsListed
<1> QED
  BY <1>6, <1>7, <1>8, <1>9 DEF CapInv

\* get_copy returns the newest exchanges with the number of the first.
LEMMA CopyIsNumbered ==
  ASSUME CapInv, ~down
  PROVE  /\ Collect(Copy(contents)) \in SUBSET (Nat \X Nat)
         /\ \A item \in Collect(Copy(contents)) : item[1] = item[2]
<1>1. PICK r : r = Copy(contents)
  OBVIOUS
<1>2. /\ contents.inner \in Seq(Nat) /\ contents.in_mem_offset \in Nat
      /\ Len(contents.inner) \in Nat /\ KeepCount \in Nat
  BY HCAssumption DEF CapInv, TypeOK, Vec
<1>3. /\ r.list \in Seq(Nat) /\ r.offset \in Nat
      /\ \A i \in 1 .. Len(r.list) : r.list[i] = r.offset + i - 1
  <2>1. r.list = EV!GetLastN(contents, KeepCount)
        /\ r.offset = MinimumStart(contents.in_mem_offset + Len(contents.inner))
    BY <1>1 DEF Copy, EV!LogicalLen
  <2>2. CASE Len(contents.inner) <= KeepCount
    <3>1. r.list = contents.inner
      BY <2>1, <2>2 DEF EV!GetLastN
    <3>2. contents.in_mem_offset = 0 \/ Len(contents.inner) = KeepCount
      BY <1>2, <2>2 DEF CapInv, RoomInv
    <3>3. r.offset = contents.in_mem_offset
      BY <1>2, <2>1, <2>2, <3>2 DEF MinimumStart
    <3> QED
      BY <1>2, <3>1, <3>3 DEF CapInv, LogInv
  <2>3. CASE Len(contents.inner) > KeepCount
    <3>1. PICK n : n = Len(contents.inner) - KeepCount
      OBVIOUS
    <3>2. n \in Nat /\ n + KeepCount = Len(contents.inner)
      BY <1>2, <2>3, <3>1
    <3>3. r.list = SubSeq(contents.inner, n + 1, Len(contents.inner))
      BY <2>1, <2>3, <3>1, <1>2 DEF EV!GetLastN, EV!LastN
    <3>4. /\ r.list \in Seq(Nat) /\ Len(r.list) = KeepCount
          /\ \A i \in 1 .. KeepCount : r.list[i] = contents.inner[n + i]
      BY <1>2, <3>2, <3>3
    <3>5. r.offset = contents.in_mem_offset + n
      BY <1>2, <2>1, <2>3, <3>2 DEF MinimumStart
    <3>6. \A i \in 1 .. KeepCount : n + i \in 1 .. Len(contents.inner)
      BY <1>2, <3>2
    <3>7. ASSUME NEW i \in 1 .. KeepCount PROVE r.list[i] = r.offset + i - 1
      <4>1. /\ n + i \in 1 .. Len(contents.inner) /\ i \in Nat
            /\ r.list[i] = contents.inner[n + i]
        BY <1>2, <3>4, <3>6
      <4>2. contents.inner[n + i] = contents.in_mem_offset + (n + i) - 1
        BY <4>1 DEF CapInv, LogInv
      <4> QED
        BY <1>2, <3>2, <3>5, <4>1, <4>2
    <3> QED
      BY <1>2, <3>2, <3>4, <3>5, <3>7
  <2> QED
    BY <1>2, <2>2, <2>3
<1>4. DOMAIN r.list = 1 .. Len(r.list)
  BY <1>3
<1>5. ASSUME NEW i \in DOMAIN r.list
      PROVE  i - 1 + r.offset \in Nat /\ r.list[i] = i - 1 + r.offset
  BY <1>3, <1>4
<1> QED
  BY <1>1, <1>5 DEF Collect

\* A range that was clipped and passed the checks is in memory.
LEMMA ValidIsInRange ==
  ASSUME CapInv, ~down, NEW start \in Nat, NEW end,
         end.some => end.val \in Nat,
         RangeValid(contents, ClippedStart(contents, start), end)
  PROVE  /\ EV!SliceInRange(contents, ClippedStart(contents, start),
                             EndOf(contents, end))
         /\ ClippedStart(contents, start) \in Nat
         /\ EndOf(contents, end) \in Nat
         /\ start <= ClippedStart(contents, start)
<1>1. PICK st, e, n, off : /\ st = ClippedStart(contents, start)
                           /\ e = EndOf(contents, end)
                           /\ n = Len(contents.inner)
                           /\ off = contents.in_mem_offset
  OBVIOUS
<1>2. /\ n \in Nat /\ off \in Nat /\ KeepCount \in Nat
      /\ off = 0 \/ n >= KeepCount
  BY <1>1, HCAssumption DEF CapInv, TypeOK, Vec, RoomInv
<1>3. EV!LogicalLen(contents) = off + n
  BY <1>1 DEF EV!LogicalLen
<1>4. st \in Nat /\ off <= st /\ start <= st
  BY <1>1, <1>2, <1>3 DEF ClippedStart, MinimumStart
<1>5. e \in Nat /\ st <= e /\ e <= off + n
  BY <1>1, <1>2, <1>3, <1>4 DEF RangeValid, EndOf
<1> QED
  BY <1>1, <1>3, <1>4, <1>5 DEF EV!SliceInRange

\* What logical_slice returns for a range in memory.
LEMMA SliceElements ==
  ASSUME CapInv, NEW st \in Nat, NEW e \in Nat,
         EV!SliceInRange(contents, st, e)
  PROVE  /\ EV!LogicalSlice(contents, st, e) \in Seq(Nat)
         /\ Len(EV!LogicalSlice(contents, st, e)) = e - st
         /\ st < e => EV!LogicalSlice(contents, st, e)[1] = st
<1>1. PICK a, b, v : /\ a = st - contents.in_mem_offset
                     /\ b = e - contents.in_mem_offset /\ v = contents.inner
  OBVIOUS
<1>2. /\ a \in Nat /\ b \in Nat /\ a <= b /\ b <= Len(v) /\ v \in Seq(Nat)
      /\ b - a = e - st /\ contents.in_mem_offset \in Nat
  BY <1>1 DEF CapInv, TypeOK, Vec, EV!SliceInRange, EV!LogicalLen
<1>3. EV!LogicalSlice(contents, st, e) = SubSeq(v, a + 1, b)
  BY <1>1 DEF EV!LogicalSlice
<1>4. /\ SubSeq(v, a + 1, b) \in Seq(Nat) /\ Len(SubSeq(v, a + 1, b)) = b - a
      /\ a < b => SubSeq(v, a + 1, b)[1] = v[a + 1]
  BY <1>2
<1>6. a = st - contents.in_mem_offset /\ (st < e <=> a < b)
  BY <1>1, <1>2
<1>5. a < b => v[a + 1] = contents.in_mem_offset + (a + 1) - 1
  <2>1. a < b => a + 1 \in 1 .. Len(v)
    BY <1>2
  <2> QED
    BY <1>1, <2>1 DEF CapInv, LogInv
<1>7. a < b => v[a + 1] = st
  <2>1. PICK off : off = contents.in_mem_offset
    OBVIOUS
  <2>2. off \in Nat /\ a = st - off
    BY <1>2, <1>6, <2>1
  <2>3. off + (a + 1) - 1 = st
    BY <1>2, <2>2
  <2> QED
    BY <1>5, <2>1, <2>3
<1>8. b - a = e - st
  BY <1>2
<1> QED
  BY <1>3, <1>4, <1>6, <1>7, <1>8

\* get_range_copy returns exchanges with numbers, whatever the range.
LEMMA RangeIsNumbered ==
  ASSUME CapInv, ~down, NEW start \in Bounds, NEW end \in Ends,
         RangeCopy(contents, start, end).some
  PROVE  Collect(RangeCopy(contents, start, end).val) \in SUBSET (Nat \X Nat)
<1>1. PICK r, st : /\ r = RangeCopy(contents, start, end).val
                   /\ st = ClippedStart(contents, start)
  OBVIOUS
<1>2. PICK e : e = EndOf(contents, end)
  OBVIOUS
<1>3. /\ contents.inner \in Seq(Nat) /\ contents.in_mem_offset \in Nat
      /\ Len(contents.inner) \in Nat /\ KeepCount \in Nat /\ start \in Nat
  BY HCAssumption DEF CapInv, TypeOK, Vec, Bounds
<1>4. /\ RangeValid(contents, st, end)
      /\ r.list = EV!LogicalSlice(contents, st, e)
      /\ r.offset = MinimumStart(EV!LogicalLen(contents))
  BY <1>1, <1>2 DEF RangeCopy, Some, None
<1>5. r.offset \in Nat
  BY <1>3, <1>4 DEF EV!LogicalLen, MinimumStart
<1>6. end.some => end.val \in Nat
  BY HCAssumption DEF Ends, Some, None, Bounds
<1>7. EV!SliceInRange(contents, st, e) /\ st \in Nat /\ e \in Nat
  BY <1>1, <1>2, <1>3, <1>4, <1>6, ValidIsInRange
<1>8. r.list \in Seq(Nat)
  BY <1>4, <1>7, SliceElements
<1>9. ASSUME NEW i \in DOMAIN r.list
      PROVE  i - 1 + r.offset \in Nat /\ r.list[i] \in Nat
  BY <1>5, <1>8
<1> QED
  BY <1>1, <1>9 DEF Collect

\* The payload request returns the exchange of that number, or nothing.
LEMMA PayloadHasTheId ==
  ASSUME CapInv, ~down, NEW id \in Nat, PayloadOf(contents, id).some
  PROVE  PayloadOf(contents, id).val = id
<1>1. PICK end, st, e : /\ end = Some(id + 1)
                        /\ st = ClippedStart(contents, id)
                        /\ e = EndOf(contents, end)
  OBVIOUS
<1>2. end.some /\ end.val = id + 1 /\ e = id + 1
  BY <1>1 DEF Some, EndOf
<1>3. /\ RangeCopy(contents, id, end).some
      /\ PayloadOf(contents, id).val = RangeCopy(contents, id, end).val.list[1]
  BY <1>1 DEF PayloadOf, Some, None
<1>4. /\ RangeValid(contents, st, end)
      /\ RangeCopy(contents, id, end).val.list = EV!LogicalSlice(contents, st, e)
  BY <1>1, <1>3 DEF RangeCopy, Some, None
<1>5. EV!SliceInRange(contents, st, e) /\ st \in Nat /\ e \in Nat /\ id <= st
  <2>1. end.some => end.val \in Nat
    BY <1>2
  <2> QED
    BY <1>1, <1>4, <2>1, ValidIsInRange
<1>6. st < id + 1
  BY <1>2, <1>4 DEF RangeValid
<1>7. st = id /\ st < e
  BY <1>2, <1>5, <1>6
<1>8. EV!LogicalSlice(contents, st, e)[1] = st
  BY <1>5, <1>7, SliceElements
<1> QED
  BY <1>3, <1>4, <1>7, <1>8

LEMMA ListInv ==
  ASSUME CapInv, NEW items \in SUBSET (Nat \X Nat), NEW src \in {"all", "range"},
         src = "all" => \A item \in items : item[1] = item[2],
         listing' = [src |-> src, items |-> items],
         UNCHANGED <<contents, pushed, saved, payload, down>>
  PROVE  CapInv'
<1>1. listing' \in Listing /\ listing'.src = src /\ listing'.items = items
  BY DEF Listing
<1>2. TypeOK'
  BY <1>1 DEF CapInv, TypeOK
<1>3. LogInv' /\ RoomInv' /\ PayloadIsListed'
  BY DEF CapInv, LogInv, RoomInv, PayloadIsListed
<1>4. ListedInv'
  BY <1>1 DEF ListedInv
<1> QED
  BY <1>2, <1>3, <1>4 DEF CapInv

LEMMA GetPayloadInv == ASSUME CapInv, GetPayload PROVE CapInv'
<1>1. PICK item \in listing.items :
        payload' = Some([src    |-> listing.src,
                         listed |-> item[2],
                         got    |-> PayloadOf(contents, item[1])])
  BY DEF GetPayload
<1>2. item \in Nat \X Nat
  BY <1>1 DEF CapInv, TypeOK, Listing
<1>3. /\ payload'.val.src = listing.src /\ payload'.val.listed = item[2]
      /\ payload'.val.got = PayloadOf(contents, item[1])
  BY <1>1 DEF Some
<1>4. PayloadIsListed'
  <2> SUFFICES ASSUME payload'.val.src = "all", payload'.val.got.some
               PROVE  payload'.val.got.val = payload'.val.listed
    BY DEF PayloadIsListed
  <2>1. item[1] = item[2] /\ item[1] \in Nat
    BY <1>1, <1>2, <1>3 DEF CapInv, ListedInv
  <2>2. PayloadOf(contents, item[1]).val = item[1]
    BY <1>3, <2>1, PayloadHasTheId DEF GetPayload
  <2> QED
    BY <1>3, <2>1, <2>2
<1> QED
  BY <1>4 DEF GetPayload, CapInv, TypeOK, LogInv, RoomInv, ListedInv

LEMMA DropInv == ASSUME CapInv, Drop PROVE CapInv'
<1>1. PICK v, rows : /\ v = EV!EvictWith(contents, 0)
                     /\ rows = EV!EvictWithOut(contents, 0)
  OBVIOUS
<1>2. /\ contents' = v /\ saved' = saved \o rows /\ down' = TRUE
      /\ UNCHANGED <<pushed, listing, payload>>
  BY <1>1 DEF Drop
<1>3. TypeOK /\ LogInv /\ 0 \in Nat
  BY DEF CapInv
<1>4. /\ v \in Vec /\ saved \o rows \in Seq(Nat)
      /\ v.in_mem_offset = Len(saved \o rows)
      /\ pushed = Len(saved \o rows) + Len(v.inner)
      /\ \A i \in 1 .. Len(saved \o rows) : (saved \o rows)[i] = i - 1
      /\ \A i \in 1 .. Len(v.inner) : v.inner[i] = v.in_mem_offset + i - 1
  BY <1>1, <1>3, EvictInv
<1>5. TypeOK'
  BY <1>2, <1>4 DEF CapInv, TypeOK
<1>6. LogInv'
  BY <1>2, <1>4 DEF LogInv
<1>7. RoomInv' /\ ListedInv' /\ PayloadIsListed'
  BY <1>2 DEF CapInv, RoomInv, ListedInv, PayloadIsListed
<1> QED
  BY <1>5, <1>6, <1>7 DEF CapInv

LEMMA CapStepInv == CapInv /\ [Next]_vars => CapInv'
<1> SUFFICES ASSUME CapInv, [Next]_vars PROVE CapInv'
  OBVIOUS
<1>1. CASE UNCHANGED vars
  BY <1>1 DEF vars, CapInv, TypeOK, LogInv, RoomInv, ListedInv, PayloadIsListed
<1>2. CASE Capture
  BY <1>2, CaptureInv
<1>3. CASE ListAll
  <2>1. PICK items : items = Collect(Copy(contents))
    OBVIOUS
  <2>2. items \in SUBSET (Nat \X Nat) /\ \A item \in items : item[1] = item[2]
    BY <1>3, <2>1, CopyIsNumbered DEF ListAll
  <2>3. /\ listing' = [src |-> "all", items |-> items]
        /\ UNCHANGED <<contents, pushed, saved, payload, down>>
    BY <1>3, <2>1 DEF ListAll
  <2> QED
    BY <2>2, <2>3, ListInv
<1>4. ASSUME NEW start \in Bounds, NEW end \in Ends, ListRange(start, end)
      PROVE  CapInv'
  <2>1. PICK items : items = IF RangeCopy(contents, start, end).some
                             THEN Collect(RangeCopy(contents, start, end).val)
                             ELSE {}
    OBVIOUS
  <2>2. items \in SUBSET (Nat \X Nat)
    BY <1>4, <2>1, RangeIsNumbered DEF ListRange
  <2>3. /\ listing' = [src |-> "range", items |-> items]
        /\ UNCHANGED <<contents, pushed, saved, payload, down>>
    BY <1>4, <2>1 DEF ListRange
  <2> QED
    BY <2>2, <2>3, ListInv
<1>5. CASE GetPayload
  BY <1>5, GetPayloadInv
<1>6. CASE Drop
  BY <1>6, DropInv
<1> QED
  BY <1>1, <1>2, <1>3, <1>4, <1>5, <1>6 DEF Next

\* What the invariant says of the properties.
LEMMA CapInvImplies ==
  ASSUME CapInv PROVE SliceNeverPanics /\ SavedOrInMemory /\ PayloadIsListed
<1>1. SliceNeverPanics
  <2> SUFFICES ASSUME ~down, NEW start \in Bounds, NEW end \in Ends,
                      RangeValid(contents, ClippedStart(contents, start), end)
               PROVE  EV!SliceInRange(contents, ClippedStart(contents, start),
                                      EndOf(contents, end))
    BY DEF SliceNeverPanics
  <2>1. start \in Nat /\ (end.some => end.val \in Nat)
    BY HCAssumption DEF Bounds, Ends, Some, None
  <2> QED
    BY <2>1, ValidIsInRange
<1>2. SavedOrInMemory
  <2>1. PICK s, t : s = saved /\ t = contents.inner
    OBVIOUS
  <2>2. /\ s \in Seq(Nat) /\ t \in Seq(Nat)
        /\ \A i \in 1 .. Len(s) : s[i] = i - 1
        /\ \A i \in 1 .. Len(t) : t[i] = Len(s) + i - 1
        /\ pushed = Len(s) + Len(t)
    BY <2>1 DEF CapInv, TypeOK, Vec, LogInv
  <2>3. /\ s \o t \in Seq(Nat) /\ Len(s \o t) = pushed
        /\ \A i \in 1 .. Len(s \o t) : (s \o t)[i] = i - 1
    BY <2>2, CountsOn
  <2>4. s \o t = [i \in 1 .. pushed |-> i - 1]
    <3>1. PICK w : w = s \o t
      OBVIOUS
    <3>2. /\ w \in Seq(Nat) /\ Len(w) = pushed
          /\ \A i \in 1 .. pushed : w[i] = i - 1
      BY <2>3, <3>1
    <3>3. DOMAIN w = 1 .. pushed /\ w = [i \in DOMAIN w |-> w[i]]
      BY <3>2
    <3>4. w = [i \in 1 .. pushed |-> i - 1]
      BY <3>2, <3>3
    <3> QED
      BY <3>1, <3>4
  <2> QED
    BY <2>1, <2>4 DEF SavedOrInMemory
<1> QED
  BY <1>1, <1>2 DEF CapInv

-------------------------------------------------------------------------------

\* For every keep_count and grace: HttpCapturer's offsets and numbering stay
\* right, so logical_slice never panics, each exchange is in memory or in the
\* database, and a payload is that of the listed exchange.
THEOREM CapturerCorrect ==
  Spec => [](SliceNeverPanics /\ SavedOrInMemory /\ PayloadIsListed)
<1>1. Spec => []CapInv
  BY CapInitInv, CapStepInv, PTL DEF Spec
<1> QED
  BY <1>1, CapInvImplies, PTL

-------------------------------------------------------------------------------
(* The capturer with its database: suffixes, and what a channel holds.       *)

LEMMA SubSeqElements ==
  ASSUME NEW s \in Seq(Nat), NEW a \in Nat, NEW b \in Nat, a <= b, b <= Len(s)
  PROVE  /\ SubSeq(s, a + 1, b) \in Seq(Nat)
         /\ Len(SubSeq(s, a + 1, b)) = b - a
         /\ \A i \in 1 .. b - a : SubSeq(s, a + 1, b)[i] = s[a + i]
<1>1. PICK m : m = a + 1
  OBVIOUS
<1>2. /\ m \in Int /\ b \in Int /\ b - m + 1 = b - a
      /\ \A i \in m .. b : i \in 1 .. Len(s)
  BY <1>1
<1>3. \A i \in m .. b : s[i] \in Nat
  BY <1>2
<1>4. /\ SubSeq(s, m, b) \in Seq(Nat)
      /\ Len(SubSeq(s, m, b)) = IF m <= b THEN b - m + 1 ELSE 0
      /\ \A i \in 1 .. b - m + 1 : SubSeq(s, m, b)[i] = s[m + i - 1]
  BY <1>2, <1>3, SubSeqProperties
<1>5. Len(SubSeq(s, m, b)) = b - a
  BY <1>1, <1>2, <1>4
<1>6. ASSUME NEW i \in 1 .. b - a PROVE SubSeq(s, m, b)[i] = s[a + i]
  <2>1. i \in 1 .. b - m + 1 /\ m + i - 1 = a + i
    BY <1>1, <1>2
  <2> QED
    BY <1>4, <2>1
<1> QED
  BY <1>1, <1>4, <1>5, <1>6

LEMMA SuffixElements ==
  ASSUME NEW s \in Seq(Nat), NEW t \in Seq(Nat)
  PROVE  IsSuffix(s, t) <=>
           /\ Len(s) <= Len(t)
           /\ \A i \in 1 .. Len(s) : s[i] = t[Len(t) - Len(s) + i]
<1>1. PICK n, m : n = Len(s) /\ m = Len(t)
  OBVIOUS
<1>2. n \in Nat /\ m \in Nat
  BY <1>1
<1>3. PICK rs, rt : rs = Reverse(s) /\ rt = Reverse(t)
  OBVIOUS
<1>4. /\ rs = [i \in 1 .. n |-> s[(n - i) + 1]]
      /\ rt = [i \in 1 .. m |-> t[(m - i) + 1]]
  BY <1>1, <1>3 DEF Reverse
<1>5. ASSUME NEW u \in Seq(Nat), NEW k, k = Len(u), NEW i \in 1 .. k
      PROVE  u[(k - i) + 1] \in Nat
  <2>1. (k - i) + 1 \in 1 .. Len(u)
    BY <1>5
  <2> QED
    BY <2>1
<1>6. rs \in Seq(Nat) /\ rt \in Seq(Nat) /\ Len(rs) = n /\ Len(rt) = m
  <2>1. rs \in [1 .. n -> Nat] /\ rt \in [1 .. m -> Nat]
    BY <1>1, <1>4, <1>5
  <2> QED
    BY <1>2, <2>1
<1>7. IsSuffix(s, t) <=> n <= m /\ SubSeq(rs, 1, n) = SubSeq(rt, 1, n)
  BY <1>3, <1>6 DEF IsSuffix, IsPrefix
<1>8. ASSUME n <= m
      PROVE  SubSeq(rs, 1, n) = SubSeq(rt, 1, n)
               <=> \A i \in 1 .. n : s[i] = t[m - n + i]
  <2>1. /\ SubSeq(rs, 1, n) = [i \in 1 .. n |-> rs[i]]
        /\ SubSeq(rt, 1, n) = [i \in 1 .. n |-> rt[i]]
    BY <1>2, <1>6, <1>8
  <2>2. SubSeq(rs, 1, n) = SubSeq(rt, 1, n) <=> \A i \in 1 .. n : rs[i] = rt[i]
    BY <2>1
  <2>3. \A i \in 1 .. n : rs[i] = s[(n - i) + 1] /\ rt[i] = t[(m - i) + 1]
    BY <1>2, <1>4, <1>8
  <2>4. ASSUME \A i \in 1 .. n : rs[i] = rt[i], NEW i \in 1 .. n
        PROVE  s[i] = t[m - n + i]
    <3>1. PICK j : j = (n - i) + 1
      OBVIOUS
    <3>2. j \in 1 .. n /\ (n - j) + 1 = i /\ (m - j) + 1 = m - n + i
      BY <1>2, <3>1
    <3> QED
      BY <2>3, <2>4, <3>2
  <2>5. ASSUME \A i \in 1 .. n : s[i] = t[m - n + i], NEW i \in 1 .. n
        PROVE  rs[i] = rt[i]
    <3>1. PICK j : j = (n - i) + 1
      OBVIOUS
    <3>2. j \in 1 .. n /\ m - n + j = (m - i) + 1
      BY <1>2, <3>1
    <3> QED
      BY <2>3, <2>5, <3>1, <3>2
  <2> QED
    BY <2>2, <2>4, <2>5
<1> QED
  BY <1>1, <1>7, <1>8

\* What is written behind the newest rows keeps them the newest rows, and so
\* does a vacuum to the limit.
LEMMA NewestGrows ==
  ASSUME NEW s \in Seq(Nat), NEW t \in Seq(Nat), NEW b \in Seq(Nat),
         NEW n \in Nat, IsNewestOf(s, t, n)
  PROVE  IsNewestOf(s \o b, t \o b, n)
<1>1. PICK u, w : u = s \o b /\ w = t \o b
  OBVIOUS
<1>2. /\ u \in Seq(Nat) /\ w \in Seq(Nat)
      /\ Len(u) = Len(s) + Len(b) /\ Len(w) = Len(t) + Len(b)
      /\ \A i \in 1 .. Len(u) : u[i] = IF i <= Len(s) THEN s[i] ELSE b[i - Len(s)]
      /\ \A i \in 1 .. Len(w) : w[i] = IF i <= Len(t) THEN t[i] ELSE b[i - Len(t)]
  BY <1>1
<1>3. PICK ls, lt, lb : ls = Len(s) /\ lt = Len(t) /\ lb = Len(b)
  OBVIOUS
<1>4. ls \in Nat /\ lt \in Nat /\ lb \in Nat
  BY <1>3
<1>5. /\ ls <= lt /\ (ls >= lt \/ ls >= n)
      /\ \A i \in 1 .. ls : s[i] = t[lt - ls + i]
  BY <1>3, SuffixElements DEF IsNewestOf
<1>6. ASSUME NEW i \in 1 .. ls + lb PROVE u[i] = w[(lt + lb) - (ls + lb) + i]
  <2>1. PICK j : j = (lt + lb) - (ls + lb) + i
    OBVIOUS
  <2>2. j \in 1 .. lt + lb /\ j = lt - ls + i
    BY <1>4, <1>5, <2>1
  <2>3. CASE i <= ls
    <3>1. i \in 1 .. ls /\ i \in 1 .. Len(u) /\ i <= Len(s)
      BY <1>2, <1>3, <1>4, <2>3
    <3>2. j \in 1 .. Len(w) /\ j <= Len(t)
      BY <1>2, <1>3, <1>4, <2>2, <2>3
    <3>3. u[i] = s[i] /\ w[j] = t[j] /\ s[i] = t[j]
      BY <1>2, <1>5, <2>2, <3>1, <3>2
    <3> QED
      BY <2>1, <3>3
  <2>4. CASE i > ls
    <3>1. j > lt /\ j - lt = i - ls
      BY <1>4, <2>2, <2>4
    <3>2. i \in 1 .. Len(u) /\ ~(i <= Len(s))
      BY <1>2, <1>3, <1>4, <2>4
    <3>3. j \in 1 .. Len(w) /\ ~(j <= Len(t))
      BY <1>2, <1>3, <1>4, <2>2, <3>1
    <3>4. u[i] = b[i - ls] /\ w[j] = b[j - lt]
      BY <1>2, <1>3, <3>2, <3>3
    <3> QED
      BY <2>1, <3>1, <3>4
  <2> QED
    BY <1>4, <2>3, <2>4
<1>7. IsSuffix(u, w)
  <2>1. Len(u) = ls + lb /\ Len(w) = lt + lb /\ Len(u) <= Len(w)
    BY <1>2, <1>3, <1>4, <1>5
  <2> QED
    BY <1>2, <1>6, <2>1, SuffixElements
<1>8. Len(u) >= Len(w) \/ Len(u) >= n
  BY <1>2, <1>3, <1>4, <1>5
<1> QED
  BY <1>1, <1>7, <1>8 DEF IsNewestOf

LEMMA NewestVacuumed ==
  ASSUME NEW s \in Seq(Nat), NEW t \in Seq(Nat), NEW n \in Nat,
         IsNewestOf(s, t, n)
  PROVE  /\ DB!Newest(s, n) \in Seq(Nat)
         /\ IsNewestOf(DB!Newest(s, n), t, n)
<1>1. CASE Len(s) <= n
  BY <1>1 DEF DB!Newest
<1>2. CASE Len(s) > n
  <2>1. PICK u, k : u = DB!Newest(s, n) /\ k = Len(s) - n
    OBVIOUS
  <2>2. PICK ls, lt : ls = Len(s) /\ lt = Len(t)
    OBVIOUS
  <2>3. ls \in Nat /\ lt \in Nat /\ k \in Nat /\ ls = k + n
    BY <1>2, <2>1, <2>2
  <2>4. u = SubSeq(s, k + 1, Len(s))
    BY <1>2, <2>1 DEF DB!Newest
  <2>5. /\ u \in Seq(Nat) /\ Len(u) = n
        /\ \A i \in 1 .. n : u[i] = s[k + i]
    <3>1. k <= ls /\ ls - k = n
      BY <2>3
    <3>2. u = SubSeq(s, k + 1, ls) /\ ls <= Len(s)
      <4>1. u = SubSeq(s, k + 1, ls)
        BY <2>2, <2>4, Zenon
      <4>2. ls <= Len(s)
        BY <2>2, <2>3
      <4> QED
        BY <4>1, <4>2
    <3>3. /\ u \in Seq(Nat) /\ Len(u) = ls - k
          /\ \A i \in 1 .. ls - k : u[i] = s[k + i]
      BY <2>3, <3>1, <3>2, SubSeqElements
    <3> QED
      BY <3>1, <3>3
  <2>6. /\ ls <= lt
        /\ \A i \in 1 .. ls : s[i] = t[lt - ls + i]
    BY <2>2, SuffixElements DEF IsNewestOf
  <2>7. ASSUME NEW i \in 1 .. n PROVE u[i] = t[lt - n + i]
    <3>1. k + i \in 1 .. ls /\ lt - ls + (k + i) = lt - n + i
      BY <2>3
    <3> QED
      BY <2>5, <2>6, <3>1
  <2>8. Len(u) <= Len(t)
    BY <2>2, <2>3, <2>5, <2>6
  <2>9. IsSuffix(u, t)
    BY <2>2, <2>5, <2>7, <2>8, SuffixElements
  <2> QED
    BY <2>1, <2>5, <2>9 DEF IsNewestOf
<1> QED
  BY <1>1, <1>2

LEMMA NewestOfItself ==
  ASSUME NEW t \in Seq(Nat), NEW n \in Nat PROVE IsNewestOf(t, t, n)
<1>1. /\ Len(t) <= Len(t)
      /\ \A i \in 1 .. Len(t) : t[i] = t[Len(t) - Len(t) + i]
  OBVIOUS
<1> QED
  BY <1>1, SuffixElements DEF IsNewestOf

LEMMA SameElements ==
  ASSUME NEW s \in Seq(Nat), NEW t \in Seq(Nat), Len(s) = Len(t),
         \A i \in 1 .. Len(s) : s[i] = t[i]
  PROVE  s = t
  OBVIOUS

LEMMA ConcatInThree ==
  ASSUME NEW x \in Seq(Nat), NEW y \in Seq(Nat), NEW z \in Seq(Nat)
  PROVE  (x \o y) \o z = x \o (y \o z)
  BY ConcatAssociative, Z3

\* Of what is in two parts: a part of the first, and the second.
LEMMA SubSeqOfFirst ==
  ASSUME NEW s \in Seq(Nat), NEW b \in Seq(Nat), NEW a \in Nat, NEW c \in Nat,
         a <= c, c <= Len(s)
  PROVE  SubSeq(s \o b, a + 1, c) = SubSeq(s, a + 1, c)
<1>1. PICK w : w = s \o b
  OBVIOUS
<1>2. /\ w \in Seq(Nat) /\ Len(w) = Len(s) + Len(b)
      /\ \A i \in 1 .. Len(s) : w[i] = s[i]
  BY <1>1
<1>3. c <= Len(w)
  BY <1>2
<1>4. PICK u, v : u = SubSeq(w, a + 1, c) /\ v = SubSeq(s, a + 1, c)
  OBVIOUS
<1>5. /\ u \in Seq(Nat) /\ Len(u) = c - a
      /\ \A i \in 1 .. c - a : u[i] = w[a + i]
  BY <1>2, <1>3, <1>4, SubSeqElements
<1>6. /\ v \in Seq(Nat) /\ Len(v) = c - a
      /\ \A i \in 1 .. c - a : v[i] = s[a + i]
  BY <1>4, SubSeqElements
<1>7. \A i \in 1 .. c - a : a + i \in 1 .. Len(s)
  OBVIOUS
<1>8. u = v
  BY <1>2, <1>5, <1>6, <1>7, SameElements
<1> QED
  BY <1>1, <1>4, <1>8

LEMMA SubSeqOfSecond ==
  ASSUME NEW s \in Seq(Nat), NEW b \in Seq(Nat)
  PROVE  SubSeq(s \o b, Len(s) + 1, Len(s) + Len(b)) = b
<1>1. PICK w, n, m : w = s \o b /\ n = Len(s) /\ m = n + Len(b)
  OBVIOUS
<1>2. /\ w \in Seq(Nat) /\ Len(w) = m /\ n \in Nat /\ m \in Nat /\ n <= m
      /\ m - n = Len(b)
  BY <1>1
<1>3. \A i \in 1 .. Len(b) : w[n + i] = b[i]
  BY <1>1
<1>4. PICK u : u = SubSeq(w, n + 1, m)
  OBVIOUS
<1>5. /\ u \in Seq(Nat) /\ Len(u) = m - n
      /\ \A i \in 1 .. m - n : u[i] = w[n + i]
  BY <1>2, <1>4, SubSeqElements
<1>6. u = b
  BY <1>2, <1>3, <1>5, SameElements
<1> QED
  BY <1>1, <1>4, <1>6

\* A prefix and what follows it, up to a later place, is the longer prefix.
LEMMA PrefixGrows ==
  ASSUME NEW s \in Seq(Nat), NEW n \in Nat, NEW m \in Nat, n <= m, m <= Len(s)
  PROVE  SubSeq(s, 1, n) \o SubSeq(s, n + 1, m) = SubSeq(s, 1, m)
<1>1. PICK p, q, r : /\ p = SubSeq(s, 1, n) /\ q = SubSeq(s, n + 1, m)
                     /\ r = SubSeq(s, 1, m)
  OBVIOUS
<1>2. /\ p = SubSeq(s, 0 + 1, n) /\ r = SubSeq(s, 0 + 1, m)
      /\ 0 <= n /\ 0 <= m /\ n <= Len(s) /\ n - 0 = n /\ m - 0 = m
  BY <1>1
<1>3. /\ p \in Seq(Nat) /\ Len(p) = n - 0
      /\ \A i \in 1 .. n - 0 : p[i] = s[0 + i]
  BY <1>2, SubSeqElements
<1>4. /\ q \in Seq(Nat) /\ Len(q) = m - n
      /\ \A i \in 1 .. m - n : q[i] = s[n + i]
  BY <1>1, SubSeqElements
<1>5. /\ r \in Seq(Nat) /\ Len(r) = m - 0
      /\ \A i \in 1 .. m - 0 : r[i] = s[0 + i]
  BY <1>2, SubSeqElements
<1>6. PICK u : u = p \o q
  OBVIOUS
<1>7. /\ u \in Seq(Nat) /\ Len(u) = m
      /\ \A i \in 1 .. m : u[i] = IF i <= n THEN p[i] ELSE q[i - n]
  BY <1>2, <1>3, <1>4, <1>6
<1>8. ASSUME NEW i \in 1 .. m PROVE u[i] = r[i]
  <2>1. CASE i <= n
    BY <1>2, <1>3, <1>5, <1>7, <2>1
  <2>2. CASE i > n
    <3>1. i - n \in 1 .. m - n /\ n + (i - n) = i
      BY <2>2
    <3>2. q[i - n] = s[n + (i - n)]
      BY <1>4, <3>1
    <3> QED
      BY <1>2, <1>5, <1>7, <2>2, <3>1, <3>2
  <2> QED
    BY <2>1, <2>2
<1>9. u = r
  BY <1>2, <1>5, <1>7, <1>8, SameElements
<1> QED
  BY <1>1, <1>6, <1>9

\* The batches ch are sent from its n-th row on, in order and in pieces; the
\* cuts are the places between them.
Pieces(sent, ch, cut) ==
  \A i \in 1 .. Len(ch) : /\ cut[i - 1] <= cut[i]
                          /\ ch[i] = SubSeq(sent, cut[i - 1] + 1, cut[i])
Chopped(sent, ch, n) ==
  \E cut \in [0 .. Len(ch) -> 0 .. Len(sent)] :
    /\ cut[0] = n /\ cut[Len(ch)] = Len(sent)
    /\ Pieces(sent, ch, cut)

LEMMA ChoppedEmpty ==
  ASSUME NEW sent \in Seq(Nat), NEW n
  PROVE  Chopped(sent, <<>>, n) <=> n = Len(sent)
<1>1. ASSUME n = Len(sent) PROVE Chopped(sent, <<>>, n)
  <2>1. PICK cut : cut = [i \in 0 .. 0 |-> Len(sent)]
    OBVIOUS
  <2>2. cut \in [0 .. Len(<<>>) -> 0 .. Len(sent)] /\ cut[0] = Len(sent)
    BY <2>1
  <2>3. Len(<<>>) = 0 /\ Pieces(sent, <<>>, cut)
    BY DEF Pieces
  <2> QED
    BY <1>1, <2>2, <2>3 DEF Chopped
<1>2. ASSUME Chopped(sent, <<>>, n) PROVE n = Len(sent)
  BY <1>2 DEF Chopped
<1> QED
  BY <1>1, <1>2

\* A batch is sent.
LEMMA ChoppedSend ==
  ASSUME NEW sent \in Seq(Nat), NEW b \in Seq(Nat), NEW ch \in Seq(Seq(Nat)),
         NEW n, Chopped(sent, ch, n)
  PROVE  Chopped(sent \o b, Append(ch, b), n)
<1>1. PICK cut \in [0 .. Len(ch) -> 0 .. Len(sent)] :
        /\ cut[0] = n /\ cut[Len(ch)] = Len(sent) /\ Pieces(sent, ch, cut)
  BY DEF Chopped
<1>2. PICK k, l, s, c : /\ k = Len(ch) /\ l = Len(sent) + Len(b)
                        /\ s = sent \o b /\ c = Append(ch, b)
  OBVIOUS
<1>3. /\ k \in Nat /\ l \in Nat /\ Len(sent) \in Nat /\ Len(sent) <= l
      /\ s \in Seq(Nat) /\ Len(s) = l
  BY <1>2
<1>4. /\ Len(c) = k + 1 /\ c[k + 1] = b
      /\ \A i \in 1 .. k : c[i] = ch[i]
  BY <1>2
<1>5. PICK new : new = [i \in 0 .. k + 1 |-> IF i <= k THEN cut[i] ELSE l]
  OBVIOUS
<1>6. /\ \A i \in 0 .. k : new[i] = cut[i] /\ cut[i] \in 0 .. Len(sent)
      /\ new[k + 1] = l
  <2>1. \A i \in 0 .. k : cut[i] \in 0 .. Len(sent)
    BY <1>1, <1>2
  <2>2. \A i \in 0 .. k : i \in 0 .. k + 1 /\ i <= k
    BY <1>3
  <2>3. k + 1 \in 0 .. k + 1 /\ ~(k + 1 <= k)
    BY <1>3
  <2>4. \A i \in 0 .. k + 1 : new[i] = IF i <= k THEN cut[i] ELSE l
    BY <1>5
  <2>5. new[k + 1] = l
    BY <2>3, <2>4
  <2> QED
    BY <2>1, <2>2, <2>4, <2>5
<1>7. new \in [0 .. Len(c) -> 0 .. Len(s)]
  <2>1. ASSUME NEW i \in 0 .. k + 1
        PROVE  (IF i <= k THEN cut[i] ELSE l) \in 0 .. l
    <3>1. CASE i <= k
      <4>1. i \in 0 .. k
        BY <1>3, <3>1
      <4>2. cut[i] \in 0 .. Len(sent)
        BY <1>6, <4>1
      <4>3. cut[i] \in 0 .. l
        BY <1>3, <4>2
      <4> QED
        BY <3>1, <4>3
    <3>2. CASE ~(i <= k)
      BY <1>3, <3>2
    <3> QED
      BY <3>1, <3>2
  <2>2. new \in [0 .. k + 1 -> 0 .. l]
    BY <1>5, <2>1
  <2> QED
    BY <1>3, <1>4, <2>2
<1>8. new[0] = n /\ new[Len(c)] = Len(s)
  BY <1>1, <1>3, <1>4, <1>6
<1>9. ASSUME NEW i \in 1 .. k + 1
      PROVE  new[i - 1] <= new[i] /\ c[i] = SubSeq(s, new[i - 1] + 1, new[i])
  <2>1. CASE i \in 1 .. k
    <3>1. /\ new[i - 1] = cut[i - 1] /\ new[i] = cut[i] /\ c[i] = ch[i]
          /\ cut[i - 1] \in 0 .. Len(sent) /\ cut[i] \in 0 .. Len(sent)
      BY <1>3, <1>4, <1>6, <2>1
    <3>2. cut[i - 1] <= cut[i] /\ ch[i] = SubSeq(sent, cut[i - 1] + 1, cut[i])
      BY <1>1, <1>2, <2>1 DEF Pieces
    <3>3. SubSeq(s, cut[i - 1] + 1, cut[i]) = SubSeq(sent, cut[i - 1] + 1, cut[i])
      <4>1. PICK x, y : x = cut[i - 1] /\ y = cut[i]
        OBVIOUS
      <4>2. x \in Nat /\ y \in Nat /\ x <= y /\ y <= Len(sent)
        BY <1>3, <3>1, <3>2, <4>1
      <4>3. SubSeq(s, x + 1, y) = SubSeq(sent, x + 1, y)
        BY <1>2, <4>2, SubSeqOfFirst
      <4> QED
        BY <4>1, <4>3
    <3> QED
      BY <3>1, <3>2, <3>3
  <2>2. CASE i = k + 1
    <3>1. new[i - 1] = Len(sent) /\ new[i] = l /\ c[i] = b
      <4>1. i - 1 = k /\ k \in 0 .. k
        BY <1>3, <2>2
      <4> QED
        BY <1>1, <1>2, <1>4, <1>6, <2>2, <4>1
    <3>2. SubSeq(s, Len(sent) + 1, l) = b
      BY <1>2, SubSeqOfSecond
    <3> QED
      BY <1>3, <3>1, <3>2
  <2> QED
    BY <1>3, <2>1, <2>2
<1>10. Pieces(s, c, new)
  BY <1>4, <1>9 DEF Pieces
<1> QED
  BY <1>2, <1>7, <1>8, <1>10 DEF Chopped

\* A batch is received.
LEMMA ChoppedReceive ==
  ASSUME NEW sent \in Seq(Nat), NEW ch \in Seq(Seq(Nat)), NEW n,
         Chopped(sent, ch, n), ch # <<>>
  PROVE  \E m \in 0 .. Len(sent) :
           /\ n \in Nat /\ n <= m
           /\ Head(ch) = SubSeq(sent, n + 1, m)
           /\ Chopped(sent, Tail(ch), m)
<1>1. PICK cut \in [0 .. Len(ch) -> 0 .. Len(sent)] :
        /\ cut[0] = n /\ cut[Len(ch)] = Len(sent) /\ Pieces(sent, ch, cut)
  BY DEF Chopped
<1>2. PICK k, c : k = Len(ch) /\ c = Tail(ch)
  OBVIOUS
<1>3. /\ k \in Nat /\ k > 0 /\ Len(c) = k - 1 /\ Head(ch) = ch[1]
      /\ \A i \in 1 .. k - 1 : c[i] = ch[i + 1]
  BY <1>2
<1>4. PICK new : new = [i \in 0 .. k - 1 |-> cut[i + 1]]
  OBVIOUS
<1>5. /\ \A i \in 0 .. k : cut[i] \in 0 .. Len(sent)
      /\ \A i \in 0 .. k - 1 : i + 1 \in 0 .. k /\ new[i] = cut[i + 1]
  <2>1. \A i \in 0 .. k : cut[i] \in 0 .. Len(sent)
    BY <1>1, <1>2
  <2>2. \A i \in 0 .. k - 1 : i + 1 \in 0 .. k
    BY <1>3
  <2>3. \A i \in 0 .. k - 1 : new[i] = cut[i + 1]
    BY <1>4
  <2> QED
    BY <2>1, <2>2, <2>3
<1>6. new \in [0 .. Len(c) -> 0 .. Len(sent)]
  BY <1>3, <1>4, <1>5
<1>7. new[0] = cut[1] /\ new[Len(c)] = Len(sent)
  <2>1. 0 \in 0 .. k - 1 /\ k - 1 \in 0 .. k - 1 /\ (k - 1) + 1 = k /\ 0 + 1 = 1
    BY <1>3
  <2>2. new[0] = cut[0 + 1] /\ new[k - 1] = cut[(k - 1) + 1]
    BY <1>5, <2>1
  <2> QED
    BY <1>1, <1>2, <1>3, <2>1, <2>2
<1>8. ASSUME NEW i \in 1 .. k - 1
      PROVE  new[i - 1] <= new[i] /\ c[i] = SubSeq(sent, new[i - 1] + 1, new[i])
  <2>1. /\ new[i] = cut[i + 1] /\ new[i - 1] = cut[i] /\ c[i] = ch[i + 1]
    BY <1>3, <1>5
  <2>2. i + 1 \in 1 .. Len(ch) /\ (i + 1) - 1 = i
    BY <1>2, <1>3
  <2>3. /\ cut[(i + 1) - 1] <= cut[i + 1]
        /\ ch[i + 1] = SubSeq(sent, cut[(i + 1) - 1] + 1, cut[i + 1])
    BY <1>1, <2>2 DEF Pieces
  <2> QED
    BY <2>1, <2>2, <2>3
<1>9. Pieces(sent, c, new)
  BY <1>3, <1>8 DEF Pieces
<1>10. Chopped(sent, c, cut[1])
  BY <1>6, <1>7, <1>9 DEF Chopped
<1>11. /\ cut[1] \in 0 .. Len(sent) /\ n \in Nat /\ n <= cut[1]
       /\ ch[1] = SubSeq(sent, n + 1, cut[1])
  <2>1. 1 \in 1 .. Len(ch) /\ 0 \in 0 .. k /\ 1 \in 0 .. k /\ 1 - 1 = 0
    BY <1>2, <1>3
  <2>2. /\ cut[1 - 1] <= cut[1] /\ ch[1] = SubSeq(sent, cut[1 - 1] + 1, cut[1])
    BY <1>1, <2>1 DEF Pieces
  <2>3. cut[1 - 1] = n
    BY <1>1, <2>1
  <2>4. cut[1] \in 0 .. Len(sent) /\ cut[0] \in 0 .. Len(sent)
    BY <1>5, <2>1
  <2>5. n \in Nat
    BY <1>1, <2>4
  <2> QED
    BY <2>2, <2>3, <2>4, <2>5
<1> QED
  BY <1>2, <1>3, <1>10, <1>11

-------------------------------------------------------------------------------
(* The invariant of the composition.                                         *)

Finished(th) == th \in {"ended", "failed"}

\* One table: its rows are the newest of what the process found and the first
\* n rows sent to it, and the channel holds the rest, until the thread ends.
RowsOk(rows, bef, sent, ch, lim, th) ==
  \E n \in 0 .. Len(sent) :
    /\ IsNewestOf(rows, bef \o SubSeq(sent, 1, n), lim)
    /\ ~Finished(th) => Chopped(sent, ch, n)
    /\ th = "ended" => n = Len(sent)

SentRows(t) == IF t = "Intercept" THEN saved ELSE [i \in 1 .. conns |-> i - 1]

FileRec == [exists : BOOLEAN, tables : SUBSET Tables, rows : [Tables -> Seq(Nat)]]

StoreType ==
  /\ file \in FileRec /\ before \in [Tables -> Seq(Nat)]
  /\ chan \in [Tables -> Seq(Seq(Nat))]
  /\ thread \in {"off", "select", "ended", "failed"} \cup Tables
  /\ senders \in SUBSET Holders /\ conns \in Nat

\* The thread drains and ends only when nobody can send any more.
HandleInv ==
  /\ thread = "off" => /\ saved = <<>> /\ conns = 0 /\ ~down
                       /\ file.rows = before /\ chan = DB!NewChan
  /\ thread # "off" /\ "HttpCapturer" \notin senders => down
  /\ thread \in Tables \cup {"ended"} => senders = {}
  /\ thread \in Tables => \A t \in Tables : t # thread => chan[t] = <<>>

RowsInv == \A t \in Tables :
  RowsOk(file.rows[t], before[t], SentRows(t), chan[t], Limit[t], thread)

StoreInv == CapInv /\ StoreType /\ HandleInv /\ RowsInv

LEMMA SentType ==
  ASSUME CapInv, StoreType, NEW t \in Tables
  PROVE  SentRows(t) \in Seq(Nat)
<1>1. saved \in Seq(Nat) /\ conns \in Nat
  BY DEF CapInv, TypeOK, StoreType
<1>2. [i \in 1 .. conns |-> i - 1] \in [1 .. conns -> Nat]
  BY <1>1
<1> QED
  BY <1>1, <1>2 DEF SentRows

\* A table whose process has just started.
LEMMA RowsFresh ==
  ASSUME NEW bef \in Seq(Nat), NEW lim \in Nat, NEW th
  PROVE  RowsOk(bef, bef, <<>>, <<>>, lim, th)
<1>1. bef \o SubSeq(<<>>, 1, 0) = bef
  OBVIOUS
<1>2. IsNewestOf(bef, bef \o SubSeq(<<>>, 1, 0), lim)
  BY <1>1, NewestOfItself
<1>3. <<>> \in Seq(Nat) /\ Len(<<>>) = 0 /\ 0 \in 0 .. Len(<<>>)
  OBVIOUS
<1>4. Chopped(<<>>, <<>>, 0)
  BY <1>3, ChoppedEmpty
<1> QED
  BY <1>2, <1>3, <1>4 DEF RowsOk

\* A batch is sent: to the channel, or to a thread that failed and is ignored.
LEMMA RowsSend ==
  ASSUME NEW rows, NEW bef, NEW sent \in Seq(Nat), NEW b \in Seq(Nat),
         NEW ch \in Seq(Seq(Nat)), NEW lim, NEW th, th # "ended",
         RowsOk(rows, bef, sent, ch, lim, th)
  PROVE  RowsOk(rows, bef, sent \o b, IF Finished(th) THEN ch ELSE Append(ch, b),
                lim, th)
<1>1. PICK n \in 0 .. Len(sent) :
        /\ IsNewestOf(rows, bef \o SubSeq(sent, 1, n), lim)
        /\ ~Finished(th) => Chopped(sent, ch, n)
  BY DEF RowsOk
<1>2. n \in 0 .. Len(sent \o b)
  <2>1. Len(sent \o b) = Len(sent) + Len(b) /\ Len(b) \in Nat /\ Len(sent) \in Nat
    OBVIOUS
  <2> QED
    BY <2>1
<1>3. SubSeq(sent \o b, 1, n) = SubSeq(sent, 1, n)
  <2>1. 0 \in Nat /\ n \in Nat /\ 0 <= n /\ n <= Len(sent)
    OBVIOUS
  <2>2. SubSeq(sent \o b, 0 + 1, n) = SubSeq(sent, 0 + 1, n)
    BY <2>1, SubSeqOfFirst
  <2> QED
    BY <2>2
<1>4. ~Finished(th) => Chopped(sent \o b, Append(ch, b), n)
  BY <1>1, ChoppedSend
<1>5. IsNewestOf(rows, bef \o SubSeq(sent \o b, 1, n), lim)
  BY <1>1, <1>3
<1> QED
  BY <1>2, <1>4, <1>5 DEF RowsOk

\* A batch is received and inserted.
LEMMA RowsInsert ==
  ASSUME NEW rows \in Seq(Nat), NEW bef \in Seq(Nat), NEW sent \in Seq(Nat),
         NEW ch \in Seq(Seq(Nat)), NEW lim \in Nat, NEW th, ~Finished(th),
         ch # <<>>, RowsOk(rows, bef, sent, ch, lim, th)
  PROVE  RowsOk(rows \o Head(ch), bef, sent, Tail(ch), lim, th)
<1>1. PICK n \in 0 .. Len(sent) :
        /\ IsNewestOf(rows, bef \o SubSeq(sent, 1, n), lim)
        /\ Chopped(sent, ch, n)
  BY DEF RowsOk
<1>2. PICK m \in 0 .. Len(sent) :
        /\ n \in Nat /\ n <= m
        /\ Head(ch) = SubSeq(sent, n + 1, m) /\ Chopped(sent, Tail(ch), m)
  BY <1>1, ChoppedReceive
<1>3. PICK w, p, q : /\ w = SubSeq(sent, 1, n) /\ p = SubSeq(sent, n + 1, m)
                     /\ q = SubSeq(sent, 1, m)
  OBVIOUS
<1>4. n \in Nat /\ m \in Nat /\ n <= m /\ m <= Len(sent) /\ n <= Len(sent)
      /\ 0 \in Nat /\ 0 <= n
  BY <1>1, <1>2
<1>5. w \in Seq(Nat)
  <2>1. SubSeq(sent, 0 + 1, n) \in Seq(Nat)
    BY <1>4, SubSeqElements
  <2> QED
    BY <1>3, <2>1
<1>6. p \in Seq(Nat)
  BY <1>3, <1>4, SubSeqElements
<1>7. w \o p = q
  BY <1>3, <1>4, PrefixGrows
<1>8. (bef \o w) \o p = bef \o q
  <2>1. (bef \o w) \o p = bef \o (w \o p)
    BY <1>5, <1>6, ConcatInThree
  <2> QED
    BY <1>7, <2>1, Zenon
<1>9. bef \o w \in Seq(Nat)
  BY <1>5
<1>10. IsNewestOf(rows, bef \o w, lim)
  BY <1>1, <1>3
<1>11. IsNewestOf(rows \o p, (bef \o w) \o p, lim)
  BY <1>6, <1>9, <1>10, NewestGrows
<1>12. IsNewestOf(rows \o Head(ch), bef \o SubSeq(sent, 1, m), lim)
  BY <1>2, <1>3, <1>8, <1>11
<1> QED
  BY <1>2, <1>12 DEF RowsOk, Finished

\* What the thread leaves when it fails, and when it has received everything.
LEMMA RowsFailed ==
  ASSUME NEW rows, NEW bef, NEW sent, NEW ch, NEW lim, NEW th, NEW c,
         RowsOk(rows, bef, sent, ch, lim, th)
  PROVE  RowsOk(rows, bef, sent, c, lim, "failed")
  BY DEF RowsOk, Finished

LEMMA RowsDrained ==
  ASSUME NEW rows, NEW bef, NEW sent \in Seq(Nat), NEW lim, NEW th,
         ~Finished(th), RowsOk(rows, bef, sent, <<>>, lim, th)
  PROVE  RowsOk(rows, bef, sent, <<>>, lim, "ended")
<1>1. PICK n \in 0 .. Len(sent) :
        /\ IsNewestOf(rows, bef \o SubSeq(sent, 1, n), lim)
        /\ Chopped(sent, <<>>, n)
  BY DEF RowsOk
<1>2. n = Len(sent)
  BY <1>1, ChoppedEmpty
<1> QED
  BY <1>1, <1>2 DEF RowsOk, Finished

LEMMA RowsVacuumed ==
  ASSUME NEW rows \in Seq(Nat), NEW bef \in Seq(Nat), NEW sent \in Seq(Nat),
         NEW ch, NEW lim \in Nat, NEW th, RowsOk(rows, bef, sent, ch, lim, th)
  PROVE  /\ DB!Newest(rows, lim) \in Seq(Nat)
         /\ RowsOk(DB!Newest(rows, lim), bef, sent, ch, lim, th)
<1>1. PICK n \in 0 .. Len(sent) :
        /\ IsNewestOf(rows, bef \o SubSeq(sent, 1, n), lim)
        /\ ~Finished(th) => Chopped(sent, ch, n)
        /\ th = "ended" => n = Len(sent)
  BY DEF RowsOk
<1>2. n \in Nat /\ 0 \in Nat /\ 0 <= n /\ n <= Len(sent)
  BY <1>1
<1>3. SubSeq(sent, 0 + 1, n) \in Seq(Nat)
  BY <1>2, SubSeqElements
<1>4. bef \o SubSeq(sent, 1, n) \in Seq(Nat)
  BY <1>3
<1>5. /\ DB!Newest(rows, lim) \in Seq(Nat)
      /\ IsNewestOf(DB!Newest(rows, lim), bef \o SubSeq(sent, 1, n), lim)
  BY <1>1, <1>4, NewestVacuumed
<1> QED
  BY <1>1, <1>5 DEF RowsOk

-------------------------------------------------------------------------------
(* The steps of the composition.                                             *)

LEMMA StoreInitInv == StoreInit => StoreInv
<1> SUFFICES ASSUME StoreInit PROVE StoreInv
  OBVIOUS
<1>1. CapInv
  BY CapInitInv DEF StoreInit
<1>2. /\ file = [exists |-> FALSE, tables |-> {}, rows |-> [t \in Tables |-> <<>>]]
      /\ thread = "off" /\ senders = {} /\ chan = [t \in Tables |-> <<>>]
      /\ conns = 0 /\ before = file.rows /\ saved = <<>> /\ down = FALSE
  BY DEF StoreInit, Init, DB!DBInit, DB!NewChan
<1>3. /\ file.rows = [t \in Tables |-> <<>>] /\ file.rows \in [Tables -> Seq(Nat)]
      /\ chan \in [Tables -> Seq(Seq(Nat))]
  BY <1>2
<1>4. StoreType
  <2>1. file \in FileRec
    BY <1>2, <1>3 DEF FileRec
  <2> QED
    BY <1>2, <1>3, <2>1 DEF StoreType
<1>5. HandleInv
  BY <1>2, StoreAssumption DEF HandleInv, DB!NewChan
<1>6. ASSUME NEW t \in Tables
      PROVE  RowsOk(file.rows[t], before[t], SentRows(t), chan[t], Limit[t], thread)
  <2>1. /\ file.rows[t] = <<>> /\ before[t] = <<>> /\ chan[t] = <<>>
        /\ Limit[t] \in Nat /\ <<>> \in Seq(Nat)
    BY <1>2, <1>3, StoreAssumption
  <2>2. SentRows(t) = <<>>
    BY <1>2 DEF SentRows
  <2> QED
    BY <2>1, <2>2, RowsFresh
<1> QED
  BY <1>1, <1>4, <1>5, <1>6 DEF StoreInv, RowsInv

\* A step of the capturer adds a batch, possibly empty, to what it saved.
LEMMA NextSaves ==
  ASSUME CapInv, Next
  PROVE  /\ ~down
         /\ \E b \in Seq(Nat) : saved' = saved \o b
<1>1. saved \in Seq(Nat) /\ <<>> \in Seq(Nat) /\ saved \o <<>> = saved
      /\ contents \in Vec
  BY DEF CapInv, TypeOK
<1>2. CASE Capture
  <2>1. EvictedRows \in Seq(Nat)
    <3>1. EV!EvictWithOut(contents, KeepCount) \in Seq(Nat)
      BY <1>1, HCAssumption, EvictSplits
    <3> QED
      BY <1>1, <3>1 DEF EvictedRows
  <2> QED
    BY <1>2, <2>1 DEF Capture
<1>3. CASE Drop
  <2>1. EV!EvictWithOut(contents, 0) \in Seq(Nat)
    BY <1>1, EvictSplits
  <2> QED
    BY <1>3, <2>1 DEF Drop
<1>4. CASE ~(Capture \/ Drop)
  BY <1>1, <1>4 DEF Next, ListAll, ListRange, GetPayload
<1> QED
  BY <1>2, <1>3, <1>4

\* A step that sends a batch b to table t, or nothing.
LEMMA SendInv ==
  ASSUME StoreInv, StoreType', NEW t \in Tables, NEW b \in Seq(Nat),
         thread # "ended",
         SentRows(t)' = SentRows(t) \o b,
         \A o \in Tables : o # t => SentRows(o)' = SentRows(o),
         chan' = DB!Sent(chan, t, b) \/ (b = <<>> /\ chan' = chan),
         UNCHANGED <<file, before, thread>>
  PROVE  RowsInv'
<1> SUFFICES ASSUME NEW o \in Tables
             PROVE  RowsOk(file.rows[o], before[o], SentRows(o)', chan'[o],
                           Limit[o], thread)
  BY DEF RowsInv
<1>1. /\ RowsOk(file.rows[o], before[o], SentRows(o), chan[o], Limit[o], thread)
      /\ chan \in [Tables -> Seq(Seq(Nat))] /\ SentRows(o) \in Seq(Nat)
  BY SentType DEF StoreInv, RowsInv, StoreType
<1>2. CASE o # t
  <2>1. chan'[o] = chan[o] /\ SentRows(o)' = SentRows(o)
    BY <1>1, <1>2 DEF DB!Sent
  <2> QED
    BY <1>1, <2>1
<1>3. CASE o = t /\ b = <<>> /\ chan' = chan
  <2>1. SentRows(o)' = SentRows(o)
    BY <1>1, <1>3
  <2> QED
    BY <1>1, <1>3, <2>1
<1>4. CASE o = t /\ chan' = DB!Sent(chan, t, b)
  <2>1. chan'[o] = IF Finished(thread) THEN chan[o] ELSE Append(chan[o], b)
    BY <1>1, <1>4 DEF DB!Sent, Finished
  <2>2. chan[o] \in Seq(Seq(Nat)) /\ SentRows(o)' = SentRows(o) \o b
    BY <1>1, <1>4
  <2>3. RowsOk(file.rows[o], before[o], SentRows(o) \o b,
               IF Finished(thread) THEN chan[o] ELSE Append(chan[o], b),
               Limit[o], thread)
    BY <1>1, <2>2, RowsSend
  <2> QED
    BY <2>1, <2>2, <2>3
<1> QED
  BY <1>2, <1>3, <1>4

LEMMA CapturerStepInv == ASSUME StoreInv, CapturerStep PROVE StoreInv'
<1>1. CapInv /\ Next /\ CapInv'
  BY CapStepInv DEF StoreInv, CapturerStep
<1>2. PICK b \in Seq(Nat) : saved' = saved \o b
  BY <1>1, NextSaves
<1>3. ~down /\ thread # "off" /\ thread # "ended" /\ thread \notin Tables
  <2>1. ~down
    BY <1>1, NextSaves
  <2>2. thread # "off"
    BY DEF CapturerStep
  <2>3. "HttpCapturer" \in senders
    BY <2>1, <2>2 DEF StoreInv, HandleInv
  <2> QED
    BY <2>1, <2>2, <2>3 DEF StoreInv, HandleInv
<1>4. /\ UNCHANGED <<file, before, thread, conns>>
      /\ chan' = IF saved' = saved THEN chan
                 ELSE DB!Sent(chan, "Intercept",
                              SubSeq(saved', Len(saved) + 1, Len(saved')))
      /\ senders' = IF down' THEN senders \ {"HttpCapturer"} ELSE senders
  BY DEF CapturerStep, procvars, Sends
<1>5. saved \in Seq(Nat)
  BY <1>1 DEF CapInv, TypeOK
<1>6. SubSeq(saved', Len(saved) + 1, Len(saved')) = b
  <2>1. Len(saved') = Len(saved) + Len(b)
    BY <1>2, <1>5
  <2> QED
    BY <1>2, <1>5, <2>1, SubSeqOfSecond
<1>7. \/ b = <<>> /\ chan' = chan
      \/ chan' = DB!Sent(chan, "Intercept", b)
  <2>1. saved' = saved => b = <<>>
    <3>1. Len(saved') = Len(saved) + Len(b) /\ Len(b) \in Nat /\ Len(saved) \in Nat
      BY <1>2, <1>5
    <3>2. saved' = saved => Len(b) = 0
      BY <3>1
    <3> QED
      BY <3>2
  <2> QED
    BY <1>4, <1>6, <2>1
<1>8. "Intercept" \in Tables
  BY StoreAssumption
<1>9. StoreType'
  <2>1. chan' \in [Tables -> Seq(Seq(Nat))]
    <3>1. chan \in [Tables -> Seq(Seq(Nat))]
      BY DEF StoreInv, StoreType
    <3>2. chan' \in {chan, [chan EXCEPT !["Intercept"] = Append(@, b)]}
      BY <1>7 DEF DB!Sent
    <3>3. Append(chan["Intercept"], b) \in Seq(Seq(Nat))
      BY <1>8, <3>1
    <3> QED
      BY <1>8, <3>1, <3>2, <3>3
  <2> QED
    BY <1>4, <2>1 DEF StoreInv, StoreType
<1>10. RowsInv'
  <2>1. SentRows("Intercept")' = SentRows("Intercept") \o b
    BY <1>2 DEF SentRows
  <2>2. \A o \in Tables : o # "Intercept" => SentRows(o)' = SentRows(o)
    BY <1>4 DEF SentRows
  <2> QED
    BY <1>3, <1>4, <1>7, <1>8, <1>9, <2>1, <2>2, SendInv
<1>11. HandleInv'
  BY <1>3, <1>4, StoreAssumption DEF StoreInv, HandleInv
<1> QED
  BY <1>1, <1>9, <1>10, <1>11 DEF StoreInv

LEMMA AddConnectionsInv == ASSUME StoreInv, AddConnections PROVE StoreInv'
<1>1. CapInv'
  BY CapStepInv DEF StoreInv, AddConnections
<1>2. /\ thread # "off" /\ "ContextManager" \in senders
      /\ chan' = DB!Sent(chan, "Conn", <<conns>>) /\ conns' = conns + 1
      /\ UNCHANGED <<file, before, thread, senders, saved, down>>
  BY DEF AddConnections, vars
<1>3. thread # "ended" /\ thread \notin Tables
  BY <1>2 DEF StoreInv, HandleInv
<1>4. "Conn" \in Tables /\ conns \in Nat /\ <<conns>> \in Seq(Nat)
  BY StoreAssumption DEF StoreInv, StoreType
<1>5. StoreType'
  <2>1. chan' \in [Tables -> Seq(Seq(Nat))]
    BY <1>2, <1>4 DEF StoreInv, StoreType, DB!Sent
  <2> QED
    <3>1. conns' \in Nat
      BY <1>2, <1>4
    <3> QED
      BY <1>2, <2>1, <3>1 DEF StoreInv, StoreType
<1>6. SentRows("Conn")' = SentRows("Conn") \o <<conns>>
  <2>1. PICK s, n : s = [i \in 1 .. n |-> i - 1] /\ n = conns
    OBVIOUS
  <2>2. n \in Nat /\ s \in Seq(Nat) /\ Len(s) = n /\ \A i \in 1 .. n : s[i] = i - 1
    BY <1>4, <2>1
  <2>3. PICK u, w : u = [i \in 1 .. n + 1 |-> i - 1] /\ w = s \o <<n>>
    OBVIOUS
  <2>4. /\ u \in Seq(Nat) /\ Len(u) = n + 1
        /\ \A i \in 1 .. n + 1 : u[i] = i - 1
    BY <2>2, <2>3
  <2>5. /\ w \in Seq(Nat) /\ Len(w) = n + 1
        /\ w[n + 1] = n /\ \A i \in 1 .. n : w[i] = s[i]
    BY <2>2, <2>3
  <2>6. \A i \in 1 .. n + 1 : u[i] = w[i]
    <3> SUFFICES ASSUME NEW i \in 1 .. n + 1 PROVE u[i] = w[i]
      OBVIOUS
    <3>1. CASE i \in 1 .. n
      BY <2>2, <2>4, <2>5, <3>1
    <3>2. CASE i = n + 1
      <4>1. u[n + 1] = (n + 1) - 1 /\ (n + 1) - 1 = n
        BY <2>2, <2>4
      <4> QED
        BY <2>5, <3>2, <4>1
    <3> QED
      BY <2>2, <3>1, <3>2
  <2>7. u = w
    BY <2>4, <2>5, <2>6, SameElements
  <2>8. SentRows("Conn") = s /\ SentRows("Conn")' = u
    BY <1>2, <2>1, <2>3 DEF SentRows
  <2> QED
    BY <2>1, <2>3, <2>7, <2>8
<1>7. RowsInv'
  <2>1. \A o \in Tables : o # "Conn" => SentRows(o)' = SentRows(o)
    BY <1>2, StoreAssumption DEF SentRows
  <2> QED
    BY <1>2, <1>3, <1>4, <1>5, <1>6, <2>1, SendInv
<1>8. HandleInv'
  BY <1>2, <1>3 DEF StoreInv, HandleInv
<1> QED
  BY <1>1, <1>5, <1>7, <1>8 DEF StoreInv

LEMMA DropContextManagerInv ==
  ASSUME StoreInv, DropContextManager PROVE StoreInv'
<1>1. CapInv'
  BY CapStepInv DEF StoreInv, DropContextManager
<1>2. /\ senders' = senders \ {"ContextManager"}
      /\ UNCHANGED <<file, before, chan, thread, conns, saved, down>>
  BY DEF DropContextManager, vars, procvars
<1>3. StoreType'
  BY <1>2 DEF StoreInv, StoreType
<1>4. HandleInv'
  BY <1>2 DEF StoreInv, HandleInv, DB!NewChan
<1>5. RowsInv'
  BY <1>2 DEF StoreInv, RowsInv, SentRows
<1> QED
  BY <1>1, <1>3, <1>4, <1>5 DEF StoreInv

\* Opening the file and its tables leaves the rows, and starts the thread.
LEMMA OpenInv ==
  ASSUME StoreInv, UNCHANGED <<vars, procvars>>,
         DB!Open \/ DB!Chown \/ DB!CreateDbTable \/ DB!Start
  PROVE  StoreInv'
<1>1. CapInv'
  BY CapStepInv DEF StoreInv
<1>2. UNCHANGED <<before, conns, saved, down>>
  BY DEF vars, procvars
<1>3. file \in FileRec
  BY DEF StoreInv, StoreType
<1>4. file' \in FileRec /\ file'.rows = file.rows
  <2>1. CASE DB!Open
    <3>1. file' \in {file, [file EXCEPT !.exists = TRUE]}
      BY <2>1 DEF DB!Open
    <3> QED
      BY <1>3, <3>1 DEF FileRec
  <2>2. CASE DB!CreateDbTable
    <3>1. DB!Created = <<"Conn", "Intercept">>
      BY DEF DB!Created
    <3> DEFINE left == {i \in DOMAIN DB!Created : DB!Created[i] \notin file.tables}
               next == CHOOSE i \in left : \A j \in left : i <= j
    <3>2. \/ file' = file
          \/ left # {} /\ file' = [file EXCEPT !.tables = @ \cup {DB!Created[next]}]
      BY <2>2 DEF DB!CreateDbTable
    <3>3. CASE file' = file
      BY <1>3, <3>3 DEF FileRec
    <3>4. CASE left # {} /\ file' = [file EXCEPT !.tables = @ \cup {DB!Created[next]}]
      <4>1. left \subseteq {1, 2}
        BY <3>1
      <4>2. \E i \in left : \A j \in left : i <= j
        BY <3>4, <4>1
      <4>3. next \in left
        BY <4>2
      <4> HIDE DEF left, next
      <4>4. DB!Created[next] \in Tables
        BY <3>1, <4>1, <4>3, StoreAssumption
      <4>5. file.tables \cup {DB!Created[next]} \in SUBSET Tables
        BY <1>3, <4>4 DEF FileRec
      <4> QED
        BY <1>3, <3>4, <4>5 DEF FileRec
    <3> QED
      BY <3>2, <3>3, <3>4
  <2>3. CASE DB!Chown \/ DB!Start
    BY <1>3, <2>3 DEF DB!Chown, DB!Start, FileRec
  <2> QED
    BY <2>1, <2>2, <2>3
<1>5. CASE UNCHANGED <<thread, chan, senders>>
  <2>1. StoreType'
    BY <1>2, <1>4, <1>5 DEF StoreInv, StoreType
  <2>2. HandleInv'
    BY <1>2, <1>4, <1>5 DEF StoreInv, HandleInv, DB!NewChan
  <2>3. RowsInv'
    BY <1>2, <1>4, <1>5 DEF StoreInv, RowsInv, SentRows
  <2> QED
    BY <1>1, <2>1, <2>2, <2>3 DEF StoreInv
<1>6. CASE DB!Start
  <2>1. /\ thread = "off" /\ thread' = "select" /\ chan' = [t \in Tables |-> <<>>]
        /\ senders' = Holders /\ UNCHANGED file
    BY <1>6 DEF DB!Start, DB!NewChan
  <2>2. /\ saved = <<>> /\ conns = 0 /\ ~down /\ file.rows = before
        /\ chan = [t \in Tables |-> <<>>]
    BY <2>1 DEF StoreInv, HandleInv, DB!NewChan
  <2>3. StoreType'
    BY <1>2, <1>4, <2>1, <2>2 DEF StoreInv, StoreType
  <2>4. HandleInv'
    BY <2>1, StoreAssumption DEF HandleInv, Holders
  <2>5. RowsInv'
    <3> SUFFICES ASSUME NEW t \in Tables
                 PROVE  RowsOk(file'.rows[t], before'[t], SentRows(t)', chan'[t],
                               Limit[t], thread')
      BY DEF RowsInv
    <3>1. /\ file'.rows[t] = before[t] /\ before'[t] = before[t] /\ chan'[t] = <<>>
          /\ before[t] \in Seq(Nat) /\ Limit[t] \in Nat
      BY <1>2, <2>1, <2>2, StoreAssumption DEF StoreInv, StoreType
    <3>2. SentRows(t)' = <<>>
      BY <1>2, <2>2 DEF SentRows
    <3> QED
      BY <3>1, <3>2, RowsFresh
  <2> QED
    BY <1>1, <2>3, <2>4, <2>5 DEF StoreInv
<1> QED
  BY <1>5, <1>6 DEF DB!Open, DB!Chown, DB!CreateDbTable

\* The thread receives a batch: inserted, or the thread fails.
LEMMA InsertInv ==
  ASSUME StoreInv, UNCHANGED <<vars, procvars>>, NEW t \in Tables, DB!Insert(t)
  PROVE  StoreInv'
<1>1. CapInv'
  BY CapStepInv DEF StoreInv
<1>2. UNCHANGED <<before, conns, saved, down, senders>>
  BY DEF vars, procvars, DB!Insert
<1>3. /\ thread = "select" \/ thread = t
      /\ chan[t] # <<>> /\ chan' = [chan EXCEPT ![t] = Tail(@)]
      /\ \/ /\ file' = [file EXCEPT !.rows[t] = @ \o Head(chan[t])]
            /\ UNCHANGED thread
         \/ thread' = "failed" /\ UNCHANGED file
  BY DEF DB!Insert, DB!Inserted
<1>4. /\ file \in FileRec /\ file.rows \in [Tables -> Seq(Nat)]
      /\ chan \in [Tables -> Seq(Seq(Nat))] /\ before \in [Tables -> Seq(Nat)]
      /\ Limit[t] \in Nat
  BY StoreAssumption DEF StoreInv, StoreType, FileRec
<1>5. /\ chan[t] \in Seq(Seq(Nat)) /\ Tail(chan[t]) \in Seq(Seq(Nat))
      /\ Head(chan[t]) \in Seq(Nat)
  BY <1>3, <1>4
<1>6. /\ chan' \in [Tables -> Seq(Seq(Nat))] /\ chan'[t] = Tail(chan[t])
      /\ \A o \in Tables : o # t => chan'[o] = chan[o]
  BY <1>3, <1>4, <1>5
<1>7. thread # "off" /\ ~Finished(thread)
  BY <1>3, StoreAssumption DEF Finished
<1>8. ASSUME NEW o \in Tables
      PROVE  /\ RowsOk(file.rows[o], before[o], SentRows(o), chan[o], Limit[o], thread)
             /\ SentRows(o)' = SentRows(o) /\ SentRows(o) \in Seq(Nat)
  BY <1>2, SentType DEF StoreInv, RowsInv, SentRows
<1>9. CASE /\ file' = [file EXCEPT !.rows[t] = @ \o Head(chan[t])]
           /\ UNCHANGED thread
  <2>1. PICK r : r = file.rows[t] \o Head(chan[t])
    OBVIOUS
  <2>2. r \in Seq(Nat)
    BY <1>4, <1>5, <2>1
  <2>3. file' = [file EXCEPT !.rows = [file.rows EXCEPT ![t] = r]]
    BY <1>4, <1>9, <2>1 DEF FileRec
  <2>4. [file.rows EXCEPT ![t] = r] \in [Tables -> Seq(Nat)]
    BY <1>4, <2>2
  <2>5. file' \in FileRec /\ file'.rows = [file.rows EXCEPT ![t] = r]
    BY <1>4, <2>3, <2>4 DEF FileRec
  <2>6. file'.rows[t] = r /\ \A o \in Tables : o # t => file'.rows[o] = file.rows[o]
    BY <1>4, <2>5
  <2>7. StoreType'
    BY <1>2, <1>6, <1>9, <2>5 DEF StoreInv, StoreType
  <2>8. HandleInv'
    <3>1. thread \in Tables => thread = t
      BY <1>3, StoreAssumption
    <3> QED
      BY <1>2, <1>6, <1>7, <1>9, <3>1 DEF StoreInv, HandleInv
  <2>9. RowsInv'
    <3> SUFFICES ASSUME NEW o \in Tables
                 PROVE  RowsOk(file'.rows[o], before'[o], SentRows(o)', chan'[o],
                               Limit[o], thread')
      BY DEF RowsInv
    <3>1. CASE o # t
      BY <1>2, <1>6, <1>8, <1>9, <2>6, <3>1
    <3>2. CASE o = t
      <4>1. RowsOk(file.rows[t] \o Head(chan[t]), before[t], SentRows(t),
                   Tail(chan[t]), Limit[t], thread)
        <5>1. /\ RowsOk(file.rows[t], before[t], SentRows(t), chan[t], Limit[t],
                        thread)
              /\ file.rows[t] \in Seq(Nat) /\ before[t] \in Seq(Nat)
              /\ SentRows(t) \in Seq(Nat)
          BY <1>4, <1>8
        <5> QED
          BY <1>3, <1>4, <1>5, <1>7, <5>1, RowsInsert
      <4> QED
        BY <1>2, <1>6, <1>8, <1>9, <2>1, <2>6, <3>2, <4>1
    <3> QED
      BY <3>1, <3>2
  <2> QED
    BY <1>1, <2>7, <2>8, <2>9 DEF StoreInv
<1>10. CASE thread' = "failed" /\ UNCHANGED file
  <2>1. StoreType'
    BY <1>2, <1>6, <1>10 DEF StoreInv, StoreType
  <2>2. HandleInv'
    BY <1>2, <1>7, <1>10, StoreAssumption DEF StoreInv, HandleInv
  <2>3. RowsInv'
    <3> SUFFICES ASSUME NEW o \in Tables
                 PROVE  RowsOk(file'.rows[o], before'[o], SentRows(o)', chan'[o],
                               Limit[o], thread')
      BY DEF RowsInv
    <3>1. RowsOk(file.rows[o], before[o], SentRows(o), chan'[o], Limit[o], "failed")
      BY <1>8, RowsFailed
    <3> QED
      BY <1>2, <1>8, <1>10, <3>1
  <2> QED
    BY <1>1, <2>1, <2>2, <2>3 DEF StoreInv
<1> QED
  BY <1>3, <1>9, <1>10

\* A channel is closed: the other one is drained, and then the thread ends
\* with everything that was sent in the tables.
LEMMA ClosedInv ==
  ASSUME StoreInv, UNCHANGED <<vars, procvars>>, NEW t \in Tables, DB!Closed(t)
  PROVE  StoreInv'
<1>1. CapInv'
  BY CapStepInv DEF StoreInv
<1>2. UNCHANGED <<before, conns, saved, down, senders, file, chan>>
  BY DEF vars, procvars, DB!Closed
<1>3. /\ chan[t] = <<>> /\ senders = {}
      /\ \/ thread = "select" /\ thread' = DB!DrainNext(t)
         \/ thread = t /\ thread' = "ended"
  BY DEF DB!Closed
<1>4. DB!DrainNext(t) \in Tables /\ DB!DrainNext(t) # t
  BY StoreAssumption DEF DB!DrainNext
<1>5. ASSUME NEW o \in Tables
      PROVE  /\ RowsOk(file.rows[o], before[o], SentRows(o), chan[o], Limit[o], thread)
             /\ SentRows(o)' = SentRows(o) /\ SentRows(o) \in Seq(Nat)
  BY <1>2, SentType DEF StoreInv, RowsInv, SentRows
<1>6. StoreType'
  BY <1>2, <1>3, <1>4 DEF StoreInv, StoreType
<1>7. CASE thread = "select" /\ thread' = DB!DrainNext(t)
  <2>1. HandleInv'
    <3>1. \A o \in Tables : o # thread' => o = t
      BY <1>4, <1>7, StoreAssumption
    <3>2. thread' # "off" /\ thread' # "ended" /\ thread' \in Tables
      BY <1>4, <1>7, StoreAssumption
    <3>3. "HttpCapturer" \notin senders' => down'
      BY <1>2, <1>7 DEF StoreInv, HandleInv
    <3> QED
      BY <1>2, <1>3, <3>1, <3>2, <3>3 DEF HandleInv
  <2>2. ~Finished(thread) /\ ~Finished(thread') /\ thread # "ended" /\ thread' # "ended"
    BY <1>4, <1>7, StoreAssumption DEF Finished
  <2>3. RowsInv'
    BY <1>2, <1>5, <2>2 DEF RowsInv, RowsOk
  <2> QED
    BY <1>1, <1>6, <2>1, <2>3 DEF StoreInv
<1>8. CASE thread = t /\ thread' = "ended"
  <2>1. \A o \in Tables : chan[o] = <<>>
    BY <1>3, <1>8 DEF StoreInv, HandleInv
  <2>2. ~Finished(thread) /\ thread # "off"
    BY <1>8, StoreAssumption DEF Finished
  <2>3. HandleInv'
    BY <1>2, <1>3, <1>8, <2>2, StoreAssumption DEF StoreInv, HandleInv
  <2>4. RowsInv'
    <3> SUFFICES ASSUME NEW o \in Tables
                 PROVE  RowsOk(file'.rows[o], before'[o], SentRows(o)', chan'[o],
                               Limit[o], thread')
      BY DEF RowsInv
    <3>1. RowsOk(file.rows[o], before[o], SentRows(o), <<>>, Limit[o], "ended")
      BY <1>5, <2>1, <2>2, RowsDrained
    <3> QED
      BY <1>2, <1>5, <1>8, <2>1, <3>1
  <2> QED
    BY <1>1, <1>6, <2>3, <2>4 DEF StoreInv
<1> QED
  BY <1>3, <1>7, <1>8

LEMMA VacuumInv ==
  ASSUME StoreInv, UNCHANGED <<vars, procvars>>, DB!VacuumOldest
  PROVE  StoreInv'
<1>1. CapInv'
  BY CapStepInv DEF StoreInv
<1>2. UNCHANGED <<before, conns, saved, down, senders, thread, chan>>
  BY DEF vars, procvars, DB!VacuumOldest
<1>3. PICK n \in 1 .. Len(DB!Created) :
        file' = [file EXCEPT !.rows =
                  [t \in Tables |-> IF \E i \in 1 .. n : DB!Created[i] = t
                                    THEN DB!Newest(@[t], Limit[t]) ELSE @[t]]]
  BY DEF DB!VacuumOldest
<1>4. PICK r : r = [t \in Tables |-> IF \E i \in 1 .. n : DB!Created[i] = t
                                     THEN DB!Newest(file.rows[t], Limit[t])
                                     ELSE file.rows[t]]
  OBVIOUS
<1>5. file' = [file EXCEPT !.rows = r]
  BY <1>3, <1>4
<1>6. ASSUME NEW t \in Tables
      PROVE  /\ r[t] \in Seq(Nat)
             /\ RowsOk(r[t], before[t], SentRows(t), chan[t], Limit[t], thread)
             /\ SentRows(t)' = SentRows(t)
  <2>1. /\ RowsOk(file.rows[t], before[t], SentRows(t), chan[t], Limit[t], thread)
        /\ SentRows(t)' = SentRows(t) /\ SentRows(t) \in Seq(Nat)
    BY <1>2, SentType DEF StoreInv, RowsInv, SentRows
  <2>2. file.rows[t] \in Seq(Nat) /\ before[t] \in Seq(Nat) /\ Limit[t] \in Nat
    BY StoreAssumption DEF StoreInv, StoreType, FileRec
  <2>3. /\ DB!Newest(file.rows[t], Limit[t]) \in Seq(Nat)
        /\ RowsOk(DB!Newest(file.rows[t], Limit[t]), before[t], SentRows(t),
                  chan[t], Limit[t], thread)
    BY <2>1, <2>2, RowsVacuumed
  <2>4. r[t] = file.rows[t] \/ r[t] = DB!Newest(file.rows[t], Limit[t])
    BY <1>4
  <2> QED
    BY <2>1, <2>2, <2>3, <2>4
<1>7. r \in [Tables -> Seq(Nat)]
  BY <1>4, <1>6
<1>8. file' \in FileRec /\ file'.rows = r
  BY <1>5, <1>7 DEF StoreInv, StoreType, FileRec
<1>9. StoreType'
  BY <1>2, <1>8 DEF StoreInv, StoreType
<1>10. HandleInv'
  <2>1. thread = "select"
    BY DEF DB!VacuumOldest
  <2> QED
    BY <1>2, <2>1, StoreAssumption DEF StoreInv, HandleInv
<1>11. RowsInv'
  BY <1>2, <1>6, <1>8 DEF RowsInv
<1> QED
  BY <1>1, <1>9, <1>10, <1>11 DEF StoreInv

LEMMA RestartInv == ASSUME StoreInv, Restart PROVE StoreInv'
<1>1. /\ before' = file.rows /\ conns' = 0 /\ saved' = <<>> /\ down' = FALSE
      /\ thread' = "off" /\ chan' = [t \in Tables |-> <<>>] /\ senders' = {}
      /\ UNCHANGED file
  BY DEF Restart, DB!Exit, DB!NewChan
<1>2. CapInv'
  <2>1. Init'
    BY DEF Restart, Init
  <2> QED
    BY <2>1, CapInitInv, PTL
<1>3. StoreType'
  BY <1>1 DEF StoreInv, StoreType, FileRec
<1>4. HandleInv'
  BY <1>1, StoreAssumption DEF HandleInv, DB!NewChan
<1>5. RowsInv'
  <2> SUFFICES ASSUME NEW t \in Tables
               PROVE  RowsOk(file'.rows[t], before'[t], SentRows(t)', chan'[t],
                             Limit[t], thread')
    BY DEF RowsInv
  <2>1. /\ file'.rows[t] = file.rows[t] /\ before'[t] = file.rows[t]
        /\ chan'[t] = <<>> /\ file.rows[t] \in Seq(Nat) /\ Limit[t] \in Nat
    BY <1>1, StoreAssumption DEF StoreInv, StoreType, FileRec
  <2>2. SentRows(t)' = <<>>
    BY <1>1 DEF SentRows
  <2> QED
    BY <2>1, <2>2, RowsFresh
<1> QED
  BY <1>2, <1>3, <1>4, <1>5 DEF StoreInv

LEMMA StoreStepInv == StoreInv /\ [StoreNext]_allvars => StoreInv'
<1> SUFFICES ASSUME StoreInv, [StoreNext]_allvars PROVE StoreInv'
  OBVIOUS
<1>1. CASE UNCHANGED allvars
  <2>1. UNCHANGED <<vars, file, thread, chan, senders, before, conns, saved, down>>
    BY <1>1 DEF allvars, vars, DB!dbvars, procvars
  <2>2. CapInv'
    BY <2>1, CapStepInv DEF StoreInv
  <2>3. StoreType' /\ HandleInv'
    BY <2>1 DEF StoreInv, StoreType, HandleInv, DB!NewChan
  <2>4. RowsInv'
    BY <2>1 DEF StoreInv, RowsInv, SentRows
  <2> QED
    BY <2>2, <2>3, <2>4 DEF StoreInv
<1>2. CASE CapturerStep
  BY <1>2, CapturerStepInv
<1>3. CASE AddConnections
  BY <1>3, AddConnectionsInv
<1>4. CASE DropContextManager
  BY <1>4, DropContextManagerInv
<1>5. CASE DatabaseStep
  BY <1>5, OpenInv, InsertInv, ClosedInv, VacuumInv DEF DatabaseStep
<1>6. CASE Restart
  BY <1>6, RestartInv
<1> QED
  BY <1>1, <1>2, <1>3, <1>4, <1>5, <1>6 DEF StoreNext

-------------------------------------------------------------------------------

\* The inductive invariant of the capturer with its database holds in every
\* reachable state, through any number of restarts.
THEOREM StoreInvariantHolds == StoreSpec => []StoreInv
  BY StoreInitInv, StoreStepInv, PTL DEF StoreSpec

\* get_range_copy's checks are enough for logical_slice: no range panics.
THEOREM NoRangePanics == StoreSpec => []SliceNeverPanics
<1>1. ASSUME StoreInv PROVE SliceNeverPanics
  BY <1>1, CapInvImplies DEF StoreInv
<1> QED
  BY <1>1, StoreInvariantHolds, PTL

\* Each exchange of the running process is in memory or was handed to the
\* database, once, in order of capture.
THEOREM EveryExchangeKept == StoreSpec => []SavedOrInMemory
<1>1. ASSUME StoreInv PROVE SavedOrInMemory
  BY <1>1, CapInvImplies DEF StoreInv
<1> QED
  BY <1>1, StoreInvariantHolds, PTL

\* The payload of an id of /intercept/all is the listed exchange's, whatever
\* was captured and evicted since.
THEOREM PayloadsAreListed == StoreSpec => []PayloadIsListed
<1>1. ASSUME StoreInv PROVE PayloadIsListed
  BY <1>1 DEF StoreInv, CapInv
<1> QED
  BY <1>1, StoreInvariantHolds, PTL

\* The tables of data.sqlite hold the newest of what they held and what the
\* process sent, in order; and all of it when the thread ended by itself.
THEOREM TablesInOrder == StoreSpec => []WrittenInOrder
<1>1. ASSUME StoreInv PROVE WrittenInOrder
  <2> SUFFICES ASSUME NEW t \in Tables
               PROVE  /\ \E n \in 0 .. Len(SentRows(t)) :
                           IsNewestOf(file.rows[t],
                             before[t] \o SubSeq(SentRows(t), 1, n), Limit[t])
                      /\ thread = "ended" =>
                           IsNewestOf(file.rows[t],
                             before[t] \o SubSeq(SentRows(t), 1, Len(SentRows(t))),
                             Limit[t])
    BY DEF WrittenInOrder, SentRows
  <2>1. RowsOk(file.rows[t], before[t], SentRows(t), chan[t], Limit[t], thread)
    BY <1>1 DEF StoreInv, RowsInv
  <2> QED
    BY <2>1 DEF RowsOk
<1> QED
  BY <1>1, StoreInvariantHolds, PTL
===============================================================================
