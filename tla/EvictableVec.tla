---------------------------- MODULE EvictableVec ----------------------------
(***************************************************************************)
(* EvictableVec<T> of src/boltconn/src/common/evictable_vec.rs: a vector   *)
(* whose old elements are moved out of memory (to the database) while the  *)
(* indices of the others are meant to stay valid.  A vector is a record    *)
(* of in_mem_offset and the elements in memory.                            *)
(***************************************************************************)
EXTENDS Naturals, Sequences

NewVec == [in_mem_offset |-> 0, inner |-> <<>>]

Push(v, x) == [v EXCEPT !.inner = Append(@, x)]

RealLen(v) == Len(v.inner)

LogicalLen(v) == v.in_mem_offset + Len(v.inner)

\* Everything but the last n elements, and the last n elements.
DropLast(s, n) == SubSeq(s, 1, Len(s) - n)
LastN(s, n) == SubSeq(s, Len(s) - n + 1, Len(s))

\* evict_with(left, f): keep the newest `left`, hand the others to f.
EvictWithOut(v, left) ==
  IF Len(v.inner) > left THEN DropLast(v.inner, left) ELSE <<>>
EvictWith(v, left) ==
  IF Len(v.inner) > left
  THEN [in_mem_offset |-> v.in_mem_offset + (Len(v.inner) - left),
        inner |-> LastN(v.inner, left)]
  ELSE v

\* evict_until(pred, f): hand the longest prefix whose elements all satisfy
\* pred(element, elements left) to f.  Here pred[i] is its value for the i-th.
EvictUntilLen(v, pred) ==
  CHOOSE n \in 0 .. Len(v.inner) :
     /\ \A i \in 1 .. n : pred[i]
     /\ n = Len(v.inner) \/ ~pred[n + 1]
EvictUntilOut(v, pred) == SubSeq(v.inner, 1, EvictUntilLen(v, pred))
EvictUntil(v, pred) ==
  [v EXCEPT !.inner = SubSeq(@, EvictUntilLen(v, pred) + 1, Len(@))]

\* get_last_n(n)
GetLastN(v, n) == IF Len(v.inner) <= n THEN v.inner ELSE LastN(v.inner, n)

\* logical_slice(start, end): a subtraction that underflows, or a bound past
\* the end, panics.
SliceInRange(v, start, end) ==
  /\ v.in_mem_offset <= start /\ start <= end /\ end <= LogicalLen(v)
LogicalSlice(v, start, end) ==
  SubSeq(v.inner, start - v.in_mem_offset + 1, end - v.in_mem_offset)
===============================================================================
