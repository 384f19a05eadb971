----------------------------- MODULE HttpCapturer -----------------------------
(***************************************************************************)
(* HttpCapturer of src/boltconn/src/proxy/context.rs, the captured HTTP    *)
(* exchanges, and the reads of src/boltconn/src/external/controller.rs     *)
(* that number them for the API.  A captured exchange is represented by    *)
(* its sequence number, so "the id the API reports" can be compared with   *)
(* "the exchange the API returns".  Every operation holds the mutex; what  *)
(* interleaves is the client's listing and its later request by id.        *)
(***************************************************************************)
EXTENDS Integers, Sequences, FiniteSets, SequencesExt

CONSTANTS KeepCount,        \* keep_count (20 in the code)
          Grace,            \* grace_threshold (3 in the code)
          MaxPush           \* bound: how many exchanges are captured

ASSUME HCAssumption == /\ KeepCount \in Nat \ {0} /\ Grace \in Nat
                       /\ MaxPush \in Nat

EV == INSTANCE EvictableVec

VARIABLES contents,         \* the EvictableVec
          pushed,           \* exchanges captured so far (history)
          saved,            \* exchanges sent to the database, in order
          listing,          \* the last listing a client got: id and exchange
          payload,          \* the last payload a client asked for by id
          down              \* the capturer was dropped

vars == <<contents, pushed, saved, listing, payload, down>>

None == [some |-> FALSE]
Some(x) == [some |-> TRUE, val |-> x]

Init == /\ contents = EV!NewVec
        /\ pushed = 0
        /\ saved = <<>>
        /\ listing = [src |-> "none", items |-> {}]
        /\ payload = None
        /\ down = FALSE

-------------------------------------------------------------------------------

\* minimum_start, the oldest index the API may show.
MinimumStart(len) == IF len > KeepCount THEN len - KeepCount ELSE 0

\* get_range_copy: the range is clipped to what may be shown, validated, and
\* returned with the oldest index that may be shown.
ClippedStart(v, start) ==
  LET allowed_start == MinimumStart(EV!LogicalLen(v))
  IN  IF start >= allowed_start THEN start ELSE allowed_start
RangeValidNoEndCheck(v, start, end) ==
  /\ start < EV!LogicalLen(v)
  /\ end.some => start < end.val
RangeValid(v, start, end) ==
  /\ start < EV!LogicalLen(v)
  /\ end.some => end.val <= EV!LogicalLen(v) /\ start < end.val
EndOf(v, end) == IF end.some THEN end.val ELSE EV!LogicalLen(v)
RangeCopy(v, start, end) ==
  LET st == ClippedStart(v, start)
  IN  IF RangeValid(v, st, end)
      THEN Some([list   |-> EV!LogicalSlice(v, st, EndOf(v, end)),
                 offset |-> MinimumStart(EV!LogicalLen(v))])
      ELSE None

\* get_copy
Copy(v) == [list   |-> EV!GetLastN(v, KeepCount),
            offset |-> MinimumStart(EV!LogicalLen(v))]

\* collect_interception: the ids count up from the offset.
Collect(r) == {<<i - 1 + r.offset, r.list[i]>> : i \in DOMAIN r.list}

\* get_intercept_payload
PayloadOf(v, id) ==
  LET r == RangeCopy(v, id, Some(id + 1))
  IN  IF r.some /\ Len(r.val.list) = 1 THEN Some(r.val.list[1]) ELSE None

-------------------------------------------------------------------------------

\* push: evict first, then append.
OverGrace == EV!RealLen(contents) > KeepCount + Grace

EvictedForgettingOffset ==
  IF OverGrace
  THEN [contents EXCEPT !.inner = EV!GetLastN(contents, KeepCount)]
  ELSE contents
Evicted == IF OverGrace THEN EV!EvictWith(contents, KeepCount) ELSE contents

EvictedRowsAll == IF OverGrace THEN contents.inner ELSE <<>>
EvictedRows == IF OverGrace THEN EV!EvictWithOut(contents, KeepCount) ELSE <<>>

Capture == /\ pushed < MaxPush /\ ~down
           /\ contents' = EV!Push(Evicted, pushed)
           /\ saved' = saved \o EvictedRows
           /\ pushed' = pushed + 1
           /\ UNCHANGED <<listing, payload, down>>

\* GET /intercept/all
ListAll == /\ ~down
           /\ listing' = [src |-> "all", items |-> Collect(Copy(contents))]
           /\ UNCHANGED <<contents, pushed, saved, payload, down>>

\* GET /intercept/range
ListRange(start, end) ==
  /\ ~down
  /\ LET r == RangeCopy(contents, start, end)
     IN  listing' = [src |-> "range",
                     items |-> IF r.some THEN Collect(r.val) ELSE {}]
  /\ UNCHANGED <<contents, pushed, saved, payload, down>>

\* GET /intercept/payload/:id, for an id the client was shown.
GetPayload == /\ ~down
              /\ \E item \in listing.items :
                   payload' = Some([src    |-> listing.src,
                                    listed |-> item[2],
                                    got    |-> PayloadOf(contents, item[1])])
              /\ UNCHANGED <<contents, pushed, saved, listing, down>>

\* Drop for HttpCapturerInner: the rest goes to the database.
Drop == /\ ~down
        /\ down' = TRUE
        /\ contents' = EV!EvictWith(contents, 0)
        /\ saved' = saved \o EV!EvictWithOut(contents, 0)
        /\ UNCHANGED <<pushed, listing, payload>>

Bounds == 0 .. MaxPush + 1
Ends == {None} \cup {Some(e) : e \in Bounds}

Next == \/ Capture
        \/ ListAll
        \/ \E start \in Bounds, end \in Ends : ListRange(start, end)
        \/ GetPayload
        \/ Drop

Spec == Init /\ [][Next]_vars

-------------------------------------------------------------------------------
(* Properties *)

\* Every range that passes get_range_copy's checks is in memory: the usize
\* subtractions of logical_slice do not underflow and its slice does not
\* panic (with the mutex held), whatever start and end the API is given.
SliceNeverPanics ==
  ~down => \A start \in Bounds, end \in Ends :
     LET st == ClippedStart(contents, start)
     IN  RangeValid(contents, st, end)
           => EV!SliceInRange(contents, st, EndOf(contents, end))

\* Each captured exchange is in memory or in the database, never in both and
\* never in neither, in the order of capture.
SavedOrInMemory == saved \o contents.inner = [i \in 1 .. pushed |-> i - 1]

\* The payload returned for an id of an /intercept/all listing is that of the
\* listed exchange, also when captures and evictions happened in between.
PayloadIsListed ==
  payload.some /\ payload.val.src = "all" /\ payload.val.got.some
     => payload.val.got.val = payload.val.listed
===============================================================================
