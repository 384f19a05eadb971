---------------------------- MODULE ContextManager ----------------------------
(***************************************************************************)
(* ContextManager of src/boltconn/src/proxy/context.rs: the registry of    *)
(* live and finished connections behind one RwLock, the database log the   *)
(* oldest finished ones are moved to, and the API reads of                 *)
(* src/boltconn/src/external/controller.rs.  A connection's tasks store    *)
(* "done" and then "notify" without the lock (mark_fin), so a push that    *)
(* holds the lock may run between the two stores.  Both stores are         *)
(* Relaxed: another thread may see them in either order.                   *)
(***************************************************************************)
EXTENDS Naturals, Sequences, FiniteSets, SequencesExt

CONSTANTS Conns,            \* the connections the dispatcher creates
          Limits,           \* values of log_limit the API may set
          Grace,            \* grace_threshold
          NoConn            \* nobody holds the write lock

ASSUME CMAssumption == /\ Limits \subseteq Nat /\ Limits # {}
                       /\ Grace \in Nat
                       /\ NoConn \notin Conns

EV == INSTANCE EvictableVec

VARIABLES created,          \* contexts whose tasks run
          registered,       \* contexts inserted by push (history)
          done, notify,     \* the AtomicBools
          marker,           \* which store of mark_fin is still to come
          lock, stage,      \* the writer and where it is inside push
          scan, toRemove,   \* the loop of evict and its to_remove
          active,           \* active_ctx
          inactive,         \* inactive_ctx, an EvictableVec
          log_limit,
          hasDb,            \* db_handle.is_some()
          db,               \* how many rows each has in the database
          freed,            \* contexts evicted with no database
          missed,           \* contexts already done when pushed, or whose done
                            \* was seen after its notify (history)
          reader,           \* one call of get_all_conns
          down              \* the manager was dropped

ctx == <<created, registered, missed>>
atomics == <<done, notify, marker>>
push == <<lock, stage, scan, toRemove>>
store == <<active, inactive, log_limit, hasDb, db, freed>>
vars == <<ctx, atomics, push, store, reader, down>>

Init == /\ created = {} /\ registered = {} /\ missed = {}
        /\ done = [c \in Conns |-> FALSE]
        /\ notify = FALSE
        /\ marker = [c \in Conns |-> "idle"]
        /\ lock = NoConn /\ stage = "free" /\ scan = {} /\ toRemove = {}
        /\ active = {}
        /\ inactive = EV!NewVec
        /\ log_limit \in Limits
        /\ hasDb \in BOOLEAN
        /\ db = [c \in Conns |-> 0] /\ freed = {}
        /\ reader = [at |-> "idle", known |-> {}, list |-> {}]
        /\ down = FALSE

\* alloc_unique_id and ConnContext::new; the tasks of the connection start
\* before it is pushed.
Create(c) == /\ ~down /\ c \notin created
             /\ created' = created \cup {c}
             /\ UNCHANGED <<registered, missed, atomics, push, store, reader, down>>

-------------------------------------------------------------------------------
(* mark_fin(), called by the guards of a connection's tasks and by abort(),*)
(* possibly more than once.                                                *)

StoreDone(c) == /\ c \in created /\ ~down
                /\ marker[c] = "idle"
                /\ done' = [done EXCEPT ![c] = TRUE]
                /\ marker' = [marker EXCEPT ![c] = "notify"]
                /\ UNCHANGED <<notify, ctx, push, store, reader, down>>

StoreNotifyUnlessLocked(c) ==
  /\ marker[c] = "notify" /\ ~down
  /\ notify' = IF lock = NoConn THEN TRUE ELSE notify
  /\ marker' = [marker EXCEPT ![c] = "idle"]
  /\ UNCHANGED <<done, ctx, push, store, reader, down>>

StoreNotify(c) == /\ marker[c] = "notify" /\ ~down
                  /\ notify' = TRUE
                  /\ marker' = [marker EXCEPT ![c] = "idle"]
                  /\ UNCHANGED <<done, ctx, push, store, reader, down>>

\* The two Relaxed stores of mark_fin become visible in the other order.
StoreNotifyFirst(c) == /\ c \in created /\ ~down
                       /\ marker[c] = "idle"
                       /\ notify' = TRUE
                       /\ marker' = [marker EXCEPT ![c] = "done"]
                       /\ UNCHANGED <<done, ctx, push, store, reader, down>>

StoreDoneLast(c) == /\ marker[c] = "done" /\ ~down
                    /\ done' = [done EXCEPT ![c] = TRUE]
                    /\ marker' = [marker EXCEPT ![c] = "idle"]
                    /\ missed' = missed \cup {c}
                    /\ UNCHANGED <<created, registered, notify, push, store, reader,
                                   down>>

-------------------------------------------------------------------------------
(* push(): insert, swap the notify flag, evict(), all under the write lock.*)

PushInsert(c) == /\ c \in created \ registered /\ ~down
                 /\ lock = NoConn
                 /\ lock' = c /\ stage' = "swap"
                 /\ active' = active \cup {c}
                 /\ registered' = registered \cup {c}
                 /\ missed' = IF done[c] THEN missed \cup {c} ELSE missed
                 /\ UNCHANGED <<created, atomics, scan, toRemove, inactive,
                                log_limit, hasDb, db, freed, reader, down>>

PushSwap == /\ stage = "swap"
            /\ notify' = FALSE
            /\ stage' = "scan"
            /\ scan' = IF notify THEN active ELSE {}
            /\ UNCHANGED <<done, marker, ctx, lock, toRemove, store, reader, down>>

ReapableAlways(x) == TRUE
Reapable(x) == done[x]

\* One iteration of the loop over active_ctx.
ScanOne == /\ stage = "scan"
           /\ \E x \in scan :
                /\ scan' = scan \ {x}
                /\ IF Reapable(x)
                   THEN /\ toRemove' = toRemove \cup {x}
                        /\ inactive' = EV!Push(inactive, x)
                   ELSE UNCHANGED <<toRemove, inactive>>
           /\ UNCHANGED <<ctx, atomics, lock, stage, active, log_limit, hasDb,
                          db, freed, reader, down>>

\* add_connections, when there is a database.
SaveRows(cs) ==
  IF hasDb
  THEN db' = [c \in Conns |-> IF c \in cs THEN db[c] + 1 ELSE db[c]] /\ freed' = freed
  ELSE freed' = freed \cup cs /\ db' = db

\* evict_until(|_, left| left > log_limit, ..) once the grace is used up.
TooMany == [i \in DOMAIN inactive.inner |->
              EV!RealLen(inactive) - (i - 1) > log_limit]
OverGrace == EV!RealLen(inactive) > log_limit + Grace

RetainedAll == active
Retained == active \ toRemove

\* retain, then the move to the database, then the lock is released.
PushFinish ==
  /\ stage = "scan" /\ scan = {}
  /\ active' = Retained
  /\ IF OverGrace
     THEN /\ inactive' = EV!EvictUntil(inactive, TooMany)
          /\ SaveRows(ToSet(EV!EvictUntilOut(inactive, TooMany)))
     ELSE UNCHANGED <<inactive, db, freed>>
  /\ toRemove' = {}
  /\ lock' = NoConn /\ stage' = "free"
  /\ UNCHANGED <<ctx, atomics, scan, log_limit, hasDb, reader, down>>

-------------------------------------------------------------------------------
(* The API *)

\* set_conn_log_limit waits for the write lock.
SetLogLimit(n) == /\ lock = NoConn /\ ~down
                  /\ n # log_limit
                  /\ log_limit' = n
                  /\ UNCHANGED <<ctx, atomics, push, active, inactive, hasDb, db,
                                 freed, reader, down>>

\* get_all_conns: get_active_copy, then get_inactive_copy, each under its own
\* read lock, merged by id.
Table(name) == IF name = "active" THEN active ELSE ToSet(inactive.inner)
TableOrderSwapped == <<"inactive", "active">>
TableOrder == <<"active", "inactive">>

ReadFirst == /\ lock = NoConn /\ ~down
             /\ reader.at = "idle"
             /\ reader' = [at |-> "second", known |-> registered,
                           list |-> Table(TableOrder[1])]
             /\ UNCHANGED <<ctx, atomics, push, store, down>>

ReadSecond == /\ lock = NoConn /\ ~down
              /\ reader.at = "second"
              /\ reader' = [reader EXCEPT !.at = "have",
                              !.list = @ \cup Table(TableOrder[2])]
              /\ UNCHANGED <<ctx, atomics, push, store, down>>

ReadAgain == /\ reader.at = "have"
             /\ reader' = [at |-> "idle", known |-> {}, list |-> {}]
             /\ UNCHANGED <<ctx, atomics, push, store, down>>

\* Drop for ContextManagerInner: nobody holds the manager any more; the rest
\* is written to the database, the active ones first.
Drop == /\ lock = NoConn /\ reader.at = "idle" /\ ~down
        /\ down' = TRUE
        /\ SaveRows(active \cup ToSet(EV!EvictWithOut(inactive, 0)))
        /\ inactive' = EV!EvictWith(inactive, 0)
        /\ active' = {}
        /\ UNCHANGED <<ctx, atomics, push, log_limit, hasDb, reader>>

-------------------------------------------------------------------------------

Next == \/ \E c \in Conns : \/ Create(c)
                            \/ StoreDone(c)
                            \/ StoreNotify(c)
                            \/ StoreNotifyFirst(c)
                            \/ StoreDoneLast(c)
                            \/ PushInsert(c)
        \/ PushSwap
        \/ ScanOne
        \/ PushFinish
        \/ \E n \in Limits : SetLogLimit(n)
        \/ ReadFirst
        \/ ReadSecond
        \/ ReadAgain
        \/ Drop

Spec == Init /\ [][Next]_vars

-------------------------------------------------------------------------------
(* Properties *)

\* How often a context is recorded, over memory and database.
Places(c) ==
  (IF c \in active THEN 1 ELSE 0)
  + Cardinality({i \in DOMAIN inactive.inner : inactive.inner[i] = c})
  + db[c]
  + (IF c \in freed THEN 1 ELSE 0)

\* Whenever the lock is free, every context that was pushed is recorded in
\* exactly one place: active, inactive, the database, or freed when there is
\* none.  No interleaving of mark_fin, push, a limit change and shutdown loses
\* a connection or writes it to the database twice.
RecordedOnce ==
  lock = NoConn => \A c \in Conns :
                      Places(c) = IF c \in registered THEN 1 ELSE 0

\* Only finished connections leave the active table while the manager lives.
ReapedOnlyWhenDone ==
  ~down => \A c \in registered \ active : done[c]

\* A finished connection that is still listed as active will be found by the
\* next push: the notify flag is set, or its mark_fin is between its stores.
\* Excepted are the connections that were finished before they were pushed and
\* those whose two stores were seen in the other order.
ReapPending ==
  lock = NoConn =>
     \A c \in active \ missed : done[c] => notify \/ marker[c] # "idle"

\* get_all_conns reads the two tables under two locks, and still misses no
\* connection that was known when it began and that is still in memory when
\* it ends.
SnapshotComplete ==
  reader.at = "have" =>
     \A c \in reader.known :
        c \in active \/ c \in ToSet(inactive.inner) => c \in reader.list
===============================================================================
