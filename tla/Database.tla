------------------------------- MODULE Database -------------------------------
(***************************************************************************)
(* DatabaseHandle of src/boltconn/src/external/database.rs: data.sqlite,   *)
(* opened or created at start, and the thread that writes the batches sent *)
(* through two unbounded channels.  The process may be killed at any       *)
(* point; the file stays.  main returns without waiting for the thread, so *)
(* an ordinary exit ends it in the same way.                               *)
(***************************************************************************)
EXTENDS Naturals, Sequences

CONSTANTS Tables,           \* Conn and Intercept
          Holders,          \* who has a clone of the handle, both senders in it
          Limit             \* per table, the rows vacuum_oldest keeps

VARIABLES file,             \* the file: exists, its tables, their rows
          open,             \* where DatabaseHandle::open is
          thread,           \* the writer thread: off, select (both channels),
                            \* the table it drains, ended or failed
          chan,             \* per table: the batches in its channel
          senders           \* the holders whose handle is not dropped

dbvars == <<file, open, thread, chan, senders>>

\* CREATE TABLE, in the order of create_db_table.
Created == <<"Conn", "Intercept">>

NewChan == [t \in Tables |-> <<>>]
DBInit == /\ file = [exists |-> FALSE, tables |-> {},
                     rows |-> [t \in Tables |-> <<>>]]
          /\ open = "closed" /\ thread = "off"
          /\ chan = NewChan /\ senders = {}

-------------------------------------------------------------------------------
(* open                                                                      *)

\* verify: both tables must be there (with the schema of this version).
Verify(tables) == tables = Tables

\* open on a file that exists, or the creation of one.
Open == /\ open = "closed"
        /\ \/ file.exists /\ Verify(file.tables) /\ open' = "opened"
              /\ UNCHANGED file
           \/ file.exists /\ ~Verify(file.tables) /\ open' = "refused"
              /\ UNCHANGED file
           \/ ~file.exists /\ open' = "created"
              /\ file' = [file EXCEPT !.exists = TRUE]
        /\ UNCHANGED <<thread, chan, senders>>

\* chown to the user, then one statement for each table, in no transaction.
Chown == /\ open = "created"
         /\ open' \in {"tables", "refused"}
         /\ UNCHANGED <<file, thread, chan, senders>>

CreateDbTable ==
  /\ open = "tables"
  /\ LET left == {i \in DOMAIN Created : Created[i] \notin file.tables}
         next == CHOOSE i \in left : \A j \in left : i <= j
     IN  IF left = {} THEN open' = "opened" /\ UNCHANGED file
         ELSE /\ file' = [file EXCEPT !.tables = @ \cup {Created[next]}]
              /\ UNCHANGED open
  /\ UNCHANGED <<thread, chan, senders>>

\* The channels and the thread; the handle is cloned for both holders.
Start == /\ open = "opened" /\ thread = "off"
         /\ thread' = "select"
         /\ chan' = NewChan /\ senders' = Holders
         /\ UNCHANGED <<file, open>>

-------------------------------------------------------------------------------
(* add_connections, add_interceptions and the thread.                        *)

\* A send to a thread that has ended is ignored.
Sent(ch, t, batch) ==
  IF thread \in {"ended", "failed"} THEN ch
  ELSE [ch EXCEPT ![t] = Append(@, batch)]

\* insert_connections, insert_interceptions: a transaction.
Inserted(f, t, batch) == [f EXCEPT !.rows[t] = @ \o batch]

\* A batch is received and inserted.  An error ends the thread and loses the
\* batch.
Insert(t) ==
  /\ thread = "select" \/ thread = t
  /\ chan[t] # <<>>
  /\ chan' = [chan EXCEPT ![t] = Tail(@)]
  /\ \/ file' = Inserted(file, t, Head(chan[t])) /\ UNCHANGED thread
     \/ thread' = "failed" /\ UNCHANGED file
  /\ UNCHANGED <<open, senders>>

\* recv returned None: the channel is empty and every handle is dropped.  The
\* other channel is then drained.
DrainSame(t) == t
DrainNext(t) == CHOOSE o \in Tables : o # t
Closed(t) ==
  /\ chan[t] = <<>> /\ senders = {}
  /\ \/ thread = "select" /\ thread' = DrainNext(t)
     \/ thread = t /\ thread' = "ended"
  /\ UNCHANGED <<file, open, chan, senders>>

\* vacuum_oldest, after half an hour without a batch: the newest rows stay;
\* an error on one table leaves it and those after it.
Newest(rows, n) ==
  IF Len(rows) <= n THEN rows ELSE SubSeq(rows, Len(rows) - n + 1, Len(rows))
VacuumOldest ==
  /\ thread = "select"
  /\ \E n \in 1 .. Len(Created) :
       file' = [file EXCEPT !.rows =
                  [t \in Tables |-> IF \E i \in 1 .. n : Created[i] = t
                                    THEN Newest(@[t], Limit[t]) ELSE @[t]]]
  /\ UNCHANGED <<open, thread, chan, senders>>

\* The process ends: what is in the channels is gone, the file stays.
Exit == /\ open' = "closed" /\ thread' = "off" /\ chan' = NewChan
        /\ senders' = {} /\ UNCHANGED file
===============================================================================
