----------------------------- MODULE CaptureStore -----------------------------
(***************************************************************************)
(* HttpCapturer composed with the database its evicted exchanges go to, in *)
(* a process that may be killed and started again.  The other producer of  *)
(* batches, ContextManager, is represented by what it sends.               *)
(***************************************************************************)
EXTENDS HttpCapturer

CONSTANTS Tables, Limit,
          Scenes            \* bounds, as records: whether clients of the API
                            \* read (api), how many batches of connections a
                            \* process sends (conns), and starts of it (starts)

ASSUME StoreAssumption == /\ Tables = {"Conn", "Intercept"}
                          /\ Limit \in [Tables -> Nat]

VARIABLES file, open, thread, chan, senders,
          conns,            \* connection rows sent by this process
          before,           \* the tables as this process found them (history)
          starts,           \* starts of the process (history)
          scene             \* the bounds of this behaviour

Holders == {"ContextManager", "HttpCapturer"}
DB == INSTANCE Database

procvars == <<conns, before, starts, scene>>
allvars == <<vars, DB!dbvars, procvars>>

StoreInit == /\ Init /\ DB!DBInit
             /\ conns = 0 /\ before = file.rows /\ starts = 1 /\ scene \in Scenes

\* HttpCapturer runs once the database is open.  What a step of it saves is
\* sent as one batch; a dropped capturer drops its handle.
Sends == IF saved' = saved THEN chan
         ELSE DB!Sent(chan, "Intercept",
                      SubSeq(saved', Len(saved) + 1, Len(saved')))
CapturerStep ==
  /\ thread # "off"
  /\ Next
  /\ scene.api \/ UNCHANGED <<listing, payload>>
  /\ chan' = Sends
  /\ senders' = IF down' THEN senders \ {"HttpCapturer"} ELSE senders
  /\ UNCHANGED <<file, open, thread, procvars>>

\* ContextManager: batches of finished connections, and its own drop.
AddConnections ==
  /\ thread # "off" /\ "ContextManager" \in senders /\ conns < scene.conns
  /\ chan' = DB!Sent(chan, "Conn", <<conns>>)
  /\ conns' = conns + 1
  /\ UNCHANGED <<vars, file, open, thread, senders, before, starts, scene>>
DropContextManager ==
  /\ senders' = senders \ {"ContextManager"} /\ senders' # senders
  /\ UNCHANGED <<vars, file, open, thread, chan, procvars>>

DatabaseStep ==
  /\ \/ DB!Open \/ DB!Chown \/ DB!CreateDbTable \/ DB!Start
     \/ \E t \in Tables : DB!Insert(t) \/ DB!Closed(t)
     \/ DB!VacuumOldest
  /\ UNCHANGED <<vars, procvars>>

\* The process ends, at any point, and may be started again.
Restart ==
  /\ starts < scene.starts
  /\ starts' = starts + 1
  /\ DB!Exit
  /\ before' = file.rows /\ conns' = 0
  /\ contents' = EV!NewVec /\ pushed' = 0 /\ saved' = <<>>
  /\ listing' = [src |-> "none", items |-> {}]
  /\ payload' = None /\ down' = FALSE
  /\ UNCHANGED scene

StoreNext == CapturerStep \/ AddConnections \/ DropContextManager
             \/ DatabaseStep \/ Restart
StoreSpec == StoreInit /\ [][StoreNext]_allvars

-------------------------------------------------------------------------------

\* s is the end of t and at least n long, if t is.
IsNewestOf(s, t, n) ==
  /\ IsSuffix(s, t)
  /\ Len(s) >= Len(t) \/ Len(s) >= n

\* What a process wrote follows what it found, in the order of capture; rows
\* are missing only from the old end, and then the table is at its limit; and
\* when the thread ended because both producers are gone, everything they sent
\* is in the tables (the drain after the loop of DatabaseHandle::open).
WrittenInOrder ==
  \A t \in Tables :
    LET sent == IF t = "Intercept" THEN saved
                ELSE [i \in 1 .. conns |-> i - 1]
        wrote(n) == before[t] \o SubSeq(sent, 1, n)
    IN  /\ \E n \in 0 .. Len(sent) :
             IsNewestOf(file.rows[t], wrote(n), Limit[t])
        /\ thread = "ended" =>
             IsNewestOf(file.rows[t], wrote(Len(sent)), Limit[t])
===============================================================================
