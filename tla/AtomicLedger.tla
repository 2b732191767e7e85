---------------------------- MODULE AtomicLedger ----------------------------
(***************************************************************************)
(* What the daily spend ledger promises its clients: every operation reads *)
(* and changes the ledger in a single step, or leaves it alone.  There is  *)
(* no lock, no copy and no temporary file here; SpendLedger, which has     *)
(* them, implements this specification.                                    *)
(***************************************************************************)
EXTENDS LedgerEntries

VARIABLES
  file,     \* day -> entry
  durable,  \* what a power loss may bring back
  handle    \* the reservation each client holds

vars == <<file, durable, handle>>

Init ==
  /\ file = EmptyLedger
  /\ durable = EmptyLedger
  /\ handle = [c \in Client |-> None]

\* The new content becomes visible; it may or may not be synced.
Publish(s) ==
  /\ file' = s
  /\ durable' \in {durable, s}

\* A guard is granted once a day, and no grant exceeds the client's budget.
Reserve(c, id, day, amount) ==
  /\ handle[c] = None
  /\ id \in Guard => id \notin DOMAIN file[day].held
  /\ Counting(file[day]) + amount <= Budget[c]
  /\ Publish(WithReservation(file, id, day, amount))
  /\ handle' = [handle EXCEPT ![c] = [id |-> id, day |-> day,
                                      amount |-> amount, state |-> "Pending"]]

Finish(c, commit) ==
  /\ handle[c] # None
  /\ handle[c].state = "Pending"
  /\ handle[c].id \in DOMAIN file[handle[c].day].held
  /\ Publish(Finished(file, handle[c].id, handle[c].day, commit))
  /\ handle' = [handle EXCEPT ![c].state =
                  IF commit THEN "Committed" ELSE "RolledBack"]

\* The handle is dropped or dies with its process; the reservation stays.
Forget(c) ==
  /\ handle[c] # None
  /\ handle' = [handle EXCEPT ![c] = None]
  /\ UNCHANGED <<file, durable>>

Sync ==
  /\ durable' = file
  /\ UNCHANGED <<file, handle>>

PowerLoss ==
  /\ file' \in {file, durable}
  /\ durable' = file'
  /\ handle' = [c \in Client |-> None]

Next ==
  \/ \E c \in Client :
       \/ \E id \in Id, day \in Day, amount \in Sats :
            Reserve(c, id, day, amount)
       \/ \E commit \in BOOLEAN : Finish(c, commit)
       \/ Forget(c)
  \/ Sync
  \/ PowerLoss

Spec == Init /\ [][Next]_vars
=============================================================================
