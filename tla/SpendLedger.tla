---------------------------- MODULE SpendLedger ----------------------------
(***************************************************************************)
(* The daily spend ledger of paygate-client, src/src/state/ledger.rs.      *)
(*                                                                         *)
(* One JSON file holds, for each local calendar day, the sats already      *)
(* committed and the reservations still counting against the day's budget. *)
(* Every operation of a client takes an advisory lock on a sibling file,   *)
(* reads the whole ledger, changes its copy, writes it to a temporary file *)
(* and renames that over the ledger.  The lock step and the write step are *)
(* separate actions, so clients interleave wherever the code lets them.    *)
(* The day and the identity of a reservation are fixed before the lock is  *)
(* taken.                                                                  *)
(*                                                                         *)
(* A client is one task using one reservation at a time.  It runs in an    *)
(* operating-system process; when that dies the reservation handle is gone *)
(* and only the file remembers the reservation.                            *)
(***************************************************************************)
EXTENDS LedgerEntries

CONSTANTS
  Reader,     \* the clients that also ask what counts today
  Nobody      \* the lock's owner when it is free

ASSUME ClientAssumption == Nobody \notin Client /\ Reader \subseteq Client

VARIABLES
  file,     \* the ledger as other processes read it: day -> entry
  durable,  \* the ledger known to survive a power loss
  today,    \* local calendar day
  lock,     \* holder of the advisory lock, or Nobody
  pc,       \* "down", "idle", "calling" (before the lock) or "locked"
  boot,     \* how many processes the client has started
  calls,    \* COUNTER of the client's process
  call,     \* the operation in progress
  snap,     \* the ledger a lock holder has read
  handle    \* the client's LedgerReservation

ledgerVars == <<file, durable, today, lock, pc, boot, calls, call, snap,
                handle>>
-----------------------------------------------------------------------------
LedgerInit ==
  /\ file = EmptyLedger
  /\ durable = EmptyLedger
  /\ today = 1
  /\ lock = Nobody
  /\ pc = [c \in Client |-> "down"]
  /\ boot = [c \in Client |-> 0]
  /\ calls = [c \in Client |-> 0]
  /\ call = [c \in Client |-> None]
  /\ snap = [c \in Client |-> EmptyLedger]
  /\ handle = [c \in Client |-> None]

-----------------------------------------------------------------------------
(* Calls: what happens before the lock is taken.                           *)

\* A fresh process of the client: its COUNTER starts at zero again.
Boot(c) ==
  /\ pc[c] = "down"
  /\ boot[c] < Len(PidOf[c])
  /\ pc' = [pc EXCEPT ![c] = "idle"]
  /\ boot' = [boot EXCEPT ![c] = @ + 1]
  /\ calls' = [calls EXCEPT ![c] = 0]
  /\ UNCHANGED <<file, durable, today, lock, call, snap, handle>>

Begin(c, k) ==
  /\ pc[c] = "idle"
  /\ pc' = [pc EXCEPT ![c] = "calling"]
  /\ call' = [call EXCEPT ![c] = k]
  /\ UNCHANGED <<file, durable, today, lock, boot, snap, handle>>

\* reserve: the day is read and COUNTER advanced before the lock.
CallReserve(c, amount) ==
  /\ handle[c] = None
  /\ calls[c] < MaxCalls
  /\ Begin(c, [kind   |-> "reserve",
               id     |-> AnonymousId(PidOf[c][boot[c]], calls[c]),
               day    |-> today,
               amount |-> amount])
  /\ calls' = [calls EXCEPT ![c] = @ + 1]

\* MUTANT of CallReserveGuarded: it reserves against tomorrow.
ReserveGuardedTomorrow(c, guard) ==
  /\ handle[c] = None
  /\ Begin(c, [kind |-> "reserve_guarded", id |-> guard, day |-> today + 1,
               amount |-> Price[guard]])
  /\ UNCHANGED calls

\* reserve_guarded: the day is read and the digest computed before the lock.
CallReserveGuarded(c, guard) ==
  /\ handle[c] = None
  /\ Begin(c, [kind |-> "reserve_guarded", id |-> guard, day |-> today,
               amount |-> Price[guard]])
  /\ UNCHANGED calls

\* commit_classified and rollback_classified of a pending handle.
CallFinish(c, kind) ==
  /\ handle[c] # None
  /\ handle[c].state = "Pending"
  /\ Begin(c, [kind |-> kind, id |-> handle[c].id, day |-> handle[c].day,
               amount |-> handle[c].amount])
  /\ UNCHANGED calls

\* counting_today and spent_on: they change nothing but rewrite the file.
CallQuery(c) ==
  /\ c \in Reader
  /\ Begin(c, [kind |-> "query"])
  /\ UNCHANGED calls

\* The handle goes out of scope: there is no Drop, the reservation stays.
DropHandle(c) ==
  /\ pc[c] = "idle"
  /\ handle[c] # None
  /\ handle' = [handle EXCEPT ![c] = None]
  /\ UNCHANGED <<file, durable, today, lock, pc, boot, calls, call, snap>>
-----------------------------------------------------------------------------
(* The critical section.                                                   *)

\* MUTANT of LockAndRead: the file is read while another client holds the lock.
ReadUnlocked(c) ==
  /\ pc[c] = "calling"
  /\ lock' = c
  /\ pc' = [pc EXCEPT ![c] = "locked"]
  /\ snap' = [snap EXCEPT ![c] = file]
  /\ UNCHANGED <<file, durable, today, boot, calls, call, handle>>

\* The lock is granted and the file read.
LockAndRead(c) ==
  /\ pc[c] = "calling"
  /\ lock = Nobody
  /\ lock' = c
  /\ pc' = [pc EXCEPT ![c] = "locked"]
  /\ snap' = [snap EXCEPT ![c] = file]
  /\ UNCHANGED <<file, durable, today, boot, calls, call, handle>>

\* The directory, the lock file or the ledger cannot be opened or read.
AccessFails(c) ==
  /\ pc[c] = "calling"
  /\ pc' = [pc EXCEPT ![c] = "idle"]
  /\ call' = [call EXCEPT ![c] = None]
  /\ UNCHANGED <<file, durable, today, lock, boot, calls, snap, handle>>

\* The lock is released and the operation returns.
Return(c) ==
  /\ lock' = Nobody
  /\ pc' = [pc EXCEPT ![c] = "idle"]
  /\ call' = [call EXCEPT ![c] = None]
  /\ snap' = [snap EXCEPT ![c] = EmptyLedger]
  /\ UNCHANGED <<today, boot, calls>>

\* MUTANT of Refuse: the early return forgets the lock.
RefuseKeepingLock(c) ==
  /\ pc' = [pc EXCEPT ![c] = "idle"]
  /\ call' = [call EXCEPT ![c] = None]
  /\ snap' = [snap EXCEPT ![c] = EmptyLedger]
  /\ UNCHANGED <<file, durable, today, lock, boot, calls, handle>>

\* The closure refused: nothing is written.
Refuse(c) ==
  /\ Return(c)
  /\ UNCHANGED <<file, durable, handle>>

WriteOutcome ==
  {"AppliedDurably", "AppliedWithDurabilityWarning", "NotApplied"}

\* write_classified: a failure before the rename leaves the file alone; one
\* after it leaves the new content in place without a synced directory.
write_classified(s, outcome) ==
  /\ file' = IF outcome = "NotApplied" THEN file ELSE s
  /\ durable' = IF outcome = "AppliedDurably" THEN s ELSE durable

IsReserve(c) == call[c].kind \in {"reserve", "reserve_guarded"}

\* MUTANT of Duplicate: the wrong operation looks for its id.
DuplicateOfAnonymous(c) ==
  /\ call[c].kind = "reserve"
  /\ call[c].id \in DOMAIN snap[c][call[c].day].held

Duplicate(c) ==
  /\ call[c].kind = "reserve_guarded"
  /\ call[c].id \in DOMAIN snap[c][call[c].day].held

\* MUTANT of Needed: reservations are forgotten, only commits count.
NeededOverCommitted(c) ==
  snap[c][call[c].day].committed + call[c].amount

Needed(c) == Counting(snap[c][call[c].day]) + call[c].amount

ReserveDuplicate(c) ==
  /\ pc[c] = "locked"
  /\ Duplicate(c)
  /\ Refuse(c)

\* checked_add fails.
ReserveOverflow(c) ==
  /\ pc[c] = "locked"
  /\ IsReserve(c) /\ ~Duplicate(c)
  /\ Needed(c) > U64Max
  /\ Refuse(c)

ReserveOverBudget(c) ==
  /\ pc[c] = "locked"
  /\ IsReserve(c) /\ ~Duplicate(c)
  /\ Needed(c) <= U64Max
  /\ Needed(c) > Budget[c]
  /\ Refuse(c)

\* The reservation fits; an unsynced write counts as success.
ReserveWrite(c, outcome) ==
  /\ pc[c] = "locked"
  /\ IsReserve(c) /\ ~Duplicate(c)
  /\ Needed(c) <= Budget[c]
  /\ write_classified(WithReservation(snap[c], call[c].id, call[c].day,
                                      call[c].amount), outcome)
  /\ handle' = [handle EXCEPT ![c] =
                  IF outcome = "NotApplied" THEN @
                  ELSE [id |-> call[c].id, day |-> call[c].day,
                        amount |-> call[c].amount, state |-> "Pending"]]
  /\ Return(c)

IsFinish(c) == call[c].kind \in {"commit", "rollback"}

\* Another client's commit or rollback has removed the same id.
FinishMissing(c) ==
  /\ pc[c] = "locked"
  /\ IsFinish(c)
  /\ call[c].id \notin DOMAIN snap[c][call[c].day].held
  /\ Refuse(c)

FinishWrite(c, outcome) ==
  /\ pc[c] = "locked"
  /\ IsFinish(c)
  /\ call[c].id \in DOMAIN snap[c][call[c].day].held
  /\ write_classified(Finished(snap[c], call[c].id, call[c].day,
                               call[c].kind = "commit"), outcome)
  /\ handle' = [handle EXCEPT ![c].state =
                  IF outcome = "NotApplied" THEN @
                  ELSE IF call[c].kind = "commit" THEN "Committed"
                  ELSE "RolledBack"]
  /\ Return(c)

QueryWrite(c, outcome) ==
  /\ pc[c] = "locked"
  /\ call[c].kind = "query"
  /\ write_classified(snap[c], outcome)
  /\ Return(c)
  /\ UNCHANGED handle
-----------------------------------------------------------------------------
(* The environment.                                                        *)

Midnight ==
  /\ today < LastDay
  /\ today' = today + 1
  /\ UNCHANGED <<file, durable, lock, pc, boot, calls, call, snap, handle>>

\* A client's process dies wherever it is; the system drops its lock.  Death
\* between the rename and the return is the write step followed by this one.
Crash(c) ==
  /\ pc[c] # "down"
  /\ pc' = [pc EXCEPT ![c] = "down"]
  /\ lock' = IF lock = c THEN Nobody ELSE lock
  /\ call' = [call EXCEPT ![c] = None]
  /\ snap' = [snap EXCEPT ![c] = EmptyLedger]
  /\ handle' = [handle EXCEPT ![c] = None]
  /\ UNCHANGED <<file, durable, today, boot, calls>>

\* The machine dies.  A rename whose directory was not synced may be undone.
PowerLoss ==
  /\ file' \in {file, durable}
  /\ durable' = file'
  /\ lock' = Nobody
  /\ pc' = [c \in Client |-> "down"]
  /\ call' = [c \in Client |-> None]
  /\ snap' = [c \in Client |-> EmptyLedger]
  /\ handle' = [c \in Client |-> None]
  /\ UNCHANGED <<today, boot, calls>>
-----------------------------------------------------------------------------
\* The critical section of one client, from the lock to the return.
Section(c) ==
  \/ ReserveDuplicate(c)
  \/ ReserveOverflow(c)
  \/ ReserveOverBudget(c)
  \/ FinishMissing(c)
  \/ \E outcome \in WriteOutcome :
       \/ ReserveWrite(c, outcome)
       \/ FinishWrite(c, outcome)
       \/ QueryWrite(c, outcome)

Calls(c) ==
  \/ \E amount \in Amount : CallReserve(c, amount)
  \/ \E guard \in Guard : CallReserveGuarded(c, guard)
  \/ \E kind \in {"commit", "rollback"} : CallFinish(c, kind)
  \/ CallQuery(c)
  \/ DropHandle(c)

LedgerNext ==
  \/ \E c \in Client :
       \/ Boot(c)
       \/ Calls(c)
       \/ LockAndRead(c)
       \/ AccessFails(c)
       \/ Section(c)
       \/ Crash(c)
  \/ Midnight
  \/ PowerLoss

LedgerSpec == LedgerInit /\ [][LedgerNext]_ledgerVars

\* Nothing inside the critical section waits, so a holder that does not die
\* comes out of it.
LedgerFairness == \A c \in Client : WF_ledgerVars(Section(c))
-----------------------------------------------------------------------------
(* Properties.                                                             *)

Call ==
  {None, [kind |-> "query"]} \cup
  [kind : {"reserve", "reserve_guarded", "commit", "rollback"},
   id : Id, day : Day, amount : Sats]

\* The variables have the types of the code's structures.
TypeOK ==
  /\ IsLedger(file)
  /\ IsLedger(durable)
  /\ today \in Day
  /\ lock \in Client \cup {Nobody}
  /\ pc \in [Client -> {"down", "idle", "calling", "locked"}]
  /\ boot \in [Client -> Nat]
  /\ calls \in [Client -> 0 .. MaxCalls]
  /\ call \in [Client -> Call]
  /\ handle \in [Client -> {None} \cup Reservation]
  /\ DOMAIN snap = Client
  /\ \A c \in Client : boot[c] <= Len(PidOf[c]) /\ IsLedger(snap[c])

\* No day's committed and reserved sats together exceed the daily budget of
\* every client: the check in reserve and reserve_guarded against the ledger
\* as read holds against the ledger as written, in what other processes read
\* and in what a power loss leaves.  (It follows that read never refuses a
\* ledger the program wrote for overflowing u64.)
WithinBudget ==
  \A d \in Day :
    /\ \E c \in Client : Counting(file[d]) <= Budget[c]
    /\ \E c \in Client : Counting(durable[d]) <= Budget[c]

IsPending(c) == handle[c] # None /\ handle[c].state = "Pending"

HoldsGuard(c) == IsPending(c) /\ handle[c].id \in Guard

\* A challenge guard on one day belongs to at most one live client, and while
\* it does the ledger counts exactly that client's amount for it, whatever
\* other clients, crashes and failed writes do in between.
GuardsAreExclusive ==
  \A c \in Client : HoldsGuard(c) =>
    LET h == handle[c] IN
    /\ h.id \in DOMAIN file[h.day].held
    /\ file[h.day].held[h.id] = h.amount
    /\ \A b \in Client \ {c} :
         HoldsGuard(b) => <<handle[b].id, handle[b].day>> # <<h.id, h.day>>

\* What makes the two invariants inductive: a call in progress agrees with the
\* handle it works on, and a lock holder's copy of the ledger is current.
CallsAgree ==
  \A c \in Client :
    /\ pc[c] \in {"down", "idle"} => call[c] = None
    /\ pc[c] # "down" => boot[c] >= 1
    /\ IsReserve(c) => handle[c] = None
    /\ call[c].kind = "reserve" => call[c].id \notin Guard
    /\ call[c].kind = "reserve_guarded" => call[c].id \in Guard
    /\ IsFinish(c) =>
         /\ IsPending(c)
         /\ call[c].id = handle[c].id
         /\ call[c].day = handle[c].day
         /\ call[c].amount = handle[c].amount

CopiesAreCurrent ==
  \A c \in Client : pc[c] = "locked" => lock = c /\ snap[c] = file

LedgerInv ==
  TypeOK /\ CallsAgree /\ CopiesAreCurrent /\ WithinBudget /\ GuardsAreExclusive

Granted(c, d) ==
  handle[c] = None /\ handle'[c] # None /\ handle'[c].day = d

RolledBack(c, d) ==
  /\ IsPending(c) /\ handle[c].day = d
  /\ handle'[c] = [handle[c] EXCEPT !.state = "RolledBack"]

MachineDied == pc' = [c \in Client |-> "down"] /\ file' = durable

\* The step keeps count of every day.
Conserves ==
  \A d \in Day :
    LET before == Counting(file[d])
        after  == Counting(file'[d])
    IN  /\ \A c \in Client :
             /\ Granted(c, d) => after = before + handle'[c].amount
             /\ RolledBack(c, d) => after = before - handle[c].amount
        /\ \/ after = before
           \/ \E c \in Client : Granted(c, d) \/ RolledBack(c, d)
           \/ MachineDied

\* What counts against a day grows by exactly the amount of a reservation that
\* is granted, shrinks by exactly the amount of the reservation its own client
\* rolls back, and is changed by nothing else short of a power loss: a
\* reservation whose client died stays counted.
CountingConserved == [][Conserves]_ledgerVars

\* The lock is never held for ever, also when its holder dies.
LockIsReleased == \A c \in Client : lock = c ~> lock # c

\* Lock, read, write, rename and crash together implement operations that
\* read and change the ledger in one step.
Atomic == INSTANCE AtomicLedger WITH
  file <- file, durable <- durable, handle <- handle

AtomicSpec == Atomic!Spec
=============================================================================
