---------------------------- MODULE Maintenance ----------------------------
(* What the maintenance scripts promise the people who run commands, with   *)
(* no locks, markers, journals or crashes: the machine runs the Python or   *)
(* the Rust client or is under maintenance; nobody uses the Rust client     *)
(* while maintenance is on; and the saved state, which maintenance may      *)
(* replace piece by piece, is never handed over half replaced.              *)
EXTENDS FiniteSets

CONSTANT User                   \* the Rust commands

VARIABLES mode,                 \* what a command finds: a client, or maintenance
          users,                \* the Rust commands at work
          state                 \* whose saved state it is: "live", "backup" or "mixed"

mVars == <<mode, users, state>>

MInit == mode = "python" /\ users = {} /\ state = "live"

\* Maintenance begins when no Rust command is at work.
Enter ==
  /\ mode # "maintenance" /\ users = {}
  /\ mode' = "maintenance"
  /\ UNCHANGED <<users, state>>

\* A part of the saved state is replaced by its backup, or the last part is.
Replace ==
  /\ mode = "maintenance" /\ state # "backup"
  /\ state' \in {"mixed", "backup"}
  /\ UNCHANGED <<mode, users>>

\* Maintenance ends with a client whose saved state is whole; the state of
\* the Rust client is never the backup.
Leave ==
  /\ mode = "maintenance" /\ state # "mixed"
  /\ mode' \in {"python", "rust"}
  /\ mode' = "rust" => state = "live"
  /\ UNCHANGED <<users, state>>

Join(u) ==
  /\ mode # "maintenance" /\ u \notin users
  /\ users' = users \union {u}
  /\ UNCHANGED <<mode, state>>

Quit(u) ==
  /\ u \in users
  /\ users' = users \ {u}
  /\ UNCHANGED <<mode, state>>

\* The power fails: all commands are gone.
Halt == users # {} /\ users' = {} /\ UNCHANGED <<mode, state>>

MNext ==
  \/ Enter \/ Replace \/ Leave \/ Halt
  \/ \E u \in User : Join(u) \/ Quit(u)

MSpec == MInit /\ [][MNext]_mVars
=============================================================================
