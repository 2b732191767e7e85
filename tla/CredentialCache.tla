-------------------------- MODULE CredentialCache --------------------------
(***************************************************************************)
(* The credential cache of paygate-client, src/src/state/cache.rs, over    *)
(* the secret stores of src/src/state/keyring.rs.                          *)
(*                                                                         *)
(* A metadata file lists the credentials of one profile.  Their bearer     *)
(* secrets live in the keyring of the operating system, or, when there is  *)
(* no keyring, in a second file that is rewritten in place; a credential   *)
(* of an older cache may still carry its secret inline.  Every operation   *)
(* holds a lock file from its first read to its last write.  What another  *)
(* process cannot see, a crash or a change of the keyring can still        *)
(* separate: the reads of the secrets, each write of a secret and the      *)
(* rename that publishes new metadata are steps of their own.              *)
(*                                                                         *)
(* All credentials match the scope of the requests that are made.  Their   *)
(* order in the file and their expiry are left out: a claim takes any      *)
(* usable one.                                                             *)
(***************************************************************************)
EXTENDS Naturals, FiniteSets

CONSTANTS
  Process,    \* command-line processes that share the cache
  Credential, \* ids; a credential's secret is known by its id
  MaxUses,    \* MaxUses[c]: maxUses of c, or Unlimited
  Unlimited,
  Cached,     \* credentials of an older cache, with inline secrets
  Nobody      \* the lock's owner when it is free

ASSUME CacheAssumption ==
  /\ Nobody \notin Process
  /\ MaxUses \in [Credential -> Nat \cup {Unlimited}] /\ Unlimited \notin Nat
  /\ Cached \subseteq Credential
  \* What is paid for may be used: once, or until it expires (request.rs).
  /\ \A c \in Credential \ Cached : MaxUses[c] # 0

VARIABLES
  meta,     \* the metadata file: id -> entry
  stable,   \* the metadata a power loss leaves, if the last rename is undone
  ring,     \* the OS keyring: "up", "locked" (it fails) or "absent"
  primary,  \* ids whose secret is in the OS keyring
  fallback, \* ids whose secret is in the fallback file
  shape,    \* the fallback file: "sound", "empty" or "partial" JSON
  torn,     \* history: a failed write emptied the fallback file once
  lock,     \* holder of the lock file
  pc,       \* "down", "idle", "calling", "reading", "erasing" or "storing"
  op,       \* the operation in progress
  snap,     \* the entries the lock holder works on
  todo,     \* the secrets it still has to erase or to store
  reply     \* what the process's last operation returned

file == <<fallback, shape, torn>>
secrets == <<primary, file>>
store == <<meta, stable, secrets>>
cacheVars == <<store, ring, lock, pc, op, snap, todo, reply>>

NoEntries == [c \in {} |-> 0]
NoOp == [kind |-> "none"]
Error == [kind |-> "error"]
Ok == [kind |-> "ok"]

CacheInit ==
  /\ meta = [c \in Cached |-> [uses |-> 0, rejected |-> FALSE,
                               inline |-> TRUE]]
  /\ stable = meta
  /\ ring \in {"up", "absent"}
  /\ primary = {} /\ fallback = {} /\ shape = "sound" /\ torn = FALSE
  /\ lock = Nobody
  /\ pc = [p \in Process |-> "down"]
  /\ op = [p \in Process |-> NoOp]
  /\ snap = [p \in Process |-> NoEntries]
  /\ todo = [p \in Process |-> {}]
  /\ reply = [p \in Process |-> NoOp]
-----------------------------------------------------------------------------
(* The secret stores.                                                      *)

\* FallbackCoordinator::get finds c's secret.  A keyring that works and has
\* no entry is not asked twice: the fallback file is not looked at.
Readable(c) ==
  \/ ring = "up" /\ c \in primary
  \/ ring = "absent" /\ shape = "sound" /\ c \in fallback

\* write_schema: the file is truncated and written in place.  A failure on the
\* way leaves it empty or in part, one of the last calls leaves it written.
Rewrite(held, ok) ==
  \/ fallback' = held /\ shape' = "sound" /\ UNCHANGED torn
  \/ ~ok /\ fallback' = {} /\ shape' \in {"empty", "partial"} /\ torn' = TRUE

\* Mode0600FallbackStore::put starts over from an empty file.
FallbackPut(c, ok) ==
  \/ /\ shape # "partial"
     /\ Rewrite(fallback \cup {c}, ok)
  \/ ~ok /\ UNCHANGED file

\* Mode0600FallbackStore::delete does not write when there is nothing to
\* delete, and refuses a file it cannot parse.
FallbackDelete(c, ok) ==
  \/ shape = "sound" /\ c \in fallback /\ Rewrite(fallback \ {c}, ok)
  \/ ok /\ shape = "sound" /\ c \notin fallback /\ UNCHANGED file
  \/ ~ok /\ UNCHANGED file

\* FallbackCoordinator::put: only a missing keyring selects the fallback.
StorePut(c, ok) ==
  \/ ring = "up" /\ ok /\ primary' = primary \cup {c}
     /\ UNCHANGED file
  \/ ring = "absent" /\ FallbackPut(c, ok) /\ UNCHANGED primary
  \/ ring = "locked" /\ ~ok /\ UNCHANGED secrets

\* FallbackCoordinator::delete: both places, if the keyring answers.
StoreDelete(c, ok) ==
  \/ ring = "up" /\ primary' = primary \ {c} /\ FallbackDelete(c, ok)
  \/ ring = "absent" /\ FallbackDelete(c, ok) /\ UNCHANGED primary
  \/ ring = "locked" /\ ~ok /\ UNCHANGED secrets
-----------------------------------------------------------------------------
(* Calls, the lock and the return.                                         *)

Usable(c, e) ==
  /\ MaxUses[c] = Unlimited \/ e.uses < MaxUses[c]
  /\ ~e.rejected

Call(p, k) ==
  /\ pc[p] = "idle"
  /\ pc' = [pc EXCEPT ![p] = "calling"]
  /\ op' = [op EXCEPT ![p] = k]
  /\ UNCHANGED <<store, ring, lock, snap, todo, reply>>

\* MUTANT of LockAndRead: the lock is not waited for.
ReadUnlocked(p) ==
  /\ pc[p] = "calling"
  /\ lock' = p
  /\ pc' = [pc EXCEPT ![p] = "reading"]
  /\ snap' = [snap EXCEPT ![p] = meta]
  /\ UNCHANGED <<store, ring, op, todo, reply>>

LockAndRead(p) ==
  /\ pc[p] = "calling"
  /\ lock = Nobody
  /\ lock' = p
  /\ pc' = [pc EXCEPT ![p] = "reading"]
  /\ snap' = [snap EXCEPT ![p] = meta]
  /\ UNCHANGED <<store, ring, op, todo, reply>>

\* The lock file or the metadata cannot be opened, is unsafe or corrupt.
AccessFails(p) ==
  /\ pc[p] = "calling"
  /\ pc' = [pc EXCEPT ![p] = "idle"]
  /\ op' = [op EXCEPT ![p] = NoOp]
  /\ reply' = [reply EXCEPT ![p] = Error]
  /\ UNCHANGED <<store, ring, lock, snap, todo>>

\* MUTANT of Return: the lock is forgotten.
ReturnLocked(p, answer) ==
  /\ pc' = [pc EXCEPT ![p] = "idle"]
  /\ op' = [op EXCEPT ![p] = NoOp]
  /\ snap' = [snap EXCEPT ![p] = NoEntries]
  /\ todo' = [todo EXCEPT ![p] = {}]
  /\ reply' = [reply EXCEPT ![p] = answer]
  /\ UNCHANGED <<ring, lock>>

\* The lock is released and the operation answers.
Return(p, answer) ==
  /\ lock' = Nobody
  /\ pc' = [pc EXCEPT ![p] = "idle"]
  /\ op' = [op EXCEPT ![p] = NoOp]
  /\ snap' = [snap EXCEPT ![p] = NoEntries]
  /\ todo' = [todo EXCEPT ![p] = {}]
  /\ reply' = [reply EXCEPT ![p] = answer]
  /\ UNCHANGED ring

Outcome == {"Applied", "Unsynced", "NotApplied"}

\* MUTANT of Publish: a failed sync of the directory is ignored.
PublishUnsynced(p, entries, outcome, answer) ==
  /\ meta' = IF outcome = "NotApplied" THEN meta ELSE entries
  /\ stable' = IF outcome = "Applied" THEN entries ELSE stable
  /\ Return(p, IF outcome = "NotApplied" THEN Error ELSE answer)
  /\ UNCHANGED secrets

\* atomic_write: an error after the rename reports failure though the new
\* metadata is in place; a power loss may still undo the rename.
Publish(p, entries, outcome, answer) ==
  /\ meta' = IF outcome = "NotApplied" THEN meta ELSE entries
  /\ stable' = IF outcome = "Applied" THEN entries ELSE stable
  /\ Return(p, IF outcome = "Applied" THEN answer ELSE Error)
  /\ UNCHANGED secrets
-----------------------------------------------------------------------------
(* claim_scoped_fail_closed.                                               *)

Claimable(p) == {c \in DOMAIN snap[p] : Usable(c, snap[p][c])}

ClaimMisses(p) ==
  /\ pc[p] = "reading" /\ op[p].kind = "claim"
  /\ Claimable(p) = {}
  /\ Return(p, Ok)
  /\ UNCHANGED store

\* A matching credential whose secret cannot be read fails the lookup.
ClaimFails(p) ==
  /\ pc[p] = "reading" /\ op[p].kind = "claim"
  /\ \E c \in Claimable(p) : ~snap[p][c].inline /\ ~Readable(c)
  /\ Return(p, Error)
  /\ UNCHANGED store

\* MUTANT of Consumed: the use is not written down.
NotConsumed(entries, c) == entries

\* One use more.
Consumed(entries, c) == [entries EXCEPT ![c].uses = @ + 1]

\* The use is on disk before the bearer value is returned.
ClaimWrite(p, c, outcome) ==
  /\ pc[p] = "reading" /\ op[p].kind = "claim"
  /\ c \in Claimable(p)
  /\ snap[p][c].inline \/ Readable(c)
  /\ Publish(p, Consumed(snap[p], c), outcome, [kind |-> "hit", id |-> c])
-----------------------------------------------------------------------------
(* put, mark_success, mark_rejected and delete.                            *)

Keep(entries, ids) == [c \in DOMAIN entries \cap ids |-> entries[c]]

\* load drops every entry whose secret it does not get.
Loaded(p) ==
  Keep(snap[p], {c \in DOMAIN snap[p] : snap[p][c].inline \/ Readable(c)})

WithNew(entries, c, uses) ==
  [b \in DOMAIN entries \cup {c} |->
     IF b = c THEN [uses |-> uses, rejected |-> FALSE, inline |-> TRUE]
     ELSE entries[b]]

\* save begins with these entries.
Save(p, entries) ==
  /\ pc' = [pc EXCEPT ![p] = "storing"]
  /\ snap' = [snap EXCEPT ![p] = entries]
  /\ todo' = [todo EXCEPT ![p] = DOMAIN entries]
  /\ UNCHANGED <<store, ring, lock, op, reply>>

\* A paid credential is saved with the use its own request is about to make.
LoadForPut(p) ==
  /\ pc[p] = "reading" /\ op[p].kind = "put"
  /\ Save(p, WithNew(Loaded(p), op[p].id, 1))

\* update: an entry that is not there, or was not loaded, is not an error.
LoadForMark(p) ==
  /\ pc[p] = "reading" /\ op[p].kind \in {"success", "reject"}
  /\ LET c == op[p].id
         all == Loaded(p)
     IN  IF c \in DOMAIN all
         THEN Save(p, [all EXCEPT ![c].rejected = @ \/ op[p].kind = "reject"])
         ELSE Return(p, Ok) /\ UNCHANGED store

LoadForDelete(p) ==
  /\ pc[p] = "reading" /\ op[p].kind = "delete"
  /\ pc' = [pc EXCEPT ![p] = "erasing"]
  /\ snap' = [snap EXCEPT ![p] = Keep(Loaded(p), Credential \ {op[p].id})]
  /\ todo' = [todo EXCEPT ![p] = {op[p].id}]
  /\ UNCHANGED <<store, ring, lock, op, reply>>

\* purge selects from the raw metadata: everything, or what a host or a
\* service names.
Purge(p) ==
  /\ pc[p] = "reading" /\ op[p].kind = "purge"
  /\ LET matched == DOMAIN snap[p] \cap op[p].ids
     IN  IF matched = {}
         THEN Return(p, [kind |-> "purged", ids |-> {}]) /\ UNCHANGED store
         ELSE /\ pc' = [pc EXCEPT ![p] = "erasing"]
              /\ todo' = [todo EXCEPT ![p] = matched]
              /\ snap' = [snap EXCEPT ![p] = Keep(@, Credential \ matched)]
              /\ UNCHANGED <<store, ring, lock, op, reply>>

\* One secret is deleted.  An error ends the operation and keeps the metadata.
Erase(p, c) ==
  /\ pc[p] = "erasing" /\ c \in todo[p]
  /\ \/ /\ StoreDelete(c, TRUE)
        /\ todo' = [todo EXCEPT ![p] = @ \ {c}]
        /\ UNCHANGED <<meta, stable, ring, lock, pc, op, snap, reply>>
     \/ StoreDelete(c, FALSE) /\ Return(p, Error) /\ UNCHANGED <<meta, stable>>

\* delete goes on to save what is left.
Erased(p) ==
  /\ pc[p] = "erasing" /\ todo[p] = {} /\ op[p].kind = "delete"
  /\ Save(p, snap[p])

\* purge writes the metadata that is left as it is.
Purged(p, outcome) ==
  /\ pc[p] = "erasing" /\ todo[p] = {} /\ op[p].kind = "purge"
  /\ Publish(p, snap[p], outcome,
             [kind |-> "purged", ids |-> DOMAIN meta \ DOMAIN snap[p]])

\* One secret is stored.  An error ends the operation and keeps the metadata.
Store(p, c) ==
  /\ pc[p] = "storing" /\ c \in todo[p]
  /\ \/ /\ StorePut(c, TRUE)
        /\ todo' = [todo EXCEPT ![p] = @ \ {c}]
        /\ UNCHANGED <<meta, stable, ring, lock, pc, op, snap, reply>>
     \/ StorePut(c, FALSE) /\ Return(p, Error) /\ UNCHANGED <<meta, stable>>

\* MUTANT of Stored: the metadata is published before the secrets.
StoredEarly(p) == pc[p] = "storing"

Stored(p) == pc[p] = "storing" /\ todo[p] = {}

\* The metadata follows, all of it pointing at the stores.
Saved(p, outcome) ==
  /\ Stored(p)
  /\ Publish(p, [c \in DOMAIN snap[p] |-> [snap[p][c] EXCEPT !.inline = FALSE]],
             outcome, Ok)
-----------------------------------------------------------------------------
(* The environment.                                                        *)

\* A session is locked or unlocked, a keyring service comes or goes.
RingChanges ==
  /\ ring' \in {"up", "locked", "absent"} \ {ring}
  /\ UNCHANGED <<store, lock, pc, op, snap, todo, reply>>

Boot(p) ==
  /\ pc[p] = "down"
  /\ pc' = [pc EXCEPT ![p] = "idle"]
  /\ UNCHANGED <<store, ring, lock, op, snap, todo, reply>>

Down(P) ==
  /\ pc' = [p \in Process |-> IF p \in P THEN "down" ELSE pc[p]]
  /\ op' = [p \in Process |-> IF p \in P THEN NoOp ELSE op[p]]
  /\ snap' = [p \in Process |-> IF p \in P THEN NoEntries ELSE snap[p]]
  /\ todo' = [p \in Process |-> IF p \in P THEN {} ELSE todo[p]]
  /\ reply' = [p \in Process |-> IF p \in P THEN NoOp ELSE reply[p]]

\* A process exits or dies; the system drops its lock.
Crash(p) ==
  /\ pc[p] # "down" /\ Down({p})
  /\ lock' = IF lock = p THEN Nobody ELSE lock
  /\ UNCHANGED <<store, ring>>

\* The machine stops; a rename that was not synced may be undone.
PowerLoss ==
  /\ Down(Process) /\ lock' = Nobody
  /\ meta' \in {meta, stable} /\ stable' = meta'
  /\ UNCHANGED <<ring, secrets>>

\* Everything an operation does after the call.
Operate(p) ==
  \/ LockAndRead(p) \/ AccessFails(p)
  \/ ClaimMisses(p) \/ ClaimFails(p)
  \/ LoadForPut(p) \/ LoadForMark(p) \/ LoadForDelete(p) \/ Purge(p)
  \/ Erased(p)
  \/ \E c \in Credential : Erase(p, c) \/ Store(p, c)
  \/ \E outcome \in Outcome :
       \/ Purged(p, outcome) \/ Saved(p, outcome)
       \/ \E c \in Credential : ClaimWrite(p, c, outcome)
=============================================================================
