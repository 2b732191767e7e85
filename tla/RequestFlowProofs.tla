------------------------- MODULE RequestFlowProofs -------------------------
(***************************************************************************)
(* Theorems about RequestFlow, for any number of processes and             *)
(* credentials: the limit of a credential holds, its uses are on disk      *)
(* before they are made, and what was deleted stays deleted.               *)
(***************************************************************************)
EXTENDS RequestFlow, FiniteSetTheorems, TLAPS
-----------------------------------------------------------------------------
(* The inductive invariant.                                                *)

Holding == {"reading", "erasing", "storing"}

Stages == {"start", "claiming", "plain", "owing", "saving", "presenting", "presented",
           "marking", "rejecting", "evicting", "purging", "done"}

IsEntries(entries) ==
  DOMAIN entries \subseteq Credential /\ \A c \in DOMAIN entries : entries[c] \in Entry

EntriesShape ==
  IsEntries(meta) /\ IsEntries(stable) /\ \A p \in Process : IsEntries(snap[p])

StoresShape ==
  primary \cup fallback \subseteq Credential /\ (shape # "sound" => fallback = {})

ProcessShape ==
  /\ lock \in Process \cup {Nobody}
  /\ pc \in [Process -> {"down", "idle", "calling"} \cup Holding]
  /\ DOMAIN op = Process /\ DOMAIN snap = Process
  /\ DOMAIN todo = Process /\ DOMAIN reply = Process
  /\ \A p \in Process :
       /\ lock = p <=> pc[p] \in Holding
       /\ pc[p] \in {"down", "idle"} <=> op[p] = NoOp
       /\ todo[p] # {} => lock = p

CommandShape ==
  /\ stage \in [Process -> Stages]
  /\ DOMAIN bearer = Process
  /\ sent \in [Credential -> Nat]
  /\ minted \subseteq Credential \ Cached
  /\ kept \subseteq minted /\ gone \subseteq condemned

FlowShape == EntriesShape /\ StoresShape /\ ProcessShape /\ CommandShape

\* The call that a command makes at a stage is about its own credential.
OpAgrees(p) ==
  /\ op[p].kind \in {"none", "claim", "put", "success", "reject", "delete", "purge"}
  /\ op[p].kind = "none" => op[p] = NoOp
  /\ op[p].kind = "claim" => stage[p] = "claiming"
  /\ op[p].kind = "put" => stage[p] = "saving"
  /\ op[p].kind = "success" => stage[p] = "marking"
  /\ op[p].kind = "reject" => stage[p] = "rejecting"
  /\ op[p].kind = "delete" => stage[p] = "evicting"
  /\ op[p].kind = "purge" => stage[p] = "purging" /\ op[p].ids \subseteq condemned
  /\ op[p].kind \in {"put", "success", "reject", "delete"} => op[p].id = bearer[p].id
  /\ bearer[p].id \in Cached \cup minted \cup {"none"}
  /\ stage[p] \in {"saving", "presenting", "presented", "marking", "rejecting",
                   "evicting"} => bearer[p].id # "none"
  /\ stage[p] = "saving" => bearer[p].id \in minted
  /\ stage[p] = "evicting" => bearer[p].id \in condemned
  /\ pc[p] = "down" => stage[p] = "start"

\* The last answer that a command waits for.
ReplyAgrees(p) ==
  /\ At(p, "claiming") /\ reply[p].kind = "hit" => reply[p].id \in Cached \cup minted
  /\ At(p, "purging") /\ reply[p] # Error => reply[p].ids \subseteq condemned \cap Credential

\* The entries that the holder of the lock works on are those of the file, less
\* what it deletes, and one more for a put.
SnapFollows(p) ==
  /\ pc[p] = "reading" => snap[p] = meta
  /\ pc[p] \notin Holding => snap[p] = NoEntries
  /\ pc[p] = "erasing" => op[p].kind \in {"delete", "purge"}
  /\ pc[p] = "storing" => op[p].kind \in {"put", "success", "reject", "delete"}
  /\ DOMAIN snap[p] \subseteq
       DOMAIN meta \cup (IF op[p].kind = "put" THEN {op[p].id} ELSE {})
  /\ pc[p] \in {"erasing", "storing"} /\ op[p].kind = "delete" =>
       op[p].id \notin DOMAIN snap[p]
  /\ pc[p] = "erasing" =>
       /\ op[p].kind = "purge" => DOMAIN meta \ DOMAIN snap[p] \subseteq op[p].ids
       /\ todo[p] \subseteq IF op[p].kind = "purge" THEN op[p].ids ELSE {op[p].id}
  /\ pc[p] = "storing" => todo[p] \subseteq DOMAIN snap[p]

\* What is listed anywhere was cached or paid for, and is what a put is about
\* only once that put has published it.
FreshIsAlone(p) ==
  op[p].kind = "put" =>
    /\ op[p].id \in minted
    /\ op[p].id \notin DOMAIN meta \cup DOMAIN stable \cup gone
    /\ \A q \in Process \ {p} : bearer[q].id # op[p].id
    /\ \A q \in Process :
         /\ At(q, "claiming") /\ reply[q].kind = "hit" => reply[q].id # op[p].id
         /\ At(q, "purging") /\ reply[q] # Error => op[p].id \notin reply[q].ids

Listed == DOMAIN meta \cup DOMAIN stable

\* What somebody was told, or is about to be told, to be deleted.
Deleted ==
  gone \cup {c \in Credential : \E p \in Process :
     \/ At(p, "evicting") /\ reply[p] = Ok /\ bearer[p].id = c
     \/ At(p, "purging") /\ reply[p] # Error /\ c \in reply[p].ids}

DeletionHolds ==
  /\ Listed \subseteq Cached \cup minted
  /\ Deleted \subseteq (Cached \cup minted) \ Listed

\* A secret is in its place before the metadata points at it.
SecretsHold ==
  /\ SecretsPrecedeMetadata
  /\ torn \/ \A p \in Process : pc[p] = "storing" =>
       \A c \in DOMAIN snap[p] \ (todo[p] \cup condemned) : c \in primary \cup fallback
  /\ torn \/ \A p \in Process : pc[p] \in {"reading", "erasing"} =>
       \A c \in DOMAIN snap[p] \ condemned :
         snap[p][c].inline \/ c \in primary \cup fallback

\* A process that may present c: the answer to its claim, or what it paid for.
Right(p, c) ==
  \/ At(p, "claiming") /\ reply[p].kind = "hit" /\ reply[p].id = c
  \/ stage[p] \in {"saving", "presenting"} /\ bearer[p].id = c

Rights(c) == {p \in Process : Right(p, c)}

\* The uses of c that were made or may still be made without another claim.
Due(c) == sent[c] + Cardinality(Rights(c))

Counted(entries) == \A c \in DOMAIN entries : Due(c) <= entries[c].uses

\* Every use that may be made is within the limit and counted in the file, in
\* what a power loss leaves of it, and in what the holder of the lock will
\* write.
AccountHolds ==
  /\ \A c \in Credential :
       /\ IsFiniteSet(Rights(c))
       /\ MaxUses[c] = Unlimited \/ Due(c) <= MaxUses[c]
       /\ c \notin Cached \cup minted => sent[c] = 0
  /\ \A p \in Process : op[p].kind = "put" =>
       sent[op[p].id] = 0 /\ Rights(op[p].id) = {p}
  /\ Counted(meta) /\ Counted(stable)
  /\ \A p \in Process : Counted(snap[p])

FlowInv ==
  /\ FlowShape
  /\ \A p \in Process : OpAgrees(p) /\ ReplyAgrees(p) /\ SnapFollows(p) /\ FreshIsAlone(p)
  /\ DeletionHolds /\ SecretsHold /\ AccountHolds
-----------------------------------------------------------------------------
(* Lemmas about the invariant.                                             *)

\* The shape of the state is the one that the runs check.
LEMMA ShapeIsTyped == FlowShape => FlowTypeOK
  BY DEF FlowShape, FlowTypeOK, EntriesShape, IsEntries, StoresShape,
      ProcessShape,
     CommandShape, Holding

\* What is due of a credential is a number.
LEMMA DueIsNatural ==
  ASSUME AccountHolds, CommandShape, NEW c \in Credential
  PROVE  Due(c) \in Nat
<1>1. IsFiniteSet(Rights(c)) /\ sent[c] \in Nat
  BY DEF AccountHolds, CommandShape
<1> QED
  BY <1>1, FS_CardinalityType DEF Due

\* Where no process gains a right and nothing is sent, what is due falls.
LEMMA DueFalls ==
  ASSUME AccountHolds, CommandShape, NEW c \in Credential,
         Rights(c)' \subseteq Rights(c), sent' = sent
  PROVE  IsFiniteSet(Rights(c))' /\ Due(c) \in Nat /\ Due(c)' \in Nat /\ Due(c)' <= Due(c)
<1>1. IsFiniteSet(Rights(c)) /\ sent[c] \in Nat
  BY DEF AccountHolds, CommandShape
<1>2. IsFiniteSet(Rights(c)') /\ Cardinality(Rights(c)') <= Cardinality(Rights(c))
  BY <1>1, FS_Subset
<1>3. Cardinality(Rights(c)) \in Nat /\ Cardinality(Rights(c)') \in Nat
  BY <1>1, <1>2, FS_CardinalityType
<1> QED
  BY <1>1, <1>2, <1>3 DEF Due

\* Then the account holds if what is written counts what was due before.
LEMMA AccountKept ==
  ASSUME AccountHolds, CommandShape, CommandShape', EntriesShape',
         \A c \in Credential : Rights(c)' \subseteq Rights(c), sent' = sent,
         minted \subseteq minted',
         \A q \in Process : op'[q].kind = "put" =>
           op'[q] = op[q] /\ op[q].id \in Credential /\ Right(q, op[q].id)',
         Counted(meta'), Counted(stable'), \A q \in Process : Counted(snap'[q])
  PROVE  AccountHolds'
<1>1. \A c \in Credential : /\ IsFiniteSet(Rights(c))'
                            /\ Due(c) \in Nat /\ Due(c)' \in Nat /\ Due(c)' <= Due(c)
  BY DueFalls
<1>2. \A c \in Credential : MaxUses[c] = Unlimited \/ Due(c)' <= MaxUses[c]
  BY <1>1, CacheAssumption DEF AccountHolds
<1>3. \A c \in Credential : c \notin Cached \cup minted' => sent'[c] = 0
  BY DEF AccountHolds
<1>4. ASSUME NEW q \in Process, op'[q].kind = "put"
      PROVE  sent'[op'[q].id] = 0 /\ Rights(op[q].id)' = {q}
  <2>1. sent[op[q].id] = 0 /\ Rights(op[q].id) = {q}
    BY <1>4 DEF AccountHolds
  <2>2. op'[q] = op[q] /\ op[q].id \in Credential
    BY <1>4
  <2>3. q \in Rights(op[q].id)'
    BY <1>4 DEF Rights
  <2>4. Rights(op[q].id)' \subseteq {q}
    BY <2>1, <2>2
  <2> QED
    BY <2>1, <2>2, <2>3, <2>4
<1>5. Counted(meta)' /\ Counted(stable)' /\ \A q \in Process : Counted(snap[q])'
  BY <1>1 DEF Counted, EntriesShape, IsEntries, Entry
<1> QED
  BY <1>1, <1>2, <1>3, <1>4, <1>5 DEF AccountHolds
-----------------------------------------------------------------------------
(* The operations of the cache.                                            *)

\* The operation of p ends with an answer.
Answers(p, answer) ==
  /\ lock' = IF lock = p THEN Nobody ELSE lock
  /\ pc' = [pc EXCEPT ![p] = "idle"] /\ op' = [op EXCEPT ![p] = NoOp]
  /\ reply' = [reply EXCEPT ![p] = answer]
  /\ DOMAIN snap' = Process /\ DOMAIN todo' = Process
  /\ \A q \in Process :
       /\ snap'[q] = IF q = p THEN NoEntries ELSE snap[q]
       /\ todo'[q] = IF q = p THEN {} ELSE todo[q]

\* Entries that the holder p of the lock may publish.
Follows(entries, p) ==
  /\ pc[p] \in Holding /\ IsEntries(entries) /\ DOMAIN entries \subseteq DOMAIN snap[p]
  /\ \A c \in DOMAIN entries : snap[p][c].uses <= entries[c].uses

\* What is published is listed, or what p paid for; no other put is about it,
\* and it was not deleted.
LEMMA FollowersAreSettled ==
  ASSUME FlowInv, NEW p \in Process, NEW entries, Follows(entries, p)
  PROVE  /\ DOMAIN entries \subseteq (Cached \cup minted) \ Deleted
         /\ \A q \in Process \ {p} : op[q].kind = "put" => op[q].id \notin DOMAIN entries
         /\ Counted(entries)
<1> USE DEF FlowInv
<1>1. DOMAIN entries \subseteq
        DOMAIN meta \cup (IF op[p].kind = "put" THEN {op[p].id} ELSE {})
  BY DEF Follows, SnapFollows
<1>2. op[p].kind = "put" => op[p].id \in minted \ Deleted
  <2>1. op[p].kind = "put" => pc[p] # "idle" /\ op[p].id = bearer[p].id
    BY DEF FlowShape, ProcessShape, NoOp, OpAgrees
  <2> QED
    BY <2>1 DEF FreshIsAlone, Deleted, At
<1>3. DOMAIN entries \subseteq (Cached \cup minted) \ Deleted
  BY <1>1, <1>2 DEF DeletionHolds, Listed
<1>4. \A q \in Process \ {p} : op[q].kind = "put" => op[q].id \notin DOMAIN entries
  BY <1>1 DEF FreshIsAlone, OpAgrees
<1>5. Counted(entries)
  <2> SUFFICES ASSUME NEW c \in DOMAIN entries PROVE Due(c) <= entries[c].uses
    BY DEF Counted
  <2>1. c \in DOMAIN snap[p] /\ c \in Credential
    BY DEF Follows, FlowShape, EntriesShape, IsEntries
  <2>2. Due(c) <= snap[p][c].uses /\ snap[p][c].uses <= entries[c].uses
    BY <2>1 DEF AccountHolds, Counted, Follows
  <2>3. snap[p][c].uses \in Nat /\ entries[c].uses \in Nat
    BY <2>1 DEF FlowShape, EntriesShape, Follows, IsEntries, Entry
  <2>4. Due(c) \in Nat
    BY <2>1, DueIsNatural DEF FlowShape
  <2> QED
    BY <2>2, <2>3, <2>4
<1> QED
  BY <1>3, <1>4, <1>5

\* An operation that ends keeps all but the account, if what it publishes follows
\* from what it read under the lock, it answers a claim with what is listed, and
\* it says only of what is not listed that it was deleted.
LEMMA AnswerAgrees ==
  ASSUME FlowInv, NEW p \in Process, NEW answer,
         pc[p] \in {"calling"} \cup Holding, Answers(p, answer),
         UNCHANGED <<flow, history>>,
         meta' = meta \/ Follows(meta', p), stable' = stable \/ Follows(stable', p),
         op[p].kind = "claim" /\ answer.kind = "hit" => answer.id \in Listed',
         op[p].kind = "delete" /\ answer = Ok => op[p].id \notin Listed',
         op[p].kind = "purge" /\ answer # Error =>
           answer.ids \subseteq (op[p].ids \cap Listed) \ Listed',
         StoresShape', SecretsHold'
  PROVE  /\ FlowShape' /\ SecretsHold' /\ DeletionHolds'
         /\ \A q \in Process : /\ OpAgrees(q)' /\ ReplyAgrees(q)'
                               /\ SnapFollows(q)' /\ FreshIsAlone(q)'
<1> USE DEF FlowInv, Answers, flow, history
<1>0. op[p] # NoOp /\ op[p].kind # "none"
  BY DEF FlowShape, ProcessShape, Holding, OpAgrees
<1>1. EntriesShape'
  BY DEF FlowShape, EntriesShape, IsEntries, Follows, NoEntries
<1>2. ProcessShape'
  BY CacheAssumption DEF FlowShape, ProcessShape, Holding
<1>3. CommandShape'
  BY DEF FlowShape, CommandShape
<1>4. \A q \in Process : OpAgrees(q)'
  BY DEF FlowShape, ProcessShape, OpAgrees, NoOp
<1>5. Listed' \subseteq (Cached \cup minted) \ Deleted
      /\ \A q \in Process \ {p} : op[q].kind = "put" => op[q].id \notin Listed'
  BY FollowersAreSettled DEF Listed, DeletionHolds, FreshIsAlone
<1>6. \A q \in Process : SnapFollows(q)'
  <2>1. SnapFollows(p)'
    BY DEF FlowShape, ProcessShape, SnapFollows, NoEntries, NoOp, Holding
  <2>2. ASSUME NEW q \in Process \ {p} PROVE SnapFollows(q)'
    BY DEF FlowShape, ProcessShape, SnapFollows, Follows, NoEntries, Holding
  <2> QED
    BY <2>1, <2>2
<1>7. \A q \in Process : ReplyAgrees(q)'
  <2>1. Listed \subseteq Credential
    BY DEF Listed, FlowShape, EntriesShape, IsEntries
  <2>2. ReplyAgrees(p)'
    BY <1>0, <1>5, <2>1 DEF FlowShape, ProcessShape, ReplyAgrees, OpAgrees, At
  <2>3. ASSUME NEW q \in Process \ {p} PROVE ReplyAgrees(q)'
    BY DEF FlowShape, ProcessShape, ReplyAgrees, At
  <2> QED
    BY <2>2, <2>3
<1>8. \A q \in Process : FreshIsAlone(q)'
  <2> SUFFICES ASSUME NEW q \in Process \ {p}, op[q].kind = "put"
               PROVE  FreshIsAlone(q)'
    BY DEF FreshIsAlone, FlowShape, ProcessShape, NoOp
  <2>1. op'[q] = op[q] /\ bearer' = bearer /\ gone' = gone /\ minted' = minted
    BY DEF FlowShape, ProcessShape
  <2>2. op[q].id \in minted /\ op[q].id \notin gone
        /\ \A s \in Process \ {q} : bearer[s].id # op[q].id
    BY DEF FreshIsAlone
  <2>3. op[q].id \notin DOMAIN meta' \cup DOMAIN stable'
    BY <1>5 DEF Listed
  <2>4. \A s \in Process \ {p} : (At(s, "claiming") <=> At(s, "claiming")')
          /\ (At(s, "purging") <=> At(s, "purging")') /\ reply'[s] = reply[s]
    BY DEF FlowShape, ProcessShape, At
  <2>5. At(p, "claiming")' /\ reply'[p].kind = "hit" => reply'[p].id # op[q].id
    BY <1>0, <1>5 DEF FlowShape, ProcessShape, OpAgrees, At
  <2>6. At(p, "purging")' /\ reply'[p] # Error => op[q].id \notin reply'[p].ids
    BY <1>0, <2>2
       DEF FlowShape, ProcessShape, OpAgrees, At, Listed, FreshIsAlone
  <2> QED
    BY <2>1, <2>2, <2>3, <2>4, <2>5, <2>6 DEF FreshIsAlone
<1>9. DeletionHolds'
  <2>1. Deleted' \subseteq Deleted \cup (Listed \ Listed')
         \cup (IF op[p].kind = "delete" /\ answer = Ok THEN {op[p].id} ELSE {})
    BY <1>0 DEF FlowShape, ProcessShape, Deleted, OpAgrees, At
  <2>2. op[p].kind = "delete" => op[p].id \in Cached \cup minted
    BY DEF OpAgrees
  <2> QED
    BY <1>5, <2>1, <2>2 DEF DeletionHolds
<1> QED
  BY <1>1, <1>2, <1>3, <1>4, <1>6, <1>7, <1>8, <1>9 DEF FlowShape

\* It keeps the account if it does not answer with a credential.
LEMMA AnswerKeeps ==
  ASSUME FlowInv, NEW p \in Process, NEW answer,
         pc[p] \in {"calling"} \cup Holding, Answers(p, answer),
         UNCHANGED <<flow, history>>,
         meta' = meta \/ Follows(meta', p), stable' = stable \/ Follows(stable', p),
         op[p].kind = "claim" => answer.kind # "hit",
         op[p].kind = "delete" /\ answer = Ok => op[p].id \notin Listed',
         op[p].kind = "purge" /\ answer # Error =>
           answer.ids \subseteq (op[p].ids \cap Listed) \ Listed',
         StoresShape', SecretsHold'
  PROVE  FlowInv'
<1> USE DEF FlowInv, Answers, flow, history
<1>1. /\ FlowShape' /\ SecretsHold' /\ DeletionHolds'
      /\ \A q \in Process : /\ OpAgrees(q)' /\ ReplyAgrees(q)'
                            /\ SnapFollows(q)' /\ FreshIsAlone(q)'
  BY AnswerAgrees
<1>2. AccountHolds'
  <2>0. op[p] # NoOp /\ op[p].kind # "none"
    BY DEF FlowShape, ProcessShape, Holding, OpAgrees
  <2>1. \A c \in Credential : Rights(c)' \subseteq Rights(c)
    BY <2>0 DEF FlowShape, ProcessShape, Rights, Right, OpAgrees, At
  <2>2. Counted(meta') /\ Counted(stable')
    BY FollowersAreSettled DEF AccountHolds
  <2>3. \A q \in Process : Counted(snap'[q])
    BY DEF AccountHolds, Counted, NoEntries
  <2>4. \A q \in Process : op'[q].kind = "put" =>
          op'[q] = op[q] /\ op[q].id \in Credential /\ Right(q, op[q].id)'
    BY DEF FlowShape, ProcessShape, CommandShape, FreshIsAlone, OpAgrees, Right,
        NoOp
  <2> QED
    BY <1>1, <2>1, <2>2, <2>3, <2>4, AccountKept DEF FlowShape
<1> QED
  BY <1>1, <1>2

\* The operation of p goes on, under the lock.
GoesOn(p) ==
  /\ (pc[p] = "calling" /\ lock = Nobody) \/ pc[p] \in Holding
  /\ lock' = p
  /\ \E s \in Holding : pc' = [pc EXCEPT ![p] = s]
  /\ DOMAIN snap' = Process /\ DOMAIN todo' = Process
  /\ \A q \in Process \ {p} : snap'[q] = snap[q] /\ todo'[q] = todo[q]
  /\ UNCHANGED <<meta, stable, op, reply>>

\* An operation that goes on keeps the invariant, if the entries it works on and
\* the secrets it stored are those it should have.
LEMMA GoingOnKeeps ==
  ASSUME FlowInv, NEW p \in Process, GoesOn(p), UNCHANGED <<flow, history>>,
         IsEntries(snap'[p]), Counted(snap'[p]), SnapFollows(p)', StoresShape', SecretsHold'
  PROVE  FlowInv'
<1> USE DEF FlowInv, GoesOn, flow, history
<1>1. EntriesShape'
  BY DEF FlowShape, EntriesShape, IsEntries
<1>2. ProcessShape'
  BY CacheAssumption DEF FlowShape, ProcessShape, Holding
<1>3. CommandShape'
  BY DEF FlowShape, CommandShape
<1>4. \A q \in Process : OpAgrees(q)'
  BY DEF FlowShape, ProcessShape, OpAgrees, Holding
<1>5. \A q \in Process, s \in Stages : At(q, s)' <=> At(q, s)
  BY DEF FlowShape, ProcessShape, At, Holding
<1>6. \A q \in Process : ReplyAgrees(q)' /\ FreshIsAlone(q)'
  BY <1>5 DEF ReplyAgrees, FreshIsAlone, Stages
<1>7. \A q \in Process : SnapFollows(q)'
  BY DEF FlowShape, ProcessShape, SnapFollows
<1>8. DeletionHolds'
  BY <1>5 DEF DeletionHolds, Deleted, Listed, Stages
<1>9. AccountHolds'
  <2>1. \A c \in Credential : Rights(c)' \subseteq Rights(c)
    BY <1>5 DEF Rights, Right, Stages
  <2>2. \A q \in Process : Counted(snap'[q])
    BY DEF AccountHolds, Counted
  <2>3. Counted(meta') /\ Counted(stable')
    BY DEF AccountHolds
  <2>4. \A q \in Process : op'[q].kind = "put" =>
          op'[q] = op[q] /\ op[q].id \in Credential /\ Right(q, op[q].id)'
    BY DEF FlowShape, CommandShape, FreshIsAlone, OpAgrees, Right
  <2> QED
    BY <1>1, <1>3, <2>1, <2>2, <2>3, <2>4, AccountKept DEF FlowShape
<1> QED
  BY <1>1, <1>2, <1>3, <1>4, <1>6, <1>7, <1>8, <1>9 DEF FlowShape

\* The lock is free, and what is read under it is what the file says.
LEMMA LockAndReadKeeps ==
  ASSUME FlowInv, NEW p \in Process, LockAndRead(p), UNCHANGED <<flow, history>>
  PROVE  FlowInv'
<1> USE DEF FlowInv, LockAndRead, store, secrets, file, flow, history
<1>1. \A q \in Process \ {p} : pc[q] \notin Holding
  BY CacheAssumption DEF FlowShape, ProcessShape
<1>2. GoesOn(p)
  BY DEF GoesOn, FlowShape, ProcessShape, Holding
<1>3. snap'[p] = meta /\ todo' = todo /\ op' = op
  BY DEF FlowShape, ProcessShape
<1>4. SnapFollows(p)'
  BY <1>3 DEF SnapFollows, FlowShape, ProcessShape, Holding
<1>5. SecretsHold'
  BY <1>1, <1>3
     DEF SecretsHold, SecretsPrecedeMetadata, FlowShape, ProcessShape, Holding
<1>6. IsEntries(snap'[p]) /\ Counted(snap'[p]) /\ StoresShape'
  BY <1>3 DEF FlowShape, EntriesShape, StoresShape, AccountHolds
<1> QED
  BY <1>2, <1>4, <1>5, <1>6, GoingOnKeeps

\* An access that fails changes nothing.
LEMMA AccessFailsKeeps ==
  ASSUME FlowInv, NEW p \in Process, AccessFails(p), UNCHANGED <<flow, history>>
  PROVE  FlowInv'
<1> USE DEF FlowInv, AccessFails, store, secrets, file, history
<1>1. lock # p /\ todo[p] = {} /\ snap[p] = NoEntries
  BY DEF FlowShape, ProcessShape, SnapFollows, Holding
<1>2. Answers(p, Error)
  BY <1>1 DEF Answers, FlowShape, ProcessShape
<1>3. StoresShape' /\ SecretsHold'
  BY DEF FlowShape, ProcessShape, StoresShape, SecretsHold,
      SecretsPrecedeMetadata
<1> QED
  BY <1>2, <1>3, AnswerKeeps DEF Error, Ok

\* A claim that misses or fails changes nothing.
LEMMA NoClaimKeeps ==
  ASSUME FlowInv, NEW p \in Process, ClaimMisses(p) \/ ClaimFails(p),
         UNCHANGED <<flow, history>>
  PROVE  FlowInv'
<1> USE DEF FlowInv, ClaimMisses, ClaimFails, Return, store, secrets, file,
        history
<1>1. lock = p
  BY DEF FlowShape, ProcessShape, Holding
<1>2. \E answer \in {Ok, Error} : Answers(p, answer)
  BY <1>1 DEF Answers, FlowShape, ProcessShape
<1>3. StoresShape'
  BY DEF FlowShape, StoresShape
<1>4. SecretsHold'
  BY DEF FlowShape, ProcessShape, SecretsHold, SecretsPrecedeMetadata
<1> QED
  BY <1>2, <1>3, <1>4, AnswerKeeps DEF Error, Ok, Holding

\* What is loaded is what was read, less what has lost its secret.
LEMMA LoadedIsRead ==
  ASSUME FlowInv, NEW p \in Process
  PROVE  /\ IsEntries(Loaded(p)) /\ DOMAIN Loaded(p) \subseteq DOMAIN snap[p]
         /\ \A c \in DOMAIN Loaded(p) :
              /\ Loaded(p)[c] = snap[p][c]
              /\ Loaded(p)[c].inline \/ c \in primary \cup fallback
  BY DEF FlowInv, FlowShape, EntriesShape, IsEntries, Loaded, Keep, Readable

\* A put adds its credential with the use that its request will make.
LEMMA LoadForPutKeeps ==
  ASSUME FlowInv, NEW p \in Process, LoadForPut(p), UNCHANGED <<flow, history>>
  PROVE  FlowInv'
<1> DEFINE entries == WithNew(Loaded(p), op[p].id, 1)
<1> USE DEF FlowInv, LoadForPut, Save, store, secrets, file, flow, history
<1>1. op[p].id \in Credential \ DOMAIN snap[p] /\ Due(op[p].id) = 1
  <2>1. sent[op[p].id] = 0 /\ Rights(op[p].id) = {p}
    BY DEF AccountHolds
  <2>2. Cardinality({p}) = 1
    BY FS_Singleton
  <2>3. op[p].id \in minted /\ op[p].id \notin DOMAIN meta /\ snap[p] = meta
    BY DEF FreshIsAlone, SnapFollows
  <2> QED
    BY <2>1, <2>2, <2>3 DEF Due, FlowShape, CommandShape
<1>2. /\ DOMAIN entries = DOMAIN Loaded(p) \cup {op[p].id}
      /\ entries[op[p].id] = [uses |-> 1, rejected |-> FALSE, inline |-> TRUE]
      /\ \A c \in DOMAIN Loaded(p) : entries[c] = snap[p][c]
  BY <1>1, LoadedIsRead DEF WithNew
<1> HIDE DEF entries
<1>3. IsEntries(entries)
  <2>1. [uses |-> 1, rejected |-> FALSE, inline |-> TRUE] \in Entry
    BY DEF Entry
  <2> QED
    BY <1>1, <1>2, <2>1, LoadedIsRead DEF IsEntries
<1>4. Counted(entries)
  <2>1. \A c \in DOMAIN Loaded(p) : Due(c) <= entries[c].uses
    BY <1>2, LoadedIsRead DEF Counted, AccountHolds
  <2> QED
    BY <1>1, <1>2, <2>1 DEF Counted
<1>5. lock = p /\ snap'[p] = entries /\ todo'[p] = DOMAIN entries
  BY DEF FlowShape, ProcessShape, Holding, entries
<1>6. GoesOn(p)
  BY <1>5 DEF GoesOn, FlowShape, ProcessShape, Holding
<1>7. SnapFollows(p)'
  BY <1>2, <1>5, LoadedIsRead DEF SnapFollows, FlowShape, ProcessShape, Holding
<1>8. SecretsHold' /\ StoresShape'
  BY <1>5
     DEF SecretsHold, SecretsPrecedeMetadata, FlowShape, ProcessShape,
         StoresShape, Holding
<1> QED
  BY <1>3, <1>4, <1>5, <1>6, <1>7, <1>8, GoingOnKeeps

\* A mark changes the entry of its credential, if there is one, or nothing.
LEMMA LoadForMarkKeeps ==
  ASSUME FlowInv, NEW p \in Process, LoadForMark(p), UNCHANGED <<flow, history>>
  PROVE  FlowInv'
<1> DEFINE c == op[p].id
           all == Loaded(p)
           entries == [all EXCEPT ![c].rejected = @ \/ op[p].kind = "reject"]
<1> USE DEF FlowInv, LoadForMark, Save, store, secrets, file, flow, history
<1>1. lock = p /\ pc[p] \in Holding
  BY DEF FlowShape, ProcessShape, Holding
<1>2. CASE c \in DOMAIN all
  <2>1. /\ DOMAIN entries = DOMAIN all
        /\ \A b \in DOMAIN all : entries[b].uses = all[b].uses
    BY LoadedIsRead DEF IsEntries, Entry
  <2>2. IsEntries(entries)
    <3>1. ASSUME NEW e \in Entry, NEW b \in BOOLEAN
          PROVE  [e EXCEPT !.rejected = b] \in Entry
      BY DEF Entry
    <3>2. all[c] \in Entry
      BY <1>2, LoadedIsRead DEF IsEntries
    <3>3. entries[c] = [all[c] EXCEPT !.rejected = @ \/ op[p].kind = "reject"]
      BY <1>2
    <3>4. entries[c] \in Entry
      <4> DEFINE rejected == all[c].rejected \/ op[p].kind = "reject"
      <4>1. rejected \in BOOLEAN /\ entries[c] = [all[c] EXCEPT !.rejected = rejected]
        BY <3>3
      <4> HIDE DEF rejected, entries, all, c
      <4> QED
        BY <3>1, <3>2, <4>1
    <3>5. \A b \in DOMAIN all \ {c} : entries[b] = all[b]
      OBVIOUS
    <3> QED
      BY <2>1, <3>4, <3>5, LoadedIsRead DEF IsEntries
  <2>3. snap'[p] = entries /\ todo'[p] = DOMAIN entries /\ pc' = [pc EXCEPT ![p] = "storing"]
    BY <1>2 DEF FlowShape, ProcessShape
  <2>4. GoesOn(p)
    BY <1>1, <1>2 DEF GoesOn, FlowShape, ProcessShape, Holding
  <2>5. Counted(entries)
    <3>1. \A b \in DOMAIN all : b \in DOMAIN snap[p] /\ all[b] = snap[p][b]
      BY LoadedIsRead
    <3>2. Counted(snap[p])
      BY DEF AccountHolds
    <3> HIDE DEF entries, all, c
    <3> QED
      BY <2>1, <3>1, <3>2 DEF Counted
  <2> HIDE DEF entries, all
  <2>6. op' = op /\ meta' = meta /\ DOMAIN all \subseteq DOMAIN snap[p]
    BY <1>2, LoadedIsRead DEF all
  <2>7. SnapFollows(p)'
    BY <2>1, <2>3, <2>6 DEF SnapFollows, FlowShape, ProcessShape, Holding
  <2>8. SecretsHold' /\ StoresShape'
    BY <1>1, <1>2, <2>3
       DEF SecretsHold, SecretsPrecedeMetadata, FlowShape, ProcessShape,
       StoresShape, Holding, all
  <2> QED
    BY <2>3, <2>4, <2>5, <2>7, <2>8, <2>2, GoingOnKeeps
<1>3. CASE c \notin DOMAIN all
  <2>1. Answers(p, Ok)
    BY <1>1, <1>3 DEF Return, Answers, FlowShape, ProcessShape
  <2>2. StoresShape' /\ SecretsHold'
    BY <1>1, <1>3
       DEF Return, FlowShape, ProcessShape, StoresShape, SecretsHold,
           SecretsPrecedeMetadata, Holding
  <2> QED
    BY <1>1, <1>3, <2>1, <2>2, AnswerKeeps DEF Ok
<1> QED
  BY <1>2, <1>3

\* A deletion works on the other entries.
LEMMA LoadForDeleteKeeps ==
  ASSUME FlowInv, NEW p \in Process, LoadForDelete(p), UNCHANGED <<flow, history>>
  PROVE  FlowInv'
<1> DEFINE entries == Keep(Loaded(p), Credential \ {op[p].id})
<1> USE DEF FlowInv, LoadForDelete, store, secrets, file, flow, history
<1>1. lock = p
  BY DEF FlowShape, ProcessShape, Holding
<1>2. /\ DOMAIN entries = DOMAIN Loaded(p) \ {op[p].id}
      /\ \A c \in DOMAIN entries : entries[c] = snap[p][c]
      /\ IsEntries(entries)
  BY LoadedIsRead DEF Keep, IsEntries
<1>3. \A c \in DOMAIN entries : entries[c].inline \/ c \in primary \cup fallback
  BY <1>2, LoadedIsRead
<1>4. Counted(entries)
  BY <1>2, LoadedIsRead DEF Counted, AccountHolds
<1>5. snap'[p] = entries /\ todo'[p] = {op[p].id} /\ pc' = [pc EXCEPT ![p] = "erasing"]
  BY DEF FlowShape, ProcessShape
<1>6. GoesOn(p)
  BY <1>1 DEF GoesOn, FlowShape, ProcessShape, Holding
<1> HIDE DEF entries
<1>7. SnapFollows(p)'
  <2>1. pc'[p] = "erasing" /\ snap'[p] = entries /\ todo'[p] = {op[p].id}
    BY <1>5 DEF FlowShape, ProcessShape
  <2>2. op'[p] = op[p] /\ meta' = meta /\ op[p].kind = "delete" /\ pc[p] = "reading"
    OBVIOUS
  <2>3. SnapFollows(p)
    OBVIOUS
  <2>4. DOMAIN entries \subseteq DOMAIN meta /\ op[p].id \notin DOMAIN entries
    BY <1>2, <2>2, <2>3, LoadedIsRead DEF SnapFollows
  <2> QED
    BY <2>1, <2>2, <2>4 DEF SnapFollows, Holding
<1>8. SecretsHold' /\ StoresShape'
  <2>1. /\ pc'[p] = "erasing" /\ snap'[p] = entries
        /\ \A q \in Process \ {p} : pc'[q] = pc[q] /\ snap'[q] = snap[q] /\ todo'[q] = todo[q]
    BY <1>5 DEF FlowShape, ProcessShape
  <2>2. /\ primary' = primary /\ fallback' = fallback /\ shape' = shape /\ torn' = torn
        /\ meta' = meta /\ stable' = stable /\ condemned' = condemned
    OBVIOUS
  <2>3. SecretsHold /\ StoresShape
    BY DEF FlowShape
  <2>4. StoresShape' /\ SecretsPrecedeMetadata'
    BY <2>2, <2>3 DEF StoresShape, SecretsHold, SecretsPrecedeMetadata
  <2>5. torn \/ \A q \in Process : pc'[q] = "storing" =>
          \A c \in DOMAIN snap'[q] \ (todo'[q] \cup condemned) : c \in primary \cup fallback
    BY <2>1, <2>3 DEF SecretsHold
  <2>6. torn \/ \A q \in Process : pc'[q] \in {"reading", "erasing"} =>
          \A c \in DOMAIN snap'[q] \ condemned :
            snap'[q][c].inline \/ c \in primary \cup fallback
    BY <1>3, <2>1, <2>3 DEF SecretsHold
  <2> QED
    BY <2>2, <2>4, <2>5, <2>6 DEF SecretsHold
<1> QED
  BY <1>2, <1>4, <1>5, <1>6, <1>7, <1>8, GoingOnKeeps

\* A purge works on what it does not select, or selects nothing.
LEMMA PurgeKeeps ==
  ASSUME FlowInv, NEW p \in Process, Purge(p), UNCHANGED <<flow, history>>
  PROVE  FlowInv'
<1> DEFINE matched == DOMAIN snap[p] \cap op[p].ids
           entries == Keep(snap[p], Credential \ matched)
<1> USE DEF FlowInv, Purge, store, secrets, file, flow, history
<1>1. lock = p /\ pc[p] \in Holding
  BY DEF FlowShape, ProcessShape, Holding
<1>2. CASE matched # {}
  <2>1. /\ DOMAIN entries = DOMAIN snap[p] \ matched
        /\ \A c \in DOMAIN entries : entries[c] = snap[p][c]
        /\ IsEntries(entries)
    BY DEF Keep, IsEntries, FlowShape, EntriesShape
  <2>2. Counted(entries)
    BY <2>1 DEF Counted, AccountHolds
  <2>3. snap'[p] = entries /\ todo'[p] = matched /\ pc' = [pc EXCEPT ![p] = "erasing"]
    BY <1>2 DEF FlowShape, ProcessShape
  <2>4. GoesOn(p)
    BY <1>1, <1>2 DEF GoesOn, FlowShape, ProcessShape, Holding
  <2> HIDE DEF entries
  <2>5. SnapFollows(p)'
    BY <1>2, <2>1, <2>3 DEF SnapFollows, FlowShape, ProcessShape, Holding
  <2>6. SecretsHold' /\ StoresShape'
    BY <1>1, <1>2, <2>1, <2>3
       DEF SecretsHold, SecretsPrecedeMetadata, FlowShape, ProcessShape,
       StoresShape, Holding
  <2> QED
    BY <2>1, <2>2, <2>3, <2>4, <2>5, <2>6, GoingOnKeeps
<1>3. CASE matched = {}
  <2> DEFINE answer == [kind |-> "purged", ids |-> {}]
  <2>1. Answers(p, answer)
    BY <1>1, <1>3 DEF Return, Answers, FlowShape, ProcessShape
  <2>2. StoresShape' /\ SecretsHold'
    BY <1>1, <1>3
       DEF Return, FlowShape, ProcessShape, StoresShape, SecretsHold,
           SecretsPrecedeMetadata, Holding
  <2>3. answer.ids = {} /\ op[p].kind = "purge" /\ meta' = meta /\ stable' = stable
    BY <1>3
  <2> HIDE DEF answer
  <2> QED
    BY <1>1, <2>1, <2>2, <2>3, AnswerKeeps
<1> QED
  BY <1>2, <1>3

\* A deletion takes one secret, or a failed write takes all.
LEMMA OneIsDeleted ==
  ASSUME StoresShape, NEW c \in Credential, StoreDelete(c, TRUE) \/ StoreDelete(c, FALSE)
  PROVE  /\ StoresShape' /\ (torn => torn')
         /\ torn' \/ primary \cup fallback \subseteq primary' \cup fallback' \cup {c}
<1>1. ASSUME FallbackDelete(c, TRUE) \/ FallbackDelete(c, FALSE)
      PROVE  /\ fallback' \subseteq fallback /\ (shape' # "sound" => fallback' = {})
             /\ torn => torn'
             /\ torn' \/ fallback \subseteq fallback' \cup {c}
  BY <1>1 DEF StoresShape, FallbackDelete, Rewrite, file
<1>2. CASE UNCHANGED secrets
  BY <1>2 DEF StoresShape, secrets, file
<1>3. CASE /\ FallbackDelete(c, TRUE) \/ FallbackDelete(c, FALSE)
           /\ primary' = primary \/ primary' = primary \ {c}
  <2>1. /\ fallback' \subseteq fallback /\ (shape' # "sound" => fallback' = {})
        /\ torn => torn'
        /\ torn' \/ fallback \subseteq fallback' \cup {c}
    BY <1>1, <1>3
  <2> QED
    BY <1>3, <2>1 DEF StoresShape
<1> QED
  BY <1>2, <1>3 DEF StoreDelete

\* A secret that is stored is there, and no other is lost but by a failed write.
LEMMA OneIsStored ==
  ASSUME StoresShape, NEW c \in Credential, StorePut(c, TRUE) \/ StorePut(c, FALSE)
  PROVE  /\ StoresShape' /\ (torn => torn')
         /\ torn' \/ primary \cup fallback \subseteq primary' \cup fallback'
         /\ StorePut(c, TRUE) => torn' \/ c \in primary' \cup fallback'
<1>1. ASSUME FallbackPut(c, TRUE) \/ FallbackPut(c, FALSE)
      PROVE  /\ fallback' \subseteq fallback \cup {c} /\ (shape' # "sound" => fallback' = {})
             /\ torn => torn'
             /\ torn' \/ fallback \subseteq fallback'
             /\ FallbackPut(c, TRUE) => c \in fallback'
  BY <1>1 DEF StoresShape, FallbackPut, Rewrite, file
<1>2. CASE UNCHANGED secrets /\ ~StorePut(c, TRUE)
  BY <1>2 DEF StoresShape, secrets, file
<1>3. CASE UNCHANGED file /\ primary' = primary \cup {c}
  BY <1>3 DEF StoresShape, file
<1>4. CASE /\ \/ FallbackPut(c, TRUE)
              \/ FallbackPut(c, FALSE) /\ ~StorePut(c, TRUE)
           /\ UNCHANGED primary
  <2>1. /\ fallback' \subseteq fallback \cup {c} /\ (shape' # "sound" => fallback' = {})
        /\ torn => torn'
        /\ torn' \/ fallback \subseteq fallback'
        /\ FallbackPut(c, TRUE) => c \in fallback'
    BY <1>1, <1>4
  <2> QED
    BY <1>4, <2>1 DEF StoresShape
<1>5. StorePut(c, FALSE) /\ ~StorePut(c, TRUE) =>
        \/ UNCHANGED secrets
        \/ FallbackPut(c, FALSE) /\ UNCHANGED primary
  BY DEF StorePut
<1>6. StorePut(c, TRUE) =>
        \/ UNCHANGED file /\ primary' = primary \cup {c}
        \/ FallbackPut(c, TRUE) /\ UNCHANGED primary
  BY DEF StorePut
<1> QED
  BY <1>2, <1>3, <1>4, <1>5, <1>6

\* Secrets are erased only of credentials whose deletion was asked for.
LEMMA EraseKeeps ==
  ASSUME FlowInv, NEW p \in Process, NEW c \in Credential, Erase(p, c),
         UNCHANGED <<flow, history>>
  PROVE  FlowInv'
<1> USE DEF FlowInv, Erase, flow, history
<1>1. /\ lock = p /\ pc[p] \in Holding /\ c \in condemned
      /\ \A q \in Process \ {p} : pc[q] \notin Holding
  BY CacheAssumption DEF FlowShape, ProcessShape, Holding, SnapFollows, OpAgrees
<1>2. /\ StoresShape' /\ (torn => torn')
      /\ torn' \/ primary \cup fallback \subseteq primary' \cup fallback' \cup {c}
  BY OneIsDeleted DEF FlowShape
<1>3. SecretsPrecedeMetadata'
  BY <1>1, <1>2 DEF SecretsHold, SecretsPrecedeMetadata
<1>4. CASE StoreDelete(c, TRUE) /\ todo' = [todo EXCEPT ![p] = @ \ {c}]
           /\ UNCHANGED <<meta, stable, ring, lock, pc, op, snap, reply>>
  <2>1. GoesOn(p)
    BY <1>1, <1>4 DEF GoesOn, FlowShape, ProcessShape
  <2>2. SnapFollows(p)'
    BY <1>4 DEF SnapFollows, FlowShape, ProcessShape
  <2>3. SecretsHold'
    BY <1>1, <1>2, <1>3, <1>4 DEF SecretsHold, Holding
  <2>4. IsEntries(snap'[p]) /\ Counted(snap'[p])
    BY <1>4 DEF FlowShape, EntriesShape, AccountHolds
  <2> QED
    BY <1>2, <2>1, <2>2, <2>3, <2>4, GoingOnKeeps
<1>5. CASE StoreDelete(c, FALSE) /\ Return(p, Error) /\ UNCHANGED <<meta, stable>>
  <2>1. Answers(p, Error)
    BY <1>1, <1>5 DEF Return, Answers, FlowShape, ProcessShape
  <2>2. SecretsHold'
    BY <1>1, <1>3, <1>5
       DEF Return, SecretsHold, FlowShape, ProcessShape, Holding
  <2> QED
    BY <1>1, <1>2, <1>5, <2>1, <2>2, AnswerKeeps DEF Error, Ok
<1> QED
  BY <1>4, <1>5

\* delete saves what it left.
LEMMA ErasedKeeps ==
  ASSUME FlowInv, NEW p \in Process, Erased(p), UNCHANGED <<flow, history>>
  PROVE  FlowInv'
<1> USE DEF FlowInv, Erased, Save, store, secrets, file, flow, history
<1>1. lock = p /\ snap'[p] = snap[p] /\ todo'[p] = DOMAIN snap[p]
  BY DEF FlowShape, ProcessShape, Holding
<1>2. GoesOn(p)
  BY <1>1 DEF GoesOn, FlowShape, ProcessShape, Holding
<1>3. SnapFollows(p)'
  BY <1>1 DEF SnapFollows, FlowShape, ProcessShape, Holding
<1>4. SecretsHold' /\ StoresShape'
  BY <1>1
     DEF SecretsHold, SecretsPrecedeMetadata, FlowShape, ProcessShape,
         StoresShape
<1>5. IsEntries(snap'[p]) /\ Counted(snap'[p])
  BY <1>1 DEF FlowShape, EntriesShape, AccountHolds
<1> QED
  BY <1>2, <1>3, <1>4, <1>5, GoingOnKeeps

\* A secret is stored before the metadata that will point at it.
LEMMA StoreKeeps ==
  ASSUME FlowInv, NEW p \in Process, NEW c \in Credential, Store(p, c),
         UNCHANGED <<flow, history>>
  PROVE  FlowInv'
<1> USE DEF FlowInv, Store, flow, history
<1>1. /\ lock = p /\ pc[p] \in Holding
      /\ \A q \in Process \ {p} : pc[q] \notin Holding
  BY CacheAssumption DEF FlowShape, ProcessShape, Holding
<1>2. /\ StoresShape' /\ (torn => torn')
      /\ torn' \/ primary \cup fallback \subseteq primary' \cup fallback'
      /\ StorePut(c, TRUE) => torn' \/ c \in primary' \cup fallback'
  BY OneIsStored DEF FlowShape
<1>3. SecretsPrecedeMetadata'
  BY <1>1, <1>2 DEF SecretsHold, SecretsPrecedeMetadata, Return
<1>4. CASE StorePut(c, TRUE) /\ todo' = [todo EXCEPT ![p] = @ \ {c}]
           /\ UNCHANGED <<meta, stable, ring, lock, pc, op, snap, reply>>
  <2>1. GoesOn(p)
    BY <1>1, <1>4 DEF GoesOn, FlowShape, ProcessShape
  <2>2. SnapFollows(p)'
    BY <1>4 DEF SnapFollows, FlowShape, ProcessShape
  <2>3. SecretsHold'
    BY <1>1, <1>2, <1>3, <1>4 DEF SecretsHold, Holding, FlowShape, ProcessShape
  <2>4. IsEntries(snap'[p]) /\ Counted(snap'[p])
    BY <1>4 DEF FlowShape, EntriesShape, AccountHolds
  <2> QED
    BY <1>2, <2>1, <2>2, <2>3, <2>4, GoingOnKeeps
<1>5. CASE StorePut(c, FALSE) /\ Return(p, Error) /\ UNCHANGED <<meta, stable>>
  <2>1. Answers(p, Error)
    BY <1>1, <1>5 DEF Return, Answers, FlowShape, ProcessShape
  <2>2. SecretsHold'
    BY <1>1, <1>3, <1>5
       DEF Return, SecretsHold, FlowShape, ProcessShape, Holding
  <2> QED
    BY <1>1, <1>2, <1>5, <2>1, <2>2, AnswerKeeps DEF Error, Ok
<1> QED
  BY <1>4, <1>5

\* A file that is published is what the holder of the lock worked on, all of it
\* or nothing.
LEMMA PublishedFollows ==
  ASSUME FlowInv, NEW p \in Process, pc[p] \in Holding, NEW entries, NEW answer,
         NEW outcome \in Outcome, Publish(p, entries, outcome, answer),
         Follows(entries, p), UNCHANGED condemned,
         torn \/ \A c \in DOMAIN entries \ condemned :
                   entries[c].inline \/ c \in primary \cup fallback
  PROVE  /\ \/ Answers(p, Error)
            \/ Answers(p, answer) /\ outcome = "Applied" /\ meta' = entries /\ stable' = entries
         /\ meta' = meta \/ Follows(meta', p)
         /\ stable' = stable \/ Follows(stable', p)
         /\ StoresShape' /\ SecretsHold'
<1> USE DEF FlowInv, Publish, Return, Outcome
<1>1. lock = p /\ \A q \in Process \ {p} : pc[q] \notin Holding
  BY CacheAssumption DEF FlowShape, ProcessShape
<1>2. \A a : a = (IF outcome = "Applied" THEN answer ELSE Error) => Answers(p, a)
  BY <1>1 DEF Answers, FlowShape, ProcessShape
<1>3. StoresShape'
  BY DEF FlowShape, StoresShape, secrets, file
<1>4. SecretsPrecedeMetadata'
  BY DEF SecretsHold, SecretsPrecedeMetadata, secrets, file
<1>5. SecretsHold'
  BY <1>1, <1>4 DEF SecretsHold, FlowShape, ProcessShape, Holding
<1> QED
  BY <1>2, <1>3, <1>5

\* purge publishes what it left.
LEMMA PurgedKeeps ==
  ASSUME FlowInv, NEW p \in Process, NEW outcome \in Outcome, Purged(p, outcome),
         UNCHANGED <<flow, history>>
  PROVE  FlowInv'
<1> DEFINE answer == [kind |-> "purged", ids |-> DOMAIN meta \ DOMAIN snap[p]]
<1> USE DEF FlowInv, Purged
<1>1. pc[p] \in Holding /\ Follows(snap[p], p) /\ condemned' = condemned
  BY DEF Follows, FlowShape, EntriesShape, IsEntries, Entry, Holding, history
<1>2. torn \/ \A c \in DOMAIN snap[p] \ condemned :
                snap[p][c].inline \/ c \in primary \cup fallback
  BY DEF SecretsHold
<1>3. /\ \/ Answers(p, Error)
         \/ Answers(p, answer) /\ meta' = snap[p] /\ stable' = snap[p]
      /\ meta' = meta \/ Follows(meta', p)
      /\ stable' = stable \/ Follows(stable', p)
      /\ StoresShape' /\ SecretsHold'
  BY <1>1, <1>2, PublishedFollows
<1>4. answer.ids \subseteq (op[p].ids \cap Listed) \ DOMAIN snap[p]
  BY DEF SnapFollows, Listed
<1>5. CASE Answers(p, Error)
  BY <1>1, <1>3, <1>5, AnswerKeeps DEF Error, Ok
<1>6. CASE Answers(p, answer) /\ meta' = snap[p] /\ stable' = snap[p]
  <2>1. answer.ids \subseteq (op[p].ids \cap Listed) \ Listed'
    BY <1>4, <1>6 DEF Listed
  <2> HIDE DEF answer
  <2> QED
    BY <1>1, <1>3, <1>6, <2>1, AnswerKeeps
<1> QED
  BY <1>3, <1>5, <1>6

\* save publishes what it stored, all of it pointing at the stores.
LEMMA SavedKeeps ==
  ASSUME FlowInv, NEW p \in Process, NEW outcome \in Outcome, Saved(p, outcome),
         UNCHANGED <<flow, history>>
  PROVE  FlowInv'
<1> DEFINE entries == [c \in DOMAIN snap[p] |-> [snap[p][c] EXCEPT !.inline = FALSE]]
<1> USE DEF FlowInv, Saved, Stored
<1>1. Follows(entries, p) /\ DOMAIN entries = DOMAIN snap[p] /\ condemned' = condemned
  <2>1. ASSUME NEW e \in Entry
        PROVE  [e EXCEPT !.inline = FALSE] \in Entry /\ [e EXCEPT !.inline = FALSE].uses = e.uses
               /\ e.uses \in Nat
    BY DEF Entry
  <2>2. IsEntries(snap[p])
    BY DEF FlowShape, EntriesShape
  <2> QED
    BY <2>1, <2>2 DEF Follows, IsEntries, Holding, history
<1>2. torn \/ \A c \in DOMAIN entries \ condemned : c \in primary \cup fallback
  BY DEF SecretsHold
<1> HIDE DEF entries
<1>3. /\ \/ Answers(p, Error)
         \/ Answers(p, Ok) /\ meta' = entries /\ stable' = entries
      /\ meta' = meta \/ Follows(meta', p)
      /\ stable' = stable \/ Follows(stable', p)
      /\ StoresShape' /\ SecretsHold' /\ pc[p] \in Holding
  <2>1. pc[p] \in Holding
    BY DEF Holding
  <2>2. Publish(p, entries, outcome, Ok)
    BY DEF entries
  <2> QED
    BY <1>1, <1>2, <2>1, <2>2, PublishedFollows
<1>4. op[p].kind \in {"put", "success", "reject", "delete"}
  BY DEF SnapFollows
<1>5. op[p].kind = "delete" => op[p].id \notin DOMAIN snap[p]
  BY DEF SnapFollows
<1> QED
  BY <1>1, <1>3, <1>4, <1>5, AnswerKeeps DEF Error, Ok, Listed

\* A claim writes the use down before it answers with the credential: the
\* process gains a right that the file counts.
LEMMA ClaimWriteKeeps ==
  ASSUME FlowInv, NEW p \in Process, NEW c \in Credential, NEW outcome \in Outcome,
         ClaimWrite(p, c, outcome), UNCHANGED <<flow, history>>
  PROVE  FlowInv'
<1> DEFINE entries == Consumed(snap[p], c)
           answer == [kind |-> "hit", id |-> c]
<1> USE DEF FlowInv, ClaimWrite
<1>1. /\ pc[p] = "reading" /\ op[p].kind = "claim" /\ stage[p] = "claiming"
      /\ c \in DOMAIN snap[p] /\ Usable(c, snap[p][c])
      /\ condemned' = condemned
  BY DEF Claimable, OpAgrees, history
<1>2. IsEntries(snap[p]) /\ snap[p][c].uses \in Nat
  BY <1>1 DEF FlowShape, EntriesShape, IsEntries, Entry
<1>3. /\ DOMAIN entries = DOMAIN snap[p]
      /\ \A b \in DOMAIN snap[p] \ {c} : entries[b] = snap[p][b]
  BY <1>1 DEF Consumed
<1>4. /\ entries[c] \in Entry /\ entries[c].uses = snap[p][c].uses + 1
      /\ entries[c].inline = snap[p][c].inline
  <2>1. ASSUME NEW e \in Entry
        PROVE  LET f == [e EXCEPT !.uses = @ + 1]
               IN  f \in Entry /\ f.uses = e.uses + 1 /\ f.inline = e.inline
    BY DEF Entry
  <2>2. entries[c] = [snap[p][c] EXCEPT !.uses = @ + 1]
    BY <1>1 DEF Consumed
  <2> QED
    BY <1>1, <1>2, <2>1, <2>2 DEF IsEntries
<1>5. Publish(p, entries, outcome, answer)
  OBVIOUS
<1> HIDE DEF entries, answer
<1>6. Follows(entries, p)
  <2>1. \A b \in DOMAIN snap[p] : snap[p][b].uses \in Nat
    BY <1>2 DEF IsEntries, Entry
  <2>2. IsEntries(entries)
    BY <1>2, <1>3, <1>4 DEF IsEntries
  <2>3. \A b \in DOMAIN entries : snap[p][b].uses <= entries[b].uses
    BY <1>2, <1>3, <1>4, <2>1
  <2> QED
    BY <1>1, <1>3, <2>2, <2>3 DEF Follows, Holding
<1>7. torn \/ \A b \in DOMAIN entries \ condemned :
                entries[b].inline \/ b \in primary \cup fallback
  <2>1. torn \/ \A b \in DOMAIN snap[p] \ condemned :
                  snap[p][b].inline \/ b \in primary \cup fallback
    BY <1>1 DEF SecretsHold
  <2> QED
    BY <1>3, <1>4, <2>1
<1>8. /\ \/ Answers(p, Error)
         \/ Answers(p, answer) /\ meta' = entries /\ stable' = entries
      /\ meta' = meta \/ Follows(meta', p)
      /\ stable' = stable \/ Follows(stable', p)
      /\ StoresShape' /\ SecretsHold' /\ pc[p] \in Holding
  BY <1>1, <1>5, <1>6, <1>7, PublishedFollows DEF Holding
<1>9. CASE Answers(p, Error)
  BY <1>1, <1>8, <1>9, AnswerKeeps DEF Error
<1>10. CASE Answers(p, answer) /\ meta' = entries /\ stable' = entries
  <2>1. /\ FlowShape' /\ SecretsHold' /\ DeletionHolds'
        /\ \A q \in Process : /\ OpAgrees(q)' /\ ReplyAgrees(q)'
                              /\ SnapFollows(q)' /\ FreshIsAlone(q)'
    <3>1. answer.kind = "hit" => answer.id \in Listed'
      BY <1>1, <1>3, <1>10 DEF answer, Listed
    <3> QED
      BY <1>1, <1>8, <1>10, <3>1, AnswerAgrees
  <2>2. UNCHANGED <<stage, bearer, sent, minted>>
    BY DEF flow, history
  <2>3. /\ \A q \in Process \ {p} : /\ pc'[q] = pc[q] /\ reply'[q] = reply[q]
                                    /\ op'[q] = op[q] /\ snap'[q] = NoEntries
        /\ pc'[p] = "idle" /\ reply'[p] = answer /\ op'[p] = NoOp
        /\ snap'[p] = NoEntries
    BY <1>1, <1>10, CacheAssumption
       DEF Answers, FlowShape, ProcessShape, SnapFollows, Holding
  <2>4. /\ Rights(c)' = Rights(c) \cup {p} /\ p \notin Rights(c)
        /\ \A b \in Credential \ {c} : Rights(b)' = Rights(b)
    BY <1>1, <2>2, <2>3 DEF Rights, Right, At, answer
  <2>5. \A b \in Credential : IsFiniteSet(Rights(b)) /\ sent[b] \in Nat /\ Due(b) \in Nat
    BY DueIsNatural DEF AccountHolds, FlowShape, CommandShape
  <2>6. IsFiniteSet(Rights(c))' /\ Due(c)' = Due(c) + 1
    <3>1. /\ IsFiniteSet(Rights(c) \cup {p})
          /\ Cardinality(Rights(c) \cup {p}) = Cardinality(Rights(c)) + 1
      BY <2>4, <2>5, FS_AddElement
    <3>2. Cardinality(Rights(c)) \in Nat
      BY <2>5, FS_CardinalityType
    <3> QED
      BY <2>2, <2>4, <2>5, <3>1, <3>2 DEF Due
  <2>7. \A b \in Credential \ {c} : IsFiniteSet(Rights(b))' /\ Due(b)' = Due(b)
    BY <2>2, <2>4, <2>5 DEF Due
  <2>8. Due(c) <= snap[p][c].uses
    BY <1>1 DEF AccountHolds, Counted
  <2>9. \A b \in Credential : MaxUses[b] = Unlimited \/ Due(b)' <= MaxUses[b]
    BY <1>1, <1>2, <2>5, <2>6, <2>7, <2>8, CacheAssumption
       DEF AccountHolds, Usable
  <2>10. \A b \in DOMAIN entries : Due(b)' <= entries[b].uses
    <3>1. \A b \in DOMAIN entries \ {c} : Due(b) <= entries[b].uses /\ b \in Credential
      BY <1>2, <1>3 DEF AccountHolds, Counted, IsEntries
    <3>2. \A b \in DOMAIN entries \ {c} : Due(b)' <= entries[b].uses
      BY <1>3, <2>7, <3>1
    <3>3. Due(c)' <= entries[c].uses
      BY <1>2, <1>4, <2>5, <2>6, <2>8
    <3> QED
      BY <3>2, <3>3
  <2>11. Counted(meta)' /\ Counted(stable)' /\ \A q \in Process : Counted(snap[q])'
    BY <1>10, <2>3, <2>10 DEF Counted, NoEntries
  <2>12. ASSUME NEW q \in Process, op'[q].kind = "put"
         PROVE  sent'[op'[q].id] = 0 /\ Rights(op[q].id)' = {q} /\ op'[q] = op[q]
    <3>1. q # p /\ op'[q] = op[q]
      BY <2>3, <2>12 DEF NoOp
    <3>2. op[q].id # c
      BY <1>1, <2>12, <3>1 DEF FreshIsAlone, SnapFollows
    <3>3. op[q].id \in Credential /\ sent[op[q].id] = 0 /\ Rights(op[q].id) = {q}
      BY <2>12, <3>1 DEF AccountHolds, FreshIsAlone, FlowShape, CommandShape
    <3> QED
      BY <2>2, <2>4, <3>1, <3>2, <3>3
  <2>13. \A b \in Credential : b \notin Cached \cup minted' => sent'[b] = 0
    BY <2>2 DEF AccountHolds
  <2>14. AccountHolds'
    BY <2>6, <2>7, <2>9, <2>11, <2>12, <2>13 DEF AccountHolds
  <2> QED
    BY <2>1, <2>14
<1> QED
  BY <1>8, <1>9, <1>10
-----------------------------------------------------------------------------
(* The commands.                                                           *)

\* A command goes on, or calls the cache.
Moves(p) ==
  /\ pc[p] = "idle" /\ UNCHANGED <<store, ring, lock, snap, todo, reply>>
  /\ \/ UNCHANGED <<pc, op>> /\ stage'[p] \notin {"claiming", "purging", "evicting"}
     \/ \E k : k.kind # "none" /\ Call(p, k)
  /\ \A q \in Process \ {p} : stage'[q] = stage[q] /\ bearer'[q] = bearer[q]
  /\ minted \subseteq minted' /\ condemned \subseteq condemned' /\ gone' \subseteq Deleted

\* What somebody is putting was not deleted.
LEMMA FreshIsNotDeleted ==
  ASSUME FlowInv, NEW q \in Process, op[q].kind = "put"
  PROVE  op[q].id \notin Deleted /\ op[q].id \in Credential /\ pc[q] # "idle"
<1> USE DEF FlowInv
<1>1. pc[q] # "idle" /\ stage[q] = "saving" /\ op[q].id = bearer[q].id
  BY DEF FlowShape, ProcessShape, NoOp, OpAgrees
<1>2. op[q].id \notin Deleted
  BY <1>1 DEF FreshIsAlone, Deleted, At
<1> QED
  BY <1>1, <1>2 DEF FreshIsAlone, FlowShape, CommandShape

\* A command keeps all but the account, if its own credential and its own call
\* agree.
LEMMA CommandAgrees ==
  ASSUME FlowInv, NEW p \in Process, Moves(p), CommandShape', OpAgrees(p)',
         FreshIsAlone(p)',
         \A q \in Process \ {p} : op[q].kind = "put" => bearer'[p].id # op[q].id
  PROVE  /\ FlowShape' /\ SecretsHold' /\ DeletionHolds'
         /\ \A q \in Process : /\ OpAgrees(q)' /\ ReplyAgrees(q)'
                               /\ SnapFollows(q)' /\ FreshIsAlone(q)'
<1> USE DEF FlowInv, Moves, store, secrets, file
<1>1. /\ \A q \in Process \ {p} : pc'[q] = pc[q] /\ op'[q] = op[q]
      /\ pc'[p] = "calling" \/ stage'[p] \notin {"claiming", "purging", "evicting"}
      /\ pc'[p] \in {"idle", "calling"}
  BY DEF Call, FlowShape, ProcessShape
<1>2. EntriesShape' /\ StoresShape'
  BY DEF FlowShape, EntriesShape, IsEntries, StoresShape
<1>3. ProcessShape'
  <2>1. CASE UNCHANGED <<pc, op>>
    BY <2>1 DEF FlowShape, ProcessShape
  <2>2. ASSUME NEW k, k.kind # "none", Call(p, k) PROVE ProcessShape'
    BY <2>2 DEF Call, FlowShape, ProcessShape, NoOp, Holding
  <2> QED
    BY <2>1, <2>2
<1>4. \A q \in Process : OpAgrees(q)'
  BY <1>1 DEF OpAgrees
<1>5. \A q \in Process \ {p}, s \in Stages : At(q, s)' <=> At(q, s)
  BY <1>1 DEF At
<1>6. ~At(p, "claiming")' /\ ~At(p, "purging")' /\ ~At(p, "evicting")'
  BY <1>1 DEF At
<1>7. \A q \in Process : ReplyAgrees(q)'
  BY <1>5, <1>6 DEF ReplyAgrees, Stages
<1>8. \A q \in Process : SnapFollows(q)'
  <2>1. SnapFollows(p)'
    BY <1>1 DEF SnapFollows, NoEntries, Holding
  <2>2. ASSUME NEW q \in Process \ {p} PROVE SnapFollows(q)'
    BY <1>1 DEF SnapFollows
  <2> QED
    BY <2>1, <2>2
<1>9. \A q \in Process : FreshIsAlone(q)'
  <2> SUFFICES ASSUME NEW q \in Process \ {p}, op[q].kind = "put"
               PROVE  FreshIsAlone(q)'
    BY <1>1 DEF FreshIsAlone
  <2>1. op[q].id \in minted' /\ op[q].id \notin DOMAIN meta' \cup DOMAIN stable' \cup gone'
    BY FreshIsNotDeleted DEF FreshIsAlone
  <2>2. \A r \in Process \ {q} : bearer'[r].id # op[q].id
    BY DEF FreshIsAlone
  <2> QED
    BY <1>1, <1>5, <1>6, <2>1, <2>2 DEF FreshIsAlone, Stages
<1>10. DeletionHolds'
  <2>1. Deleted' \subseteq Deleted
    <3>1. \A q \in Process \ {p} : bearer'[q] = bearer[q]
      OBVIOUS
    <3>2. \A q \in Process : reply'[q] = reply[q]
      OBVIOUS
    <3> QED
      BY <1>5, <1>6, <3>1, <3>2 DEF Deleted, Stages
  <2> QED
    BY <2>1 DEF DeletionHolds, Listed
<1>11. SecretsHold'
  BY <1>1 DEF SecretsHold, SecretsPrecedeMetadata
<1> QED
  BY <1>2, <1>3, <1>4, <1>7, <1>8, <1>9, <1>10, <1>11 DEF FlowShape

\* It keeps the account if it takes no right and sends nothing.
LEMMA CommandKeeps ==
  ASSUME FlowInv, NEW p \in Process, Moves(p), CommandShape', OpAgrees(p)',
         op'[p].kind # "put", sent' = sent,
         \/ bearer'[p].id \in {bearer[p].id, "none"}
         \/ At(p, "claiming") /\ reply[p].kind = "hit" /\ bearer'[p].id = reply[p].id,
         \A c \in Credential : Right(p, c)' => Right(p, c)
  PROVE  FlowInv'
<1> USE DEF FlowInv
<1>1. /\ FlowShape' /\ SecretsHold' /\ DeletionHolds'
      /\ \A q \in Process : /\ OpAgrees(q)' /\ ReplyAgrees(q)'
                            /\ SnapFollows(q)' /\ FreshIsAlone(q)'
  <2>1. FreshIsAlone(p)'
    BY DEF FreshIsAlone
  <2>2. \A q \in Process \ {p} : op[q].kind = "put" => bearer'[p].id # op[q].id
    BY FlowAssumption, FreshIsNotDeleted DEF FreshIsAlone
  <2> QED
    BY <2>1, <2>2, CommandAgrees
<1>2. \A q \in Process \ {p} : /\ pc'[q] = pc[q] /\ op'[q] = op[q] /\ reply'[q] = reply[q]
                               /\ stage'[q] = stage[q] /\ bearer'[q] = bearer[q]
  BY DEF Moves, Call, FlowShape, ProcessShape
<1>3. \A c \in Credential : Rights(c)' \subseteq Rights(c)
  BY <1>2 DEF Rights, Right, At
<1>4. Counted(meta') /\ Counted(stable') /\ \A q \in Process : Counted(snap'[q])
  BY DEF Moves, store, AccountHolds
<1>5. \A q \in Process : op'[q].kind = "put" =>
        op'[q] = op[q] /\ op[q].id \in Credential /\ Right(q, op[q].id)'
  BY <1>2, FreshIsNotDeleted DEF Right, OpAgrees
<1>6. AccountHolds'
  BY <1>1, <1>3, <1>4, <1>5, AccountKept DEF FlowShape, Moves
<1> QED
  BY <1>1, <1>6

\* A call for a claim, and a request that goes out without one.
LEMMA BeginKeeps ==
  ASSUME FlowInv, NEW p \in Process, Begin(p) \/ SendPlain(p)
  PROVE  FlowInv'
<1> USE DEF FlowInv, Begin, SendPlain, Ask, Continue, Goto, At, history
<1>1. Moves(p)
  <2>1. CASE \E s \in {"plain", "owing", "done"} : Continue(p, s) /\ UNCHANGED bearer
    BY <2>1 DEF Moves, cacheVars, FlowShape, CommandShape, Deleted
  <2>2. CASE Ask(p, "claim", "claiming")
    BY <2>2 DEF Moves, Call, FlowShape, CommandShape, Deleted
  <2> QED
    BY <2>1, <2>2
<1>2. CommandShape'
  BY DEF FlowShape, CommandShape, Stages
<1>3. OpAgrees(p)' /\ op'[p].kind # "put"
  BY DEF OpAgrees, FlowShape, ProcessShape, CommandShape, Call, cacheVars, NoOp
<1>4. \A c \in Credential : Right(p, c)' => Right(p, c)
  BY DEF Right, FlowShape, ProcessShape, CommandShape, Call, cacheVars
<1> QED
  BY <1>1, <1>2, <1>3, <1>4, CommandKeeps

\* The answer to a claim is presented.
LEMMA ClaimedKeeps ==
  ASSUME FlowInv, NEW p \in Process, Claimed(p)
  PROVE  FlowInv'
<1> USE DEF FlowInv, Claimed, Continue, Goto, At, history, cacheVars
<1>1. Moves(p)
  BY DEF Moves, FlowShape, CommandShape, Deleted, Error
<1>2. CommandShape'
  BY DEF FlowShape, CommandShape, Stages
<1>3. OpAgrees(p)' /\ op'[p].kind # "put"
  BY FlowAssumption, CacheAssumption
     DEF OpAgrees, ReplyAgrees, FlowShape, ProcessShape, CommandShape, NoOp,
         Nothing, Ok, Error
<1>4. \A c \in Credential : Right(p, c)' => Right(p, c)
  BY DEF Right, FlowShape, ProcessShape, CommandShape
<1>5. \/ bearer'[p].id \in {bearer[p].id, "none"}
      \/ At(p, "claiming") /\ reply[p].kind = "hit" /\ bearer'[p].id = reply[p].id
  BY DEF FlowShape, CommandShape, Nothing
<1> QED
  BY <1>1, <1>2, <1>3, <1>4, <1>5, CommandKeeps

\* What was saved is presented.
LEMMA SavedOrNotKeeps ==
  ASSUME FlowInv, NEW p \in Process, SavedOrNot(p)
  PROVE  FlowInv'
<1> USE DEF FlowInv, SavedOrNot, Continue, Goto, At, history, cacheVars
<1>1. Moves(p)
  BY DEF Moves, FlowShape, CommandShape, Deleted, Error
<1>2. CommandShape'
  BY DEF FlowShape, CommandShape, Stages, OpAgrees
<1>3. OpAgrees(p)' /\ op'[p].kind # "put"
  BY DEF OpAgrees, ReplyAgrees, FlowShape, ProcessShape, CommandShape, NoOp,
      Nothing, Ok, Error
<1>4. \A c \in Credential : Right(p, c)' => Right(p, c)
  BY DEF Right, FlowShape, ProcessShape, CommandShape
<1>5. \/ bearer'[p].id \in {bearer[p].id, "none"}
      \/ At(p, "claiming") /\ reply[p].kind = "hit" /\ bearer'[p].id = reply[p].id
  BY DEF FlowShape, CommandShape, Nothing
<1> QED
  BY <1>1, <1>2, <1>3, <1>4, <1>5, CommandKeeps

\* The answer of the server is marked.
LEMMA AnsweredKeeps ==
  ASSUME FlowInv, NEW p \in Process, Answered(p) \/ Marked(p)
  PROVE  FlowInv'
<1> USE DEF FlowInv, Answered, Marked, Ask, Call, Continue, Goto, At, history,
        cacheVars
<1>1. Moves(p)
  BY DEF Moves, FlowShape, CommandShape, Deleted, Error
<1>2. CommandShape'
  BY DEF FlowShape, CommandShape, Stages
<1>3. OpAgrees(p)' /\ op'[p].kind # "put"
  BY DEF OpAgrees, ReplyAgrees, FlowShape, ProcessShape, CommandShape, NoOp,
      Nothing, Ok, Error
<1>4. \A c \in Credential : Right(p, c)' => Right(p, c)
  BY DEF Right, FlowShape, ProcessShape, CommandShape
<1>5. \/ bearer'[p].id \in {bearer[p].id, "none"}
      \/ At(p, "claiming") /\ reply[p].kind = "hit" /\ bearer'[p].id = reply[p].id
  BY DEF FlowShape, CommandShape, Nothing
<1> QED
  BY <1>1, <1>2, <1>3, <1>4, <1>5, CommandKeeps

\* A rejected credential is condemned.
LEMMA EvictKeeps ==
  ASSUME FlowInv, NEW p \in Process, Evict(p)
  PROVE  FlowInv'
<1> USE DEF FlowInv, Evict, Ask, Call, Continue, Goto, At, history, cacheVars
<1>1. Moves(p)
  BY DEF Moves, FlowShape, CommandShape, Deleted, Error
<1>2. CommandShape'
  BY DEF FlowShape, CommandShape, Stages
<1>3. OpAgrees(p)' /\ op'[p].kind # "put"
  BY DEF OpAgrees, ReplyAgrees, FlowShape, ProcessShape, CommandShape, NoOp,
      Nothing, Ok, Error
<1>4. \A c \in Credential : Right(p, c)' => Right(p, c)
  BY DEF Right, FlowShape, ProcessShape, CommandShape
<1>5. \/ bearer'[p].id \in {bearer[p].id, "none"}
      \/ At(p, "claiming") /\ reply[p].kind = "hit" /\ bearer'[p].id = reply[p].id
  BY DEF FlowShape, CommandShape, Nothing
<1> QED
  BY <1>1, <1>2, <1>3, <1>4, <1>5, CommandKeeps

\* What was evicted is gone.
LEMMA EvictedKeeps ==
  ASSUME FlowInv, NEW p \in Process, Evicted(p)
  PROVE  FlowInv'
<1> USE DEF FlowInv, Evicted, Continue, Goto, At, history, cacheVars
<1>0. gone' \subseteq Deleted
  <2>1. bearer[p].id \in Credential
    BY CacheAssumption DEF OpAgrees, FlowShape, CommandShape
  <2> QED
    BY <2>1 DEF Deleted
<1>1. Moves(p)
  BY <1>0 DEF Moves, FlowShape, CommandShape
<1>2. CommandShape'
  BY DEF FlowShape, CommandShape, Stages, OpAgrees
<1>3. OpAgrees(p)' /\ op'[p].kind # "put"
  BY DEF OpAgrees, ReplyAgrees, FlowShape, ProcessShape, CommandShape, NoOp,
      Nothing, Ok, Error
<1>4. \A c \in Credential : Right(p, c)' => Right(p, c)
  BY DEF Right, FlowShape, ProcessShape, CommandShape
<1>5. \/ bearer'[p].id \in {bearer[p].id, "none"}
      \/ At(p, "claiming") /\ reply[p].kind = "hit" /\ bearer'[p].id = reply[p].id
  BY DEF FlowShape, CommandShape, Nothing
<1> QED
  BY <1>1, <1>2, <1>3, <1>4, <1>5, CommandKeeps

\* A purge condemns what it selects.
LEMMA BeginPurgeKeeps ==
  ASSUME FlowInv, NEW p \in Process, BeginPurge(p)
  PROVE  FlowInv'
<1> USE DEF FlowInv, BeginPurge, Call, Goto, At, history
<1>1. Moves(p)
  BY DEF Moves, FlowShape, CommandShape, Deleted, Error
<1>2. CommandShape'
  BY FlowAssumption DEF FlowShape, CommandShape, Stages
<1>3. OpAgrees(p)' /\ op'[p].kind # "put"
  BY DEF OpAgrees, ReplyAgrees, FlowShape, ProcessShape, CommandShape, NoOp,
      Nothing, Ok, Error
<1>4. \A c \in Credential : Right(p, c)' => Right(p, c)
  BY DEF Right, FlowShape, ProcessShape, CommandShape
<1>5. \/ bearer'[p].id \in {bearer[p].id, "none"}
      \/ At(p, "claiming") /\ reply[p].kind = "hit" /\ bearer'[p].id = reply[p].id
  BY DEF FlowShape, CommandShape, Nothing
<1> QED
  BY <1>1, <1>2, <1>3, <1>4, <1>5, CommandKeeps

\* What was purged is gone.
LEMMA EndPurgeKeeps ==
  ASSUME FlowInv, NEW p \in Process, EndPurge(p)
  PROVE  FlowInv'
<1> USE DEF FlowInv, EndPurge, Continue, Goto, At, history, cacheVars
<1>0. gone' \subseteq Deleted
  BY DEF Deleted, ReplyAgrees, Error
<1>1. Moves(p)
  BY <1>0 DEF Moves, FlowShape, CommandShape
<1>2. CommandShape'
  BY DEF FlowShape, CommandShape, Stages, ReplyAgrees, Error
<1>3. OpAgrees(p)' /\ op'[p].kind # "put"
  BY DEF OpAgrees, ReplyAgrees, FlowShape, ProcessShape, CommandShape, NoOp,
      Nothing, Ok, Error
<1>4. \A c \in Credential : Right(p, c)' => Right(p, c)
  BY DEF Right, FlowShape, ProcessShape, CommandShape
<1>5. \/ bearer'[p].id \in {bearer[p].id, "none"}
      \/ At(p, "claiming") /\ reply[p].kind = "hit" /\ bearer'[p].id = reply[p].id
  BY DEF FlowShape, CommandShape, Nothing
<1> QED
  BY <1>1, <1>2, <1>3, <1>4, <1>5, CommandKeeps

\* A right that is used is a use that was made.
LEMMA PresentKeeps ==
  ASSUME FlowInv, NEW p \in Process, Present(p)
  PROVE  FlowInv'
<1> DEFINE b == bearer[p].id
<1> USE DEF FlowInv, Present, Continue, Goto, At, cacheVars
<1>1. b \in Credential /\ b \in Cached \cup minted
  BY CacheAssumption DEF OpAgrees, FlowShape, CommandShape
<1>2. Moves(p)
  BY DEF Moves, FlowShape, CommandShape, Deleted
<1>3. CommandShape'
  BY <1>1 DEF FlowShape, CommandShape, Stages
<1>4. OpAgrees(p)' /\ op'[p].kind # "put"
  BY DEF OpAgrees, FlowShape, ProcessShape, CommandShape, NoOp
<1>5. /\ FlowShape' /\ SecretsHold' /\ DeletionHolds'
      /\ \A q \in Process : /\ OpAgrees(q)' /\ ReplyAgrees(q)'
                            /\ SnapFollows(q)' /\ FreshIsAlone(q)'
  <2>1. FreshIsAlone(p)'
    BY <1>4 DEF FreshIsAlone
  <2>2. \A q \in Process \ {p} : op[q].kind = "put" => bearer'[p].id # op[q].id
    BY DEF FreshIsAlone
  <2> QED
    BY <1>2, <1>3, <1>4, <2>1, <2>2, CommandAgrees
<1>6. /\ Rights(b)' = Rights(b) \ {p} /\ p \in Rights(b)
      /\ \A c \in Credential \ {b} : Rights(c)' = Rights(c)
  BY DEF Rights, Right, FlowShape, CommandShape
<1>7. \A c \in Credential : IsFiniteSet(Rights(c)) /\ sent[c] \in Nat
  BY DEF AccountHolds, FlowShape, CommandShape
<1>8. sent'[b] = sent[b] + 1 /\ \A c \in Credential \ {b} : sent'[c] = sent[c]
  BY <1>1 DEF FlowShape, CommandShape
<1>9. \A c \in Credential : IsFiniteSet(Rights(c))' /\ Due(c)' = Due(c)
  <2>1. /\ IsFiniteSet(Rights(b) \ {p})
        /\ Cardinality(Rights(b) \ {p}) = Cardinality(Rights(b)) - 1
    BY <1>1, <1>6, <1>7, FS_RemoveElement
  <2>2. Cardinality(Rights(b)) \in Nat
    BY <1>1, <1>7, FS_CardinalityType
  <2>3. IsFiniteSet(Rights(b))' /\ Due(b)' = Due(b)
    BY <1>1, <1>6, <1>7, <1>8, <2>1, <2>2 DEF Due
  <2>4. \A c \in Credential \ {b} : IsFiniteSet(Rights(c))' /\ Due(c)' = Due(c)
    BY <1>6, <1>7, <1>8 DEF Due
  <2> QED
    BY <2>3, <2>4
<1>10. \A q \in Process : op'[q].kind = "put" =>
         sent'[op[q].id] = 0 /\ Rights(op[q].id)' = {q} /\ op'[q] = op[q]
  <2> SUFFICES ASSUME NEW q \in Process, op[q].kind = "put"
               PROVE  sent'[op[q].id] = 0 /\ Rights(op[q].id)' = {q}
    OBVIOUS
  <2>1. op[q].id \in Credential /\ q # p
    BY FreshIsNotDeleted
  <2>2. op[q].id # b
    BY <2>1 DEF FreshIsAlone
  <2>3. sent[op[q].id] = 0 /\ Rights(op[q].id) = {q}
    BY DEF AccountHolds
  <2> QED
    BY <1>6, <1>8, <2>1, <2>2, <2>3
<1>11. Counted(meta)' /\ Counted(stable)' /\ \A q \in Process : Counted(snap[q])'
  BY <1>9 DEF AccountHolds, Counted, FlowShape, EntriesShape, IsEntries, store
<1>12. \A c \in Credential : c \notin Cached \cup minted' => sent'[c] = 0
  BY <1>1, <1>8 DEF AccountHolds
<1>13. \A c \in Credential : MaxUses[c] = Unlimited \/ Due(c)' <= MaxUses[c]
  BY <1>9 DEF AccountHolds
<1>14. AccountHolds'
  BY <1>9, <1>10, <1>11, <1>12, <1>13 DEF AccountHolds
<1> QED
  BY <1>5, <1>14

\* What is paid for was never seen before: its first use is due to the process
\* that paid, and is the one that the put will write down.
LEMMA PayKeeps ==
  ASSUME FlowInv, NEW p \in Process, Pay(p)
  PROVE  FlowInv'
<1> USE DEF FlowInv, Goto
<1>1. CASE Continue(p, "done") /\ UNCHANGED <<minted, bearer>>
  <2> USE <1>1 DEF Pay, Continue, At, cacheVars
  <2>1. Moves(p)
    BY DEF Moves, FlowShape, CommandShape, Deleted
  <2>2. CommandShape'
    BY DEF FlowShape, CommandShape, Stages
  <2>3. OpAgrees(p)' /\ op'[p].kind # "put"
    BY DEF OpAgrees, FlowShape, ProcessShape, CommandShape, NoOp
  <2>4. \A c \in Credential : Right(p, c)' => Right(p, c)
    BY DEF Right, FlowShape, CommandShape
  <2> QED
    BY <2>1, <2>2, <2>3, <2>4, CommandKeeps
<1>2. ASSUME NEW c \in Credential \ (Cached \cup minted),
             minted' = minted \cup {c},
             bearer' = [bearer EXCEPT ![p] = [id |-> c, paid |-> TRUE]],
             Call(p, [kind |-> "put", id |-> c]), Goto(p, "saving")
      PROVE  FlowInv'
  <2>1. At(p, "owing") /\ UNCHANGED <<sent, kept, condemned, gone>>
    BY DEF Pay
  <2> USE <1>2, <2>1 DEF Call
  <2>2. /\ pc[p] = "idle" /\ pc'[p] = "calling" /\ stage[p] = "owing" /\ stage'[p] = "saving"
        /\ op'[p] = [kind |-> "put", id |-> c] /\ bearer'[p].id = c
        /\ \A q \in Process \ {p} : /\ pc'[q] = pc[q] /\ op'[q] = op[q]
                                    /\ stage'[q] = stage[q] /\ bearer'[q] = bearer[q]
        /\ reply' = reply
    BY DEF FlowShape, ProcessShape, CommandShape, At
  <2>3. Moves(p)
    BY DEF Moves, FlowShape, CommandShape, Deleted
  <2>4. CommandShape'
    BY DEF FlowShape, CommandShape, Stages
  <2>5. OpAgrees(p)'
    BY <2>2, FlowAssumption DEF OpAgrees
  <2>6. /\ c \notin Listed /\ c \notin Deleted
        /\ \A q \in Process : bearer[q].id # c /\ (op[q].kind = "put" => op[q].id # c)
        /\ \A q \in Process : At(q, "claiming") /\ reply[q].kind = "hit" => reply[q].id # c
    BY FlowAssumption DEF DeletionHolds, OpAgrees, ReplyAgrees, FreshIsAlone
  <2>7. FreshIsAlone(p)'
    BY <2>2, <2>6 DEF FreshIsAlone, Deleted, Listed, At, store
  <2>8. /\ FlowShape' /\ SecretsHold' /\ DeletionHolds'
        /\ \A q \in Process : /\ OpAgrees(q)' /\ ReplyAgrees(q)'
                              /\ SnapFollows(q)' /\ FreshIsAlone(q)'
    BY <2>2, <2>3, <2>4, <2>5, <2>6, <2>7, CommandAgrees
  <2>9. /\ Rights(c)' = {p}
        /\ \A b \in Credential \ {c} : Rights(b)' = Rights(b)
    BY <2>2, <2>6 DEF Rights, Right, At
  <2>10. sent[c] = 0 /\ \A b \in Credential : sent[b] \in Nat
    BY DEF AccountHolds, FlowShape, CommandShape
  <2>11. IsFiniteSet(Rights(c))' /\ Due(c)' = 1
    <3>1. IsFiniteSet({p}) /\ Cardinality({p}) = 1
      BY FS_Singleton
    <3> QED
      BY <2>9, <2>10, <3>1 DEF Due
  <2>12. \A b \in Credential \ {c} : IsFiniteSet(Rights(b))' /\ Due(b)' = Due(b)
    BY <2>9 DEF Due, AccountHolds
  <2>13. \A b \in Credential : MaxUses[b] = Unlimited \/ Due(b)' <= MaxUses[b]
    BY <2>11, <2>12, CacheAssumption DEF AccountHolds
  <2>14. c \notin DOMAIN meta \cup DOMAIN stable /\ \A q \in Process : c \notin DOMAIN snap[q]
    BY <2>6 DEF Listed, SnapFollows
  <2>15. Counted(meta)' /\ Counted(stable)' /\ \A q \in Process : Counted(snap[q])'
    BY <2>12, <2>14
       DEF AccountHolds, Counted, FlowShape, EntriesShape, IsEntries, store
  <2>16. ASSUME NEW q \in Process, op'[q].kind = "put"
         PROVE  sent'[op'[q].id] = 0 /\ Rights(op[q].id)' = {q}
    <3>1. CASE q = p
      <4>1. op'[q].id = c /\ sent'[op'[q].id] = 0
        BY <2>2, <2>10, <3>1
      <4>2. Rights(op[q].id)' = Rights(c)'
        BY <4>1 DEF Rights, Right, At
      <4> QED
        BY <2>9, <3>1, <4>1, <4>2
    <3>2. CASE q # p
      <4>1. op'[q] = op[q] /\ op[q].kind = "put" /\ op[q].id \in Credential \ {c}
        BY <2>2, <2>6, <2>16, <3>2, FreshIsNotDeleted
      <4>2. sent[op[q].id] = 0 /\ Rights(op[q].id) = {q}
        BY <4>1 DEF AccountHolds
      <4>3. Rights(op[q].id)' = Rights(op[q].id)
        BY <2>9, <4>1 DEF Rights
      <4> QED
        BY <4>1, <4>2, <4>3
    <3> QED
      BY <3>1, <3>2
  <2>17. \A b \in Credential : b \notin Cached \cup minted' => sent'[b] = 0
    BY DEF AccountHolds
  <2>18. AccountHolds'
    BY <2>2, <2>9, <2>11, <2>12, <2>13, <2>15, <2>16, <2>17 DEF AccountHolds
  <2> QED
    BY <2>8, <2>18
<1> QED
  BY <1>1, <1>2 DEF Pay
-----------------------------------------------------------------------------
(* Starts, exits, losses of power and the keyring.                         *)

\* The first state satisfies the invariant.
LEMMA InitHasFlowInv == ASSUME FlowInit PROVE FlowInv
<1> USE CacheAssumption, FlowAssumption DEF FlowInit, CacheInit
<1>1. EntriesShape /\ StoresShape
  <2>1. [uses |-> 0, rejected |-> FALSE, inline |-> TRUE] \in Entry
    BY DEF Entry
  <2> QED
    BY <2>1 DEF EntriesShape, IsEntries, StoresShape, NoEntries
<1>2. ProcessShape /\ CommandShape
  BY DEF ProcessShape, CommandShape, Holding, NoOp, Stages
<1>3. \A p \in Process : OpAgrees(p) /\ ReplyAgrees(p) /\ SnapFollows(p) /\ FreshIsAlone(p)
  BY DEF OpAgrees, ReplyAgrees, SnapFollows, FreshIsAlone, At, Holding, NoOp,
      NoEntries,
     Nothing
<1>4. DeletionHolds
  BY DEF DeletionHolds, Deleted, Listed, At
<1>5. SecretsHold
  BY DEF SecretsHold, SecretsPrecedeMetadata
<1>6. \A c \in Credential : Rights(c) = {} /\ Due(c) = 0 /\ sent[c] = 0
  <2>1. \A c \in Credential : Rights(c) = {} /\ sent[c] = 0
    BY DEF Rights, Right, At
  <2>2. Cardinality({}) = 0
    BY FS_EmptySet
  <2>3. \A c \in Credential : Due(c) = sent[c] + Cardinality({})
    BY <2>1 DEF Due
  <2> QED
    BY <2>1, <2>2, <2>3
<1>7. AccountHolds
  <2>1. IsFiniteSet({})
    BY FS_EmptySet
  <2>2. Counted(meta) /\ Counted(stable)
    BY <1>6 DEF Counted
  <2>3. \A p \in Process : Counted(snap[p])
    BY DEF Counted, NoEntries
  <2>4. \A c \in Credential : MaxUses[c] = Unlimited \/ Due(c) <= MaxUses[c]
    BY <1>6
  <2>5. \A p \in Process : op[p].kind # "put"
    BY DEF NoOp
  <2> QED
    BY <1>6, <2>1, <2>2, <2>3, <2>4, <2>5 DEF AccountHolds
<1> QED
  BY <1>1, <1>2, <1>3, <1>4, <1>5, <1>7 DEF FlowInv, FlowShape

\* A process starts with nothing in its hands.
LEMMA RunKeeps ==
  ASSUME FlowInv, NEW p \in Process, Run(p)
  PROVE  FlowInv'
<1> USE DEF FlowInv, Run, Boot, store, secrets, file, flow, history
<1>1. /\ pc[p] = "down" /\ stage[p] = "start" /\ pc'[p] = "idle"
      /\ \A q \in Process \ {p} : pc'[q] = pc[q]
      /\ UNCHANGED <<stage, bearer, op, reply, snap>>
  BY DEF FlowShape, ProcessShape, OpAgrees
<1>2. EntriesShape' /\ StoresShape' /\ CommandShape'
  BY DEF FlowShape, EntriesShape, IsEntries, StoresShape, CommandShape
<1>3. ProcessShape'
  BY DEF FlowShape, ProcessShape, Holding
<1>4. \A q \in Process : OpAgrees(q)' /\ SnapFollows(q)'
  BY <1>1 DEF OpAgrees, SnapFollows, Holding
<1>5. \A q \in Process, s \in Stages \ {"start"} : At(q, s)' <=> At(q, s)
  BY <1>1 DEF At
<1>6. \A q \in Process : ReplyAgrees(q)' /\ FreshIsAlone(q)'
  BY <1>1, <1>5 DEF ReplyAgrees, FreshIsAlone, Stages
<1>7. DeletionHolds'
  BY <1>1, <1>5 DEF DeletionHolds, Deleted, Listed, Stages
<1>8. SecretsHold'
  BY <1>1 DEF SecretsHold, SecretsPrecedeMetadata
<1>9. AccountHolds'
  <2>1. \A c \in Credential : Rights(c)' \subseteq Rights(c)
    BY <1>1, <1>5 DEF Rights, Right, Stages
  <2>2. \A q \in Process : op'[q].kind = "put" =>
          op'[q] = op[q] /\ op[q].id \in Credential /\ Right(q, op[q].id)'
    BY FreshIsNotDeleted DEF OpAgrees, Right
  <2> QED
    BY <1>2, <2>1, <2>2, AccountKept DEF FlowShape, AccountHolds
<1> QED
  BY <1>2, <1>3, <1>4, <1>6, <1>7, <1>8, <1>9 DEF FlowShape

\* What stops loses what it had in memory and its lock.
LEMMA StopKeeps ==
  ASSUME FlowInv, NEW P \in SUBSET Process, Down(P), Forget(P),
         lock' = IF lock \in P THEN Nobody ELSE lock,
         meta' = meta \/ (P = Process /\ meta' = stable), stable' \in {stable, meta'},
         UNCHANGED <<ring, secrets>>
  PROVE  FlowInv'
<1> USE DEF FlowInv, Down, Forget, secrets, file, history
<1>1. \A q \in P : /\ pc'[q] = "down" /\ op'[q] = NoOp /\ snap'[q] = NoEntries
                   /\ todo'[q] = {} /\ stage'[q] = "start" /\ bearer'[q] = Nothing
  OBVIOUS
<1>2. \A q \in Process \ P : /\ pc'[q] = pc[q] /\ op'[q] = op[q] /\ snap'[q] = snap[q]
                             /\ todo'[q] = todo[q] /\ reply'[q] = reply[q]
                             /\ stage'[q] = stage[q] /\ bearer'[q] = bearer[q]
  OBVIOUS
<1>3. EntriesShape' /\ StoresShape' /\ CommandShape'
  BY <1>1, <1>2
     DEF FlowShape, EntriesShape, IsEntries, StoresShape, CommandShape,
         NoEntries, Stages
<1>4. ProcessShape'
  BY <1>1, <1>2, CacheAssumption DEF FlowShape, ProcessShape, Holding, NoOp
<1>5. \A q \in Process : OpAgrees(q)'
  BY <1>1, <1>2 DEF OpAgrees, NoOp, Nothing
<1>6. /\ \A q \in P, s \in Stages : ~At(q, s)'
      /\ \A q \in Process \ P, s \in Stages : At(q, s)' <=> At(q, s)
  BY <1>1, <1>2 DEF At
<1>7. \A q \in Process : ReplyAgrees(q)'
  BY <1>2, <1>6 DEF ReplyAgrees, Stages
<1>8. DOMAIN meta' \cup DOMAIN stable' \subseteq Listed
  BY DEF Listed
<1>9. \A q \in Process : SnapFollows(q)'
  <2>1. \A q \in P : SnapFollows(q)'
    BY <1>1 DEF SnapFollows, Holding, NoEntries, NoOp
  <2>2. ASSUME NEW q \in Process \ P PROVE SnapFollows(q)'
    <3>1. pc[q] \notin Holding => snap[q] = NoEntries /\ DOMAIN NoEntries = {}
      BY DEF SnapFollows, NoEntries
    <3>2. pc[q] \in Holding => meta' = meta
      OBVIOUS
    <3> QED
      BY <1>2, <3>1, <3>2 DEF SnapFollows, Holding
  <2> QED
    BY <2>1, <2>2
<1>10. \A q \in Process : FreshIsAlone(q)'
  <2> SUFFICES ASSUME NEW q \in Process, op'[q].kind = "put" PROVE FreshIsAlone(q)'
    BY DEF FreshIsAlone
  <2>1. q \notin P /\ op'[q] = op[q]
    BY <1>1, <1>2 DEF NoOp
  <2>2. op[q].id # "none"
    BY <2>1, FlowAssumption DEF FlowShape, CommandShape, FreshIsAlone
  <2>3. \A x \in Process : bearer'[x] \in {bearer[x], Nothing}
    BY <1>1, <1>2
  <2>4. \A x \in Process, s \in Stages : At(x, s)' => At(x, s) /\ reply'[x] = reply[x]
    BY <1>2, <1>6
  <2> QED
    BY <1>8, <2>1, <2>2, <2>3, <2>4 DEF FreshIsAlone, Listed, Nothing, Stages
<1>11. DeletionHolds'
  <2>1. Deleted' \subseteq Deleted
    BY <1>1, <1>2, <1>6 DEF Deleted, Stages
  <2> QED
    BY <1>8, <2>1 DEF DeletionHolds, Listed
<1>12. SecretsHold'
  BY <1>1, <1>2 DEF SecretsHold, SecretsPrecedeMetadata
<1>13. AccountHolds'
  <2>1. \A c \in Credential : Rights(c)' \subseteq Rights(c)
    <3>1. \A q \in P, c \in Credential : ~Right(q, c)'
      BY <1>1, <1>6 DEF Right, Stages
    <3>2. \A q \in Process \ P, c \in Credential : Right(q, c)' => Right(q, c)
      BY <1>2, <1>6 DEF Right, Stages
    <3> QED
      BY <3>1, <3>2 DEF Rights
  <2>2. \A q \in Process : op'[q].kind = "put" =>
          op'[q] = op[q] /\ op[q].id \in Credential /\ Right(q, op[q].id)'
    BY <1>1, <1>2, FreshIsNotDeleted DEF OpAgrees, Right, NoOp
  <2>3. Counted(meta') /\ Counted(stable') /\ \A q \in Process : Counted(snap'[q])
    BY <1>1, <1>2 DEF AccountHolds, Counted, NoEntries
  <2> QED
    BY <1>3, <2>1, <2>2, <2>3, AccountKept DEF FlowShape
<1> QED
  BY <1>3, <1>4, <1>5, <1>7, <1>9, <1>10, <1>11, <1>12, <1>13 DEF FlowShape

\* A process dies.
LEMMA CrashKeeps ==
  ASSUME FlowInv, NEW p \in Process, Crash(p), Forget({p})
  PROVE  FlowInv'
  BY StopKeeps DEF Crash, store

\* The machine stops.
LEMMA PowerLossKeeps == ASSUME FlowInv, PowerLoss, Forget(Process) PROVE FlowInv'
<1>1. lock' = IF lock \in Process THEN Nobody ELSE lock
  BY CacheAssumption DEF PowerLoss, FlowInv, FlowShape, ProcessShape
<1> QED
  BY <1>1, StopKeeps DEF PowerLoss

\* A step that leaves all but the keyring, or all, as it is.
LEMMA StutterKeeps ==
  ASSUME FlowInv, UNCHANGED <<store, lock, pc, op, snap, todo, reply, flow, history>>
  PROVE  FlowInv'
<1> USE DEF FlowInv, store, secrets, file, flow, history
<1>1. FlowShape'
  BY DEF FlowShape, EntriesShape, IsEntries, StoresShape, ProcessShape,
      CommandShape
<1>2. \A q \in Process : OpAgrees(q)' /\ ReplyAgrees(q)' /\ SnapFollows(q)' /\ FreshIsAlone(q)'
  BY DEF OpAgrees, ReplyAgrees, SnapFollows, FreshIsAlone, At
<1>3. DeletionHolds' /\ SecretsHold'
  BY DEF DeletionHolds, Deleted, Listed, At, SecretsHold, SecretsPrecedeMetadata
<1>4. \A c \in Credential : Rights(c)' = Rights(c)
  BY DEF Rights, Right, At
<1>5. AccountHolds'
  <2>1. \A q \in Process : op'[q].kind = "put" =>
          op'[q] = op[q] /\ op[q].id \in Credential /\ Right(q, op[q].id)'
    BY FreshIsNotDeleted DEF OpAgrees, Right
  <2>2. EntriesShape' /\ CommandShape'
    BY <1>1 DEF FlowShape
  <2>3. Counted(meta') /\ Counted(stable') /\ \A q \in Process : Counted(snap'[q])
    BY DEF AccountHolds
  <2> QED
    BY <1>4, <2>1, <2>2, <2>3, AccountKept DEF FlowShape
<1> QED
  BY <1>1, <1>2, <1>3, <1>5
-----------------------------------------------------------------------------
(* The steps of the system.                                                *)

\* Every step of the command keeps the invariant.
LEMMA CommandStepKeeps ==
  ASSUME FlowInv, NEW p \in Process, Command(p)
  PROVE  FlowInv'
<1>1. CASE Begin(p) \/ SendPlain(p)
  BY <1>1, BeginKeeps
<1>2. CASE Claimed(p)
  BY <1>2, ClaimedKeeps
<1>3. CASE Pay(p)
  BY <1>3, PayKeeps
<1>4. CASE SavedOrNot(p)
  BY <1>4, SavedOrNotKeeps
<1>5. CASE Present(p)
  BY <1>5, PresentKeeps
<1>6. CASE Answered(p) \/ Marked(p)
  BY <1>6, AnsweredKeeps
<1>7. CASE Evict(p)
  BY <1>7, EvictKeeps
<1>8. CASE Evicted(p)
  BY <1>8, EvictedKeeps
<1>9. CASE BeginPurge(p)
  BY <1>9, BeginPurgeKeeps
<1>10. CASE EndPurge(p)
  BY <1>10, EndPurgeKeeps
<1> QED
  BY <1>1, <1>2, <1>3, <1>4, <1>5, <1>6, <1>7, <1>8, <1>9, <1>10 DEF Command

\* Every step of an operation of the cache keeps it.
LEMMA OperateKeeps ==
  ASSUME FlowInv, NEW p \in Process, Operate(p), UNCHANGED <<flow, boots, history>>
  PROVE  FlowInv'
<1>1. CASE LockAndRead(p)
  BY <1>1, LockAndReadKeeps
<1>2. CASE AccessFails(p)
  BY <1>2, AccessFailsKeeps
<1>3. CASE ClaimMisses(p) \/ ClaimFails(p)
  BY <1>3, NoClaimKeeps
<1>4. CASE LoadForPut(p)
  BY <1>4, LoadForPutKeeps
<1>5. CASE LoadForMark(p)
  BY <1>5, LoadForMarkKeeps
<1>6. CASE LoadForDelete(p)
  BY <1>6, LoadForDeleteKeeps
<1>7. CASE Purge(p)
  BY <1>7, PurgeKeeps
<1>8. CASE Erased(p)
  BY <1>8, ErasedKeeps
<1>9. ASSUME NEW c \in Credential, Erase(p, c) \/ Store(p, c)
      PROVE  FlowInv'
  BY <1>9, EraseKeeps, StoreKeeps
<1>10. ASSUME NEW outcome \in Outcome, Purged(p, outcome) \/ Saved(p, outcome)
       PROVE  FlowInv'
  BY <1>10, PurgedKeeps, SavedKeeps
<1>11. ASSUME NEW outcome \in Outcome, NEW c \in Credential, ClaimWrite(p, c, outcome)
       PROVE  FlowInv'
  BY <1>11, ClaimWriteKeeps
<1> QED
  BY <1>1, <1>2, <1>3, <1>4, <1>5, <1>6, <1>7, <1>8, <1>9, <1>10, <1>11
     DEF Operate

\* So does every step of the system.
LEMMA FlowNextKeeps == FlowInv /\ [FlowNext]_flowVars => FlowInv'
<1> SUFFICES ASSUME FlowInv, [FlowNext]_flowVars PROVE FlowInv'
  OBVIOUS
<1>1. ASSUME NEW p \in Process, Run(p) PROVE FlowInv'
  BY <1>1, RunKeeps
<1>2. ASSUME NEW p \in Process, Command(p) PROVE FlowInv'
  BY <1>2, CommandStepKeeps
<1>3. ASSUME NEW p \in Process, Operate(p), UNCHANGED <<flow, boots, history>>
      PROVE  FlowInv'
  BY <1>3, OperateKeeps
<1>4. ASSUME NEW p \in Process, Crash(p), Forget({p}) PROVE FlowInv'
  BY <1>4, CrashKeeps
<1>5. CASE RingChanges /\ UNCHANGED <<flow, boots, history>>
  BY <1>5, StutterKeeps DEF RingChanges
<1>6. CASE PowerLoss /\ Forget(Process)
  BY <1>6, PowerLossKeeps
<1>7. CASE UNCHANGED flowVars
  BY <1>7, StutterKeeps DEF flowVars, cacheVars
<1> QED
  BY <1>1, <1>2, <1>3, <1>4, <1>5, <1>6, <1>7 DEF FlowNext
-----------------------------------------------------------------------------
(* What follows.                                                           *)

\* In every reachable state each process's progress, the lock, the entries it
\* works on, the rights it holds and what it is told fit the files.
THEOREM FlowInvariant == FlowSpec => []FlowInv
<1>1. FlowInit => FlowInv
  BY InitHasFlowInv
<1>2. FlowInv /\ [FlowNext]_flowVars => FlowInv'
  BY FlowNextKeeps
<1> QED
  BY <1>1, <1>2, PTL DEF FlowSpec

\* The lock, the processes' progress and their operations hang together.
THEOREM FlowIsTyped == FlowSpec => []FlowTypeOK
<1>1. FlowInv => FlowTypeOK
  BY ShapeIsTyped DEF FlowInv
<1> QED
  BY <1>1, FlowInvariant, PTL

\* No credential is presented more often than it may be: what was presented and
\* what processes may still present is within the limit.
THEOREM LimitsAreKept == FlowSpec => []LimitsHold
<1>1. FlowInv => LimitsHold
  <2> SUFFICES ASSUME FlowInv, NEW c \in Credential, MaxUses[c] # Unlimited
               PROVE  sent[c] <= MaxUses[c]
    BY DEF LimitsHold
  <2>1. IsFiniteSet(Rights(c)) /\ Due(c) <= MaxUses[c] /\ sent[c] \in Nat
    BY DEF FlowInv, AccountHolds, FlowShape, CommandShape
  <2>2. Cardinality(Rights(c)) \in Nat
    BY <2>1, FS_CardinalityType
  <2> QED
    BY <2>1, <2>2, CacheAssumption DEF Due
<1> QED
  BY <1>1, FlowInvariant, PTL

\* Each use of a listed credential is on disk before it is made, in the file and
\* in what a loss of power leaves of it.
THEOREM UsesAreOnDisk == FlowSpec => []UsesAreDurable
<1>1. FlowInv => UsesAreDurable
  <2> SUFFICES ASSUME FlowInv, NEW c \in Credential,
                      NEW entries \in {meta, stable}, c \in DOMAIN entries
               PROVE  sent[c] <= entries[c].uses
    BY DEF UsesAreDurable
  <2>1. IsFiniteSet(Rights(c)) /\ Due(c) <= entries[c].uses /\ sent[c] \in Nat
    BY DEF FlowInv, AccountHolds, Counted, FlowShape, CommandShape
  <2>2. Cardinality(Rights(c)) \in Nat
    BY <2>1, FS_CardinalityType
  <2>3. entries[c].uses \in Nat
    BY DEF FlowInv, FlowShape, EntriesShape, IsEntries, Entry
  <2> QED
    BY <2>1, <2>2, <2>3 DEF Due
<1> QED
  BY <1>1, FlowInvariant, PTL

\* What was reported as evicted or purged is not listed again, whatever else
\* was rewriting the file meanwhile and whichever rename a loss of power undoes.
THEOREM DeletionsLast == FlowSpec => []GoneStaysGone
<1>1. FlowInv => GoneStaysGone
  BY DEF FlowInv, DeletionHolds, Deleted, Listed, GoneStaysGone
<1> QED
  BY <1>1, FlowInvariant, PTL

\* The secret of a listed credential that nobody asked to delete is somewhere,
\* unless a failed write destroyed the fallback file.
THEOREM SecretsComeFirst == FlowSpec => []SecretsPrecedeMetadata
<1>1. FlowInv => SecretsPrecedeMetadata
  BY DEF FlowInv, SecretsHold
<1> QED
  BY <1>1, FlowInvariant, PTL
=============================================================================
