---------------------------- MODULE RequestFlow ----------------------------
(***************************************************************************)
(* How `paygate request` uses the credential cache (execute_with of        *)
(* src/src/commands/request.rs) while `paygate credentials purge` runs     *)
(* beside it (src/src/commands/credentials.rs).                            *)
(*                                                                         *)
(* A request claims a cached credential, presents it, and marks it as      *)
(* accepted or rejected by the answer; a rejected one is evicted and the   *)
(* request goes out without a credential.  A 402 answer is paid for (see   *)
(* PaymentTransaction; here a payment is a step that yields a credential   *)
(* never seen before), the credential is saved with its first use counted, *)
(* and the request is retried with it.                                     *)
(***************************************************************************)
EXTENDS CredentialCache

CONSTANTS
  Purger,   \* the processes that may run `credentials purge` instead
  Selected, \* the sets of credentials that its filters select
  MaxBoots  \* bound: processes started

ASSUME FlowAssumption ==
  /\ Purger \subseteq Process /\ MaxBoots \in Nat
  /\ Selected \subseteq SUBSET Credential
  /\ "none" \notin Credential

VARIABLES
  stage,     \* where the command of a process is
  bearer,    \* the credential it presents: its id, and whether it just paid
  boots,     \* processes started so far
  minted,    \* ids of credentials paid for, ever
  sent,      \* history: how often a credential was presented to the server
  kept,      \* history: ids whose put returned success
  condemned, \* history: ids whose deletion somebody asked for
  gone       \* history: ids whose deletion was reported as done

flow == <<stage, bearer>>
history == <<minted, sent, kept, condemned, gone>>
flowVars == <<cacheVars, flow, boots, history>>

Nothing == [id |-> "none", paid |-> FALSE]

FlowInit ==
  /\ CacheInit
  /\ stage = [p \in Process |-> "start"]
  /\ bearer = [p \in Process |-> Nothing]
  /\ boots = 0
  /\ minted = {}
  /\ sent = [c \in Credential |-> 0]
  /\ kept = {} /\ condemned = {} /\ gone = {}

\* Process p stands at a stage and none of its cache calls is in progress.
At(p, s) == pc[p] = "idle" /\ stage[p] = s

Goto(p, s) == stage' = [stage EXCEPT ![p] = s]

\* It goes on without calling the cache.
Continue(p, s) == Goto(p, s) /\ UNCHANGED <<cacheVars, boots>>

\* It calls the cache.
Ask(p, kind, s) ==
  /\ Call(p, [kind |-> kind, id |-> bearer[p].id])
  /\ Goto(p, s)
  /\ UNCHANGED <<bearer, boots>>
-----------------------------------------------------------------------------
(* The request before any payment.                                         *)

\* The cache is asked first, unless an option rules it out.
Begin(p) ==
  /\ At(p, "start")
  /\ \/ Ask(p, "claim", "claiming")
     \/ Continue(p, "plain") /\ UNCHANGED bearer
  /\ UNCHANGED history

Claimed(p) ==
  /\ At(p, "claiming")
  /\ \/ /\ reply[p].kind = "hit"
        /\ bearer' = [bearer EXCEPT ![p] = [id |-> reply[p].id, paid |-> FALSE]]
        /\ Continue(p, "presenting")
     \/ /\ reply[p] = Ok
        /\ Continue(p, "plain") /\ UNCHANGED bearer
     \/ /\ reply[p] = Error
        /\ Continue(p, "done") /\ UNCHANGED bearer
  /\ UNCHANGED history

\* The request goes out without a credential.  Anything but a 402, and a
\* payment that fails, ends it.
SendPlain(p) ==
  /\ At(p, "plain")
  /\ Continue(p, "owing") \/ Continue(p, "done")
  /\ UNCHANGED <<bearer, history>>

\* The challenge is paid.  A credential that may be cached is saved before the
\* retry; the retry of one that may not be leaves the cache alone.
Pay(p) ==
  /\ At(p, "owing")
  /\ \/ \E c \in Credential \ (Cached \cup minted) :
          /\ minted' = minted \cup {c}
          /\ bearer' = [bearer EXCEPT ![p] = [id |-> c, paid |-> TRUE]]
          /\ Call(p, [kind |-> "put", id |-> c])
          /\ Goto(p, "saving")
          /\ UNCHANGED boots
     \/ Continue(p, "done") /\ UNCHANGED <<minted, bearer>>
  /\ UNCHANGED <<sent, kept, condemned, gone>>

\* A credential that could not be saved is not presented.
SavedOrNot(p) ==
  /\ At(p, "saving")
  /\ \/ /\ reply[p] = Ok
        /\ kept' = kept \cup {bearer[p].id}
        /\ Continue(p, "presenting")
     \/ reply[p] = Error /\ Continue(p, "done") /\ UNCHANGED kept
  /\ UNCHANGED <<bearer, minted, sent, condemned, gone>>
-----------------------------------------------------------------------------
(* The request with a credential, from the cache or just paid for.         *)

Present(p) ==
  /\ At(p, "presenting")
  /\ sent' = [sent EXCEPT ![bearer[p].id] = @ + 1]
  /\ Continue(p, "presented")
  /\ UNCHANGED <<bearer, minted, kept, condemned, gone>>

\* A success, a 401 or 402, any other answer, or none.
Answered(p) ==
  /\ At(p, "presented")
  /\ \/ Ask(p, "success", "marking")
     \/ Ask(p, "reject", "rejecting")
     \/ Continue(p, "done") /\ UNCHANGED bearer
  /\ UNCHANGED history

Marked(p) ==
  /\ At(p, "marking") /\ Continue(p, "done")
  /\ UNCHANGED <<bearer, history>>

\* A rejected credential is deleted once it is marked.
Evict(p) ==
  /\ At(p, "rejecting")
  /\ \/ /\ reply[p] = Ok
        /\ Ask(p, "delete", "evicting")
        /\ condemned' = condemned \cup {bearer[p].id}
     \/ reply[p] = Error /\ Continue(p, "done") /\ UNCHANGED <<bearer, condemned>>
  /\ UNCHANGED <<minted, sent, kept, gone>>

\* After the eviction of a cached credential the request starts over without.
Evicted(p) ==
  /\ At(p, "evicting")
  /\ \/ /\ reply[p] = Ok
        /\ gone' = gone \cup {bearer[p].id}
        /\ Continue(p, IF bearer[p].paid THEN "done" ELSE "plain")
     \/ reply[p] = Error /\ Continue(p, "done") /\ UNCHANGED gone
  /\ bearer' = [bearer EXCEPT ![p] = Nothing]
  /\ UNCHANGED <<minted, sent, kept, condemned>>
-----------------------------------------------------------------------------
(* The purge command.                                                      *)

BeginPurge(p) ==
  /\ At(p, "start") /\ p \in Purger
  /\ \E ids \in Selected :
       /\ Call(p, [kind |-> "purge", ids |-> ids])
       /\ condemned' = condemned \cup ids
  /\ Goto(p, "purging")
  /\ UNCHANGED <<bearer, boots, minted, sent, kept, gone>>

EndPurge(p) ==
  /\ At(p, "purging")
  /\ gone' = gone \cup (IF reply[p] = Error THEN {} ELSE reply[p].ids)
  /\ Continue(p, "done")
  /\ UNCHANGED <<bearer, minted, sent, kept, condemned>>
-----------------------------------------------------------------------------
Run(p) ==
  /\ boots < MaxBoots
  /\ boots' = boots + 1
  /\ Boot(p)
  /\ UNCHANGED <<flow, history>>

\* What processes P had in memory is lost with them.
Forget(P) ==
  /\ stage' = [p \in Process |-> IF p \in P THEN "start" ELSE stage[p]]
  /\ bearer' = [p \in Process |-> IF p \in P THEN Nothing ELSE bearer[p]]
  /\ UNCHANGED <<boots, history>>

Command(p) ==
  \/ Begin(p) \/ Claimed(p) \/ SendPlain(p) \/ Pay(p) \/ SavedOrNot(p)
  \/ Present(p) \/ Answered(p) \/ Marked(p) \/ Evict(p) \/ Evicted(p)
  \/ BeginPurge(p) \/ EndPurge(p)

FlowNext ==
  \/ \E p \in Process :
       \/ Run(p)
       \/ Command(p)
       \/ Operate(p) /\ UNCHANGED <<flow, boots, history>>
       \/ Crash(p) /\ Forget({p})
  \/ RingChanges /\ UNCHANGED <<flow, boots, history>>
  \/ PowerLoss /\ Forget(Process)

FlowSpec == FlowInit /\ [][FlowNext]_flowVars
-----------------------------------------------------------------------------
(* Properties.                                                             *)

Entry == [uses : Nat, rejected : BOOLEAN, inline : BOOLEAN]

\* The shape of the cache, and how its lock, the processes' progress and their
\* operations hang together.
FlowTypeOK ==
  /\ \A e \in {meta, stable} \cup {snap[p] : p \in Process} :
       DOMAIN e \subseteq Credential /\ \A c \in DOMAIN e : e[c] \in Entry
  /\ primary \cup fallback \subseteq Credential
  /\ shape # "sound" => fallback = {}
  /\ \A p \in Process :
       /\ lock = p <=> pc[p] \in {"reading", "erasing", "storing"}
       /\ pc[p] \in {"down", "idle"} <=> op[p] = NoOp
       /\ todo[p] # {} => lock = p
  /\ minted \subseteq Credential \ Cached
  /\ kept \subseteq minted /\ gone \subseteq condemned

\* No credential is presented more often than it may be, however many commands
\* share it and whatever dies or fails on the way (README: single-use
\* credentials are durably consumed before their bearer value is returned).
LimitsHold ==
  \A c \in Credential : MaxUses[c] = Unlimited \/ sent[c] <= MaxUses[c]

\* As long as a credential is listed, each of its uses is on disk before it
\* is made: no other operation's rewrite of the file and no power loss forgets
\* one (the claim is retained when the outcome of the transport is unknown).
UsesAreDurable ==
  \A c \in Credential : \A entries \in {meta, stable} :
    c \in DOMAIN entries => sent[c] <= entries[c].uses

\* A credential whose eviction or purge was reported as done is not listed
\* again: no operation that began before writes it back.
GoneStaysGone == gone \cap (DOMAIN meta \cup DOMAIN stable) = {}

\* Secrets are stored before the metadata that points to them and erased
\* before the metadata that lists them: a listed credential whose deletion
\* nobody asked for has its secret somewhere, unless a failed write of the
\* fallback file destroyed it.
SecretsPrecedeMetadata ==
  torn \/ \A entries \in {meta, stable} : \A c \in DOMAIN entries \ condemned :
            entries[c].inline \/ c \in primary \cup fallback

\* "Delete matching entries from both metadata and secret storage" (cache.rs,
\* purge); "deletion intentionally covers both locations" (keyring.rs).
DeletionIsComplete == gone \cap (primary \cup fallback) = {}

\* A saved credential stays listed until its deletion is asked for, so that
\* "temporarily-unreadable credentials remain purgeable" (cache.rs, purge).
KeptStaysListed == kept \ condemned \subseteq DOMAIN meta
=============================================================================
