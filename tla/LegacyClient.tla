---------------------------- MODULE LegacyClient ----------------------------
(***************************************************************************)
(* `paygate request` and `paygate credentials purge` of the Python client: *)
(* processes that share the daily spend ledger (paygate_client/ledger.py)  *)
(* and the credential file (paygate_client/session_cache.py), and walk     *)
(* through the request of paygate_client/orchestrator.py.  The ledger is   *)
(* replaced as a whole; the credential file is truncated and written in    *)
(* place, and read without its lock when a process starts.                 *)
(*                                                                         *)
(* What a process still has to do is a sequence of steps; an exception     *)
(* that nothing catches empties it.                                        *)
(***************************************************************************)
EXTENDS Integers, Sequences, FiniteSets

CONSTANTS
  Client,     \* processes: each runs one command
  Option,     \* the command lines they run
  Response,   \* 402 responses of the server
  Offer,      \* Offer[r][t]: what is read in response r at time t; `amount` is what
              \* the client reserves for it, `price` what its invoice asks
  Answer,     \* what a wallet may answer
  Outcome,    \* Outcome[r][a]: what becomes of answer a to the invoice of r
  Budget,     \* policy.daily_budget_sats
  Cap,        \* policy.max_request_sats
  Service,    \* policy.allowed_services
  Preferred,  \* protocol.preferred
  LastDay     \* bound: the days are 1 .. LastDay

Day == 1 .. LastDay

Failures == {"missing_preimage", "preimage_verification_failed", "payer_failure"}

ASSUME ClientAssumption ==
  /\ IsFiniteSet(Client) /\ "nobody" \notin Client
  /\ Budget \in Nat /\ Cap \in Nat /\ LastDay \in Nat \ {0}
  /\ Option \subseteq [command : {"request", "purge"}, noPay : BOOLEAN,
                       refresh : BOOLEAN, singleUse : BOOLEAN]
  /\ Offer \in [Response -> [Day -> [readable : BOOLEAN, amount : Nat, price : Nat,
                                     test : BOOLEAN,
                                     service : Service \cup {Offer[q][u].service : q \in Response, u \in Day},
                                     protocol : {"Payment", "L402", "none"},
                                     expires : Nat, writable : BOOLEAN]]]
  /\ \A r \in Response, t \in Day :
       Offer[r][t].protocol # "Payment" => Offer[r][t].price <= Offer[r][t].amount
  /\ Outcome \in [Response -> [Answer -> Failures \cup {"verified"}]]

VARIABLES
  now,        \* the day, which is also the time of expiries
  ledger,     \* content of the ledger file
  ledgerLock, \* who holds the lock beside it
  seen,       \* the content each process read under that lock
  file,       \* the credential file; not whole while a save is writing it
  fileLock,   \* who holds the lock beside it
  loaded,     \* the credentials each process holds while it has that lock
  ring,       \* whether the keyring of the system answers
  secrets,    \* the credentials whose authorization is in the keyring
  todo,       \* the steps that each process still has to take
  option,     \* the command line of each process
  bearer,     \* the credential that a process presents
  offer,      \* the challenge it answers: the response and what was read
  day,        \* the day its reservation is made on
  verified,   \* whether a payment of it was verified
  report,     \* what it prints: a code and whether it paid
  left,       \* history: whether its payment left the wallet
  kept,       \* history: credentials whose last change was written
  barred,     \* history: credentials recorded as unusable when it started
  disturbed   \* history: a save was cut short, or a load missed the keyring

ledgerVars == <<ledger, ledgerLock, seen>>
cacheVars == <<file, fileLock, loaded, secrets, kept, disturbed>>
planVars == <<option, bearer, offer, verified, left, barred>>
vars == <<now, ledgerVars, cacheVars, ring, todo, planVars, day, report>>

Start == <<"start">>
empty == [c \in {} |-> 0]
EmptyLedger == [d \in Day |-> [committed |-> 0, held |-> empty]]
NoFile == [whole |-> FALSE, entries |-> empty, ringed |-> {}]
NoOption == [command |-> "none", noPay |-> FALSE, refresh |-> FALSE, singleUse |-> FALSE]
NoOffer == [response |-> "none"]

ClientInit ==
  /\ now = 1 /\ ring = TRUE
  /\ ledger = EmptyLedger /\ ledgerLock = {} /\ seen = [p \in Client |-> EmptyLedger]
  /\ file = [NoFile EXCEPT !.whole = TRUE] /\ fileLock = {}
  /\ loaded = [p \in Client |-> empty] /\ secrets = {}
  /\ todo = [p \in Client |-> Start] /\ option = [p \in Client |-> NoOption]
  /\ bearer = [p \in Client |-> "nobody"] /\ offer = [p \in Client |-> NoOffer]
  /\ day = [p \in Client |-> 1] /\ verified = [p \in Client |-> FALSE]
  /\ report = [p \in Client |-> [code |-> "none", paid |-> FALSE]]
  /\ left = [p \in Client |-> FALSE] /\ kept = empty
  /\ barred = [p \in Client |-> {}] /\ disturbed = FALSE

At(p, step) == todo[p] # <<>> /\ Head(todo[p]) = step

\* Process p goes on with other steps, or with the rest of its own.
Goto(p, steps) == todo' = [todo EXCEPT ![p] = steps]
Advance(p) == Goto(p, Tail(todo[p]))

\* It knows what it will print, after the steps that are left.
Say(p, code, paid) == report' = [report EXCEPT ![p] = [code |-> code, paid |-> paid]]
Quiet == UNCHANGED report

Finish(p, code, paid) == Goto(p, <<>>) /\ Say(p, code, paid)

\* Nothing catches the exception: no envelope, only a traceback.
Raise(p) == Finish(p, "raised", FALSE)

When(condition, steps) == IF condition THEN steps ELSE <<>>
-----------------------------------------------------------------------------
(* The ledger.                                                             *)

\* One element for each satoshi of a function of amounts.
Total(amounts) == Cardinality(UNION {{x} \X (1 .. amounts[x]) : x \in DOMAIN amounts})

Counting(entry) == entry.committed + Total(entry.held)

With(f, x, y) == [z \in DOMAIN f \cup {x} |-> IF z = x THEN y ELSE f[z]]
Without(f, X) == [z \in DOMAIN f \ X |-> f[z]]

LedgerStep == {"reserve", "commit", "rollback"}

\* MUTANT of LedgerRead: the content is read before the lock is waited for.
LedgerReadUnlocked(p) ==
  /\ todo[p] # <<>> /\ Head(todo[p]) \in LedgerStep /\ p \notin ledgerLock
  /\ ledgerLock' = ledgerLock \cup {p} /\ seen' = [seen EXCEPT ![p] = ledger]
  /\ UNCHANGED <<now, ledger, cacheVars, ring, todo, planVars, day, report>>

\* The date of a reservation is taken before the lock is waited for, and stays the
\* date of its commit or rollback.
Today(p) ==
  /\ At(p, "today")
  /\ day' = [day EXCEPT ![p] = now] /\ Advance(p) /\ Quiet
  /\ UNCHANGED <<now, ledgerVars, cacheVars, ring, planVars>>

LedgerRead(p) ==
  /\ todo[p] # <<>> /\ Head(todo[p]) \in LedgerStep /\ ledgerLock = {}
  /\ ledgerLock' = {p} /\ seen' = [seen EXCEPT ![p] = ledger]
  /\ UNCHANGED <<now, ledger, cacheVars, ring, todo, planVars, day, report>>

Unlock(p) == ledgerLock' = ledgerLock \ {p} /\ seen' = [seen EXCEPT ![p] = EmptyLedger]

Section(p, step) == p \in ledgerLock /\ At(p, step)
Entry(p) == seen[p][day[p]]

\* What the policy looks at and the ledger reserves: the amount of the invoice of an
\* L402 challenge, the amountSats that a Payment challenge declares.
Amount(p) == offer[p].amount

\* What leaves the wallet: what the submitted invoice asks (lnd_rest.py and breez.py
\* submit nothing else). Nothing compares it with what a Payment challenge declares.
Price(p) == offer[p].price

\* MUTANT of OverBudget: what is reserved does not count yet.
OverBudgetCommitted(p) == Entry(p).committed + Amount(p) > Budget

OverBudget(p) == Counting(Entry(p)) + Amount(p) > Budget

Refuse(p) ==
  /\ Section(p, "reserve") /\ OverBudget(p)
  /\ Unlock(p) /\ Finish(p, "policy_denied", FALSE)
  /\ UNCHANGED <<now, ledger, cacheVars, ring, planVars, day>>

\* A file of the new content replaces the old one.
Replace(p, entry) ==
  /\ ledger' = [seen[p] EXCEPT ![day[p]] = entry]
  /\ Unlock(p) /\ Advance(p) /\ Quiet
  /\ UNCHANGED <<now, cacheVars, ring, planVars, day>>

Reserve(p) ==
  /\ Section(p, "reserve") /\ ~OverBudget(p)
  /\ Replace(p, [Entry(p) EXCEPT !.held = With(@, p, Amount(p))])

Commit(p) ==
  /\ Section(p, "commit") /\ p \in DOMAIN Entry(p).held
  /\ Replace(p, [committed |-> Entry(p).committed + Entry(p).held[p],
                 held |-> Without(Entry(p).held, {p})])

Rollback(p) ==
  /\ Section(p, "rollback") /\ p \in DOMAIN Entry(p).held
  /\ Replace(p, [Entry(p) EXCEPT !.held = Without(@, {p})])

\* MUTANT of LedgerFails: the envelope of a failed commit says nothing was paid.
LedgerFailsUnpaid(p) ==
  /\ p \in ledgerLock
  /\ Unlock(p)
  /\ CASE At(p, "reserve") -> Finish(p, "policy_denied", FALSE)
       [] At(p, "commit") -> Finish(p, "budget_ledger_failure", FALSE)
       [] At(p, "rollback") -> IF report[p].code = "paid_retry_rejected"
                               THEN Finish(p, "budget_ledger_failure", FALSE) ELSE Raise(p)
  /\ UNCHANGED <<now, ledger, cacheVars, ring, planVars, day>>

\* The content cannot be read or written: a policy error, which is answered where
\* reserve, commit and the rollback of a rejected retry are called, and escapes
\* from the handler of another exception.
LedgerFails(p) ==
  /\ p \in ledgerLock
  /\ Unlock(p)
  /\ CASE At(p, "reserve") -> Finish(p, "policy_denied", FALSE)
       [] At(p, "commit") -> Finish(p, "budget_ledger_failure", TRUE)
       [] At(p, "rollback") -> IF report[p].code = "paid_retry_rejected"
                               THEN Finish(p, "budget_ledger_failure", TRUE) ELSE Raise(p)
  /\ UNCHANGED <<now, ledger, cacheVars, ring, planVars, day>>

\* The lock file cannot be opened, for another reason than its permissions.
LedgerRaises(p) ==
  /\ todo[p] # <<>> /\ Head(todo[p]) \in LedgerStep /\ p \notin ledgerLock
  /\ Raise(p)
  /\ UNCHANGED <<now, ledgerVars, cacheVars, ring, planVars, day>>
-----------------------------------------------------------------------------
(* The credential file.                                                    *)

\* MUTANT of Usable: a rejection is not looked at.
UsableRejected(c) ==
  (c.expires = 0 \/ c.expires > now) /\ (c.maxUses = 0 \/ c.uses < c.maxUses)

Usable(c) ==
  /\ c.expires = 0 \/ c.expires > now
  /\ c.maxUses = 0 \/ c.uses < c.maxUses
  /\ ~c.rejected

\* What a load finds: a file cut short is empty, an entry without its secret is
\* left out.
Found == {c \in DOMAIN file.entries : c \in file.ringed => ring /\ c \in secrets}
Loaded == [c \in Found |-> file.entries[c]]

CacheStep == {"put", "mark_success", "mark_rejected", "delete", "purge"}

\* The credential of p's payment.
Minted(p) == [protocol |-> offer[p].protocol, expires |-> offer[p].expires,
              maxUses |-> IF option[p].singleUse THEN 1 ELSE 0, uses |-> 0, rejected |-> FALSE]

\* What a step makes of the credentials.
Changed(p, entries) ==
  LET b == bearer[p]
  IN CASE At(p, "put")    -> With(entries, b, Minted(p))
       [] At(p, "delete") -> Without(entries, {b})
       [] At(p, "purge")  -> empty
       [] At(p, "mark_success") ->
            IF b \in DOMAIN entries THEN [entries EXCEPT ![b].uses = @ + 1] ELSE entries
       [] At(p, "mark_rejected") ->
            IF b \in DOMAIN entries THEN [entries EXCEPT ![b].rejected = TRUE] ELSE entries

\* MUTANT of CacheLoad: the lock is not waited for.
CacheLoadUnlocked(p) ==
  /\ todo[p] # <<>> /\ Head(todo[p]) \in CacheStep /\ p \notin fileLock
  /\ fileLock' = fileLock \cup {p}
  /\ loaded' = [loaded EXCEPT ![p] = Loaded]
  /\ disturbed' = (disturbed \/ Found # DOMAIN file.entries)
  /\ UNCHANGED <<now, ledgerVars, file, secrets, kept, ring, todo, planVars, day, report>>

CacheLoad(p) ==
  /\ todo[p] # <<>> /\ Head(todo[p]) \in CacheStep /\ fileLock = {}
  /\ fileLock' = {p}
  /\ loaded' = [loaded EXCEPT ![p] = Loaded]
  /\ disturbed' = (disturbed \/ Found # DOMAIN file.entries)
  /\ UNCHANGED <<now, ledgerVars, file, secrets, kept, ring, todo, planVars, day, report>>

Saving(p) == p \in fileLock /\ ~file.whole

\* A purge that finds nothing does not save.
NothingToSave(p) == At(p, "purge") /\ loaded[p] = empty

UnlockFile(p) ==
  fileLock' = fileLock \ {p} /\ loaded' = [loaded EXCEPT ![p] = empty]

CacheKept(p) ==
  /\ p \in fileLock /\ ~Saving(p) /\ NothingToSave(p)
  /\ UnlockFile(p) /\ Advance(p)
  /\ UNCHANGED <<now, ledgerVars, file, secrets, kept, disturbed, ring, planVars, day, report>>

\* The secrets of what is deleted leave the keyring, those of all others are put
\* there, or stay in the entries if it does not answer. Then the file is
\* truncated; `ringed` are the entries that will be written without their secret.
CacheTruncate(p) ==
  /\ p \in fileLock /\ ~Saving(p) /\ ~NothingToSave(p)
  /\ loaded' = [loaded EXCEPT ![p] = Changed(p, @)]
  /\ LET new == DOMAIN loaded'[p]
         gone == (DOMAIN loaded[p] \ new) \cup {c \in {bearer[p]} : At(p, "delete")}
     IN /\ secrets' = IF ring THEN (secrets \ gone) \cup new ELSE secrets
        /\ file' = [NoFile EXCEPT !.ringed = IF ring THEN new ELSE {}]
  /\ UNCHANGED <<now, ledgerVars, fileLock, kept, disturbed, ring, todo, planVars, day, report>>

CacheWrite(p) ==
  /\ Saving(p)
  /\ file' = [whole |-> TRUE, entries |-> loaded[p], ringed |-> file.ringed]
  /\ kept' = Changed(p, kept)
  /\ UnlockFile(p) /\ Advance(p)
  /\ UNCHANGED <<now, ledgerVars, secrets, disturbed, ring, planVars, day, report>>

\* A save that does not reach its end leaves a file that reads as an empty one.
CutShort(p) ==
  /\ file' = [file EXCEPT !.whole = @ \/ Saving(p)]
  /\ disturbed' = (disturbed \/ Saving(p))

\* An error of the file system: nothing in the request catches it.
CacheRaises(p) ==
  /\ p \in fileLock
  /\ UnlockFile(p) /\ Raise(p) /\ CutShort(p)
  /\ UNCHANGED <<now, ledgerVars, secrets, kept, ring, planVars, day>>
-----------------------------------------------------------------------------
(* The request.                                                            *)

Matches(p) == {c \in DOMAIN Loaded : Loaded[c].protocol = Preferred /\ Usable(Loaded[c])}

\* A process starts: it reads the credential file without the lock and takes a
\* credential that may be used, unless it must not.
Boot(p) ==
  /\ At(p, "start")
  /\ \E o \in Option :
       /\ option' = [option EXCEPT ![p] = o]
       /\ IF o.command = "purge" THEN Goto(p, <<"purge">>) /\ UNCHANGED bearer
          ELSE IF o.noPay \/ o.refresh \/ Matches(p) = {}
            THEN Goto(p, <<"send">>) /\ UNCHANGED bearer
          ELSE /\ Goto(p, <<"present">>)
               /\ \E c \in Matches(p) : bearer' = [bearer EXCEPT ![p] = c]
  /\ barred' = [barred EXCEPT ![p] = {c \in DOMAIN kept : kept[c].rejected
                                         \/ (kept[c].maxUses # 0 /\ kept[c].uses >= kept[c].maxUses)}]
  /\ UNCHANGED <<now, ledgerVars, cacheVars, ring, offer, verified, left, day, report>>

\* The server does not answer, accepts the credential, refuses it with 401 or 402,
\* or answers with another status.
Present(p) ==
  /\ At(p, "present")
  /\ \/ Finish(p, "network_failure", FALSE)
     \/ Goto(p, <<"mark_success">>) /\ Say(p, "cached", FALSE)
     \/ Goto(p, <<"mark_rejected", "delete", "send">>) /\ Quiet
     \/ Finish(p, "cached_credential_rejected", FALSE)
  /\ UNCHANGED <<now, ledgerVars, cacheVars, ring, planVars, day>>

\* The request without a credential is answered with another status than 402.
SendPlain(p) ==
  /\ At(p, "send")
  /\ Finish(p, "network_failure", FALSE) \/ Finish(p, "unpaid", FALSE)
  /\ UNCHANGED <<now, ledgerVars, cacheVars, ring, planVars, day>>

Allowed(o) == (o.service # <<>> => o.service \in Service) /\ o.amount <= Cap

\* It is answered with 402: the challenge is read and the policy evaluated.
Challenged(p) ==
  /\ At(p, "send")
  /\ \E r \in Response :
       LET o == Offer[r][now]
       IN IF ~o.readable
            THEN Finish(p, "unsupported_402_challenge", FALSE) /\ UNCHANGED offer
          ELSE IF ~Allowed(o) THEN Finish(p, "policy_denied", FALSE) /\ UNCHANGED offer
          ELSE /\ offer' = [offer EXCEPT ![p] = With(o, "response", r)]
               /\ Goto(p, <<"today", "reserve">> \o IF option[p].noPay THEN <<"skip">> ELSE <<"pay">>)
               /\ Quiet
  /\ UNCHANGED <<now, ledgerVars, cacheVars, ring, option, bearer, verified, left, barred, day>>

\* --no-pay tells that it would have paid.
WouldPay(p) ==
  /\ At(p, "skip")
  /\ Goto(p, <<"rollback">>) /\ Say(p, "would_pay", FALSE)
  /\ UNCHANGED <<now, ledgerVars, cacheVars, ring, planVars, day>>

\* The wallet is asked to pay the invoice, and may send Price(p); a test challenge
\* brings its own preimage and asks no wallet.
Submit(p) ==
  /\ At(p, "pay")
  /\ Goto(p, <<"answer">>)
  /\ \E sent \in BOOLEAN : (sent => ~offer[p].test) /\ left' = [left EXCEPT ![p] = sent]
  /\ UNCHANGED <<now, ledgerVars, cacheVars, ring, option, bearer, offer, verified, barred, day, report>>

\* A proof of payment that was verified is committed at once, unless it was a test.
Paid(p) ==
  /\ At(p, "answer")
  /\ \E a \in Answer :
       Outcome[offer[p].response][a] = "verified" /\ (left[p] \/ offer[p].test)
  /\ Goto(p, When(~offer[p].test, <<"commit">>) \o <<"build">>)
  /\ verified' = [verified EXCEPT ![p] = TRUE]
  /\ UNCHANGED <<now, ledgerVars, cacheVars, ring, option, bearer, offer, left, barred, day, report>>

\* MUTANT of NotPaid: a result that could not be verified keeps its reservation.
NotPaidKeeping(p) ==
  /\ At(p, "answer")
  /\ \E a \in Answer :
       LET failure == Outcome[offer[p].response][a]
       IN /\ failure \in Failures
          /\ Goto(p, When(failure # "preimage_verification_failed", <<"rollback">>))
          /\ Say(p, failure, FALSE)
  /\ UNCHANGED <<now, ledgerVars, cacheVars, ring, planVars, day>>

NotPaid(p) ==
  /\ At(p, "answer")
  /\ \E a \in Answer :
       LET failure == Outcome[offer[p].response][a]
       IN failure \in Failures /\ Goto(p, <<"rollback">>) /\ Say(p, failure, FALSE)
  /\ UNCHANGED <<now, ledgerVars, cacheVars, ring, planVars, day>>

\* A use is limited by the command line, or the challenge must say when it ends.
Cacheable(p) == option[p].singleUse \/ offer[p].expires # 0

\* What is left to do for a payment that is not committed: only a test's.
Uncommitted(p, step) == When(offer[p].test, <<step>>)

Build(p) ==
  /\ At(p, "build")
  /\ IF offer[p].writable
     THEN /\ bearer' = [bearer EXCEPT ![p] = p]
          /\ Goto(p, When(Cacheable(p), <<"put">>) \o <<"retry">>) /\ Quiet
     ELSE /\ Goto(p, Uncommitted(p, "rollback")) /\ Say(p, "credential_failure", TRUE)
          /\ UNCHANGED bearer
  /\ UNCHANGED <<now, ledgerVars, cacheVars, ring, option, offer, verified, left, barred, day>>

\* The request is sent again with the credential: no answer, refused, accepted.
Retry(p) ==
  /\ At(p, "retry")
  /\ \/ Goto(p, Uncommitted(p, "rollback")) /\ Say(p, "retry_failure", TRUE)
     \/ /\ Goto(p, When(Cacheable(p), <<"mark_rejected", "delete">>) \o Uncommitted(p, "rollback"))
        /\ Say(p, "paid_retry_rejected", TRUE)
     \/ /\ Goto(p, Uncommitted(p, "commit") \o When(Cacheable(p), <<"mark_success">>))
        /\ Say(p, "paid", TRUE)
  /\ UNCHANGED <<now, ledgerVars, cacheVars, ring, planVars, day>>
-----------------------------------------------------------------------------
(* The environment.                                                        *)

Running(p) == todo[p] \notin {<<>>, Start}

\* A process dies; the system releases its locks.
Crash(p) ==
  /\ Running(p) /\ Finish(p, "crashed", FALSE)
  /\ Unlock(p) /\ UnlockFile(p) /\ CutShort(p)
  /\ UNCHANGED <<now, ledger, secrets, kept, ring, planVars, day>>

RingChanges ==
  /\ ring' = ~ring
  /\ UNCHANGED <<now, ledgerVars, cacheVars, todo, planVars, day, report>>

Tick ==
  /\ now < LastDay /\ now' = now + 1
  /\ UNCHANGED <<ledgerVars, cacheVars, ring, todo, planVars, day, report>>

LedgerSection(p) ==
  \/ LedgerRead(p) \/ Refuse(p) \/ Reserve(p) \/ Commit(p) \/ Rollback(p)
  \/ LedgerFails(p) \/ LedgerRaises(p)

CacheSection(p) ==
  CacheLoad(p) \/ CacheKept(p) \/ CacheTruncate(p) \/ CacheWrite(p) \/ CacheRaises(p)

RequestStep(p) ==
  \/ Present(p) \/ SendPlain(p) \/ Challenged(p) \/ Today(p) \/ WouldPay(p) \/ Submit(p)
  \/ Paid(p) \/ NotPaid(p) \/ Build(p) \/ Retry(p)

Progress(p) == LedgerSection(p) \/ CacheSection(p) \/ RequestStep(p)

ClientNext ==
  \/ \E p \in Client : Boot(p) \/ Progress(p) \/ Crash(p)
  \/ RingChanges \/ Tick

ClientSpec == ClientInit /\ [][ClientNext]_vars
-----------------------------------------------------------------------------
(* Properties.                                                             *)

\* What is committed and reserved on a day never exceeds the budget of one command
\* line, however many processes reserve at the same time (ledger.py reserve).
BudgetHolds == \A d \in Day : Counting(ledger[d]) <= Budget

\* A Payment challenge that declares less than its invoice asks.
Underdeclared(p) == offer[p].protocol = "Payment" /\ Price(p) > Amount(p)

\* Money that left the wallet counts on the day of its reservation, through failed
\* commits, rejected retries and deaths. There are two exceptions. When the payer
\* fails the budget is freed, whether or not the money is gone (the rollbacks of
\* orchestrator.py). And of an underdeclared Payment challenge only what it declares
\* counts: _to_payable_challenge takes amountSats for the amount of the invoice, so
\* that neither the budget nor policy.max_request_sats reaches what is paid.
SpendIsCounted ==
  \A d \in Day :
    LET spent == {p \in Client : left[p] /\ day[p] = d /\ report[p].code \notin Failures}
    IN Total([p \in spent |-> IF Underdeclared(p) THEN Amount(p) ELSE Price(p)])
         <= Counting(ledger[d])

\* While no save was cut short and the keyring always answered, the file between
\* two saves holds every change that any process made (FileCredentialCache).
NoChangeIsLost ==
  (~disturbed /\ fileLock = {}) => file.entries = kept

\* A process does not present a credential that was recorded as rejected or used
\* up before it started, although it reads the file without the lock.
UnusableStaysUnused ==
  \A p \in Client : At(p, "present") => bearer[p] \notin barred[p]

Ended(p) == todo[p] = <<>> /\ report[p].code \notin {"crashed", "raised"}

\* "paid" in the envelope is true exactly when a proof of payment was verified,
\* also when the ledger, the credential or the retry failed afterwards.
ReportIsTrue == \A p \in Client : Ended(p) => report[p].paid = verified[p]

\* A request that ends with an envelope leaves no reservation behind, unless it
\* reports that the ledger failed.
NothingStaysReserved ==
  \A p \in Client :
    Ended(p) /\ report[p].code # "budget_ledger_failure"
      => \A d \in Day : p \notin DOMAIN ledger[d].held
=============================================================================
