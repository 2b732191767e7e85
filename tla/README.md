# A verification development for paygate-client

paygate-client is a command-line program that pays for HTTP requests. When a
server answers 402 with a Lightning challenge, the client checks a local
policy, reserves the amount in a daily ledger, pays with a wallet, saves the
credential it gets and retries the request. Every command is a process of its
own; what the processes share are files. What can go wrong is therefore what
goes wrong between processes: interleavings around lock files, processes that
die half-way, writes that fail after they took effect, a wallet that does not
say whether it paid, midnight, and a keyring that comes and goes.

The repository holds the program twice. The Rust client (`src/src/`) replaces
the Python client (`src/paygate_client/`), scripts (`src/scripts/`) carry a host
from one to the other and back, and a payment canary (`src/infra/`) qualifies a
candidate with real payments before that. The modules here model all four from
their source. TLC checks them on small instances. TLAPS proves, for all
instances, the safety properties of the ledger, the payment transaction, the
credential cache with its commands, the maintenance scripts, the Python client,
the canary and the credential window, and three refinements.

## The system: inventory

The Rust client, paths relative to `src/src/`:

| Component | State | Operations | Correct when |
|---|---|---|---|
| Daily spend ledger, `state/ledger.rs` | one JSON file: per day, committed sats and reservations by id; a lock file; the `COUNTER` of each process | `reserve`, `reserve_guarded`, `commit`, `rollback`, `counting_today`, `spent_on`, drop of a handle | what counts stays within the day's budget and moves only with a granted or rolled-back reservation; a guard has one live owner; the lock is released |
| Payment transaction, `orchestrator.rs`, `commands/backend.rs`, tail of `commands/request.rs` | a reservation handle, the payer's outcome, what is reported | reserve, construct, check_ready, pay, disconnect, verify, save, commit or roll back | sats that left or may leave the wallet are counted; no challenge is paid again while its payment is open; reports tell the truth |
| Breez payer, `payers/breez.rs` | owner marker in the wallet directory, `connected` flag | acquire, check_ready, pay, disconnect, drop | one connected payer per wallet directory |
| Credential cache, `state/cache.rs` | metadata file, lock file | claim, put, mark_success, mark_rejected, delete, purge, list | no credential is presented more often than allowed; nothing deleted comes back; nothing saved is lost |
| Secret stores, `state/keyring.rs` | OS keyring, fallback file | get, put, delete through the coordinator | a listed credential has its secret; a deleted one has none |
| Request command, `commands/request.rs`, `commands/credentials.rs` | the credential in hand | claim, send, mark, evict, pay, save, retry; purge | uses are durable before they are made |
| Runtime lock, `runtime_lock.rs` | shared lock of commands, transaction marker | acquire, drop | no command runs while a cutover or rollback does |
| `challenge.rs`, `invoice.rs`, `policy.rs`, `credentials.rs` | none | parse, choose, approve, render | the approval binds amount, host and service |
| LND, phoenixd, test mode: `payers/` | none | adapters | same outcome contract as Breez |
| HTTP, config, CLI, redaction, traces | none | input, output | |

The rest of the repository, paths relative to `src/`:

| Component | State | Operations | Correct when |
|---|---|---|---|
| Cutover and rollback, `scripts/cutover-rust-paygate.sh`, `scripts/rollback-rust-paygate.py` | launcher, Python environment, saved state and its private copies, exclusive lock, transaction marker, receipt, rollback authority, records | install, accept, rollback, finalize, and the rerun of each | commands and maintenance exclude each other; a crash at any step is recoverable; records are true |
| Credential window, `scripts/cutover-cache-window.py` | the window file | capture, verify | a verified window means the restart fits before the credential expires |
| Python ledger, `paygate_client/ledger.py` | JSON file and its lock | reserve, commit, rollback, spent today | as above |
| Python credential file, `paygate_client/session_cache.py` | credential file and its lock, keyring | find, put, mark, delete, purge | no change is lost; what is unusable stays unused |
| Python request, `paygate_client/orchestrator.py` | the credential in hand | present, parse, reserve, pay, build, commit, save, retry | the envelope tells whether a payment was proved; what was spent is counted |
| Python parsers, `challenges.py`, `invoices.py`, `credentials.py` | none | split, parse, choose, read amount and hash, authorize | what is reserved covers what the invoice asks, and the proof is held against the invoice's hash (both hold of L402 challenges only) |
| Python payers, `payers/` | none | pay, verify | only a preimage of the challenge's hash is proof |
| Payment canary runner, `infra/payment-canary-runner/payment_canary_runner.py` | attempt ledger and its lock, the RESULT file, the adapter process | claim, probe, run adapter, judge, release | an attempt is paid once at most, and its verdict is what happened |
| Cutover preflight, canary of the candidate, oracle, CI, packaging, vendored SDK | evidence | | |

How the parts interact: a Rust `request` calls the cache, the transport, the
transaction and the cache again; the transaction calls the ledger before the
payer is even constructed and again when the payer's outcome is known;
`backend pay-invoice` takes the wallet's marker first and the ledger second;
the cache calls the secret stores under its own lock. No lock is held across a
payment or a request, so between any two calls another process may run and
this one may die. Over all Rust commands lies the runtime lock, which they share
and the maintenance scripts hold alone; what a script that died left half-done
is told by the marker beside it, for which a command looks with the lock in its
hand. The Python client has the same shape with plainer parts, knows neither
lock nor marker, and reads its credential file without a lock when it starts.
The canary's runner and its adapter share only files, and the adapter survives
the runner.

`PROJECT.json` lists the hazards of this code at the lines where they bite, the
properties that cover them, and the reasons where none does.

## Modules

| Module | Models | Notes |
|---|---|---|
| `LedgerEntries` | the ledger's data: entries, guards, anonymous ids, u64 sums | constants and their assumptions |
| `AtomicLedger` | what the ledger promises: each operation reads and changes it in one step | abstract specification |
| `SpendLedger` | `state/ledger.rs` | call, lock-and-read and write are separate steps |
| `SpendLedgerProofs` | theorems about `SpendLedger` | types, budget, guards; it implements `AtomicLedger`; what counts is conserved |
| `PaymentTransaction` | both payment commands over `SpendLedger`, and the Breez marker | EXTENDS `SpendLedger` |
| `PaymentTransactionProofs`, `PaymentMoneyProofs` | theorems about `PaymentTransaction` | it uses `SpendLedger`; wallets and reports; the money |
| `CredentialCache` | `state/cache.rs` over `state/keyring.rs` | |
| `RequestFlow` | the request and purge commands over `CredentialCache` | EXTENDS `CredentialCache` |
| `RequestFlowProofs` | theorems about `RequestFlow` and the cache under it | |
| `Maintenance` | what maintenance promises, without locks, markers or crashes | abstract specification |
| `Deployment` | install, accept, rollback and finalize beside commands of both clients, `runtime_lock.rs` | implements `Maintenance` |
| `DeploymentProofs` | theorems about `Deployment` | it implements `Maintenance` |
| `LegacyClient` | the Python `request` and `credentials purge` over ledger and credential file | |
| `LegacyClientProofs` | theorems about `LegacyClient` | its ledger, its envelopes, its credential file |
| `Challenges`, `Invoices`, `Payers` | the Python parsers and payers as operators | used by `MCLegacyClient` |
| `Canary` | the payment canary runner | |
| `CanaryProofs` | theorems about `Canary` | |
| `CacheWindow` | capture and verify of the credential window, as operators | |
| `CacheWindowProofs` | theorems about `CacheWindow` | EXTENDS `MCQualification`, which states when TLC evaluates the property |
| `MC...` | instances for TLC | |

Two refinements of abstract specifications are checked by TLC and proved.
`SpendLedger` maps its file to `AtomicLedger`
(`AtomicSpec`: a call takes effect at the step that renames the new file into
place). `Deployment` maps to `Maintenance` (`MaintenanceSpec`): maintenance is
on exactly while the transaction marker is there, a user is a Rust command that
got past lock and marker, and the saved state is live, backup or mixed by what
is at the live paths and what is parked.

### SpendLedger

A client is one task with one reservation handle, in a process that may die
and be started again (`PidOf` gives the process ids in order). A call fixes the
day and the id before it waits for the lock, as `reserve` does at
ledger.rs:95-100; `LockAndRead` takes the lock and copies the file;
the write step applies one of the three outcomes of `write_classified`
(applied, applied with a durability warning, not applied) and releases the
lock. `file` is what other processes read, `durable` what a power loss leaves;
an unsynced rename makes them differ. A `BTreeMap` of strings is a function
from days to records; an anonymous id is the number that the concatenation of
two hexadecimal numbers denotes, so collisions are those of the code. Opening
or parsing files may fail at any call (`AccessFails`).

### PaymentTransaction

The stages of a client follow `execute_payment_transaction` and its caller, or
`pay_invoice_with_payer`, in their order: the first reserves before it
constructs its payer and commits only after the credential is saved, the second
takes the wallet first and commits an ambiguous payment as well. The wallet
settles or fails a payment at any time; final answers tell its fate and an
ambiguous one tells nothing. `sent` remembers all payments ever handed over,
across processes. The properties compare it with the ledger.

The Breez part: `marker` holds the wallet directories with an owner file
(`create_new`), removed by a successful disconnect or by dropping a payer that
never connected, and surviving its process otherwise. An operator may remove a
marker left by a dead process.

### CredentialCache and RequestFlow

An operation holds the cache's lock from its read to its write. Its deletions
and insertions of secrets are a step each, so a crash, a keyring that goes away
or a failed write of the fallback file may come between any two. `Readable`,
`StorePut` and `StoreDelete` are the coordinator's rules: only an absent
keyring selects the fallback file, and a keyring that answers "no entry" is
believed. The fallback file is truncated and rewritten in place, so failing may
leave it empty or cut off (`torn` remembers it). `Publish` is `atomic_write`;
`stable` is the metadata that a power loss may bring back. Secrets of an older
cache are inline.

`RequestFlow` drives these operations as `execute_with` does (claim, present,
mark, evict, start over without a credential; pay, save with one use counted,
retry, mark or evict), and as `credentials purge` does with an arbitrary
selection. `sent`, `kept`, `condemned` and `gone` are history.

Abstractions: all credentials match the requests' scope; a claim takes any
usable credential where the code takes the first; expiry is left out (an
expired credential is one no claim chooses); a payment is a step that yields a
fresh id, which the hash of the authorization provides; the reads of one `load`
see one state of the keyring; the durability of the keyring itself and of the
creation of the fallback file is taken for granted.

### Deployment

One host and one cutover session. The saved state (config, wallet, cache,
ledger) is items `1..N`, each with its live path and the two private paths
through which `rollback-rust-paygate.py` moves it: a staged copy of the backup,
and the parked live object. An object is the era it comes from and how often a
command wrote to it, which is what the script's `identity()` can tell.
Each script is a program counter; a step is what a crash can separate, and where it
stops inside a copy or inside the removal of a directory, that is cut off
(`CutOff`; `Directory` gives the items that are directories): the
publication of the pending marker and of the marker, the launcher, the quarantine,
each staged copy, each move, the cleanup, the removal of the marker, and in
`finalize` the record, the renaming and the removal of the rollback directory.
What a script remembers is lost when it exits or dies (`Forget`).
A rollback that is run again plans anew from what it finds (`PlanOf`), as
the script's action table does, and only while the objects are those the
marker binds. A reboot may change the device number, which the
manifest and the marker bind, until the operator authorizes another
(`remapped`).

Simplified: the temporary link of the launcher's rename is left out, for nothing
reads it; a rename that is lost with the power is the crash before it; a read of
several files is one step where only the holder of the lock changes them; what
the records say beyond presence and phase, the gates of the acceptance and its 24
hours are left out.

### LegacyClient, Challenges, Invoices, Payers

A Python process is a list of the steps it still has to take, which is what
`orchestrator.py` pushes through its branches and `finally` clauses; an
exception that nothing catches empties the list, an error that is caught
replaces it. The ledger is read and replaced under its lock. The credential file
is read without its lock at the start, and under its lock truncated and then
written, so a death in between leaves a file that is not whole, which the next
load takes for an empty one.

What a response offers, what the wallet's answer amounts to and whether an
authorization can be built are constants of `LegacyClient`. An offer has an
amount, which the policy caps and the ledger reserves, and a price, which is what
the submitted invoice asks. They are the same for an L402 challenge, whose amount is
read from the invoice; a Payment challenge declares its amount and its payment hash,
and nothing compares them with its invoice. `MCLegacyClient`
computes the same from texts, with the operators of `Challenges` (header
splitting with quotes and escapes, parameters, payloads, expiry, the preferred
protocol), `Invoices` (amounts by multiplier, tagged fields, payment hash) and
`Payers` (LND's stream of updates, phoenixd, Breez, test mode, and the
verification of the preimage); `RunOffersAreRead` and `RunOutcomesAreProved` tie
the two. A text is a sequence of symbols, and a symbol may stand for a word nothing
splits. base64, JSON, dates, numerals and SHA-256 are tables.

`SpendIsCounted` of this module compares what the paid invoices asked with what the
ledger counts, and has two exceptions. The payments after which the payer
reported a failure: the Python client then rolls its reservation back although
an interrupted payment may still settle. The Rust client was written to close
that gap, and its `SpendIsCounted` has no such exception. And the underdeclared
Payment challenges, whose invoice asks more than they declare: of these only what
they declare is counted, and neither the budget nor `max_request_sats` sees the rest.
The repository's own review reports that as its finding D1
(reports/greenharbor-code-review-full-2026-07-17.md:9); the response `dearer` of the
run is such a challenge. `PaymentsAreProved` and `OffersAreRead` are about the
challenge likewise: its hash and amount are those of the invoice for L402 only.

### Canary

The durable ledger of attempts is the state it gives each attempt: `book` is
what a process reads, `saved` what of it is synced, `cutShort` a file that
ends inside a line and fails every later reading, and `named` whether the file's
directory entry is on disk. `transition` syncs the file and never its directory, so
a file that the first claim created may be lost with the power (`FileAfterLoss`),
and the claim with it, although infra/payment-canary-runner/README.md:25-26 says that
an attempt can be claimed once. `forgot` remembers such a loss; the properties of the
ledger except it and are about every other behaviour. The adapter is a process of
its own: it pays and writes RESULT in two steps, outlives a runner that dies,
and may have left the RESULT of an earlier attempt. `told` is what the workflow
was told. Redeployment changes the binary while a runner is at work.

`PathsChecked` says whether `main` checks its fixed paths against their required
types. Its check (line 423) demands a regular file of the ROOT directory as well, so with
it the runner refuses every deployment it could really find; the
run takes FALSE, as the repository's tests do, which replace that check.

### CacheWindow

`capture` and `verify` as operators on a world: the clock, the credentials
listed, the acceptance record, the binary. `Written` is the file that a capture
leaves which was interrupted at a given step. The properties relate a world at
capture (`World`, `Ask`) to one that it may have become at verification (`Later`).

## Runs

| Run | Instance | Shows |
|---|---|---|
| `ledger` | 2 clients, budgets 3 and 2, process ids 1, 2 and 2, anonymous ids that collide, amounts of 1, the largest u64 is 3, 2 days | `TypeOK`, `WithinBudget`, `GuardsAreExclusive`; `AtomicSpec`: the locked file implements the atomic ledger, in which an anonymous reservation may replace its namesake |
| `pay_requests` | 2 `request` clients, one challenge, 3 processes, 2 days, the second only while one of the clients is down | `SpendIsCounted`, `OpenPaymentsAreGuarded`, `NoRepaymentSameDay`, `RetainedIsReported`; all but the last except runs in which a power loss undid an unsynced write |
| `pay_mixed` | a `request` and a `pay-invoice` client, one wallet directory | `SpendIsCounted`, `ReportsAreFinal`, `WalletIsExclusive`, and `CountingConserved`: what counts moves only by a granted reservation or its owner's rollback, or with a power loss; `LockIsReleased` |
| `flow` | 2 processes that request or purge, 2 starts, a single-use credential of an older cache and one that lasts | `FlowTypeOK`, `LimitsHold`, `UsesAreDurable`, `SecretsPrecedeMetadata`, `GoneStaysGone` |
| `deploy` | 2 items of saved state, one of them a directory, one command of each client, 2 deaths or reboots, 2 device numbers | `DeploymentTypeOK`, `RustIsExcluded`, `PythonIsWhole`, `StateIsRecoverable`, `RetirementIsTrue`, `RestoredStays`; `MaintenanceSpec`; `RollbackCompletes`, which excepts what somebody else disturbed and a parked directory whose removal was cut off |
| `legacy` | 2 Python processes, 5 responses, 4 wallet answers, budget and cap 2, 2 days | `BudgetHolds`, `SpendIsCounted`, `NoChangeIsLost`, `UnusableStaysUnused`, `ReportIsTrue`, `NothingStaysReserved`; of the operators: `OffersAreRead` (headers split, parameters, preference, amounts) and `PaymentsAreProved` (payment hashes, outcomes, preimages) |
| `qualification` | 2 runners with 3 starts, 2 attempts, 2 binaries, a ledger file that was there before or that the first claim creates | `SubmittedOnce`, `VerdictIsTrue`, `ToldIsRecorded`, `VerdictIsFinal`, `RunnersEnd`, the first four until a loss of power takes the file itself; of the window: `WindowHolds` (`WindowIsHonest`, `WindowSurvives`, `WindowIsWrittenOnce`) |

The properties of operators are evaluated in the initial states, over the
bounded inputs that the MC modules list.

Five runs end in a counterexample, each against a sentence of the repository:

- `pay_after_midnight` (`NoRepayment`): a guard retained by an ambiguous payment
  is looked up in today's entry only; after midnight the same challenge is
  submitted again. ledger.rs:122-125 promises that a restart fails closed.
- `pay_same_pid` (`SpendIsCounted`): a later process with the same process id
  overwrites the reservation that an earlier one left, and a payment that may
  have gone through is no longer counted, against README.md:291-292.
- `flow_deletion` (`DeletionIsComplete`): deleting while the keyring is absent
  succeeds and leaves the keyring's secret behind, against cache.rs:219 and
  keyring.rs:253-256.
- `flow_outage` (`KeptStaysListed`): saving while secrets are unreadable erases
  the metadata of the unreadable credentials, against cache.rs:221-222.
- `deploy_race` (`RecordIsTrue`): `finalize` looks at the deployment before it
  takes the lock and does not look again before it publishes the record that
  Python is deactivated; a rollback in between makes the record false, against
  docs/minimal-rust-cutover-runbook.md:454-455.

The two `pay_` counterexamples run without power loss and without an operator
(`MCUnattendedSpec`), so that nothing but the code and the clock is to blame.

### Bounds

Two clients are enough for each pairwise race the locks must exclude, and a
third process (a restart) for what a dead process leaves behind; in `flow` the
second of two starts is that restart, or a process beside the first. `MaxCalls`
bounds the anonymous reservations of a process, `LastDay` the days, `PidOf` or
`MaxBoots` the processes, `Amount` and `Budget` the sats: the budgets differ, the
smaller one admits two reservations of 1 or one of 2 and refuses the next, and
`U64Max` of `ledger` is small enough for a sum to overflow. `Radix` is 2, so that two
different pairs of pid and counter may print alike. In `ledger` the second day is
explored only before the restart and while no process made an anonymous
reservation (`MCDays`): midnight is about guards. In
`pay_requests` the second day is explored only while the second client is down
(`MCMidnight`), which may have left a payment behind: what midnight can upset is
the payment of the client that goes on. Two credentials are enough
for an operation on one to rewrite the other.

`Deployment`: two items make a rollback that stopped between items differ from
one that stopped within an item, and one of them is a directory (`Directory`), so
that both kinds of removal happen. `MaxCrashes` 2 lets a rerun die as well,
`MaxStarts` 3 lets a command of either client start before, during and after a
script, `MaxWrites` 2 changes both items or one item twice, and the second device
number (`MaxDevice`) is the reboot that the authorization is about.
`LegacyClient`: budget and cap admit one payment of 2 or two of 1; one response
is payable and then expires, one carries a test preimage, one is of an
unwritable credential, one of a service that is not allowed, and one declares 1 sat
and a hash beside an invoice of 5 sats with another hash; the second
day is after the expiry. `Canary`: the third start is the retry of an attempt
that either runner left (`MaxStarts`), and the clock (`LastMoment` 1) reaches
the end of the approvals. After a loss of power that took the ledger file no
further runner is started (`MCNext`), for the properties except what follows.
`CacheWindow`: `Floor` is 2 instead of 300, and the
times lie on both sides of each comparison, the equal one included.

Deadlock is checked in `legacy`, where the environment never stops. The other
runs do not check it: at their bounds every process has stopped.
`flow`, `flow_deletion`, `flow_outage` and `legacy` use the symmetry of their
processes; their properties are invariants.

### Fairness

- `pay_mixed`: weak fairness of the section between taking and releasing the lock.
  The code there makes no remote call and waits for nothing, and when its
  process dies the operating system drops the lock. Waiting for the lock is not
  assumed fair: advisory locks have no queue.
- `deploy`: an install or finalize that runs goes on and commands end (weak);
  a rollback whose marker is published is rerun (weak), as the marker's refusal of
  every command and the runbook demand, and rerun with the authorization for the
  present device number if that is what it keeps needing (strong). Nobody has to
  begin a rollback.
- `qualification`: a runner goes on (weak): probe and adapter have timeouts of
  30 seconds each, and the lock of a file is released when its holder dies.
- `legacy`: none; its properties are safety properties.

Nothing is assumed about wallets, networks, operators or keyrings.

## Proofs

The theorems hold for any sets of clients, commands, credentials, attempts and
items, any amounts, days and process ids, and any value of the bounds, under the
assumptions that the modules state of their constants and the hypotheses named
below. Each inductive invariant
of the table has a lemma for each kind of step, and the theorems follow from it.
TLC found no counterexample to an invariant at the bounds of the component's runs
before it was proved.

| Module | Invariant | Theorems, each for every behaviour of the specification |
|---|---|---|
| `SpendLedgerProofs` | `LedgerInv` | `LedgerTypes`: `TypeOK`; `BudgetIsKept`: `WithinBudget`; `GuardsAreHeldOnce`: `GuardsAreExclusive`; `LedgerIsAtomic`: `AtomicSpec` |
| | `CountingInv` | `CountingIsConserved`: `CountingConserved` |
| `PaymentTransactionProofs` | `StageInv` | `PaymentsUseLedger`: `LedgerSpec`; `WalletsHaveOneOwner`: `WalletIsExclusive`; `ReportsTellTheFate`: `ReportsAreFinal`; `RetentionIsReported`: `RetainedIsReported` |
| `PaymentMoneyProofs` | `PayInv` | `SpendStaysCounted`: `SpendIsCounted`; `OpenPaymentsStayGuarded`: `OpenPaymentsAreGuarded`; `NothingIsPaidAgain`: `NoRepaymentSameDay`; `PaymentsConserve`: `CountingConserved`; `RequestsAloneAreCounted` |
| `RequestFlowProofs` | `FlowInv` | `FlowIsTyped`: `FlowTypeOK`; `LimitsAreKept`: `LimitsHold`; `UsesAreOnDisk`: `UsesAreDurable`; `DeletionsLast`: `GoneStaysGone`; `SecretsComeFirst`: `SecretsPrecedeMetadata` |
| `DeploymentProofs` | `DeployInv` | `DeploymentIsTyped`: `DeploymentTypeOK`; `LockExcludesRust`: `RustIsExcluded`; `PythonStaysWhole`: `PythonIsWhole`; `RollbackIsRecoverable`: `StateIsRecoverable`; `RetirementStaysTrue`: `RetirementIsTrue`; `RestorationsLast`: `RestoredStays`; `MaintenanceIsImplemented`: `MaintenanceSpec` |
| `CanaryProofs` | `CanaryInv` | `AttemptsAreSubmittedOnce`: `SubmittedOnce`; `VerdictsAreTrue`: `VerdictIsTrue`; `WhatIsToldIsRecorded`: `ToldIsRecorded`; `VerdictsAreFinal`: `VerdictIsFinal` |
| `LegacyClientProofs` | `ClientInv` | `BudgetIsKept`: `BudgetHolds`; `SpendCounts`: `SpendIsCounted`; `ChangesAreKept`: `NoChangeIsLost`; `UnusableIsLeft`: `UnusableStaysUnused`; `ReportsAreTrue`: `ReportIsTrue`; `NothingIsLeftReserved`: `NothingStaysReserved` |
| `CacheWindowProofs` | none needed | `WindowIsTrusted`: `WindowIsSound`; `WindowAlwaysHolds`: `WindowHolds` |

### Why the invariants are needed

`LedgerInv`. `WithinBudget` is preserved by a write because the check was made on
the copy the lock holder read, so the copy must still be the file:
`CopiesAreCurrent` (a holder is alone and its copy is current).
`GuardsAreExclusive` is preserved by a commit or a rollback because the call names
the caller's own pending handle: `CallsAgree`. And what reserves under a guard
finds it absent, so no live client has it. The arithmetic rests on lemmas about
`reservation_total`, which is the number of sats in the set `HeldSats` of single
sats held: it grows by the amount of a new reservation and shrinks by that of a
removed one. They follow from the library's theorems on finite sets, without
induction over data.

The refinement needs no more: the step that renames the file is the atomic
operation, all others leave the abstract ledger alone, and a power loss is the
abstract loss of unsynced operations.

`CountingInv` adds that an id which counts or is about to was issued once, so that
a rollback removes the entry of its own handle. `PayInv` then gives every open
payment a reservation of its own (`OpenAreHeld`) and every committed one its share
of the day's commits (`ClosedAreCounted`); summed over a day they are what
`SpendIsCounted` compares. Between them lies `StageInv`, which ties the place of a
command to its ledger operation, its handle, the owner file of its wallet and
the fate of its payment. `PaymentsUseLedger` says that commands, crashes and
wallets touch the ledger through its operations only; it carries every theorem
about `LedgerSpec` over to payments.

`FlowInv` accounts for uses: what was sent of a credential, plus every right to
send it that a live command still holds, never exceeds the uses counted in the
metadata, in what a power loss would leave of it, and in the copy that the
lock's holder is about to publish. What is reported as deleted is in none of
the three, and a put is about a credential that nobody else has.

`DeployInv` says what each kind of marker promises of launcher, environment and
items (`MarkerHolds`): whole state without a marker or under that of a
finalisation, live state under that of an install, and under a rollback's each item
on one of three ways (`Waits`, `IsBetween`, `IsBack`), none of which loses it. The
rest says that each script is where its files say it is, which holds because the
lock's holder is alone (`LockHolds`) and because nothing is installed without a receipt
(`ReceiptHolds`). For the refinement, a step that publishes a marker where none is
enters maintenance, the two moves of an item replace a part of the state, the
removal of the marker leaves maintenance, and all else is a command or a stutter.

`CanaryInv` ties the money to the disk: what was submitted was claimed on disk
before, a runner that works has its claim there and nobody else has claimed the
attempt, and the file is ahead of the disk by one line at most. The theorems are
about `CanarySpec`; the run's `MCSpec` adds a clock, whose steps leave all
variables of `Canary` alone.

`ClientInv` reads the list of steps that a Python process still has to take as
its history. `StageOf` names the lists that can be left and what is verified, said
and paid at each; `HeldIsOwed` says that a process holds a reservation exactly
while one of the steps left settles it, which is what `NothingStaysReserved`
needs, and that the reservation stands on the day and for the amount of what was
offered. `BudgetHolds` is preserved because the holder of the ledger's lock has read
what the ledger is (`LedgerLockInv`). For `SpendIsCounted`, what left a wallet is still
reserved or is among the settled payments, which the day's commits cover
(`CommittedCovers`), and what its invoice asked is no more than what was reserved,
unless the challenge was underdeclared (`CountsAreReserved`); sums over sets of processes are handled as cardinalities, as
in the Rust ledger. `FileInv` says that file and copy are a part of what was last
made of each credential, and all of it as long as nothing disturbed them; of a
part, every entry is the latest, so a process that reads a file in the middle of a
save may miss a credential and cannot find an outdated one. That is
`UnusableStaysUnused`.

The window needs no invariant. Over an unchanged listing the verification finds
one credential because any other that it could find would have been fresh at the
capture as well (`WindowLasts`), which needs that counts of uses are not negative.

### Hypotheses

The assumptions on constants are named in the modules that declare them and
evaluated by the runs. `ClientAssumption` says of offers that only a Payment
challenge's invoice may ask more than the offer's amount, which is how
orchestrator.py:380-384 gets the amount of any other; `RunOffersAreRead` checks it on
texts. Some theorems have a hypothesis of their own.

The theorems of `CanaryProofs` carry the exception that their properties state: they
hold until a loss of power takes the ledger file with what was synced in it
(`forgot`), which can happen only while nobody has synced the file's name. The
invariant is `forgot \/ CanaryInv`.

The theorems of `PaymentMoneyProofs` and `CountingIsConserved` carry the exception
that their properties state: nothing is promised of a reservation that was granted
with a durability warning and undone by a power loss. The code goes on to pay under
such a warning.

`CountingIsConserved` assumes `IdsDiffer(Client)`: no two anonymous reservations
of the processes that share a ledger get one id. `PaymentMoneyProofs` asks it only of
the clients that run `pay-invoice` (`IdsDiffer(Payers)`), for a request reserves under its
guard; where all commands are requests it is void and
`RequestsAloneAreCounted` states the result without it. The code does not make
it true: an id is the process id and the counter `COUNTER` printed one after the other,
so it fails where a process id comes back, and `pay_same_pid` shows what happens then.
It is a hypothesis and not derived from different process ids, for two pairs of
numbers may print alike, and powers are out of the backends' reach.

### What the proofs found

- Some CASE expressions of `PaymentTransaction`, `LegacyClient` and `CacheWindow`
  had guards that overlap. TLC takes the first, but TLA+ does not say which;
  they are IF expressions now.
- `LimitsHold` holds only if a paid credential may be used at least once
  (`CacheAssumption`), as request.rs has it: once, or until it expires; and if
  the name for no credential is not one (`FlowAssumption`).
- `LegacyClient` without a day would start on a day that is none
  (`ClientAssumption`: there is one), and an offer was extended with an operator of
  TLC that means nothing to the prover; it is `With` now.
- In `Deployment` the exit of any script cleared what the rollback
  remembers. The rollback is a process of its own and keeps its memory: `Exit` clears it
  only for the rollback now. An object that is not there, a partial copy and an
  identity have to be told apart (`ObjectsDiffer`).

### Only model-checked

- Liveness: `LockIsReleased`, `RollbackCompletes`, `RunnersEnd`. Fairness and
  ENABLED are out of the prover's reach.
- `OffersAreRead` and `PaymentsAreProved`, over bounded inputs. `Challenges` and
  what reaches it declare a recursive operator (the search through a JSON body),
  so they hold no theorems. What they compute is a constant of `LegacyClient`, and
  its theorems hold whatever it is.

## Not modelled

- The Rust parsers of challenges, invoices and policy. They are pure; the Python
  ones, which the repository keeps as the reference for them, are modelled.
- HTTP, configuration, traces, redaction and formatting: stateless.
- The SDK behind the Breez payer and the other Rust payers' transports (not
  wired into the binary, or placeholders).
- Rights and identities of files: an unsafe file is an access that fails.
- The cutover's preflight, which compares and records before any state changes,
  and a second cutover session on the same host.
- Two things the repository leaves to the operator: repeating `pay-invoice`
  after an ambiguous answer, and clearing stale markers (a step, never a duty).
- Of the Python client: `backend pay-invoice` and `doctor`, listing and showing
  credentials, scope fields other than the protocol, configuration.
- The canary of the candidate, the oracle, packaging and CI.

### Exposures that no property forbids

The models contain these behaviours and the properties except them. Where the
repository says otherwise, its sentence is quoted:

- Rust: a guard ends with its commit, so the same challenge may be paid again
  after that; the owner marker of a dead process keeps later ones out until an
  operator removes it; the fallback file is rewritten in place; a secret stored
  in it during an outage is not found once the keyring answers again.
- Rust: a purge erases secrets before it publishes the metadata without them, so one
  that is cut off keeps entries without a secret; `SecretsPrecedeMetadata` is not about
  entries whose deletion somebody asked for. A power loss may undo a reservation
  whose directory was not synced, although the payment went on with a warning.
- Python: of an underdeclared Payment challenge the difference is counted and capped
  nowhere (D1 of the repository's review), and the hash it names need not be its invoice's, so that a wallet's
  true proof may be refused; payments that fail or time out after they were submitted free the budget; two
  processes may find the same single-use credential; the credential file is
  rewritten in place, and a keyring that does not answer drops entries from it;
  a save that fails ends the command without an envelope; credentials of the
  protocol that is not preferred are stored and never found.
- Scripts: what is written between the backup and the last scan of an install
  is not in the backup. A rollback that dies while it removes a parked directory leaves
  a part of it that is neither absent nor what the marker binds: every later rollback
  refuses it as ambiguous (rollback-rust-paygate.py:929-937), although the runbook
  (docs/minimal-rust-cutover-runbook.md:415-417) says "rerun the same rollback command
  until it reports success". `RollbackCompletes` excepts it (`HalfRemoved`).
- Canary: the claim that created the ledger file may be lost with the power, and its
  attempt submitted again (`forgot`); a line cut short stops all later claims; the candidate may be
  exchanged between the comparison of its hash and the probe.

## Plan

1. Done: `SpendLedger` with its abstract ledger and proofs; `PaymentTransaction`;
   `CredentialCache` and `RequestFlow`; `Deployment` with its abstract
   maintenance; `LegacyClient` with the parsers and payers; `Canary` and
   `CacheWindow`.
2. Done: the theorems listed under Proofs. Every invariant and action property that a
   run checks is a theorem, but for the two of the parsers.
3. An abstract credential cache of atomic steps, and `CredentialCache` shown to
   implement it while the keyring is stable.
4. The Rust parsers against the operators of `Challenges` and `Invoices`.
5. Both clients on one ledger file and one keyring, as they are between an
   install and a rollback.
