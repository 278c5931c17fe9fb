# Verification of FlareForm

FlareForm is a Cloudflare Worker that lets GitHub repositories declare DNS
records. Workflow runs send a manifest with an OIDC token; the Worker plans the
difference against Cloudflare, admits the change in a D1 database, and carries
it out record by record. Nothing may happen twice, no repository may touch
another's records, and when it is not known whether Cloudflare applied a
change, the record set freezes until an operator decides. That protocol between
concurrent requests, D1 and Cloudflare is the core of these modules; around it
they specify plans and the Action that uses them, the adoption of existing
records, scheduled maintenance, the verifier's key cache and the namespaces of a
policy.

Paths below are those of the repository: `src/...` is the Worker's source
directory. (`PROJECT.json` names files from the directory that holds the
checkout, so its paths carry one more `src/`.)

## Inventory

| Component | State | Operations | Hard behaviour | What makes it correct |
|---|---|---|---|---|
| D1 tables and triggers (`migrations/0001`, `0003`), `src/db/repository.js` | operations, operation_zones, operation_locks, record_claims, managed_records, mutation_intents, oidc_jti, plans | reserve, start, begin, mark sent, confirm, mark indeterminate, finish, fail, freeze, update, resolve | batches of concurrent requests interleave; a batch can abort, or succeed unseen | locks cover unsettled intents; claims match managed rows; a token is consumed once |
| Apply handler, `src/api/apply.js` | local: policy, snapshot, zones to do | lookup, prepare, admit, start, loop over zones, tally | crash or deadline between any two steps; a zone's error path writes too | one executor per operation; a truthful final status |
| Admission, `src/dns/admission.js` | - | check policy, plan and digests; reserve | what it read may be stale at the batch | a set is admitted to one operation; ownership is exclusive |
| State and preflight, `src/dns/state.js`, `preflight.js` | - | collect rows, listing, locks, claims; re-read before a change | listings and rows are read at different times | nothing is changed that is not the version planned on |
| Planner, `src/dns/plan.js`, `reconcile.js` | - | diff, digests | - | the digest covers what the plan depends on |
| Zone executor, `src/dns/execute.js` | intents | one durable intent per change, one request, one confirmation | lost or late answers | at most one request per intent; confirmed means applied |
| Cloudflare client, `src/dns/cloudflare.js` | - | list (paged, retried), create, patch, delete (never retried) | timeouts, refusals | a write is never repeated |
| Operator reconciliation, `src/admin/reconcile.js`, `scripts/reconcile-record.js` | - | inspect, confirm provider, confirm no change | acts on a state that is still moving | D1 describes the provider when the locks go |
| Policy, `src/policy/*` | policy_versions, policy_state, zones, repositories, grants | validate, authorize, synchronise | a new version while operations run | disjoint namespaces; old admissions are refused |
| Adoption, `src/admin/adopt.js`, `scripts/adopt-record.js` | claims, managed rows, record metadata | check, mark the record, then insert claim and row | cut between the two, no lock against applies | a marked record has its row or can get it; marks never move |
| Maintenance, `src/operations/maintenance.js`, with the audit of `src/admin/inventory.js` | maintenance_runs and snapshots | clean up tokens and plans, inventory, audit, store | two deliveries of one slot; provider and rows are read at different times while applies run | one immutable run per slot; an audit that finds what is wrong and only that |
| OIDC verifier, `src/auth/oidc.js` | key cache, pending refresh | verify, refresh | shared refresh, key rotation, slow and failed fetches | bounded refreshes, no stale acceptance, no lasting refusal |
| Plan endpoint, `src/api/plan.js` | plans, plan_admissions | create a plan; apply consumes it; the cleanup deletes it | another job of the same run, a retry with a consumed plan, expiry | only what was shown is deleted; a used plan stays |
| Action client, `github-action/src/client.js` | local: plan, result | plan, apply, retry a partial failure once | retry with a fresh token and an old plan | success means that what was shown is done |
| Inventory and audit, router, manifest parser, normalization, strict JSON, errors, build scripts | none that outlives a call | | | |

A request goes through the router and the verifier to `createApplyHandler`. The
handler reads the policy, looks for the operation's row, takes a read-only
snapshot of D1 and Cloudflare, computes the plan, and reserves everything in one
D1 batch: the token, the operation, its zones, a lock per record set and claims
for new sets. `startOperation` then admits one executor. For each change the
executor re-reads the record set, writes an intent, marks it sent, calls
Cloudflare once and confirms in D1. An operator's resolution is the only other
writer of the same tables in the mutation path. The cron trigger runs the
maintenance handler beside all of it; that deletes expired tokens and plans and
reads the same rows and records for its audit. A run of the Action makes three
requests at most: a plan, an apply that names the plan if it deletes, and a retry
of a partial failure. An admin's adoption writes a record's metadata at Cloudflare
and then claims and rows of the same tables, without locks.

## Modules

| Module | Models |
|---|---|
| `Store` | the tables, the triggers, and every statement and batch of `repository.js` an apply or a resolution runs |
| `Apply` | the apply requests: lookup, snapshot, classification, plan, admission, execution, every error path; Cloudflare; the faults |
| `FlareForm` | composes them with the operator; specification, properties, refinement mapping, fairness |
| `RecordSetLease` | the abstract specification: leases on record sets |
| `Maintenance` | the scheduled handler beside the mutation path: cleanup, inventory, ownership audit, the run of a slot |
| `Plans` | runs of the Action, the plan endpoint, plan rows with their expiry, consumption and cleanup, around the mutation path |
| `Adoption` | adoptions beside the mutation path |
| `Oidc` | the key cache and refresh of one isolate's verifier |
| `Namespace` | grants, their overlap, zone selection, authorization of a record: pure definitions |
| `MCFlareForm`, `MCMaintenance`, `MCPlans`, `MCAdoption`, `MCOidc` | the small instances, named after the runs |
| `FlareForm_proofs`, `Safety_proofs`, `Lease_proofs` | theorems of the mutation path, each module on top of the one before |
| `Maintenance_proofs`, `Plans_proofs`, `Adoption_proofs` | theorems of the three compositions, on top of `Lease_proofs` |
| `Oidc_proofs`, `Namespace_proofs` | theorems of the verifier and of policies |

**State.** Each table is a function on its key: `operations[o]` holds the status,
the policy version and the state digest of an operation row,
`operationZones[o][z]` a checkpoint, `operationLocks[s]` the holder of a record
set, `recordClaims[s]` its owner, `managedRecords[k]` the provider record D1
believes key `k` has, `mutationIntents[o][k]` and `intentActions[o][k]` an
intent, `oidcJti` the consumed tokens. "absent", `NoOp`, `NoClaim` and `NoRow`
stand for rows that do not exist. `provider[k]` is the set of records at
Cloudflare that carry `k`'s metadata, each with its identifier, content and last
writer (`modified_on`); a created record is named after its operation and key
(`NewId`), in place of an identifier that Cloudflare gives only once.
`wire[o][k]` is the one HTTP request of an intent.
`req[r]` holds what a handler keeps in local variables, with `pc` for the await
it stands at.

**Actions.** One action is one step between awaits whose order matters. A batch
is atomic, so `ReserveBatch`, `ConfirmBatch`, `ResolveBatch` and the others are
each one step with their triggers as guards; when a guard fails the caller takes
its error branch (`Confirm` goes to `MarkUnknown`, `Finish` to `ZoneError`, and
so on, as the `catch` blocks do). A fault is an action of its own: `Crash` at
any await, `RequestTimeout` at the head of the zone loop, `ReadFails`,
`ProviderReject`, `ProviderTimeout` (the answer is lost; the request may still
be in flight and land later), `WriteAborted` and `AnswerLost` (D1 did not, or
did, make the write whose exception the code sees), `Drift` (somebody edits a
managed record) and `SyncPolicy`.

`Maintenance` adds `maintenanceRuns[slot]` and `delivery[d]`, what an invocation
of the scheduled handler keeps between its awaits, with one action per await
(`ReadPrior`, `Clean`, `TakeInventory`, `ListZone` for each zone, `ReadRows`,
`ReadOrphans`, `StoreRun`, `Reread`) and its failures. Steps of `Next` run in
between (`ApplyStep`). `audited` is history, read by a property only: which record
sets no operation locked while they were audited, and which of them the
preflight would have accepted when they were listed.

`Plans` constrains the mutation path instead of adding to its tables: a step of an
apply request (`ApplyStep`) is a step of `Apply` on which `PlanRules` decides what
is left open there (whether `Admit` admits, whether a known operation is only
reported, whether the reservation throws), and `Consume` uses up the plan in the
batch that inserts the operation. `plans[c]` is the row of the plan client `c`
obtained, `planAdmissions[c]` the operation it admitted, `client[c]` the local
state of a run of the Action with the records it was shown as deletions, `began`
the time each request took `now`. A plan request is the preflight of an operation
that is never admitted (`Preview`), followed by `CreatePlan`.

`Adoption` adds `adoption`, the local state of the one script that runs. Records
without metadata are records under stand-in keys (`Unmanaged`) that no repository
owns, so that marking a record moves it from a stand-in to its key.
One action per await: `ListRecord`, `ReadRows`, `ReadClaim`, `MarkRecord` (the
patch), `InsertRecord` (the batch), each of which can fail, and the job can be cut.

`Oidc` is about one isolate. `verification[v]` is a call of `verify`, `pending`
the shared promise, named after the call that started it, `flight[f]` the
refresh at its fetch. The verdict falls in the turn in which a call gets its key
set, so `Verify` is one step, and the end of a refresh decides all calls that
wait for it. Time is explicit: `Tick` may not pass the timeout of a fetch.

**What is abstracted.**
- A record set is a (zone, name, type) triple, a key a (repository, client key)
  pair, a value stands for content, ttl and proxied flag. A key has one record
  set: a manifest that moves a key is refused (`state.js:203-211`). Conflicts
  between types at one name (CNAME, NS) are left out.
- `Lookup` reads the active policy and the operation row together; `Classify`
  reads the locks and claims of all its sets together, and `ListProvider` all
  zones. The reservation's triggers check locks and claims again.
- Claim rows have no identifier, so a claim that was deleted and made again
  passes a foreign key that would refuse it: the model allows more than the code.
- Digests are the data they are computed over. In `FlareForm` a plan artifact for
  deletions is a refusal that may happen (`Admit`); `Plans` decides it.
- In `Plans` all manifests prune, two clients' manifests are of one operation or
  differ, and a client that gives up does nothing before its request has ended
  (the Action fails and makes no further request anyway).
- In `Adoption` a patch is applied or not when the call ends; one that is applied
  later is left out. One adoption runs at a time and no operator decides during it:
  both administrative workflows of `examples/github-workflows` share one
  concurrency group. A script run by hand beside them is not covered.
- Policies appear in `Namespace` only. Elsewhere a key has an owner (`OwnerOf`) and
  every request of that owner is authorized; the theorem `OneOwner` is what
  entitles the modules to one owner per name. A name is the sequence of its labels.
- `Maintenance` leaves out the content of the inventory and records
  whose name, type or metadata were altered; `ExpiredAt` says which tokens a slot
  finds expired. Theorems and runs about tokens are about `Spec`, in which none
  is deleted.
- The operator's inspection and resolution are one step, on the assumption
  stated below. Audit rows are left out. A policy synchronisation changes the
  version only. Reads that fail outside a `try` end the request as `Crash` does.

## Properties and runs

The runs of the mutation path use the module `MCFlareForm`; `Maintenance`, `Plans`,
`Adoption` and `Oidc` have one of their own. Deadlock is not an error in them:
requests are finite in number and end (in `Oidc` time always passes or a call can
be made, and deadlock is checked).

| Run | Instance | Properties |
|---|---|---|
| `Race` | two runs updating one record, and a replay of the second's request with its token; crash, provider error, D1 fault, policy change, at most 2 | `TypeOK`, `LocksCoverIntents`, `ExclusiveWrites`, `NoLostUpdate`, `OwnershipMatches`, `TokenAdmitsOnce` |
| `Zones` | one run over two zones (three sets: create and update in one, create in the other) and its retry; crash, deadline, failed read, provider error, D1 fault, at most 2 | `CompleteIsClean`, `SingleExecution`, `OwnershipMatches`, `SentOnce`, `ImplementsLease` |
| `Owners` | two repositories creating in one set, and a third run that prunes it, while the records are edited by hand; crash, provider error, D1 fault, drift, at most 2; an operator who makes only the code's checks | `SingleOwner`, `ConfirmedWasApplied`, `NoOrphan`, `FinishDeletesAll` |
| `Live` | two runs with three sets in one zone; two provider errors; fairness | `LocksReleased` |
| `Maintenance` | two deliveries of one slot, a run that creates a record in one zone, a managed record in another; crash, failed read, provider error, D1 fault, hand edit, at most 1; deliveries are symmetric | `MaintenanceTypeOK`, `ReportsStoredRun`, `AuditIsExact` |
| `Plans` | two jobs of one workflow run with the same manifest, which keeps one record of a set and deletes another, each planning, applying and retrying; failed read, hand edit, policy change, at most 1; three instants, a plan lives one; jobs are symmetric | `PlansTypeOK`, `DeletionsWereShown`, `EvidenceKept`, `SuccessDeletesAll`, `RetryKeepsItsPlan` |
| `Adoption` | one unmanaged record and two keys for it, an update and a pruning of its set, an update in a second set that holds another unmanaged record; crash, provider error, D1 fault, at most 1 | `AdoptionTypeOK`, `RowsAreMarked`, `MarkedIsAdoptable`, `NothingBesideUnmanaged`, `MarkStays` |
| `Oidc` | two callers, the rotation from one key to another, failures and losses of the isolate without limit, eight instants, of which a cached set lives four; callers are symmetric | `OidcTypeOK`, `CacheNeverOlder`, `LoadsApart`, `NoStaleKey`, `RotationNoticed` |

What they show:

- **LocksCoverIntents** - while it is not known how a change ended, its record
  set stays locked. It is what makes freezing safe: triggers, catch blocks and
  the operator's batch all have to respect it.
- **ExclusiveWrites**, **NoLostUpdate** - two changes never fly to the same
  record set, and from the preflight of an update or delete until it lands the
  record stays the version its plan was computed from, though the plan was
  computed before the lock was taken.
- **OwnershipMatches** - wherever no lock is held, D1 describes Cloudflare
  exactly, after any mixture of success, failure and operator decision.
- **SingleOwner** - the claim of a set names the repository of its records,
  although claims are read long before they are inserted.
- **CompleteIsClean**, **SingleExecution**, **SentOnce**, **TokenAdmitsOnce**,
  **ConfirmedWasApplied**, **NoOrphan** - no status is a lie, nothing runs or is
  sent twice, no token works twice, nothing is recorded as done that was not,
  and no record is forgotten, even under hand edits.
- **FinishDeletesAll** - when a request is about to mark a zone done, each record it
  planned to delete there is gone, although refused and lost answers, hand edits,
  another run's create and the operator come in between, and although the
  loop passes over changes that are confirmed already.
- **ImplementsLease** - the whole system implements `RecordSetLease`, in which
  an operation takes all its sets at once, sends each change once under its
  lease with nothing else open in the zone, and returns a zone's sets together
  when nothing is open. The mapping: `holder` is `operationLocks`, `sent` the
  intents whose request left, `open` those whose row is still "sent" or
  "indeterminate".
- **ReportsStoredRun** - overlapping deliveries of a slot count and find different
  things, and a batch whose answer was lost looks like a rival's; still every
  result ever reported is the one row of the slot.
- **AuditIsExact** - two pieces of code decide whether D1 and Cloudflare agree,
  the audit and the preflight's `verifyOwnership`. Of a record set that no
  operation held meanwhile the audit finds something exactly if the preflight
  would have refused it. For a set that an operation does hold it may report a
  record as missing or untracked that is neither.
- **DeletionsWereShown** - the README promises that a deletion requires "a
  matching, unexpired, one-time plan". Whatever happens between plan, apply, retry and
  execution, and with another job of the run executing the operation at the same
  time, a deletion in progress is one its own client was shown, of that record version.
- **RetryKeepsItsPlan**, **EvidenceKept** - a retry names a plan that was consumed
  and may have expired; it is never refused for that, as the cleanup leaves a plan that
  admitted an operation.
- **SuccessDeletesAll** - when the Action ends well, what it showed as
  deleted is deleted, also if another job did it and after a failure and a retry. In
  the run nobody else wants such a record; beside an operation that creates one it
  can fail (see below), and what is proved, `DeletionsHappen`, says exactly how.
- **RowsAreMarked**, **MarkedIsAdoptable**, **MarkStays** - an adoption is cut
  anywhere and takes no lock, and still D1 and Cloudflare name one key for every
  record of D1, the claim of its set never keeps a marked record from getting its row (the
  property does not speak of other rows in the set), and a record adopted twice
  under different keys keeps its first.
- **NothingBesideUnmanaged** - a record D1 does not know can be seen only because
  the listing has one record too many (`state.js:174`); nothing is written beside it.
  Such records are there from the start. One that somebody adds between a
  preflight's listing and the write is beyond any code, and is left out.
- **CacheNeverOlder**, **LoadsApart** - sharing the refresh orders the key sets and
  keeps unknown keys from turning into requests to the issuer.
- **NoStaleKey**, **RotationNoticed** - both directions of a rotation have a bound:
  a withdrawn key is accepted for less than the cache's time and a fetch's, a new one is
  refused as unknown for less than 30 seconds and a fetch's time.
- **LocksReleased** - every lease ends, by the zone's end or by an operator.

**Bounds.** `MaxFaults` limits injected faults, `MaxPolicy` and `MaxRevision`
the versions and hand edits they can cause. Two faults are enough for every
pair of failure and failing recovery (a lost answer, then a lost write of the
outcome). Two operations and three requests give a race with a replay; two
zones, three sets and a set of two records give each error path its
neighbours. `Maintenance`, `Plans` and `Adoption` have one fault, of which a hand
edit is one kind: a second multiplies their states and combines faults the other
runs combine already. `MaxTime` ends the clocks of `Plans` and `Oidc`: in `Plans` a
plan is used while it is valid, after it expired, and after the cleanup; in
`Oidc` the four times (0, 1, 2, 4) leave room for a cache that expires, is rotated
and expires again. `MCOidc` also evaluates, as an assumption, `OneOwner` over
all policies of two grants over names of up to three labels. The model has no
counters besides, and `edition` in `Oidc` only counts publications and withdrawals.

**Operators.** `OperatorWaits` (an operator acts only when no request is in
flight) and `OperatorCompares` (for an update, the operator checks from audit
logs who wrote the record last) are the care that
`docs/indeterminate-recovery.md` asks for and the code cannot enforce. `Owners`
assumes only the first. Without the second an operator may confirm no change for
an update that was applied, since `resolveIndeterminate` compares only the
record's identifier and metadata (`admin/reconcile.js:120`), and `OwnershipMatches`
fails.

**Fairness** (`FairSpec`, used by `Live` and `SentIsSettled`; `FairAdoptionSpec`, used by `EachIsAdopted`, lets admins start every adoption again and again and complete it). Weak fairness on
every step of a request that has passed the lookup (an isolate keeps running
what it started, unless a fault takes it), on the provider answering, and on an
operator acting on an uncertain change. Nothing is assumed of clients. `Live`
injects provider errors only: after a crash or a failure before sending, the
code itself keeps the locks (see below).

## Where code and documentation disagree

Each of the first four is a run that TLC must find violated; `PROJECT.json` quotes
the lines.

- `SentIsSettled`: an isolate lost after `markMutationSent` leaves the intent
  "sent"; the trigger forbids sent -> resolved, so the operator path, which
  accepts "sent", always aborts.
- `OneRecordPerKey`: the executor's guard against creating an existing key
  cannot fire, and in a set of several values a second record is created.
- `HeldIsRecoverable`: a manifest that replaces the last record of a set by a new
  key deletes the claim with the record and then misses it (`execute.js:93-95`);
  the zone freezes with nothing to resume and nothing to resolve, without any fault.
- `EachIsAdopted`: the second record of a set can not be adopted, because a
  record without metadata is refused once its set has a claim, the own one included
  (`adopt.js:161`).

Further consequences of the code, which no run of its own shows:

- The deadline check after `startOperation` (`apply.js:124`) leaves an operation
  "running" that nobody can start again.
- A read that fails in a zone with a confirmed change freezes the zone, although
  nothing in it is uncertain (`apply.js:153`).
- A resolution releases all of the operation's locks in the zone
  (`repository.js:625`), the documentation says only its own.
- A row found inside `reserveOperation` is reused without the policy check of
  `apply.js:77`, so a request can execute under a version that is not the row's; and
  without its plan being consumed, so a second job carries out deletions under
  a plan that stays usable, where `README.md:47` says "one-time plan". What it
  deletes is still what it was shown (`DeletionsWereShown`). What it leaves may not be:
  the first job took its snapshot before another operation created a record
  that its own manifest does not keep; the second planned later and was shown that
  record's deletion; the first inserts the row, does the record's zone, where it has
  nothing to delete, and fails in the next one; the second finds the row, passes
  over the zone as done and reports success, with the record still there. TLC finds
  this on `Plans` with a third operation that wants the record, as a violation of
  `SuccessDeletesAll`.
- The loser of a race that is refused by the snapshot comparison marks its zone
  failed, and its zone digest can never match again, so it keeps its locks without
  being able to resume.
- An adoption that is run again while a pruning deletes the adopted record can
  insert claim and row for a record that is gone: `adopt.js` looks at no lock. The
  next preflight of the set refuses it.
- `runAction` retries every 502 with `PARTIAL_ZONE_FAILURE`, whose log line says
  "pre-send zone failures"; for an operation that is indeterminate or running the
  retry only reads the report again.

## What is proved

TLAPS checks every step; the theorems hold for any sets of operations,
repositories, zones, record sets, keys, requests, deliveries, clients and
verifiers, and for any bounds. They assume of the constants

- `StoreAssumption`, `ApplyAssumption`, `OperatorAssumption`: the constants are
  functions of the right kind; a manifest holds its own repository's keys; the
  records of a set have one owner at the start; the fault bound fits the revision
  bounds;
- `RowAssumption`: the values for a row that does not exist are no rows;
- `IdAssumption`: what a change creates does not go by the identifier of a
  record that was there before (that two changes create records of two identifiers
  needs no assumption: `NewId` is the pair of operation and key);
- `MaintenanceAssumption` (a slot per delivery, finitely many tokens, no zone
  called like a key, so that the findings of a key and of a zone are told apart),
  `PlansAssumption`, `NoPlanAssumption`, `AdoptionAssumption` and `OidcAssumption`
  for the modules that declare them.

A few theorems say under which further hypothesis they hold, in their statement:

- `OperatorWaits`, `OperatorCompares`: the operator's care described above. A
  decision made while a request is in flight releases the lock under it.
- `"drift" \notin Faults`: nobody edits managed records by hand. An edit can come
  between a preflight and the request it allows, and no code could notice.
- `[]OneRecordPerKey`, about the behaviour: no key gets a second record. The run
  `OneRecordPerKey` shows that the code does not guarantee it; D1 has room for one
  record of a key, so the second is untracked from the start. It is the only thing
  besides hand edits that puts D1 and Cloudflare apart.
- `OneGrantee`: the keys admins adopt in one record set belong to one repository,
  which `policy/config.js:240` ("cross-repository grant overlap") enforces and `OneOwner`
  proves of grants.

### Types, locks, claims, executors, tokens

`FlareForm_proofs` and `Safety_proofs` argue about the tables.

- `TypeCorrect == Spec => []TypeOK`. `TypeOK` is not inductive: a provider
  request reads the action and target columns of its intent, and a request step
  the zone and key it stands at. `IInv` adds that an existing intent row has
  meaningful columns (`IntentsMeanSomething`), that a request at a step has the
  zone or key that step uses and a change for it (`PlacedAt`), that the policy
  version is at most the number of faults, and that a request on the wire has an
  intent. The proof goes through `TableStep`, the list of everything a step can
  do to the tables: `NextShape` shows that every step of `Next` is one of them,
  so that an argument about locks, claims or tokens is one about `TableStep`.
- `LocksAlwaysCover == Spec => []LocksCoverIntents`. Inductive over `TableStep`
  with the types: only an inserted intent becomes unsettled, and its trigger
  demands the lock; a lock goes only when its zone is settled.
- `OneOwnerPerSet == Spec => []SingleOwner`. Inductive over `TableStep` with the types.
  What a confirmation or a resolution writes under a claim, it writes for the
  claim's own repository (`HasClaim`; the statements name claim and repository, and
  the foreign key of `managed_records` has both), and a claim goes only with the last
  row of its set (`ClaimKept`).
- `ExecutedOnce == Spec => []SingleExecution`. The strengthening `ExecInv` says
  that while a request executes an operation its row's status cannot be started
  (neither absent, reserved nor partial): only the executor's own last write
  makes it partial, and it leaves with that write.
- `TokensAdmitOnce == Spec => []TokenAdmitsOnce`. The strengthening says that a
  request past the reservation has its token in `oidcJti`, which only grows.

### Execution, provider and operator

`Lease_proofs` reduces every step of `Next` to what it does to the change and the
zone a request is at (`StepsHappen`: `Event`, `Answers`, `OperatorStep`, or something
around them), and builds three invariants on that, each with the one before.

- `ChangeInv`: the wire of a change follows its intent row (`WireOK`), and what the
  wire and the row of the change can be at each step of its executor (`PhaseOK`). It
  needs `ExecInv`: with two executors the step of one would move the row under the
  other. From it `ConfirmedApplied` (`[]ConfirmedWasApplied`) and `SentAtMostOnce`
  (`SentOnce`, an action property: a request leaves only from "call", where the wire
  is idle).
- `ZoneInv`: where a zone stands. A zone still to be executed has no intents, and one
  that ended in success has none unsettled and no locks (`RowsOK`); an executor in a zone has at
  most one change open there, the one it is at (`ZoneOK`, `OneOpen`). From it
  `CompleteLeavesNothing` (`[]CompleteIsClean`) and the refinement
  `LeaseImplemented == Spec => ImplementsLease`, in which every step is shown to be
  one of `Acquire`, `Send`, `Settle` and `Release` of `RecordSetLease` or to
  change none of the four things mapped.
- `WritesExclusive` (`[]ExclusiveWrites`) and `UpdatesAreNotLost` (`[]NoLostUpdate`)
  assume `OperatorWaits`, the second also no hand edits: what is in flight is under
  its operation's lock, alone in its zone.
- `KnownInv` and `MatchInv`: per key, that its records are known to D1, or that its
  row is its record, except while one change has been carried out and not recorded
  yet (`Carried`). `KeySteps` shows that every step leaves a key alone,
  carries out a change of it, confirms it or decides about it (`KeyStep`). From them
  `NothingOrphaned` (`Spec /\ []OneRecordPerKey => []NoOrphan`, with `OperatorWaits`,
  under hand edits too) and `OwnershipHolds` (`Spec /\ []OneRecordPerKey =>
  []OwnershipMatches`, with an operator who waits and compares, and no hand edits).

Two parts serve the compositions as well: identifiers of a key's records are
distinct (`IdsOK`), and what a request goes on with after its preflight are the rows
and records that preflight accepted (`SeenInv`). The last part rests on both.

- `FinishedDeletes == Spec => []FinishDeletesAll`, without a further hypothesis. A
  record is gone for good (`Gone`) when the provider has none by its identifier and the
  change that could give out that identifier was carried out (`GoneStays`). A
  deletion that was carried out leaves its target gone (`DeletedOK`); the
  deletions begun in a request's zone are the ones it planned (`AsPlanned`, from
  `Untouched`: nothing was begun there before); so each record it planned to delete
  is gone or its change is still ahead (`DoneOrAhead`), and at the end of the zone
  none is.

### Maintenance, plans, adoptions

- `RunsReportedOnce == MaintenanceSpec => []ReportsStoredRun` and
  `MaintenanceTypeCorrect == MaintenanceSpec => []MaintenanceTypeOK`. `DeliveryMoves`
  is to deliveries what `NextShape` is to requests: a step replaces one delivery's
  state, keeps its report or takes the slot's row for it, and stores a row only
  where there is none. `IInvBesideMaintenance` shows that `IInv` survives it.
- `AuditAgrees == MaintenanceSpec => []AuditIsExact`. Per delivery (`AuditAt`): of a
  set that is free so far, the listing it holds is the one that was judged, and its
  rows have not changed since, as only the holder of a lock confirms or resolves
  (`FreeRows`). Then the cases of `RowFinding` and those of the preflight
  agree key by key (`KeyAudited`), which needs `SingleOwner` and `IdsOK`.
- `PlansRefinePath == PlansSpec => Spec`: every step of the composition is one of
  the mutation path or leaves it alone, so that everything above about `Spec` holds
  with plans around it (`PlansKeepSafety`).
- `PlansTypeCorrect`, `EvidenceStays` (`PlansSpec => []EvidenceKept`) and
  `RetryIsKept` (`PlansSpec => RetryKeepsItsPlan`). Only `Consume` fills
  `planAdmissions`, marking the plan; the cleanup spares it; and it can not be
  created anew because a client's plan is stored only when its plan request has ended
  (`Stored`). For the retry, `Consumed` says that a consumed plan was shown to its
  client as deletions and is the only one its operation consumed, so that the retry
  names it again and agrees.
- `DeletionsShown == PlansSpec => []DeletionsWereShown`. `ShownInv` follows the shown
  records from the plan to the request that deletes: a plan's digest holds what its
  client was shown (`PlanShown`), an operation keeps the digest it was admitted under
  (`RowPlanned`), and what an admitted request has read in the zones not done yet
  is what that digest has (`ShownTo`). It rests on `ZoneInv`, since a
  zone that is done is compared no more, and on `SeenInv`.
- `DeletionsHappen`: for every client, key and identifier, `PlansSpec` implies that
  always, when the client has succeeded, a record by that identifier it was shown
  as a deletion is gone, or that eventually `Overlooked` holds. That is: a request of
  the client's operation is about to finish the key's zone without having planned to
  delete the record, which is there or yet to be created. Nothing is assumed
  of other operations, operators, hand edits and faults. As a behaviour may stop at any
  time, the one state precedes the other. `SuccessDeletesAll` itself is false of the
  code, by the counterexample above, and the theorem says that there is no other.
  A zone becomes a success only by a request at its end (`Succeeds`), which then
  has left nothing of what it planned to delete (`DoneOrAhead`); a client succeeds
  only on a report that all zones of its operation are (`SuccessReported`), and
  what is gone stays gone.
- `AdoptionTypeCorrect`, `MarksNeverMove` (`AdoptionSpec => MarkStays`) and
  `LocksCoverBesideAdoption`. The marks need that a record unmanaged at the start is
  under one key at most (`OneKeyEach`) and that a run which is to mark its record has
  seen it without metadata and no key has it still (`StillFree`): one adoption runs at
  a time, and no step of the mutation path moves a record from key to key.
- `UnmanagedLeftAlone == AdoptionSpec => []NothingBesideUnmanaged`. `BesideInv`: a
  change that is about to be sent or in flight is of a set without unmanaged
  records. The preflight makes it so, and only an adoption can touch them, which removes one.
- `MarkedCanBeAdopted == AdoptionSpec => []MarkedIsAdoptable`, under `OneGrantee`.
  What is proved is where a record that was unmanaged can stand (`StandInv`): under
  a key it was adopted for; in the listing of every request that is past it
  (`Noticed`); with only intents of its owner in its set, none of which created it
  (`Respected`); with no claim but its owner's (`Claimed`); and, until it is
  marked, in no row and no update (`Unmarked`). A claim by another repository
  would have to be reserved by a request that has not seen the record, and there is none.
- `RowsStayMarked == AdoptionSpec => []RowsAreMarked`, under `OneGrantee`, with an
  operator who waits and compares, and no hand edits. `PlaceInv` says what rows,
  snapshots, intents and records are called: by a name of their own key or by that of an
  unmanaged record (`NamedInv`), with distinct names within a key (`IdsOK`); so two
  keys can meet in one record only if it was unmanaged. Such a record is in no row, no
  request's snapshot, no update and no run of another key than the one it stands under
  (`OwnTrace`), and no change to that key is begun before it has its row
  (`AdoptedInv`). Then the row of a key has the content of its record except between a
  change and its confirmation (`AgreeInv`), which `LocksCoverIntents` says is under the
  lock, and a run that is to insert a row holds the content the record still has
  (`HeldContent`).
- `AdoptionKeepsSafety == AdoptionSpec => [](SingleOwner /\ SingleExecution /\
  ConfirmedWasApplied)` and `MaintenanceKeepsSafety == MaintenanceSpec =>
  [](LocksCoverIntents /\ SingleOwner /\ SingleExecution /\ ConfirmedWasApplied)`:
  the compositions that write tables of the mutation path keep what it guarantees. An
  adoption inserts a claim only where there is none, so without rows, and a row only
  under a claim of its own repository (`OwnerNext`); deliveries delete tokens, which
  none of these reads.

### Verifier and policies

- `OidcTypeCorrect`, `CacheOrder`, `LoadPacing`, `StaleKeys`, `Rotation`, with
  `OidcAssumption` (rotation time positive and at most the cache's). One invariant,
  `OidcInv`, carries them: only the pending refresh is in flight, and within its
  time; a set in the cache or on its way is one the issuer gave out at one instant,
  stored at most a fetch later and at least as new as what it replaces; and a refresh
  is under way only if nothing is cached or the cached set is old enough.
- `OneOwner` in `Namespace_proofs`: for every valid policy, name and two
  repositories that are authorized to write records of the name, whatever their
  types, the repositories are the same. The argument goes over suffixes: the grants
  that cover a name lie on one chain of suffixes, in the zone the name selects, and
  two on a chain overlap. For an SRV record the zone is that of the host part.

### Only model-checked

- `LocksReleased`: liveness under fairness, and ENABLED, are beyond the prover.
- `SuccessDeletesAll` holds in its run, which has no operation that wants the record,
  and not in general; `DeletionsHappen` is what is true of every instance.
- `OneRecordPerKey` and the other three properties of violating runs are false of the code.

## Plan

What comes next, most important first.

1. A reconciled operation never goes back to indeterminate: a property of the status
   columns beside `CompleteIsClean`.
2. A clock in `Maintenance`, to relate the deletion of a token to the requests that
   may still carry it.
3. Zones and repositories disabled by a policy synchronisation under running
   operations.
4. An operator that does not wait.

## Not modelled

The router, the manifest parser, strict JSON, errors and redaction are pure
functions without state of their own, as are the claim checks of the verifier and
the response checks of the Cloudflare client; build, CI and release scripts are
not part of the running system. Pagination is left out because nothing in the
repository says what the provider's pages promise. A policy's tables are written in
one batch and read as one snapshot; of them only the version is modelled, and of
the checks on a policy only those about names and grants.
