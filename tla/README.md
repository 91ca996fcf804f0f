# TLA+ models of GENESIS JURIS

GENESIS JURIS is a web application (Cloudflare Workers, D1, R2) for legal work
files, with a Rust runtime for training scenarios. What can go wrong in it
without a unit test noticing happens where requests of several clients run
concurrently: D1 and R2 share no transaction, every storage call may fail or
lose its answer, a worker may die between any two of them, a handler reads,
waits and writes what was true when it read, and there is no background worker,
so that one request's leftovers are only ever cleaned up by a later request.
The models follow that line through the *dossier* ("Matter") workflows first,
then through the services beside them.

Paths below are relative to the repository root (`src/` here).

## 1. Inventory

For each part: the state it keeps, its operations, what is hard about it, what
makes it correct, and the module that models it.

| Part | State | Operations | What is hard | What makes it correct | Module |
|---|---|---|---|---|---|
| **Document upload** `app/dossier-document-upload-coordinator.ts` 81-1132, `app/dossier-upload-intents.ts`, triggers in `drizzle/0013` | revision, upload intents, documents, versions, current versions; R2 objects | reserve, put, commit, abort, sweep, cleanup, resume by Idempotency-Key | two stores, one saga; concurrent retries under one key; late puts; lost answers; cleanup by others | a key commits once; a committed version keeps its bytes; versions form one chain; quotas; every reservation is settled | `DossierUpload` |
| **Text extraction** same file 1134-1372 | extraction jobs and results, derived R2 object | claim a lease, put, publish, discard, fail, recover | a lease is only a time limit; runs share one object | ready iff a result; only the holder settles; a result's text stays | `DossierExtraction` |
| **Revision and audit ledger** `app/dossier-server.ts` 268-378, `drizzle/0014`, `0018` | revision, audit chain, revision receipts | prepare receipt and events, insert them in the caller's batch | the chain is prepared from a read long before the batch | one move per revision, in order; a seal covers what came before it | `MatterLedger`, `MatterGovernance` |
| **Governed snapshots and outputs** `app/dossier-governed-output-server.ts`, `api/dossiers/[dossierId]` | snapshots, outputs, their states, approvals, R2 objects | seal, generate, approve, update, transition | rules stated in the handler and again in triggers; object first, batch second | a current output reports the live revision; what is approved is what was reviewed; an undisturbed request is not refused | `MatterGovernance` |
| **Proposal generation** `app/dossier-proposal-generation.ts`, **Studio AI capacity** `app/studio-ai-capacity.ts` | proposal jobs with lease and attempt; provider slots | claim, call the model, commit, fail, requeue; acquire, release | leases, one of which may end under a planner that calls again, a Matter that moves on | calls within attempts, covered calls within slots; proposals only at the expected revision; only the holder settles | `ProposalJobs` |
| **Reviewed evidence and decision packages** `api/dossiers/[dossierId]/evidence`, `proposals`, `dispositions`, `decision-packages`, triggers in `drizzle/0013`-`0021` | anchors, assertions, links, proposals, retirements, package references | create, review, supersede, link, retire, commit | two sets of guards, written apart | what a route lets through the triggers admit; one current package in line with its parents | `MatterEvidence` |
| **Play sessions** `app/api/play-sessions/route.ts` | session row, event log | start, decide, advance time, abandon | retries by event id, equal time stamps, lost answers | replaying the log gives the row; what was acknowledged is in the log | `PlaySessions` |
| **Canonical scenario runtime** `crates/juris-engine/src/scenario_runtime.rs` | clock, deadlines, tasks, events, metric, flags | dispatch, advance time | several boundaries in one advance; events that trigger events | the chunks in which time is advanced do not matter | `ScenarioRuntime` |
| **Local accounts and resets** `app/api/auth`, `app/password-reset-service.ts` | password, sessions, recovery codes, reset links | enrol, sign in, reset by identity, code or link, mail | proofs that race; a mail that fails after a rotation, or is reported failed though it arrived | one way back per password; no session outlives its password; a link answered as delivered lives | `LocalAccounts` |
| **Firm library** `app/api/library/firm`, `app/library` | upload intents, versions, folders, R2 originals | save, stage, put, insert, check, cancel | an answer lost, a retry or a cancel beside the first request | what the tab is told stays true; versions without gap or double | `FirmLibrary` |
| **Firm contacts** `app/api/contacts`, `app/contacts` | contacts, case links, receipts | create, edit, archive, import, undo, link | the same, and two tabs that did not see each other's contacts | each command applied once; matching contacts were reviewed | `FirmContacts` |
| Custom cases and submissions, organizations and participants | drafts, grants; memberships | save, share; invite, suspend | authority read early and used late | | not modelled, see 7 |
| Operational events, tax economics, report layout and PDF, readiness views, scenario validation, UI and mobile app | none shared | pure functions, logging, presentation | sequential | tests and vectors | not modelled, see 7 |

How they meet: every mutation of a Matter is a compare-and-set on its
revision; the upload's commit queues an extraction job in the same batch;
proposals read the extraction results, take a provider slot and commit as the
next revision; evidence and outputs go stale with the documents they cite;
every Matter mutation inserts its audit events and receipt by
`prepareDossierRevisionAuditBatch`. Play sessions, accounts, library, contacts
and the scenario engine share no rows with these or with each other.

`PROJECT.json` lists every part with its status and the hazards of the code,
at their lines, with the properties that watch them.

## 2. Modules

    MatterLedger                what a Matter promises: a compare-and-set log
        ^ implemented by uploads (mapping Ledger in DossierUpload), and by updates and
          transitions, proposals, play sessions, library documents and contacts
          (mappings in their proof modules)
    DossierUpload               the upload saga: D1, R2 and the requests
      MCDossierUpload             its instances for TLC
      DossierUpload_proofs        its theorems
    DossierExtraction           the extraction jobs of a Matter
      MCDossierExtraction, DossierExtraction_proofs
    MCDossier                   DossierExtraction and DossierUpload for the liveness run
    MatterGovernance            changes, seals, outputs, approvals, transitions
      MCMatterGovernance, MatterGovernance_proofs
    Services                    the services that share no state, composed
      EXTENDS ProposalJobs        generation of proposals, provider slots
      INSTANCE PlaySessions, LocalAccounts, MatterEvidence,
               FirmLibrary, FirmContacts
      Services_proofs             each service keeps its theorems in the composition;
                                  instances ..._proofs of PlaySessions, LocalAccounts,
                                  FirmLibrary; theorems of evidence and contacts
      ProposalJobs_proofs
    MCServices                  Services and ScenarioRuntime for TLC
      MCScenarios                 three small scenarios

`DossierExtraction` takes from `DossierUpload` that a commit queues one job
per version and that the source object of a version stays
(`CommittedObjectKept`, proved there).

A request in flight is a slot (`Requests`, `Workers`, `Clients`, `Calls`,
`Posts`) with the fields that the handler holds in memory between its awaits;
an answered slot takes the next request. One action is the code between two
awaits: it reads or writes the tables once. A D1 batch is one action with its
triggers as a guard (`CommitGuard`, `ExtendsChain`, `Admitted`, `MayInsert`).
A lost answer is a writing action that goes on as if it had thrown; a failed
call writes nothing; a crash frees the slot.

### DossierUpload

State: the tables, indexed by the opaque id an upload draws (`UploadIds`): the
intent, the object key, the version and, for a new document, the document all
belong to one id, so the four tables and the bucket are functions on it.
`Base` is the upload that made the Matter's first document. `req[r]` is what
the request in slot `r` holds in memory: where it is, its form, the revision
the route read, the intents it still has to sweep, the intent it holds, the
intent it is cleaning up and for whom. An answered slot takes the next request,
so two slots stand for an unbounded sequence of requests two at a time.

One action per storage call, in the order of `executeDossierDocumentUpload`:
`SelectSweep`, `SweepNext` (cleanupExpiredUploadIntents), `Lookup`, `Relookup`
(uploadIntentByIdempotency and what follows), `Stage`
(stageOrResumeUploadIntent, its batch with the insert triggers), `CheckCommitted`,
`Put`, `HeadObject` (putVerifiedPrivateObject), `PrepareCommit` (the reads and
the decision), `CommitBatch` (the batch with its triggers, `CommitGuard`),
`Recheck`, `Abort` (failAndCleanupUploadIntent), `AnswerFailed`; and
`ReadLive`, `Claim`, `ReadClaimed`, `DeleteObject`, `Finish`, `DeleteDocument`,
`DeleteIntent` (cleanupUploadIntent and its finalization), which return to
whoever called them. Consecutive reads are merged only where the batch or the
compare-and-set that follows checks again what they read. The merge hides one
answer: a retry that reads its intent as pending and the document as already
final is answered 409, not with a replay. Nothing is stored on that path.

The environment: `CallFails` (a storage call throws and changed nothing), the
`lost` argument of the writing actions (it throws although it was applied),
`Crash` (the worker is gone, or an error nothing catches), `OtherMutation`
(any other operation moves the Matter's revision), `Tick` (time for every open
reservation).

Abstractions:
- A file is a `Contents` value with a size: digest, media type and length are
  compared together in the code. The binding digest is equality of the form.
- `left` counts clock units to `expiresAt`. JavaScript and the triggers treat
  `now >= expiresAt` as expired (`Expired`), the sweep selects `expiresAt < now`
  (`Overdue`). The triggers compare whole seconds; a batch refused in the last
  second is a `CallFails`.
- A request without an Idempotency-Key gets the binding digest as its key. The
  models let clients pair keys and forms freely, which includes it.
- Ids are random: an unused id is never drawn twice. When no id is left in the
  model the batch is refused.
- Clients send a revision they have seen since `Base`.
- Audit events, receipts, stale outputs and the role check before the commit
  change nothing these properties read. A refusal by one of them is a
  `CallFails` at that point.
- No code writes the intent state "expired", so the model has none; "removed"
  stands for a row that is gone.

### DossierExtraction

`job` is the jobs table with status, lease owner and lease time, `older` the
order of `updatedAt` by which recoveries select, `results` the published
results, `texts` the derived objects in R2 (one key per job, shared by all its
runs), `run[w]` what a request holds. `Arrive`, `Recover`, `ReadSource`,
`FailRecovery` are recoverDossierExtractionJobs, `Commit` the upload that queues
a job and runs it, `Claim`, `ReadLease`, `Put`, `HeadObject`, `Publish`,
`ReadResult`, `Discard`, `Fail` runDeterministicExtraction. The code draws a
fresh owner id for every run, whether it gets the lease or not; the model names
the owner by its slot and, at the slot's next claim, renames what an earlier run
still owns to `Gone`, an id nobody uses (`Fresh`). Which of the selected jobs is recovered first is left open.

The constant `Slow` names the jobs whose runs may outlive their leases. Nothing
in the code prevents it; for the other jobs the model shows what holds when every
run finishes within the two minutes, beside runs of slow jobs.

### MatterLedger

The promise of every Matter mutation, independent of storage: an entry is
accepted at the revision its client expected, moves the revision by one, and
no key is accepted twice. A play session, a document of the library and a contact have
a revision of their own and promise the same. TLC checks that the upload implements
it; the proofs show it of all six and that `WrittenOnce` follows from the promise alone.

### MatterGovernance

Rows: `revision`, `status`, `chain` (the audit events; an entry has the revision
it was written at, its type, the snapshot or output it is about, its actor and the
outputs it marked stale), `receipts`, `snapshot`, `output`, `approvals`, and
`bucket`, the objects in R2. `req[c]` holds what one handler has read. `BeginSnapshot`,
`BeginOutput`, `BeginApproval`, `BeginWrite`, `BeginTransition` read the Matter
(createDossierSnapshot, generateDossierGovernedOutput, approveDossierGovernedOutput,
PATCH of `[dossierId]/route.ts`, POST of `transitions/route.ts`); `SealedBoundary`,
`ReadFacts` and `Decide` are the reads and the decision after it; `ReadManifest`,
`PrepareAudit` (the head of the chain) and `Put` what comes before the batch;
`Commit` is the batch with every trigger that can refuse it (`SealAccepted`,
`GenerateAccepted`, `ApproveAccepted`, `WriteAccepted`, `TransitionAccepted`);
`CommitRefused`, `CommitLost` and `Cleanup` are its failures. The registry of
transitions, the roles and the contract's facts are translated edge by edge.
Abstracted: digests, the content of manifests and files, readiness checks that
refuse before any write. The platform administrator's archive override is left out.

`alone` is a history bit: no other request's batch was applied since this
request read the Matter. It is read by properties only.

### ProposalJobs

`jobs[j]` is the row of `dossier_ai_proposal_jobs` of one revision and selection
(absent, queued, processing, ready, failed; attempt, lease owner, whether the lease
runs), `receipt[r]` what made revision r, `proposed` the jobs whose proposals are
stored, `leased` the requests that have a row in `studio_ai_leases`, `abandoned` the
rows nobody will release, `calls[j]` how often the model was called for a job. `Arrive`, `Find`, `CheckRevision`, `Insert`,
`FindAgain`, `Requeue`, `ReadAgain`, `Claim`, `Confirm` are
executeDossierProposalGeneration up to the lease; `Acquire` the slot; `Commit`,
`CommitNone`, `Fail` the ends, `Return` the call's end and the slot's release;
`LeaseEnds`, `Move` and `Crash` the environment.

The Studio planner shares the slots and makes up to three calls under one: `Plan`
takes the slot and calls, `PlanAgain` calls without the strict schema (`fallback`) or
to repair an invalid plan (`repair`, `lastRepair`), `Planned` answers from any of them.
`TakeSlot` and `GiveBack` are the two statements on the lease rows; either may lose its
answer, and a release that fails or never runs (it is left to `waitUntil`) leaves a row
that ends by its time limit (`SlotExpires`). A lease lasts 450 seconds and nothing
renews it. A proposal's call is cut off after 45 seconds, the planner's first after
300, a repair after 120 and a fallback after another 300, so that the lease
covers a call, a first call and the repair after it, and may end (`SlotLost`) under a
fallback and what follows it (`Overlong`). `Covered` are the calls it covers. The
time limit of a row is otherwise not counted: an abandoned row may end at any time.

Abstracted: the text of proposals, validation of model output, the
ten-job quota's count per firm (`MaxActive` is its bound).

### PlaySessions

`session[k]` is the row (status, revision, and, for its state, the commands
applied), `log` the events with sequence and id, `acked` what clients were told.
`SendStart`, `Start`, `Started` are startSession; `Send`, `Check`, `Blocked`,
`Batch`, `Settle`, `BatchFails` the handlers of decide, advance and abandon, which are one
shape in the code. The event insert finds the updated row by status, revision and
time stamp; `tie` is another update in the same millisecond.

### LocalAccounts

One account: `password` counts its replacements, `codes` are the recovery codes
that are not used (each named after the password it came with), `tokens` the
reset links that are not used, `mailed` those whose mail the provider accepted,
`promised` those answered as delivered, `sessions` the passwords live sessions were
opened with. `Register`, `Login`/`Open`, `Logout`, `Reset`,
`Recover`, `EmailReset` read; `Replace` is the batch of the three replacements with
the guards that differ between them (`Proven`, `Left`); `Issue`, `Accept`, `Deliver`,
`TakeBack` are issuePasswordReset and its mail: the provider accepts the mail or not
(`Accept`), and apart from that the request hears of it in time (`Deliver`) or takes the
send for failed (`TakeBack`), because it was refused, because the reply was lost or
because eight seconds were over. Left out: rate limits, audits, account status
(no route changes it); a mail that is accepted only after its request gave up, whose
link is used up already.

### MatterEvidence

The rows of anchors, assertions, links, AI proposals, retirements and package
references, and `asks[w]`, what a route read and decided. Each operation is one
action that reads and checks (`CreateAnchor` ... `LinkPackage`) and `Commit` or
`Refuse`: `Admitted` is the conjunction of the triggers and unique indexes, written
down from the SQL apart from the routes' checks. `NewVersion` is an upload that
makes citations stale. Abstracted: texts, quotations, rights and readiness. Left
out: document review, information requests, dispositions of deadlines, simulation
receipts and notes, links to a deadline, links to an accepted assertion for a graph.

### FirmLibrary, FirmContacts

Handlers and browser controller together: a tab sends an operation under a key,
waits, gives up, checks, resends, resumes, cancels or is closed; a handler runs on
whether anyone waits or not. `FirmLibrary`: `Original` ... `Reread` are POST of
`api/library/firm/route.ts`, `Stage`, `Put`, `SaveFolder`, `Cancel`, `ReadRow`,
`ReadIntent` the functions of `firm-storage-recovery.ts`, `MayInsert` the triggers
of `drizzle/0028` and `0029`, `Receive` the controller's branches; `told` is what the
tabs were told for good, `sent[k]` how many requests a key was sent with.
`FirmContacts`: `Prior`, `Batch`, `Recheck` are POST of `api/contacts/route.ts` with
`Guards` its conditional statements and the indexes of `drizzle/0030`; `confirmed` is what
tabs were told is saved. Abstracted: names of documents, digests;
profile fields other than kind, name and company, several cases. Left out: the
storage and folder quotas, and cancelling an incomplete key other than the pending one
(library); matching contacts by e-mail (contacts).

### ScenarioRuntime

A session of the engine as a value and `Advanced`, `Dispatched` as functions of it;
the clock jumps from boundary to boundary, and at each a queue of events is worked
off (`Process`). Recursive operators, so no theorem reaches this module. Abstracted:
one metric, one comparison per condition, no inbox, facts, evidence, judicial or
decision branches; relative timing is the anchor plus minutes. Metrics grow only with
AdvanceTime, as in the code. `MCScenarios` has three scenarios, built by the rules of
`juris-scenario-validator`: the event of a missed deadline marks it missed, a task's
completion makes it ready, a task is reviewed somewhere, an action leaves the first
stage, and a closing step closes the tasks and the deadlines open from the start. Two of
them are steady (`Steady`); the third, `Unsteady`, is played for its types (and see 5).

### Services, MCServices

`Services` composes what shares no state. In a behaviour one service, `part`, moves
and the others rest. Because no action reads or writes another service's
variables, a safety property of one service holds of all interleavings exactly
when it holds of these behaviours; the state space is the sum of the parts and not
their product. The cell `part = "scenario"` is `ScenarioRuntime`, joined in `MCServices`.

## 3. Properties and runs

Each property states something no single action establishes; each is paired with
a mutated definition (`Mistaken:` in the modules) that a plausible bug would produce
and under which TLC refutes it.

| Run | Instance | Properties |
|---|---|---|
| `upload_retries` | 2 requests, 1 key, 2 ids, 2 faults, new documents | `TypeOK`, `CommittedObjectKept`, `ReservationsTracked`, `CommittedIsFinal` |
| `upload_versions` | 2 requests, 2 keys, versions of one document, revision to 4 | `OneUploadPerKey`, `SuccessIsCommitted`, `LineageFollowsRevisions`, `ImplementsLedger` |
| `upload_quota` | 2 requests, 2 keys, files of sizes 1 and 2, every quota tight | `QuotasHold` |
| `dossier_settles` | extraction: 2 workers, 2 jobs of which one is slow, 2 faults; uploads: 2 requests, 2 keys, 1 id, 1 fault; fair | `TypeOK`, `ReadyHasResult`, `TextKeptInTime`, `LeaseExclusive`, `OnlyHolderSettles`, `JobsSettle`; `ReservationsSettle` |
| `governance_seals` | 2 requests of an owner and a reviewer, 2 snapshots, 2 outputs, revision to 3, 1 fault | `TypeOK`, `ChainCoversRevisions`, `OutputsFresh`, `ApprovedAsReviewed`, `SealCoversWrites`, `ChainTellsOutputs`, `UndisturbedSucceeds` |
| `services` | 2 handlers; per part see Bounds | `ServicesTypeOK`, `CallsWithinAttempts`, `CoveredCallsWithinSlots`, `OneOutcomePerRevision`, `OnlyHolderSettlesJob`, `StateIsLog`, `AckedIsDone`, `OneWayBack`, `SessionsOfThisPassword`, `PromisedLinkLives`, `GuardsAgree`, `PackageLine`, `NoticesTrue`, `VersionsBacked`, `ReceiptsTellContacts`, `MatchesReviewed`, `ChunksAgree` |
| `upload_orphan`, `upload_stranded`, `extraction_overrun`, `governance_locked`, `governance_lost`, `services_overrun` | expected violations, see 5 | `ObjectsTracked`, `StrandNothing`, `ResultTextKept`, `UndisturbedTransitionSucceeds`, `ManifestsKept`, `CallsWithinSlots` |

In `dossier_settles` and `services` each behaviour exercises one part while the others
rest (see *Services, MCServices*). The type invariants carry what the tables' own CHECKs
demand: the first version of a document and no other is without a predecessor
(`Versions`), a job has an owner and a lease exactly while it is processing (`JobRows`).

What they show:
- `CommittedObjectKept`, `CommittedIsFinal`, `OneUploadPerKey`: of any number of
  retries, aborts, sweeps and late puts under one key, at most one version is
  committed, and from then on neither its row nor its bytes change. The reason
  is the single compare-and-set on the intent's state: a cleanup deletes an
  object only after it took "pending" away from the commit.
- `ReservationsTracked`: a provisional document always has the reservation that
  will finish or remove it, where all uploads make documents.
- `LineageFollowsRevisions`, `ImplementsLedger`: version ordinals, predecessors,
  the current pointer and the revision never disagree, though ordinal and
  predecessor are computed before the batch.
- `QuotasHold`: the policy check reads counts that are stale when used; triggers
  and the revision's compare-and-set make up for it.
- `SuccessIsCommitted`: a 200 or 201 is about exactly what this client sent,
  also when another request under its key committed it.
- `ReservationsSettle`, `JobsSettle`: nothing stays reserved or queued for ever,
  provided the Matter is uploaded to again.
- `ReadyHasResult`, `OnlyHolderSettles`, `TextKeptInTime`, `LeaseExclusive`: leases may
  run out under their holders, and the job still is settled only by the holder or
  after the lease; where runs keep within their leases one at a time works on a job.
- `ChainCoversRevisions`, `SealCoversWrites`, `ChainTellsOutputs`: however many
  reads precede a batch, the head of the chain and the receipt serialise the batches;
  the chain alone then tells every move and the history of every output.
- `OutputsFresh`, `ApprovedAsReviewed`: no current output outlives a write, and what
  an approving transition names was sealed, reported and approved by its actor with
  no move in between.
- `UndisturbedSucceeds`: handlers and triggers agree: an update, a seal, an output or
  an approval is refused at its batch only when another batch came before it.
- `CallsWithinAttempts`, `OneOutcomePerRevision`, `OnlyHolderSettlesJob`: nothing
  fences the call to the model itself, and its number still stays within the attempts;
  of the jobs written against one revision one at most gets its proposals in.
- `CoveredCallsWithinSlots`: the calls that a lease outlasts stay within the slots beside
  rows whose request died, lost an answer or lost its row; `CallsWithinSlots`, about all
  calls, is refuted (see 5).
- `StateIsLog`, `AckedIsDone`: replaying the log gives the row, equal time stamps
  included; an acknowledged event is in the log as sent.
- `OneWayBack`, `SessionsOfThisPassword`: whichever proofs race.
- `PromisedLinkLives`: a link answered as delivered is good until the next link or a new
  password, although an earlier request hears late that its own mail failed. What the
  code does not keep is told in 5.
- `GuardsAgree`: as long as the Matter has not moved, the second set of guards admits
  what the first let through (with the exception described in 5). `PackageLine`: at
  most one decision package is current, and a child took its parent's place.
- `NoticesTrue`, `VersionsBacked`, `ReceiptsTellContacts`, `MatchesReviewed`: what a
  tab was told stays true under retries and cancels of its key.
- `ChunksAgree`: a session after a + b minutes is the session after a and then b, for
  scenarios in which no timed event waits for a value that time changes.

### Bounds

Two requests at a time are enough for each hazard found: the race is always
between one request and the cleanup or commit of another; further requests
follow one another in the same slots. Two drawn ids let a second reservation
succeed or replace the first. `MaxFaults` bounds failed calls, lost answers and
crashes together: two cover a fault in a request and one in its cleanup.
`MaxRevision` bounds how often the Matter moves; in `MatterGovernance` and
`ProposalJobs` it is a bound on what may be begun (a revision past it is never
asked for), not a rule of the code. `TTL = 1` and `LeaseTime = 1` with the floor -1
separate "in time", "at the deadline" and "past it". `MaxCleanups = 1` and
`MaxRecoveries = 1` make more work due than one request takes. The quotas are set so
that two requests reach them; `OfOneKind` splits `upload_quota` into behaviours about
the last reservation, document and bytes, and behaviours about the last version. Runs
that check only races of successful requests have no fault budget.

`governance_seals` has the constraint `Small`: after its one fault at most one
snapshot is sealed. Two seals that race are explored without faults, and a fault
in every operation with one seal; the theorems of section 4 hold without it.

`services`, per part: proposals with 2 keys, 2 selections, 2 revisions, 1 slot,
2 attempts; play with 2 users, 2 event ids, 2 events; the account with 2 changes and
2 links (one to be promised, one whose mail fails beside it); evidence with 1 document in 2 versions, 3 packages of which two are
children of the first, 6 commits; the library with 1 tab that may be reloaded, 3 keys (two saves of one
second version race), 2 contents, 1 folder, 3 requests in all; contacts with 3 keys, 1 name, 2 sends per key; the engine with three scenarios,
5 minutes a step and 10 in all; 1 fault each. Its constraint `Small`, commented in
`MCServices`, leaves out the combinations of several rare things at once.

Slots, ids and keys are symmetric where a run uses symmetry; keys of the library and
the contacts are drawn in order and are not. The liveness runs do not use symmetry.
`CHECK_DEADLOCK FALSE` stands where bounds stop the system: a Matter at its last
revision, a service whose keys are all used.

### Fairness

`WF(Progress(r))`: a worker's next call is eventually made. `WF(Tick)`: the clock
runs. `WF(Arrive(r))`: the Matter keeps being uploaded to. The last one is an
assumption about clients: sweeps and recoveries are run by uploads and by
nothing else, so without it neither liveness property holds, and a Matter
nobody uploads to keeps its leftovers. Faults are not fair and are bounded.
`JobsSettle` is about jobs that are not slow: if every run outlived its lease, each
would take the job over from the last. Everything else is safety, without fairness.

## 4. Proofs

Each `..._proofs` module proves, for every value of the constants that satisfies
the named assumptions of its component (any number of requests, ids, keys, rows and
any bounds), an inductive invariant and what follows from it. The assumptions say
that bounds are natural numbers, that the sets whose elements are counted are finite
and that `None` is none of the ids; TLC evaluates them in the runs. The components
that `Services` instances state theirs as definitions (`PlayConstants`, ...), which
their theorems take as hypotheses and `ServicesConstants` assumes.

| Module | Theorem | States |
|---|---|---|
| `DossierUpload_proofs` | `TypeCorrect` | `Spec => []TypeOK` |
| | `RequestsJustified` | `Spec => []StepsJustified` |
| | `ObjectKept` | `Spec => []CommittedObjectKept` |
| | `KeyCommitsOnce` | `Spec => []OneUploadPerKey` |
| | `SuccessTrue` | `Spec => []SuccessIsCommitted` |
| | `CommittedNeverChanges` | `Spec => CommittedIsFinal` |
| | `UploadImplementsLedger` | `Spec => ImplementsLedger` |
| | `VersionsFormChains` | `Spec => []LineageFollowsRevisions` |
| | `ReservationsKept` | `Targets = {NewDocument}` implies `Spec => []ReservationsTracked` |
| | `DocumentsMade` | the half of it that needs no such hypothesis |
| | `QuotasKept` | `BaseFits` implies `Spec => []QuotasHold` |
| | `UploadsAreWrittenOnce` | `Spec => []Ledger!WrittenOnce` |
| `DossierExtraction_proofs` | `TypeCorrect` | `Spec => []TypeOK` |
| | `ReadyMeansResult` | `Spec => []ReadyHasResult` |
| | `OnlyLeaseSettles` | `Spec => OnlyHolderSettles` |
| | `TextKept` | `Spec => []TextKeptInTime` |
| | `OneRunAtWork` | `Spec => []LeaseExclusive` |
| `MatterGovernance_proofs` | `GovernanceTyped` | `Spec => []TypeOK` |
| | `RevisionsCovered` | `Spec => []ChainCoversRevisions` |
| | `OutputsReport` | `Spec => []OutputsFresh` |
| | `ReviewStands` | `Spec => []ApprovedAsReviewed` |
| | `SealsCover` | `Spec => []SealCoversWrites` |
| | `ChainTells` | `Spec => []ChainTellsOutputs` |
| | `HandlersAgree` | `Spec => []UndisturbedSucceeds` |
| | `HistoryIsKept` | `Spec => HistoryStands`: chain, seals and approvals are never rewritten |
| | `MatterIsLedger` | `Spec => Ledger!Spec`: updates and transitions are one log |
| | `StatusIsGoverned` | `Spec => StatusFollowsRegistry`: with the facts true at the commit |
| `ProposalJobs_proofs` | `TypesHold` | `ProposalSpec => []ProposalTypeOK` |
| | `AttemptsBoundCalls`, `SlotsBoundCalls` | `ProposalSpec => []CallsWithinAttempts`, `[]CoveredCallsWithinSlots` |
| | `OneOutcome`, `OneWinner` | `ProposalSpec => []OneOutcomePerRevision`, and one job per revision |
| | `HolderSettles` | `ProposalSpec => OnlyHolderSettlesJob` |
| | `OutcomesAreKept` | `ProposalSpec => OutcomesStand` |
| | `ProposalsAreWrites` | `ProposalSpec => Ledger!Spec` |
| `PlaySessions_proofs` | `SessionsAreLedgers` | `PlaySpec => Ledger(k)!Spec` for each session |
| `FirmLibrary_proofs` | `SavesAreKept` | `LibrarySpec => SavesStand`: what was saved or cancelled stays so |
| | `DocumentsAreLedgers` | `LibrarySpec => Ledger(d)!Spec` for each document |
| `Services_proofs` | `SessionsReplay`, `AnswersStand` | `ServicesSpec => []StateIsLog`, `[]AckedIsDone` |
| | `WaysBack`, `NoStaleSession`, `LinksLive` | `ServicesSpec => []OneWayBack`, `[]SessionsOfThisPassword`, `[]PromisedLinkLives` |
| | `NoticesStand`, `VersionsFollowOn` | `ServicesSpec => []NoticesTrue`, `[]VersionsBacked` |
| | `GuardsMeet`, `PackagesReplace` | `ServicesSpec => []GuardsAgree`, `[]PackageLine` |
| | `ReceiptsTell`, `MatchesAreReviewed` | `ServicesSpec => []ReceiptsTellContacts`, `[]MatchesReviewed` |
| | `EvidenceTyped` | `ServicesSpec => []EvidenceTypes`, with what a request knows |
| | `EvidenceDecisionsStand` | `ServicesSpec => [][DecisionsStand]_evidenceVars` |
| | `EvidenceIsFounded` | `ServicesSpec => []EvidenceFounded` |
| | `ReplacementsAreOrdered` | `ServicesSpec => []ReplacementsEnd`: no circles |
| | `ContactsAreTyped` | rows typed, no reference to a contact that is not there |
| | `ContactsAreKept` | `ServicesSpec => [][ContactsStay]_contactVars` |
| | `ContactsAreLedgers` | `ServicesSpec => ContactLedger(i)!Spec` for each contact |

The arguments:

*Upload.* The inductive invariant is `IInv == TypeOK /\ RowsOK /\ StepsJustified`.
`CommittedObjectKept` is not inductive alone: whether a commit finds the object
depends on the request's own position, and whether a deletion hits a committed
object on the position of another. `RowsOK` ties version, committed intent and
object together and makes keys unique among rows; `StepsJustified` carries what
each request knows. The tables only move *forward* (`Forward`: a row keeps its
form, never leaves cleanup, and an object of a pending intent stays), what a
request relies on survives every forward step (`RequestStable`), so each action
owes only that its own request's next position is justified and that its writes
are forward. `StepEffect` then gives the finality of commits and the refinement: a
commit is an `Append`, `OtherMutation` an `Advance`, every other step a stutter.
`VersionsFormChains` adds `Chained`: the versions of one document are numbered
without gaps in the order of the revisions they took. `ReservationsKept` adds
`DocsInv`: each document row is the row of the reservation it was made by, and a
request that is about to remove a document or an intent holds that very pair
(`Clears`). Its hypothesis is needed: the run `upload_stranded` is a behaviour, with both
kinds of upload under one key, in which the statement fails. `QuotasKept` needs what
the batches count against to be countable, so it first proves that a fold over a
finite set (`Bytes`) is a sum: that the function the fold is defined by exists and is
unique, and that any element can be taken out first (`SumsExist`, `SumsAgree`,
`SumSplits`, each by a least counterexample). A step then releases (nothing is
added), reserves under `StageGuard` or commits under `CommitGuard` (`QuotaEffect`),
and the ids drawn stay finitely many. `BaseFits` says that the quotas admit the
Matter's first document, which an upload under the same quotas made.

*Extraction.* The invariant is `TypeOK /\ ReadyHasResult /\ WorkOK`. Whether a
text is discarded under a result depends on where a run is, so `WorkOK` says for
each position of a run of a job that is not slow what it may rely on: from the put
on its lease is live (`Secured`), after an error the lease is live or a result
exists, before the batch the text is there. A lease is secure because only a job
that is queued or whose lease ran out is claimed or failed by a recovery, and the
clock does not pass the lease of such a run.

*Governance.* `GovInv == TypeOK /\ Tables /\ HeldOK /\ IdsApart`. `Tables` relates
the chain to every other table: it has one move per revision and is ordered by
revision, each snapshot, approval and output has its entries in the order they must
have come in. `Holds` says what a request may rely on while others go on (its
snapshot is sealed, the boundary it read covers every move up to the revision it
read), `Undone` what is still as it was read if no other batch was applied.
A batch is applied with one of five effects (`Write`, `Transition`, `Seal`,
`Generate`, `Approve`), and each appends one entry; the rest of the proof is that a
chain that grows by one entry at its end keeps what `Tables` says. `UndisturbedSucceeds` is not an
invariant of the tables but of what the request holds: it follows from `Undone`
and `Holds` at `pc = "commit"`. The same five effects (`StepEffect`) give
`HistoryIsKept` and `MatterIsLedger`: seals, outputs and approvals leave the revision alone.
For `StatusIsGoverned` a request that decided on an edge keeps it (`DecisionsHeld`), and the
trigger binds the status it decided from and the output its actor approved.

*Ledgers.* `WrittenOnce` follows from `Ledger!Spec` by the invariant that every accepted
write was expected at a revision the log has left behind (`Behind`); it is proved once, for the
uploads. To implement the ledger, the entry of a write must be a fixed function of its row:
an audit event of the chain, a proposal's job, a play event, a library form or the
receipt of a command. That its key is new is `ReceiptCounts` and its likes; that it was
expected at the current revision is the compare-and-set of the batch.
For sessions, documents and contacts the mapping has the row as a parameter, and
`Latest(d)` and the entries that changed a contact play the part of revision and log.

*Proposals.* Nothing fences the call to the model, so that `CallsWithinAttempts`
is not inductive. A request that claimed an attempt and will call is a *caller*
(`Callers`); `CallsBudget` says that calls and callers together stay within the
attempts that were claimed. `ClaimsKept` says that a request never claims a job
that is under its own owner id already, which makes a claim a new caller.
`CoveredCallsWithinSlots` is kept by `SlotRows`: the rows, released or abandoned, fit the
slots, and every covered call still has its row, because only a call past its lease
loses it.
`ReceiptsKept` ties proposals to the revision their job made.

*Play.* `PlayInv`: `Told` says of a row and its events what `StateIsLog` says, as
a statement about a set and a number so that an event can be added to it
(`ToldNext`); `Seen` says that a row in memory is the row of the table unless its
revision has moved on. Equal time stamps cannot mislead the event insert: when the
update matched no row, the log already has an event with that sequence.

*Accounts.* `AccountInv` adds to the properties that nothing can be proved before
the enrolment (`EnrolmentFirst`), that only the last link may be unused
(`LastLinkOnly`), that nothing is promised of links or passwords to come
(`PromisesPast`), that the link a request is mailing is nobody else's
(`MailingIsUnshared`) and was promised to nobody (`RequestOK`), so that taking it back
breaks no promise, and that this link is unused as long as it is the last one and the
password is the one the request read, so that a promise is true when it is made.

*Library.* `LibraryInv`: `RowsAgree` relates the upload, the version and the count of
requests of one key; `Knows` says what a handler knows of those rows at each of its
positions (a row it saw stays, because no row is changed or removed once it is
saved), `KnowsAlone` what it knows when its request is the only one that was sent
under its key, and `SentApart` that two handlers under one key were sent two requests.
Every step lets the rows of one key only *accrue* (`Accrues`), which keeps what the
other handlers know. `VersionsFollow` and the maximum in `Latest` give the versions
without gaps: a non-empty set of natural numbers with a bound has a greatest element
(`Greatest`, by well-founded induction on the distance to the bound).

*Evidence.* A route may read the Matter long before its statements run, so `EvidenceInv`
says of each request at its guards what the tables hold as long as the Matter has not
moved since (`Waits`, and `Fits` for the exceptions named in 5): there is one lemma per
kind of command (`HeldCreateAnchor` to `HeldLinkPackage`) that its route establishes it.
Every write moves the Matter, so that one commit takes away what all others relied on
(`MovedOn`) and only the commit's own effect is left to examine (`PackagesFollow`). `EvidenceTypes`
adds what a request holds of the rows it is about (`Knows`); with `Lawful`, the guard that
the triggers leave of each command, one lemma per statement says what a commit can change
(`...Effect`), and a step is a commit, a new version of a document, or leaves the rows alone
(`EvidenceSteps`). `DecisionsStand` then holds of each effect, and `EvidenceFounded`
is kept because decided rows stay: new rows only have to rest on what is there. For
`ReplacementsEnd` there is a number for each retirement, the count of commits before it: a
replacement is not retired when it takes its anchor's place, so it can only be later.

*Contacts.* Under one key, handlers and tabs must speak of one command although nothing
in the tables says which one before there is a receipt. The invariant therefore claims
that there is an assignment of commands to keys (`AskedBy(asked)`, with the existential
in `ContactsInv`); a step that draws a key extends it. `SentOnce` says that a command
that was sent once has one handler, which has not saved it before its batch; a batch that
goes through adds one receipt and one revision to each contact the receipt names
(`ReceiptCounts`, `NextRevision`). Reviews: a contact's latest writer is the one of the
highest revision (`Latest`); a command that writes becomes it (`WrittenLast`), all others
leave profiles and writers as they were (`Unwritten`), and a new contact had no writer
because its revisions are counted by receipts (`Fresh`). For undone imports `UndoneFree`
needs that an imported contact has no company until it is edited (`ImportedAlone`) and
that a writer may name an archived company only if it named it before. `ProfilesRest`
says that a company that a row names is there and is a company; it needs that a contact
never changes its kind, which `ContactsMove` proves with it.

*Services.* A behaviour of `ServicesSpec` is one of each service it is composed of
(`PlayInServices`, `AccountInServices`, `LibraryInServices`): a step of `Services` is
a step of the service or leaves its variables alone. `Services_proofs` instances the
proof modules again, and first shows that both copies of every operator agree.

What stays with TLC, and why:
- `ReservationsSettle` and `JobsSettle`: liveness under fairness, and `ENABLED`, are out
  of the prover's reach.
- `ChunksAgree`: the engine is recursive (queues of events that trigger events), and
  neither recursive operators nor induction over what they compute is available to
  the provers; therefore also `ServicesTypeOK`, which covers the engine. The type
  invariants of all other services are proved: `TypesHold`, `EvidenceTyped`, `ContactsAreTyped`,
  and as parts of the inductive invariants those of play, accounts and library.
- `ReservationsTracked` for keys shared by both kinds of upload is false (see 5).

## 5. Disagreements between the code and what it says

Each is a run that must end in a violation, with its trace.

- `upload_orphan`: an object without a row. Two requests share a key; one put is
  slow; the other request's put fails, so it claims, deletes and removes the
  intent; the slow put then stores the object. Its request's cleanup finds no
  row. The comment above the cleanup promises "a tracked retry-safe state".
- `upload_stranded`: a provisional document without a row. An interrupted
  cleanup of a new-document upload is taken up by a version upload under the
  same key, which takes the document for final because its own form names one.
  A test and `development.md` promise that interrupted uploads do not poison quotas.
- `extraction_overrun`: an immutable result without its text. A run whose lease
  ran out deletes the shared derived object after its successor verified it.
- `governance_locked`: once a reviewer approved a current output, every transition of
  the other participants is refused for ever, although the registry allows it: the handler
  looks for the actor's own approval, the trigger for anyone's.
- `governance_lost`: a sealing batch that was applied and whose answer was lost costs
  the snapshot its manifest, because the catch deletes it whatever was thrown.
- `services_overrun`: more calls than slots. A planner calls again after its first
  answer; its lease of 450 seconds ends under the second or third call, the next request
  deletes the row and takes the slot, and both call. A test says that leases "cover the
  full provider timeout" (`tests/scalability-hardening.test.ts:76`).

Seen while modelling, without a run:

- Upload and extraction: the text of a failed job can stay in R2 when its discard
  fails; one transient R2 failure in a recovery fails the job for good; the
  version-count trigger cannot fire, because the policy read and the revision's
  compare-and-set already exclude it.
- Retired citations: evidence links, the creation of proposals and the replacement of
  their sources do not look for retired anchors, and a second retirement is not looked
  for either; the triggers of `drizzle/0020` abort and the routes answer 409 "the Matter
  changed" (`evidence/links/route.ts:413`, `proposals/route.ts:1118`). `GuardsAgree`
  excludes exactly these (`RefusedUnasked`). A pending proposal that cites a retired anchor
  can be neither accepted nor rejected until its sources are replaced.
- Governance: a second output of the approved snapshot stays current after the approval
  (`drizzle/0018_low_calypso.sql:780`), where `dossier-contract.ts:1503-1530` and the
  ADR expect one; an output of another snapshot generated after the approval marks
  the approved one stale while the Matter stays `output_approved`; two outputs of different
  snapshots of one revision, generated side by side, both stay current; an approval that
  commits between the sealing handler's read of approvals and its audit head is missing
  from the sealed record of approvers.
- Proposals: a job left queued or processing when the Matter moved on can never be
  retried (the revision check comes first) and still counts against the ten active
  jobs; the fifth attempt's expired lease is answered "failed" while the row stays
  processing; failProposalJob answers "failed" even when it reads that the job is ready.
- Accounts: a reset link can be used up although it arrived. The send is given up after
  eight seconds, or its reply is lost, and is reported failed though the provider accepted
  the mail (`reset-mail.ts:65-69`); `password-reset-service.ts:40-44` then uses up the
  link whose mail says "Open this one-time link within 15 minutes". In `LocalAccounts`
  this is `TakeBack` after `Accept`. A link that was answered as delivered is used up by
  the next request before that one's mail is sent (line 32), so that no link is left when
  this mail fails; nothing in the repository promises more (`Issue`, then `TakeBack`).
- Library: a retry under the same key may be answered 409 although the first request,
  still running, committed that very save between the retry's two reads (which is why
  `NoticesTrue` speaks of saves sent once); cancelled uploads count against the
  storage limits for ever; the controller compares a file by name and size.
- Contacts: a command in flight when its member is suspended commits and is answered
  "denied"; a resend may be refused as "changed" while the first request commits later.
- Engine: `docs/development/PRESSURE_COUNTERMOVE_RUNTIME_V1.md:193` promises that the chunks of
  time do not matter; for a scenario with a timed event whose condition reads a metric
  that time changes they do. The event leaves the queue unfired when its condition is
  false at its time and is queued again at whatever boundary comes next
  (`scenario_runtime.rs:1744`, `1841`); the end of an advance is one. In the scenario
  `Unsteady`, after the action "brief", five minutes advanced as four and one let it fire
  and five at once do not. `ChunksAgree` is about the other scenarios (`Steady`).
- Requests to participants (not modelled): the trigger at `drizzle/0014:11-23` refuses every
  update once the owner of a request has left the Matter, which the route does not check.

## 6. Plan

Done: the components of section 2, their runs, and the theorems of section 4.
Next, in this order:

1. `CustomCases` and `OrganizationAuthority`: authority that was read early and used late.

## 7. Not modelled

Custom cases and submissions, organizations and participants: planned. The legacy
game of `crates/` beside the scenario engine, operational events, tax tables, report
layout and PDF bytes, readiness views, static validation of scenarios, UI and
rendering, the mobile application: sequential code without shared state. Hashing,
digests and checksums are equality. Rate limits, mail delivery and the AI provider
are outside the repository. Isolation inside D1 is taken as documented: a batch is
atomic and serial.
