# Verification of the capture and learning path

TLA+ specifications of the AI Coding Training Platform along the way of a
finished submission: the browser extension that observes it and delivers it, the
local platform that stores it, the services that derive evidence, levels and a
plan from it, and the launcher that looks after the database.

## 1. The system

### Components

| Component | State it keeps | Operations |
|---|---|---|
| **Content ingress** (`contentIngress`, `contentRuntime`, `contentBootstrap`, `captureIngressReliability`) | per document: runtime, submit epochs and actions; a queue of at most 8 messages, blocked or not | install, report, send up to 3 times, block, navigate |
| **Capture orchestrator** (`backgroundOrchestrator`, `background`) | `chrome.storage.local`: confirmed submissions, tombstones, outbox, quarantine; `chrome.storage.session`: hints, request lifecycles, parked verdicts, candidates | handle E0 (click), E1 (request), E2 (confirmation), E3 (final verdict), page candidates, prune, persist |
| **Capture state machine** (`captureStateMachine`) | session view | chronology check and bundle of a verdict |
| **Submission correlation and submit epochs** (`verdictCandidateCoordinator`, `submitEpochControl`, `contentRuntime`) | candidates (at most 32), epochs (at most 32) | start, confirm, arm, report, join, expire |
| **Serialized work and initialization** (`serializedWork`, `initializationController`, `captureRecovery`) | promise chain; idle, initializing or ready; recovery; retry budget and alarm | schedule, initialize once, reset, recover, retry |
| **Outbox and delivery** (`outboxDrain`, `attemptStorage`, `captureTransport`) | outbox and quarantine items with counter, due time, block | enqueue, drain, classify the answer, isolate, back off, retry, delete, clear |
| **Platform ingestion** (`captureMaterializer`, `captureTransition`, `captureAttemptBundle`) | SQLite tables `capture_events`, `training_sessions`, `training_attempts` | POST one event, POST a bundle of four |
| **Attempt evidence** (`attemptEvidence`, `attemptCorrections`, the `attempts/[id]` routes) | evidence events, summaries, reviews | replay evidence, correct, void, complete a review |
| **Connection** (`captureConnectionChallenge`, `captureInstallation`, `localConnection`) | one-time challenges in memory, installation file with the capability's hash, the extension's capability and status | create, complete, rotate, probe, deliver |
| **Ability projection** (`abilityProjector`, `evidenceAbilityReplay`) | a level per node, fingerprint of the last replay | V0 projection, evidence replay |
| **Plans and learning completion** (`learningCompletion`, `planRegeneration`, `planFeedback`) | plan items, chain of daily snapshots | complete, give feedback, regenerate |
| **Local vault and launcher** (`localVault`, `launcher`) | vault directories, active pointer, port | create, adopt, switch, serve |
| Characterization mode, diagnosis, project practice, curriculum, platform adapters and parsers, user interface | - | see section 6 |

The components in bold are modelled, wholly or in part; `PROJECT.json` says of
each what is left out.

### How they interact

A page's runtime and the network observer report a submission in pieces, in any
order. The orchestrator joins them; a final verdict of a confirmed submission
writes a bundle of four events (session started, submission, verdict, session
ended) to the outbox together with a tombstone. A drain posts the head of the
outbox to `/api/capture/attempts` with the capability of the connection. The
platform stores the four events and what follows from them in one SQLite
transaction and acknowledges the bundle by its id. The same transaction derives
evidence, a summary, levels and a review. A user may correct or void the
attempt; those requests commit first and derive the rest in later
transactions. Completions, feedback and corrections regenerate the plan. All of
it lies in the vault the launcher points at.

Messages between page and worker, and HTTP between extension and platform, are
the only channels. The extension runs what it does to its storage through one
executor; the worker may be stopped between any two steps. The platform is one
process; requests interleave only at an `await`.

### What is hard

* The pieces of a submission come in any order, late, or never, while old
  verdicts are still on screen and stored pieces expire.
* The browser stops the worker between two storage writes, with a request under
  way, or during initialization; what waited for it fails.
* An answer is lost after the platform committed: of a delivery, of a rotation
  of the capability, of a void.
* Initialization, recovery, retries and the alarm share a small budget, and all
  of them may fail.
* The second half of a correction reads tables that other requests changed.
* Two projectors write the same levels in different transactions, and four
  kinds of request append to one chain of plan snapshots.
* The launcher may die between any two changes of the file system.

`PROJECT.json` lists each such hazard with its line under "hazards", with the
properties that watch it or the reason why none does.

### What makes each component correct

* Content ingress and epochs: a request is reported once, with a verdict that is
  its own, and as soon as the page shows it; messages are neither reordered nor
  skipped.
* Orchestrator: no evidence is left that could be used; the ledger of
  submissions only moves forward, so that a submission is not bundled twice.
* Startup: one runtime per document; a blocked capture is retried while there is
  budget; recovery is complete when it says so, and comes to an end.
* Outbox: a bundle is never lost in silence, kept in one place, not retried for
  ever, and leaves the queue; together, it implements `ReliableDelivery`.
* Ingestion: rows follow the ledger whatever the order, bundles are atomic,
  links unique, an acknowledged bundle can be replayed, and a refusal the outbox
  treats as final is final.
* Evidence: an answered attempt has current evidence, no open review of a voided
  attempt, no open review of a result that was corrected away.
* Levels and plans: no level without the records that support it; one chain of
  snapshots.
* Connection: nothing is taken from a replaced installation, a replaced
  credential never returns, what an extension says about its connection becomes
  true.
* Vault: what is served, or pointed at, is whole.

## 2. The modules

| Module | Models | Checked by |
|---|---|---|
| `ReliableDelivery` | the promise: a bundle is absent, pending, isolated, settled or discarded, and settled only if delivered | refined by `OutboxDelivery` |
| `OutboxDelivery` | outbox, drain, transport, user actions, worker stops | run `outbox`, `OutboxDelivery_proofs` |
| `CaptureIngest`, `MCCaptureIngest` | both capture routes and their tables | runs `ingest`, `ingest_one_page`, `CaptureIngest_proofs` |
| `AttemptEvidence`, `MCAttemptEvidence` | evidence, summaries, reviews, corrections, voids | runs `evidence`, `evidence_replay`, `evidence_void`, `AttemptEvidence_proofs` |
| `SubmissionLedger` | the promise: a submission is unseen, confirmed or final, bundled once each time it is not forgotten | refined by `CaptureOrchestrator` |
| `CaptureOrchestrator`, `MCCaptureOrchestrator` | the handlers of E0 to E3 and of candidates, both storage areas, tombstones, worker stops | runs `orchestrator`, `parked`, `CaptureOrchestrator_proofs` |
| `SubmitEpochs`, `MCSubmitEpochs` | one document's runtime: actions, epochs, baselines, detection of verdicts | run `epochs`, `SubmitEpochs_proofs` |
| `CaptureStartup`, `MCCaptureStartup` | initialization, executor, recovery, alarm, injection, message queue | run `startup`, `CaptureStartup_proofs` |
| `LocalVault` | the launcher, one action per file-system change | part of run `connection`, `CaptureConnection_proofs` |
| `CaptureConnection`, `MCCaptureConnection` | challenges, installation file, extensions' capability and status, beside `LocalVault` | run `connection`, `CaptureConnection_proofs` |
| `LearningLoop`, `MCLearningLoop` | attempts, milestones, both projectors, plan items and snapshots | run `learning`, `LearningLoop_proofs` |

`CaptureConnection` is a composition: it instantiates `LocalVault` and connects
its server to the extensions. The other modules meet at an interface: what
`SubmitEpochs` reports is a candidate of `CaptureOrchestrator`; a bundle it
builds is what `OutboxDelivery` enqueues; a bundle posted is the `Post` of
`CaptureIngest`, whose property `AckedReplays` is an assumption of
`OutboxDelivery`; an ingested attempt is the `Ingest` of `AttemptEvidence` and
the `Capture` of `LearningLoop`. Checking them in one state space is out of reach.

### SubmitEpochs

`rt` is the closure of `contentRuntime.ts`: the detected problem, the epochs (a
submit request with the page's baseline at its click), the actions (clicks not
yet tied to a request) and the memory of the older detector. `page` is external:
the verdict of any submission made so far appears on a new or a reused element,
stays as long as it likes, may be cleared, and the address may change; `dirty` and `moved` say that the observer
or the address poll has still to notice. The background is reduced to its
control messages in `inbox`, which arrive in order, late or never, and to the
hints it keeps. `out` are the candidates the last step reported. Three facts the
code cannot see are kept for the properties: whose verdict is on screen (`of`),
since when it is there (`since`), and the click an epoch's baseline was taken at
(`click`). `setup` fixes the two submissions, the addresses, the room for epochs
and how long the clock runs (`until`).

### CaptureOrchestrator and SubmissionLedger

`local` and `session` are the two storage areas. A handler is an operator that
returns the storage after its writes and the verdicts the job has still to
apply (`todo`); `Applies` commits an outcome, local storage first, and a worker
stop may come between. Stored arrays are sets, so where the code drops the
oldest entry the model drops any. Each submission has a flow, the way its page
is observed: LeetCode with a check poll (`check`), its result page (`result`), a
page without epochs (`legacy`), NowCoder status polls (`status`). The network
observer's requests and the page's verdicts are the environment.

A parked verdict is replayed against a session the replay cannot read
(`Replayed`): the evidence is passed under other keys than the handler reads.
That is how the code is, and it is what finding 4 rests on.

`SubmissionLedger` is the promise: a submission goes from unseen to confirmed to
final, and is bundled at most once more than its tombstone was forgotten
(`OneBundle`). `KeepsLedger` maps the storage to it.

### CaptureStartup

`bg` is the worker's memory: the initialization controller (`ctl`), the recovery
status, the executor's jobs, the documents known to be ready, and two flights
of injections, one for recovery and one for a navigation. `disk` is what
outlives it: retries spent and the alarm. `pages` are the documents, each opened
at most once; `queue` is the message queue of one of them. `room` bounds what
may happen. A job is a sequence of steps named by `stage`; failures of
initialization, jobs, storage and alarms are steps that spend a fault.

Blocking capture and restoring it are chains of awaited calls, and `bg.calls`
holds those under way: the diagnostic is stored (`tell`, or `note` when no retry
follows), the budget read and stored, the alarm created; or the budget removed,
the alarm cleared, the diagnostic forgotten. Chains of different origin (`by`: a
recovery, the job at the head, a user's retry, a failed job nobody waits for)
overlap in any order in which they are begun, and each call may fail in the way
its line of code handles: most are only warned about, a budget that cannot be
removed fails its caller. The calls are answered in the order they were made.
That is more order than the browser promises: calls to one storage area are
answered in order, calls to different areas need not be. What keeps a retry
alive is order within one area, the removal of the budget before a later read of
it, since the alarm is cleared right after the one and created only after the
other. `unarmed` remembers that the browser refused the last alarm
(`background.ts:701` warns and goes on).

A recovery of more documents than `most` (100 in the code) is refused by
`recoverCaptureDocuments` and blocked like any failure that may pass
(`background.ts:776`); only an unsupported browser or endpoint is final.

### OutboxDelivery

`outbox` and `quarantine` are the arrays `captureOutbox` and
`captureQuarantine`; an array is a set of items with positions, and `ticket`
hands the positions out, so that "the head" is the item with the least
position. An item keeps its counter, whether it waits for `nextAttemptAt`
(`waiting`; `ClockPasses` ends the wait) and whether it is blocked.

`pc`, `processed`, `sent` and `result` are the locals of `drainCaptureOutbox`:
it reads the head (`Send` or `StopDrain`), waits for the answer (`Answer...`),
reads the storage *again* and persists a plan (`Persist...`). The answer
classes are those `postCaptureAttemptBundle` produces, grouped by what the plan
does with them: `endpoint_error`, `network_error`, 401 and 403 are "global"
(nothing is said about the bundle); 400, 409, 413 and 415 are "refused".

`stored` is the platform's side: bundles its database has. `wire` holds requests
whose worker was stopped; they may still arrive. `finalized` stands for the
tombstones and `discarded` is a history variable for the user's deletions.

`PlatformRefuses` is not enabled for a bundle that is already stored: the
platform replays it before any rule can refuse it. That is not an assumption
on trust; it is `AckedReplays` of `CaptureIngest`.

### CaptureIngest

`db` holds the three tables. `Refused` is every condition under which
`ingestCaptureEvent` throws, `Stored` the tables after it did not. A bundle is
four such steps in one transaction (`Stages`), undone if one is refused. Times and
event ids are numbers since the code only compares them; "problem" stands for
the triple (installation, platform, problem id) that a session may not change.
The status code (409 or 500) is not modelled: both leave the tables alone.

### AttemptEvidence

`rows` is `training_attempts` (revision, result, voided); `tables` are the three
derived tables, reviews only while open. `WithEvidence` is
`replayAttemptEvidence`. A summary is identified with its classifier input,
because the database keeps one row per input fingerprint. Two classifier inputs
vary here beside the result, the number of active attempts in the session and
whether a submission sequence is claimed; assistance and reflection do not.
`todo` holds the corrections and voids that have committed and not yet
followed up, `cut` the attempts whose follow-up a process end swallowed.
Attempts belong to one session and each has exactly one primary node.

### LearningLoop

`levels` and the last replay's fingerprint stand for the ability snapshots;
rows, summaries and completed milestones for what they are computed from;
snapshots carry the one they were made from. A request is one action as far as
it is one synchronous transaction: a capture with its evidence replay, a
completion with the V0 projection, a correction's first half with V0 on all
nodes, its second half with summary, replay and plan. `Crash` loses the second
halves. Which summary counts when two were made in one millisecond is random in
the code (`ORDER BY` a random id) and a choice here; for snapshots the model
assumes creation times that differ and never go back, since a tie could make an
older snapshot "the latest" and fork the chain. Further assumptions: all
attempts belong to one session and are of catalogued problems; corrections
change the result only; the plan is created outside (no application code does
so at this commit).

Two things the code suggests and the model shows unreachable: captured attempts
alone never support L3, because `usedAssistance` is always null, so that their
outcome is unproductive or insufficient; and the pass pair of two different
problems, because `listAttemptNodeMappings` never supplies
`canonicalProblemId`, so that only two passes a week apart give L2.

### LocalVault and CaptureConnection

`LocalVault` has one action per change of the file system, and every action may
be the last of its launcher. Content, sidecar and hash checks are abstracted to
"a check fails". Launchers run side by side but not on one directory (the code
checks that it is empty and takes no lock). The port is released between its
check and the start of the server, so the pointer may be moved while another
server runs; only wholeness is claimed.

In `CaptureConnection` a capability is known by the number of its challenge. The
settings page goes through waiting, connected and failed; the extension runs
serial jobs (0 is a flush of the outbox) beside the probe a worker start makes,
which writes only if its result differs from the status it began with. `Sleep`
is the browser stopping an idle worker, `Crash` a stop in the middle, counted in
`Mishaps`. When the server ends, its challenges are forgotten and answers may be
lost.

## 3. What the runs check

| Run | Instance | Distinct states | Shows |
|---|---|---|---|
| `outbox` | 2 bundles, retry cap 3 (the code's), batch 1, 4 queue positions | 28 864 | the six properties of `OutboxDelivery` |
| `ingest` | 3 bundles, 8 single events, 2 sessions, 2 submissions | 326 | the six properties of `CaptureIngest` |
| `ingest_one_page` | 2 bundles of one page visit, as the extension builds them | - | finding 1 |
| `evidence` | 2 attempts of a session, the first up to revision 3, 2 results | 757 741 | the four properties of `AttemptEvidence` |
| `evidence_replay` | 1 attempt | - | finding 2 |
| `evidence_void` | 1 attempt | - | finding 3 |
| `orchestrator` | 2 submissions in 12 setups of flows, 1 tombstone, 1 parked verdict, 1 candidate, 3 instants, 1 stop | 541 147 | the four properties of `CaptureOrchestrator` |
| `parked` | 1 NowCoder submission | - | finding 4 |
| `epochs` | 2 submissions in 6 setups, 3 or 4 instants, 2 elements, room for 1 or 2 epochs | 1 717 136 | the five properties of `SubmitEpochs` |
| `startup` | 2 documents in 13 setups, 2 sends, queue of 2, 2 injections, 2 retries | 637 241 | the seven properties of `CaptureStartup` |
| `connection` | 2 extensions, 1 directory, 1 launcher, 2 connects, 2 mishaps, in 4 setups | 541 366 | the five properties of `CaptureConnection` |
| `learning` | 2 captured attempts, 1 milestone, 2 nodes, 3 snapshots, 2 revisions, 3 days | 363 342 | the three properties of `LearningLoop` |

### The properties

`OutboxDelivery`
* `NoSilentLoss`: every finalized bundle is queued, isolated, stored or was
  thrown away by the user.
* `OnePlace`: queued at most once, never queued and isolated at once.
* `RetryBudget`: the counter shared by failures and unusable acknowledgements
  reaches the cap only on a blocked or an isolated item.
* `Drains` (liveness): a queued bundle leaves the outbox or the head is blocked
  until the user acts.
* `KeepsPromise`: every step is a step of `ReliableDelivery` or a stutter; in
  particular a bundle is never settled before the platform holds it.

`CaptureIngest`
* `RowsFollowLedger`: session and attempt rows are a function of the set of
  stored events, not of their order: earliest start, earliest end, newest
  verdict by time and then id. An attempt's start follows its earliest
  submission only when no verdict precedes a submission, because a verdict that
  arrives first opens the row with its own time.
* `WholeBundles`: an event only bundles carry is stored with its three siblings.
* `OneLink`: no submission in two sessions, no session on two problems.
* `AckedReplays`: a bundle answered ok is answered ok, and changes nothing, at
  any later time.
* `RefusalIsFinal`: once the start of a bundle is refused it stays refused.
  This is what entitles the outbox to isolate on the first 409.

`AttemptEvidence`
* `EvidenceCurrent`, `NoReviewOfVoided`, `ReviewsFollowResult` hold for an
  attempt with no request under way and no lost follow-up. A lost correction
  follow-up is repaired by the next delivery or correction.

`CaptureOrchestrator`
* `NoStrandedCandidate`: an idle, enabled worker leaves no stored candidate that
  a recorded confirmation answers.
* `MatchedIsRecorded`: a stop between the two storage writes may lose a
  request's tie to its submission, never the record it refers to.
* `KeepsLedger`: refinement of `SubmissionLedger`; a submission is bundled again
  only after its tombstone was dropped.

`SubmitEpochs`
* `OncePerRequest`: a submission is reported once.
* `VerdictIsOwn`: a report that names a request never carries a verdict that was
  on screen already at the click its baseline was taken at, however long that
  verdict lingers; and one that names a started request never carries that of a
  later submission whose start the page has heard of.
* `NoUnboundUnderMarker`: the older detector is silent while an epoch or action
  of the problem is remembered.
* `ArmedIsReported`: as soon as changes are noticed, no armed and confirmed
  epoch has an unreported new verdict on screen.

`CaptureStartup`
* `HandledInOrder`: messages of a page are handled in the order they were
  queued, also with several waiting; none is skipped.
* `OneRuntime`: however often the content script is started in a document, one
  runtime listens.
* `BlockedIsRetried`: while capture is blocked by a failure that may pass
  (capacity included), a retry is scheduled, being scheduled in its steps, or
  running, or the budget is used up, or the browser refused the last alarm. The
  danger is a success's late removal of budget and alarm that meets a failure's
  scheduling half way.
* `RecoveryCovers`: a recovery that reports success reached every document it
  found that is still open.
* `QueueSettles`, `RecoverySettles` (liveness): the queue becomes empty, blocked
  or stops again and again; initialization and recovery come to rest.

`CaptureConnection`
* `VaultsWhole`: what the pointer names, and what is served, is a whole vault
  (an invariant of `LocalVault`, checked with the server's ends).
* `AcceptedIsCurrent`: an attempt is taken only from the installation connected
  at that moment, though the request waited for its body after it was authorized.
* `CredentialNeverReturns`: touching the installation never writes back a
  credential that was replaced meanwhile.
* `StatusSettles` (liveness): once the application stays up, each extension
  shows "connected" exactly if it holds the current capability.

`LearningLoop`
* `LevelIsSupported`: at no time, also between a correction and its late or lost
  second half, is a node's level above what the records that still count
  support.
* `LineageIsChain`: completions, late feedback on items of older snapshots,
  corrections and voids never give a snapshot two successors.

Each property is accompanied by a mutant in its module (a definition whose
comment begins with "Mutant"), a plausible slip in the code that violates it.

### Bounds and why they are enough

* `outbox`: two bundles give a head and a queue behind it, an isolated item
  beside a queued one, and two stray requests. The retry cap is the code's. A
  batch of 1 is smaller than the queue, so the limit is met; larger batches
  only let the same rounds follow each other without a new `StartFlush`. Four
  positions allow two enqueues and two retries, enough for an item to be
  isolated, retried and isolated again. `MaxTicket` also ends the history: with
  it, user actions cannot go on for ever.
* `ingest`: the single events were chosen to be early, late, duplicated alone,
  changed under a known id, equal in time with a newer id, about another
  problem and another session. Bundles and events repeat without bound; the
  tables are finite, so the state space is complete for this set.
* `evidence`: three revisions reach correct, correct back, and void; the second
  attempt changes the number of submissions that summaries count.
* `orchestrator`: two submissions meet wherever they can share something: one
  document, one problem, one request window. With room for one tombstone, one
  parked verdict and one candidate every eviction happens; the lifetimes are 2
  instants with 3 instants of clock, so that each kind of entry can expire, and
  the confirmation window (1) is shorter than they are. `MaxStops` = 1 allows one
  stop inside a write or one disabling. The two submissions are
  interchangeable, so symmetry is sound.
* `epochs`: two submissions suffice for an old verdict beside a new request;
  room for 1 epoch makes the second one the refused one. An epoch lives 3
  instants, a hint 2; the clock has 4 in the setups where a polled submission
  or a navigation needs the time and 3 in the others. The inbox holds one message: messages
  are handled one by one, and a later one may find any page. Elements are
  interchangeable, so symmetry is sound.
* `startup`: the caps are the code's less one each (3 sends, 3 injections and 3
  retries become 2), which keeps "the last one" and "one before the last" apart
  where the code tells them apart. A queue of 2 (the code: 8) lets one message
  wait behind another, and with three messages be full. `most` is 1 with two
  open documents where a recovery is to exceed its capacity. Setups spend up to 2
  faults, a worker stop, a user action and 3 messages, not all of them at once:
  the safety properties are proved without these bounds, and the liveness
  properties are checked for each kind of fault alone and in pairs.
* `connection`: two extensions compete for one installation; a third behaves as
  either. One directory and one launcher are enough here because `VaultsWhole`
  is proved for any number. `MaxActive` = 1 (the code: 20) makes eviction of a
  challenge happen with two clicks.
* `learning`: the second attempt makes the session's count reach the limit
  `Repeated` (2 instead of 3); `Week` = 2 of `MaxNow` = 3 days gives pass pairs
  near and apart; the milestone transfers, so that levels up to L4 and one-step
  climbs occur; three snapshots make a second successor of the first possible.

### Fairness

* `outbox` (`FairSpec`): weak fairness of `StartFlush` is the periodic flush
  alarm, which the browser keeps across worker stops; of the drain and persist
  steps, that a live worker goes on; of `ClockPasses`, that time passes. Strong
  fairness of `Send`, `PlatformCommits` and `PersistAcked` says that the worker
  is not stopped, nor the platform unreachable, at that very point every time.
  The last is an assumption about the surroundings; without it a user whose
  platform never runs has a queue that never drains, which is right.
* `startup`: weak fairness of `Internal`, whatever extension and browser do by
  themselves: promises settle, timers and alarms fire, events are handled. Faults,
  stops and the user have none, and are bounded.
* `connection`: weak fairness of each extension's own steps (`Progress`: alarms
  start an idle worker, jobs go on, answers arrive) and of each challenge
  (`Challenged`: the page and the route go on). Commands, ends and clicks have
  none.
* The other specifications have no fairness and no liveness property: a learner
  may stop at any time.

`CHECK_DEADLOCK FALSE` is set where a history may end: every run's user actions,
faults or clock are bounded.

## 4. Findings and observations

Findings, each shown by a run:

1. **A second submission on the same page is refused**
   (`captureTransition.ts:84`). Each bundle starts and ends the session of its
   page; the stored end is the first verdict's time, and a later start is a
   restart. `docs/architecture.md:255` promises that "multiple submissions
   remain distinct within one session". The outbox isolates the bundle, and by
   `RefusalIsFinal` no retry can deliver it.
2. **Exact replay is not idempotent for reviews** (`attemptEvidence.ts:141`).
   A redelivered bundle opens a review again that the user completed, and adds
   a summary after a correction; `README.md:140` and
   `captureAttemptBundle.ts:28` call exact replay idempotent.
3. **A repeated void may leave reviews open**
   (`app/api/attempts/[id]/void/route.ts:41`). If the first request was cut off
   between its commit and its follow-up, the repeated one is answered ok
   without it; `docs/runbook.md:58` calls repeating it safe.
4. **A parked verdict is not replayed, and its confirmation is lost**
   (`backgroundOrchestrator.ts:982`). NowCoder stamps a confirmation when its
   poll is processed, after the verdict that was parked for it; the state
   machine refuses the replay as out of order, and the replay's outcome is
   returned instead of the confirmation's own. The request is marked matched, no
   record is stored, and no bundle can be built any more. A test named "parks E3
   before any matching E2 and replays it once the E2 lands" says otherwise.

Met while reading, without a run of their own:

* Orchestrator: a replay that does succeed writes the session it saw, which has
  lost the other submissions' lifecycles, parked verdicts and candidates.
  `handleE2` drops terminal candidates without the diagnostic its comment
  promises. A late check poll of an unfinalized submission can match a later
  submission's request.
* Epochs: `recordUiHint` keeps an action for 30 s with the first click's
  baseline (`contentRuntime.ts:446`), and a start adopts it. A verdict of an
  older submission that appears between that click and the start, or is removed
  and rendered anew, differs from the baseline and counts as the new
  submission's. `work/reports/v4-phase-d-task13-submit-epoch-control-2026-08-10.md:18`
  says that the runtime "accepts proof only from a post-E1 normalized verdict
  change". `VerdictIsOwn` is what the code does ensure: nothing that was on
  screen at the click passes. `promoteActionEpoch` does not supersede other epochs of the problem, so
  that the second half of `VerdictIsOwn` is about started requests. A candidate the message queue
  refuses is marked as reported and lost.
* Startup: `scheduleCaptureRecoveryRetry` runs for each failed job, replaces the
  alarm and uses up the intervals 1, 5 and 15 minutes within seconds
  (`background.ts:694`). If `alarms.create` fails, a warning is all
  (`background.ts:701`): capture stays blocked, with budget left, until the next
  event starts a recovery. A user's retry may join a recovery that began before
  it. A success overwrites a failure reported meanwhile. A second wait for a
  document replaces the first, which only its timeout ends.
* Connection: the page may say connected though the extension lost the answer,
  or failed though the rotation happened; a probe begun before a connect may
  write `capability_rejected` after it, until the next probe. `StatusSettles`
  says that all of them pass.
* Vault: a stop leaves a directory that is not empty and can never be used
  again; `serve` refuses, even with `--vault`, when the active pointer is
  invalid.
* Levels: V0 overwrites levels of L3 and above with at most L2 on every
  correction (all nodes) and completion (mapped nodes); evidence then climbs one
  step per replay. "Level changes occur one step at a time unless a correction
  invalidates the underlying evidence" says the plan of phase 3; V0 may go from
  0 to L2 at once. Captured passes raise no level until a completion or
  correction runs V0. A passed attempt of a session with three submissions
  counts as unproductive.

## 5. What is proved

Eight modules hold the proofs, each beside the module it is about. The theorems
hold for every value of the constants that satisfies the module's named
assumptions (numbers are numbers, caps are positive, sets of attempts are finite).
Every safety property of a passing run, invariant or action property, is proved.

### OutboxDelivery_proofs

`TypeCorrect`, `NothingLost`, `AlwaysOnePlace`, `BudgetKept` are the four
invariants of the run; `Refinement` is `Spec => KeepsPromise`, that the outbox
implements `ReliableDelivery`. `Bundles` may be infinite.

None of the invariants is inductive by itself. `IInv` adds four facts:
`SentHeld` (while the drain waits, the item it sent is still queued, because
user actions wait for the executor; without it the plan could act on an item
that was cleared), `AckMeansStored` (when the drain holds an "ok" answer, the
bundle is stored; this makes `PersistAcked` a settling step), `KnownIds`
(whatever is queued, isolated, sent or under way was finalized) and
`DiscardGone` (what the user threw away is neither queued nor isolated). `TypeOK`
needs `RetryBudget`: a counter stays within the cap only because an item at the
cap is blocked and a blocked item is never sent. Each action has a lemma that it
preserves `IInv`, and one naming the abstract step it maps to.

### CaptureIngest_proofs

All six properties of the run, for every set of events and bundles that clients
may post: `TypeCorrect`, `Projection` (`RowsFollowLedger`), `Atomicity`
(`WholeBundles`), `Linkage` (`OneLink`), `Replays` (`AckedReplays`), `Finality`
(`RefusalIsFinal`). The assumption says that events are well formed, bundles have
the shape `CaptureAttemptBundleSchema` demands, and no verdict maps to the
result of an unjudged attempt.

The invariant is a predicate `Good` of a set of tables rather than of the state,
because inside a transaction the tables pass through stages no request ever
sees. `GoodStep` proves that one event that is not refused leaves good tables
good; `StagesFacts` chains it four times. `RowsFollowLedger` is not inductive: it
compares a row with the earliest or newest event, which need not be the same one
before and after. `Good` says instead that a row's time is that of *some* stored
event and precedes all others, and that the verdict a row shows is a stored one
and none is newer. `Finality` rests on `RefusedStep`: a reused id stays used, a
session keeps its problem, and its end only moves back.

### AttemptEvidence_proofs

The four properties of the run: `EvidenceTypes`, `EvidenceStaysCurrent`,
`VoidedAsksNoReview`, `ReviewsAreCurrent`. The properties speak of settled
attempts only and say nothing of one with a request under way. `IInv` does: an
active attempt without current evidence has a correction under way or a lost
follow-up (`ActiveBacked`), a voided one without it, or with an open review, a
void (`VoidedBacked`); no event is of a later revision than its row, and one of
the same revision states what the row states (`FactsTrue`), so that "already
recorded" in `replayAttemptEvidence` can be trusted; an active attempt whose
evidence is current has no review of another result (`ReviewsTrue`). Three
lemmas carry the actions: a replay (`ReplayKeeps`: deliveries, corrections'
follow-ups), a change of a row (`ChangeKeeps`), and what only takes away
(`ShrinkKeeps`: void follow-ups, completed reviews, crashes).

### CaptureOrchestrator_proofs

`LedgerKept` is `Spec => KeepsLedger`: the orchestrator implements
`SubmissionLedger`, for any number of submissions, any flows and any lifetimes
and caps. `OneBundleEach` draws the consequence: no submission is bundled more
than once more often than its tombstone was dropped.

Besides types, the invariant needs two facts: a submission has one tombstone at
most (`OneTomb`, else dropping one of two would not forget it), and none while it
is confirmed (`NotBoth`). The argument is by what a job can do to local storage
(`Writes`): nothing, record one confirmation (`Confirms`), or finalize one
submission (`Finalizes`). Every handler's outcomes are `Sound`, that is of one of
these kinds, and `WriteStep` maps each kind to a step of the ledger. Since the
statement is about single outcomes, a stop between the two storage writes is one
more case of `ApplyStep` and no more.

`MatchedRecorded` is `Spec => []MatchedIsRecorded`. It is not inductive alone: a
replay of a parked verdict that bundles nothing leaves local storage as it was
and still writes the matched request. It holds for LeetCode because a LeetCode
verdict exists only once a candidate was joined to a confirmed submission
(`ResolvedConfirmed`), so the invariant (`EvidenceRecorded`) says the same of
parked verdicts and of the verdicts a job has still to apply. `Backed` is what a
handler owes it; `RecordStays` shows that a record is lost only to its bundle's
tombstone, and that only to an eviction the history counts. A NowCoder verdict
may be parked before any confirmation, which is why the property leaves NowCoder
out.

The proof showed two things that the two-submission instance had not. A repeated
confirmation drops expired tombstones though it records nothing new, so the
ledger has a step that only forgets. And a replayed verdict may bring back the
very tombstone that its confirmation has just dropped as expired, unless parked
verdicts live no longer than tombstones: hence `ParkTtl <= TombTtl` in the
assumption (60 seconds and 30 days in the code).

`OrchestratorTypeCorrect` is `Spec => []TypeOK`. Next to the types it has the
bounds (`Bounded`): parked verdicts and candidates within `Cap`, tombstones within
`MaxTombs`, no lifecycle from the future or beyond the polls its page has sent.
`Fits` is what each handler's outcome owes it; a full slice takes a new element
only for an old one (`NewestSmall`).

`CandidatesResolved` is `Spec => []NoStrandedCandidate`, the longest argument of
the project. The property speaks of the idle worker only; the invariant
(`Orderly`) says how it gets there:

* While verdicts wait in `todo`, every stored candidate waits (`Pending`), has
  its verdict among them, or is dropped by one of them because the submission is
  already final (`Settled`). The last case is needed: the first verdict of a batch
  bundles the submission and removes its lifecycles, after which the other
  candidates may join elsewhere or nowhere, and only their own jobs remove them.
* All verdicts of a batch are of one submission (`Batch`), since a candidate that
  arrives is the only one that can join and a confirmation makes candidates join
  with its own submission only. A worker that stops loses its jobs, not the
  candidates: those that join still agree on one submission (`Agreed`), so that
  the next worker finds one batch again.
* While capture is off nothing joins, so the jobs that `Apply` skips never
  include a verdict.

`Resolves` states once what a candidate joins to: the request it selects
(`Selects`) if that is matched to a fitting confirmation (`Joins`). The lemmas
that follow say what each write does to that: pruning (`PrunedSame`), a signal
(`ObservedSame`), a match (`MatchedSame`), a confirmation (`OthersSame`), a
confirmation lost again by a replay (`ConfirmedLess`), a bundle (`ForgottenSame`,
`BundledWaits`, `BundledRest`). `JobKeeps` puts them together for one verdict.
A verdict that drops its candidate because the submission is final finds the
tombstone only if candidates live no longer than tombstones: hence
`E1Ttl <= TombTtl` (5 minutes and 30 days); and a request that is not matched
names no submission (`NoSubmission`).

### SubmitEpochs_proofs

All five properties of the run, for any number of submissions, problems,
verdicts, elements, room for epochs and controls under way:
`RuntimeTypeCorrect`, `ReportedOnce` (`OncePerRequest`), `SilentUnderMarker`
(`NoUnboundUnderMarker`), `NothingArmedIsLeft` (`ArmedIsReported`) and
`CarriesItsOwnVerdict` (`VerdictIsOwn`), the last without any assumption on how
long the page keeps a verdict.

`OncePerRequest` is far from inductive: an epoch that reported may expire, be
cleared when the problem leaves the page, or be lost when the page is hidden,
and a second epoch of the request would report again. The invariant says why
none comes. A request is spent (`Spent`) once it had an epoch: of a posted one
the start has been heard, and starts come once and in order (`Channel`); of one
that is only polled the click its confirmation names is no longer among the
actions, since promotion takes all clicks of the problem with it and later
clicks have later times. `Once` says that every epoch's request is spent and
that a reported one is spent and its epoch, if it still has one, marked.
`Exclusive` is supersession as an invariant: of two started requests of one
problem only the later has an epoch that can be armed. `Ahead` ties baselines to
time: whatever differs from a baseline, or has been noted as a change from it,
came on screen after its click. The latter half is needed because an epoch
remembers that it saw a change (`proofObserved`) and may report a verdict equal
to its baseline later; such a verdict has come back, and is newer than the
click too. `Ahead` and `Exclusive` give the two halves of `VerdictIsOwn`.

The runtime's helpers are functions of the runtime record, and each has a lemma
that it leaves a `Good` record good: pruning and forgetting (`Fewer`), rewriting
each epoch into one of the same request (`Rewritten`), a new epoch (`Extended`).
`Sound` is what a result must satisfy to be returned; `RunsStep` turns it into
the invariant of the next state. `OldestExists` shows that the action which makes
room for a click is there to be dropped.

### CaptureStartup_proofs

All safety properties of the run, for any documents, setups and caps:
`TypesKept`, `HandlesInOrder` (`HandledInOrder`), `InstallsOnce` (`OneRuntime`),
`RetryRemains` (`BlockedIsRetried`), `RecoveryIsComplete` (`RecoveryCovers`).

The invariant has four parts that hardly meet.

* `PagesOK`: at most one context request or one context is under way to a page,
  and only to one that is installing; this keeps a page from installing twice.
* `Sound`: a document the worker counts as ready has its runtime, and so has one
  that a recovery or navigation has left behind, unless the failure is noted.
* `Good`: who is going to try again. `BlockedIsRetried` accepts any alarm's job
  and any recovery and is not inductive: the job ends, and the recovery may be
  one that has succeeded and is still removing budget and alarm while another
  failure blocks capture. So `Owned` says who waits for which call and that a
  recovery, a job or a user has one at most; `Chased`, that behind what a
  recovery has asked for stands the scheduling that a later failure has asked
  for, or the budget is used up, or a user resets it; and `Retried`, that beside
  this there is an alarm, a spent budget, a refused alarm, scheduling under way, a
  recovery that is not yet settling, or an alarm's job that has not yet asked for
  its recovery. Here the order of the answers is used: what was asked for last
  takes effect last.
* `Ordered`: messages are numbered, the queue holds the last of them, the rest is
  persisted, and while the page is open at most one report is among the jobs,
  that of the queue's head; a report that outlives its page or its try may be
  persisted late, but never before its predecessors.

Most actions only append jobs and leave the rest (`Calm`); the others have a
lemma each. How the jobs move is all the queue needs to know (`Shifted`).

### CaptureConnection_proofs (and LocalVault)

`VaultsAreWhole`: for any number of directories and launchers, whatever is
pointed at or served is whole. `ServedVaultsAreWhole` carries it to the
composition, whose steps are steps of the launcher or leave the vault alone.
`ConnectionTypes`; `TakenFromTheConnected` (`AcceptedIsCurrent`) and
`CredentialsOnlyAdvance` (`CredentialNeverReturns`) are action properties;
`ExpiredStaysExpired` proves that a page that was told its challenge has expired
was told the truth (`ExpiredIsFinal`; the theorem stands in for a run). It rests on `Used`:
a challenge that has given anyone anything is not pending, and only a pending
one can be told expired.

### LearningLoop_proofs

`LearningTypes`, `LevelsSupported`, `LineageChain`, for any catalogue of nodes,
roles, attempts and milestones. The evidence projector ends at or below its
target or where it began (`MovedBound`); records that are added, or summarised
again, take no support away (`StaysSupported`); only corrections and voids do,
and their transaction runs V0 on all nodes (`V0Supported`), before the second
half's replay (`ReplaySupported`). The chain rests on snapshots being made from
the latest one.

### Only model-checked

Liveness (`Drains`, `QueueSettles`, `RecoverySettles`, `StatusSettles`) is beyond
the prover. The properties of the four violation runs are refuted, not proved.

## 6. Not modelled, and why

Whole components:

* *Platform adapters and parsers*: recognition of third-party pages and
  responses. They are parsing without protocol state of their own; what they
  report enters the models as environment steps.
* *User interface, popup, pages*: rendering and forms over the operations above.
* *Characterization mode* (`characterization.ts`, `b3Witness.ts`): a diagnostic
  recording beside the capture path.
* *Diagnosis, project practice, curriculum*: single-transaction operations and
  seed data with little interaction. A completed milestone enters `LearningLoop`
  as evidence.
* *Scripts* (`src/scripts`): measurement, audits and release tooling.
* `submissionCorrelator.ts` and the main-world relay: no code injects
  `main-world-bridge.js` at this commit, so their paths are unreachable; the
  second confirmation path (`backgroundOrchestrator.ts:1222`) with them.

Within the modelled components:

* Outbox: display fields (`lastCaptureError`, connection status), malformed stored
  records that are carried along. Eviction of tombstones is in
  `CaptureOrchestrator`.
* `captureStateMachine`: the session view it keeps for display; its chronology
  check and bundle are modelled where the orchestrator calls it.
* `CaptureIngest`: corrections of the attempt a verdict updates, and the
  last-seen time of the installation; the routes' authorization is in
  `CaptureConnection`.
* `AttemptEvidence`: manual attempts, reflection and assistance signals. The
  unmapped attempt has no evidence.
* `SubmitEpochs`: the NowCoder runtime, which has no epochs.
* `CaptureStartup`: the "startup" input of the navigation coordinator, and the
  invalidation of the extension's context in a page that stays open; the order
  in which answers of different storage areas and of the alarms interface
  overtake each other.
* `CaptureOrchestrator`: the cap of 8 stored hints and the `lastCaptureError`
  texts, on which no property depends.
* `LearningLoop`: confidence, staleness, counts and transition tables of the
  projections, assessments, explanations; how the generator chooses tasks;
  drafts and stuck results. "accepted" behaves as "started".
* `CaptureConnection`: the credential version in extension storage, and bundles
  that ingestion refuses (`OutboxDelivery` has them).

## 7. What is left

* The finer outputs of the projections (confidence, transitions) and the choice
  of tasks, as operators checked against a reference definition.
* A composition of `OutboxDelivery` with `CaptureConnection`: a rotation of the
  capability while a drain waits.
