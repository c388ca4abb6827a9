# ProjTrack: a TLA+ verification project

ProjTrack is a school's tracker of submissions: a React frontend (`src/src/app`),
a NestJS and Prisma backend on PostgreSQL (`src/backend`), and worker processes for
mail and backups. Paths below are relative to `src/backend/src` unless they start
with `src/`. The project models the parts in which several requests, timers and
processes change the same rows, checks them with TLC and proves some of their
properties with TLAPS for instances of any size.

## The system

All state that outlives a request is in PostgreSQL, plus files on a disk or object
store. The API serves requests concurrently, the workers run on timers, and they
interact only through rows and files. Most services read a row, decide in
JavaScript, and write in a later statement, by id or with a guard in the `where`
of an `updateMany`. Where the guard is missing, what was read may be stale when it
is used; that is what most properties here are about.

| Component | State | Operations | Interacts with | Hard | Correct when |
|---|---|---|---|---|---|
| Mail queue and worker (`mail/mail.worker.ts`, `mail.service.ts`, `mail-limit.service.ts`) | `EmailJob`, `EmailSuppression`, `WorkerHeartbeat` | passes that recover locks, claim and send; create, refresh, retry, cancel, archive, resume | every component that mails creates jobs; webhooks report back | overlapping passes, crashes after the send, stale locks, slow sends, limits counted before the send | one pass per job, bounded sends, no stranded job, SENT and archived stay so, suppressed bulk mail not sent, every job settles |
| Mail webhook (`mail/mail.webhook.service.ts`) | `EmailProviderEvent`, and the rows above | bounce, complaint, delivered | provider, mail queue | duplicates, order, crash after the event row | each event takes effect once |
| Sessions, login, links (`auth/`, `profile/`) | `User.status` and password, `AuthSession`, `AccountActionToken` | login, refresh, logout, change password, activate, reset, forgot | administration, mail | concurrent refreshes, transactions at READ COMMITTED, links submitted twice | one live session per login, an ended login stays ended, a link works once and only while it is good |
| Account administration (`admin/admin-users.service.ts`, `students/`) | the same rows and profiles | invite, reset, deactivate, import, archive, delete | the two above | requests of several administrators, links issued in one statement and the status set in another | what it does to sessions and links keeps their promises |
| Authentication throttle (`auth/auth-throttle.service.ts`) | `AuthRateLimit` | check, record failure, clear | login, activation, reset | the check comes before, the count after the comparison | a bounded number of wrong passwords before a block |
| Backups and retention (`backups/`) | `BackupRun`, artifacts, an advisory lock | manual and automatic run, protect, delete, list, retention | data deletion reads them | timers of several processes, a session-level lock through a pool, crash during a run, deletion racing retention | the newest successful backup stays, no two automatic runs at once, each scheduled time gets a run |
| Account data deletion (`data-deletion/`) | `DataDeletionRequest`, `DataDeletionExecution` | request, cancel, review, dry run, verify backup, execute | backups, sessions, mail | long multi-statement execution, crash in the middle, stale backup check | nothing is erased without an approval and a backup that was completed; what is reported complete is complete |
| Submissions (`submissions/`) | `Submission`, its files and events | submit, resubmit, review, reopen | files, groups | edit racing review, two members at once, transactions that do not see each other | one submission per student or group and task, a listed file is stored |
| Files (`files/`) | `PendingUpload`, stored files | reserve, upload, consume, clean up | submissions | upload used twice or expiring, removal racing a resubmission | a file belongs to one submission |
| Subjects and groups (`subjects/`) | `Group`, `GroupMember` | create, join by code, approve, lock, change leader, remove | submissions | joins and removals at the limit, counts that are old when written | grows only up to the maximum, one leader |
| Academic structure, notifications, calendar, settings, reports, audit log, health, configuration | their rows | mostly single statements | | | |
| Frontend (`src/src/app`) | tokens, one refresh in flight | pages, API client | API | calls that fail with 401 at the same time, lost answers, several tabs | one refresh for all of them, the user stays signed in |

`PROJECT.json` lists every component with its sources and what is modelled of it,
and the hazards of the code line by line.

## The modules

| Module | Models | Proofs |
|---|---|---|
| `MailOutbox` | abstract: what the mail queue promises of every job | |
| `MailQueue` | mail queue, worker passes, limits, API requests on jobs, suppression, and what a bounce does to a row; implements `MailOutbox` while it is undisturbed | `MailQueueProofs` |
| `MailWebhook` | the provider's events about one message, their rows, repetitions and effects | `ThrottleWebhookProofs` |
| `LoginTokens` | abstract: what the sessions promise of every login | |
| `AccountAccess` | one account: status, password, sessions, links, and the requests that change them; implements `LoginTokens` | `AccountAccessProofs` |
| `AuthThrottle` | the counter of one action and key, and the logins that check, count and clear it | `ThrottleWebhookProofs` |
| `RefreshFlight` | the browser: access tokens, the shared cookie, one refresh in flight per tab, against a server that rotates | `RefreshFlightProofs` |
| `BackupCatalog` | abstract: what the list of backups promises its readers | |
| `Backups` | backup runs, artifacts, the advisory lock, ticks of the worker, admin requests, retention; implements `BackupCatalog` | `BackupsProofs` |
| `DataDeletion` | requests, decisions and executions of account deletion, composed with `BackupCatalog` | `DataDeletionProofs` |
| `Submissions` | uploads, submissions, their files, reviews, administration, removal of files | `SubmissionsProofs` |
| `SubjectGroups` | groups of one subject, their members, leader, status and the sizes | `SubjectGroupsProofs` |

The MC modules make instances for TLC. `MCMailQueue` and `MCBackups` give values to
functions and symmetry. `MCAccountAccess` has two parts, chosen by the initial state:
`sessions` (every request but those on reset links, one link) and `links` (the requests on
links, two of them). `MCPeople` has five parts (`AuthThrottle`,
`RefreshFlight`, `MailWebhook`, and `SubjectGroups` twice, by restriction: with one group and
with two), and `MCRecords` has two (`Submissions`, `DataDeletion`): the initial state chooses
a part, only its variables change, and the parts share model values, so that one group of
permutations is sound for all. The parts do not interact in the code either; each property speaks of
its own part, and holds in the others because their variables stay initial.

How components are composed where they do interact: `DataDeletion` takes the steps of
`BackupCatalog` as its environment, and `Backups` is shown to implement `BackupCatalog` as long as
the audit records of completed backups can be written; a record that cannot be written turns a
completed backup FAILED, a step that the catalog does not have and that `DataDeletion` adds
(`BackupUndone`). So what is proved of a deletion holds with the worker of `Backups`. `MailQueue`
has the requests of its callers and the effect of bounces; `RefreshFlight` has the rotation that
`AccountAccess` details as one step of the server. `LoginTokens` joins the two: `AccountAccess`
implements it for any number of logins (`ImplementsLogins`), and every step of the server in
`RefreshFlight` is one of its steps for a single login (`ServerKeepsLogins`).

Common conventions. A process (worker pass, API request, tick, webhook delivery) is a
record with a program counter; every database statement is one action; what the code does
between two awaits belongs to the step before or after it. An update by id writes whatever
the row has become; an `updateMany` with a guard is an action with that guard. A
transaction that only writes is one step, at its commit: nobody sees its statements before,
and what they write does not depend on what they find, so statements of others that come in
between could as well have come first (`RemoveWrites`, whose first statement locks the member's
row and the second the group's, is of this kind). A transaction that reads and writes is as many
steps as READ COMMITTED lets others see. `vars` has
history variables where a property needs the past; they are named as such and no guard
reads them, except where an id must not be used again. Mutants (operators commented
"Mutant of ...") stand beside the definition they change and are used by no specification.

### MailOutbox and MailQueue

`MailOutbox` has one variable: each job is absent, waiting, taken, paused, sent or over, with
its attempts and whether the present take has handed its message to the provider. It knows
no passes, locks or statements. `MailQueue` maps a row to it by its status (`OutboxState`) and
attempts, and `handed` to the row's last claim being among those that called the provider.

`row` is the `EmailJob` table with one row per idempotency key. `StartPass` to `EndPass` are
`processDueJobs`: reading the shared heartbeat, writing it (`Beat`), `recoverStaleLocks` (a
`findMany`, then a guarded `updateMany` per row), then for transactional and bulk jobs the
`findMany` of four times as many due rows as the pass may process, of which it takes those with
attempts left (`FetchDue`), and, per row, claim (compare-and-set on status and attempts), re-read,
suppression check, rendering, limit check, provider call, final update by id, and pausing of the
batch mates. `StatementFails` is an error inside the try block of `processClaimedJob`, whose catch
classifies it even after the provider accepted the message; `AbortPass` is a crash. Requests read
and later write by id.

Abstractions. Time: `lockedAt` is the number of the row's claim, its age is 0, 1
(past `processingWarningMs`) or 2 (past `processingStaleMs`) and moves by `LockAges`;
schedule, idempotency window and limit windows are flags that actions flip; the day
and month limits are one window. Without `SlowSends` a lock does not age while its
pass lives, which is the normal case: a send takes seconds, the thresholds are
minutes. Rows that fill a batch are chosen freely. Left out: payload, templates,
errors kept in the row, unsubscribe tokens, `ensureReadyForQueue`, `lockedBy`, a job
whose type changes when it is refreshed. `retryJobs` is several retries. A refresh writes
recipient, batch and `maxAttempts` again, as they were: each key is made of its recipient or of
the link it mails, and of its campaign, and no caller of `queueTransactional` or `queueBulk` sets
`maxAttempts`. Rows stay: the deletion of the rows of an erased account
(`data-deletion/data-deletion-execution.service.ts:434`) is not a step here. A pass that works on
a deleted row fails at its update by id, as in `AbortPass`.

### MailWebhook

`event` is the `EmailProviderEvent` table, unique per `svix-id`. A delivery inserts the
event's row (`InsertEvent`) or finds it and answers success at once (`FindDuplicate`),
upserts the suppression (`SuppressRecipient`), updates the job's rows by
`providerMessageId` (`ApplyEvent`), which match none before the worker has stored it
(`WorkerRecords`), and marks the event (`MarkProcessed`). `DeliveryFails` is a crash, a
failed statement or a lost answer; the provider repeats whatever was not acknowledged.
Left out: the signature, events that name no message or recipient, and types without effect.

### LoginTokens and AccountAccess

`LoginTokens` has two variables: the tokens of each login that work, and those handed out so
far. A login begins with one token, exchanges it for a fresh one, or ends.

`AccountAccess` maps to it by `valid` (the live sessions that descend from a login's first) and
`handedOut` (the ids of all rows). One account; every statement filters on one user, so accounts
do not interact. PostgreSQL runs at READ COMMITTED: `SessionLocked`, `LinkLocked` and `UserLocked`
say which rows an open transaction has updated; an update of many rows takes the rows it finds
(`snap`), waits for their locks and leaves out those that no longer match. Uncommitted updates are
invisible. The statuses are grouped (three pending ones as one, the blocked ones as one). A
refresh token whose signature or user is wrong, and a wrong token of a link, change nothing and
are left out; one whose hash is not that of the session revokes them all (`RefreshReads`). Expiry
is a flag, read with the same clock as the guard that repeats it. A transaction that sets a
password or a status is as many steps as it has statements: `ConsumeLink`, `SetUser`,
`StartRevoking` (the sessions that its `updateMany` finds), and the commit.

### AuthThrottle

`row` is one `AuthRateLimit` row. `CheckReads`/`CheckClears` are `assertNotBlocked`,
`CompareWrong` and `CompareRight` what login does with the password (the right password of an
account that is not ACTIVE counts as a failure, `auth/auth.service.ts:66`), `FailureExpires`,
`FailureCounts` and `FailureBlocks` the three statements of `recordFailure`, `Reset` is `clear`.
The window and the block are flags that time sets and clears; a block is at least as long as the
window, as configured by default. `tries` counts the wrong passwords compared since the row was
last deleted.

### RefreshFlight

The tabs of one browser share the cookie (`cookie`) and have each a `memoryAccessToken`
and a `refreshPromise` (`src/src/app/lib/api/http.ts`). A call that is denied begins a
refresh or awaits the one in flight; its outcome reaches all who wait, who call again once
(`again`, whose 401 is final) or fail. The server rotates the live token, and revokes every
session when it sees one that was rotated before. An answer may be lost while the request
still reaches the server (`RefreshGivenUp`, `ServerSeesOrphan`), the server may turn the
refresh away, a tab may be reloaded. Left out: the logout, demo mode, the pages.

### BackupCatalog and Backups

`BackupCatalog` has one variable: each entry is absent, running, completed, failed or
retired, and only an entry that has ended and is not the newest completed one may be
retired. `Backups` has the rows, files, lock and tasks. A tick computes that a run is
due, tries the lock, looks for recent runs, makes a run (row, artifact, completion,
audit; the manifest's `createdAt` and the row's `completedAt` are taken in different steps),
releases the lock and applies retention; an administrator's request runs,
deletes, protects, unprotects or lists. The advisory lock belongs to a connection, is
re-entrant there, and each query runs on any connection of the process's pool
(`TryLock`, `Release`, `ConnectionCloses`). The refinement maps a row to the state
that its status and `deletedAt` show.

Abstractions. Artifacts on the local disk, not S3. The schedule is a sequence of
scheduled times; settings are fixed and enabled. Moments that the code writes down are different
milliseconds of one clock, although anything may happen between them; two equal ones are in Known
races. When a backup fails, its artifact may stay, for an error of deleting it is swallowed.
Retention's limits of 500 rows read and 50 handled per round are not reached; the
order of handling within one retention is open. The lookup of the settings and the
check of the due state are one step, as are the listing of artifacts and the lookup
of their names. Age is a flag that `GetsOld` sets. Validation and download change
nothing that the properties see and are left out.

### DataDeletion

`request` and `exec` are the two tables, with one execution per request (unique index).
Every update is by id after a check in an earlier statement: `DecideReads`/`DecideWrites`
(cancel, approve, deny), `PlanReads`/`PlanCreates`, `DryRunReads` to `DryRunEnds`,
`VerifyReads`/`VerifyWrites`, and the attempt: `AttemptConfirms`, `AttemptReads`,
`AttemptChecks` (the backup), `AttemptStarts`, the erasing steps, `AttemptEnds`. No
transaction spans the erasure; `EraseThrows` is a statement that fails, `RequestDies` a crash.
`UserActs` is the user, and the administrators who act on the user, going on meanwhile, after the
erasure too. `anonymous` says that `executeUserAnonymization` has overwritten the row: an
administrator may set its status again (`admin/admin-users.service.ts:408`), but nothing writes
the name and the address back.

Abstractions. The erasing statements are grouped by what they look the rows up by: the
address (mail jobs), the profile (profile, enrollments, memberships, subjects), the user
id (sessions, links, notifications, uploads). The simulation of the dry run, notifications
and audit records are left out; the deletion worker is disabled in the code.

### Submissions

`upload` is `PendingUpload`, `object` the store, `sub` the `Submission` rows with their file rows.
A place is an activity with the student or group that submits; partial unique indexes allow one
row each. `UploadPuts`/`UploadRecords`; `SubmitResolves`, `SubmitChecks`, `SubmitFinds`, then
`SubmitCreates` or the two statements of the transaction that matter to others, `SubmitReplaces`
and `SubmitCommits`, or `SubmitFails`; `ReviewReads`/`ReviewWrites`; `AdminCreates`,
`AdminUpdates`, `DeleteReads`/`DeleteCommits`; `RemoveReads`, `RemoveMarks`, `RemoveUnlinks` are
`FilesService.remove`, and `PurgeReads` the same by an administrator for an object that no file
row lists.

Abstractions. The late flag of an upload is its expiry; the status a submission gets
(SUBMITTED or LATE) is chosen, since due dates are not modelled; grade, feedback, event log
and notifications are left out. `cleanupExpiredPendingUploads` has no caller.

### SubjectGroups

`subject` is the row with `groupEnabled` and the sizes, `group` and `member` the two tables (one
membership per student and subject). `CreateReads`/`CreateInserts`; `JoinReads`, `JoinLocks`
(`pg_advisory_xact_lock`), `JoinChecks` and `JoinCounts` (the reads under it), `JoinCommits`;
`ApproveReads`/`ApproveWrites` (approve and unlock), `LockGroup`, `AssignReads`/`AssignWrites`,
`RemoveReads`/`RemoveWrites`, `RestrictReads`/`RestrictWrites`. Teachers and administrators have
the same statements. Left out: `isOpen` (`enabled` stands for both flags), sections, invite codes,
the status CLOSED, which no code sets.

## What is checked

`tlc -config <run>.cfg <module>` in this directory. All instances are exhaustive; no
state constraint is used except the restriction of requests in `MCAccountAccess`, and
every bound is a guard named in `CONSTANTS`.

| Run | Instance | Shows |
|---|---|---|
| `MailTimely` | 2 passes, 2 bulk jobs of one batch to one recipient, 2 attempts, daily and minute limit 1, 3 requests (create, archive, bounce), 1 fault | `ExclusiveProcessing`, `NoStrandedJob` and their inductive form `ClaimInv`; `SendBudget`, `ArchivedIsFinal`, `SentIsFinal`; `ImplementsOutbox` |
| `MailSlow` | 2 passes whose claims outlive the thresholds, 1 bulk job, 3 requests (create, refresh, retry, suppress) | `SendBudget` (the calls of older claims included), `SuppressedNeverMailed` |
| `MailLimits` | 2 passes, 3 bulk jobs of one batch, daily limit 1, 4 requests (create, resume, retry) | `TypeOK` (attempts never negative), `LimitOvershoot` |
| `MailLive` | 2 passes, 1 job, 2 faults, 2 requests (create, cancel) | `EveryJobSettles` |
| `MailPaused` | 1 pass, 2 transactional jobs, limits of 1 per minute and 3 per day, so that every pause is for the minute | violated: `PausedRetriesItself` |
| `AccountSessions` | 2 requests, 3 sessions, 2 links, 2 changes; parts `sessions` and `links` | `TypeOK`, `RotationInv`, `OneLivePerLogin`; `LinkUsedOnce`, `GoodLinksOnly`; `ImplementsLogins` |
| `AccountReset` | 1 request, 2 links | violated: `ResetLinkWorks` |
| `People` | 3 logins with limit 3 and 2 deaths; 3 calls of the only tab, 4 tokens, 1 trouble; 2 bounces and a delivery, 2 handlers; 1 group, 3 students, 2 requests of all kinds; 2 groups, 2 students at a time, 3 requests (create, join, remove) | `GuessBound`; `SignedIn`; `AppliedOnce`, `TakesEffect`; `JoinInv`, `GrowsWithinLimit`, `LeadersAgree`; the types of all parts |
| `Records` | 2 requests, 2 places, 2 uploads, 2 submissions; 2 requests on 1 user with 1 deletion request, 2 backups | `UploadUsedOnce`, `ListedIsStored`; `ErasureAuthorised`, `CompletedIsErased`; the types of both parts |
| `BackupList` | 1 tick with one connection, 1 request of any kind, 2 runs and their legacy rows, 1 failure | `TypeOK`, `NewestSurvives`, `RetireInv`, `ImplementsCatalog` |
| `BackupLive` | 2 workers, 3 runs, 2 scheduled times, 2 failures or crashes | `NoOverlap`, `SlotAttempted` |
| `BackupArtifact` | 1 tick, 2 requests (run, delete, list), 3 runs | violated: `NewestHasArtifact` |

Why the bounds are enough. Nearly every race here is between two processes that read and write one
row, so two passes, requests, handlers or ticks meet in every order; a third appears where a
property counts (three logins around the limit, three calls for one refresh and those who join it
late, three students for a limit of two, three sessions for two refreshes of one). `MaxAttempts =
2` has a first, a last and an exceeded attempt. Two changes of an account (`MaxEpochs`) and two
scheduled times (`MaxSlots`) have what comes before, between and after. The connections of a pool
matter to the lock alone, so `BackupList` has one; `BackupArtifact` has two, and the proofs any
number. Each property was confirmed to fail in its run under a plausible bug (`mutants`). For the
safety properties the proofs below drop the bounds.

Symmetry is used on identifiers only, and never in a run with a liveness property.
Deadlock is checked for the mail queue, whose timer always goes on. The other runs have
`CHECK_DEADLOCK FALSE`: these components move by requests or by a clock that the instance
bounds, and with every id used and every bound reached they rest, as the system does
when nobody calls it.

### Fairness

- `MailQueue!FairSpec`: `setInterval` starts passes forever and a live pass's
  statements return (`mail.worker.ts:104`); schedules and limit windows pass; a lock
  without a live pass grows old. Nothing is assumed of the heartbeat's age, of
  requests or of faults, which `MaxFaults` bounds: if every pass crashed, nothing
  would settle. `EveryJobSettles` is claimed for a queue whose jobs are not refreshed
  or retried by hand: see Known races for what happens otherwise.
- `Backups!FairSpec`: the worker's timer fires and statements return
  (`backup-worker.service.ts:21`), and a row left RUNNING leaves the window of two
  hours (`backups.service.ts:290`). Nothing is assumed of requests.

The other modules state no fairness: they are moved by requests, which nothing repeats.

## What is proved

The proofs are for every value of the constants that satisfies the module's
assumptions: any number of jobs, passes, requests, sessions, links, runs, ticks,
connections, students, groups, uploads, logins, deliveries, events, calls and backups, and
any limits. Every safety invariant and every safe action property of a passing run is proved.

- The type invariants of every component (`TypeCorrect` in each proof module, `ThrottleTypes`
  and `WebhookTypes`). They
  include facts about control: attempts never go below zero, a pass has a job exactly
  while it works on one, a call that waits does so for a refresh in flight.
- `ExclusiveClaims`, `NothingStranded`, `ClaimsInOrder` (mail). Whether a second pass can
  take a job depends on what recovery has in its list. `ClaimInv` adds that a
  held job is not up for claiming and its lock is the holder's own and young
  (`LockHeld`), that a lock about to be recovered is old, or no longer the same
  (`ScanIsCurrent`), and that a holder knows at least as many attempts as the row has
  (`SnapIsCurrent`). All of it holds only for a queue whose claims are timely and whose
  rows no request resets (`Disciplined`); `LocksInOrder` holds always.
- `SendsAreBounded` (mail). The provider is called by a claim, each claim calls at most once,
  and `BudgetInv` ties the claims to the row. A request that resets a row may find passes
  at work on it, with claims that are older than the reset: each of them may still call the
  provider once, on top of the new attempts (`LateCalls`). Without limits `attempts` counts the
  newer claims, and a job planned to be claimed had attempts left when it was
  planned, which the claim checks again. A pause for a limit takes an attempt back; then
  `Frugal` does the work: a row has as many attempts as calls, and one more while the pass
  at work has not sent, so the attempt that is given back is that of a claim which made no
  call. That takes the exclusiveness of claims, and holds while they are timely and no
  request resets a row (`Disciplined`). With limits and late claims together the bound is
  false: a pass paused by a limit takes back the attempt of the pass that took the
  job over. The lemma `RowSteps` says what a step may do to a row, and the other proofs
  use it too.
- `SuppressionIsRespected` (mail). The check and the send are two steps. `SuppressionInv` says
  that a pass between them works under a claim that is no newer than the suppression, so
  a later claim, by whatever retry, meets the check.
- `OvershootIsBounded` (mail). The check counts what was sent today, not what is about to be.
  `OvershootInv` counts both: the messages of today and the passes past their check are
  at most `DayLimit + |Passes| - 1`, because the last pass that was let through saw fewer
  than `DayLimit` sent. It takes a finite number of passes.
- `ArchivedRowsAreFinal`, `SentJobsStaySent` (mail). `FinalInv` adds that a row about to be
  archived was final when it was read, that a held row is PROCESSING or paused, and that a
  bounce names a message that was sent. Both hold under `Undisturbed`: claims that are
  timely, and nobody who refreshes, retries, resumes or cancels, which all revive or
  overwrite a row on purpose or by an update after an old read (Known races).
- `OutboxIsImplemented` (mail): under the same conditions every step of `MailQueue` does to each
  job what `MailOutbox` says, or nothing. `OutboxInv` adds what a pass at work knows (`Holding`):
  its claim is the job's last one, the row is as claimed until the outcome is written, and whether
  the message has been handed over yet. A queue that is disturbed does not implement the outbox: a
  retry by hand puts a row back under the pass that works on it (Known races).
- `OneLiveSession`, `RotationIsExclusive` (accounts). `RotationInv` adds that a refresh
  works on a session that exists, that a transaction which has consumed a session is the
  only one and finds it live until it commits, and that a login's first session exists, so
  a new login cannot take its name.
- `LoginsAreImplemented` (accounts): every step of `AccountAccess` is a step of `LoginTokens` or
  changes nothing in it. A committed rotation is an exchange, because it finds its session
  live and the only one of its login; `createRefreshSession` opens a login under a fresh id;
  every other step at most revokes (`Fades`), which ends logins, since a login has one
  live session or none. `SpentTokensStaySpent` says that a spent token never works again, and
  follows from the refinement: no step makes a token work that was handed out before.
- `ServerKeepsLogins` (browser): what the server does in `RefreshFlight`, orphaned refreshes
  included, is allowed by `LoginTokens` too. It needs only the type invariant.
- `GuessesAreBounded` (throttle). `GuessInv` counts the wrong passwords of an account: those
  compared are at most the attempts in the row, the requests that have compared and not yet
  counted, and the requests that died in between. While the row is open, at most
  `Limit - 1` are in the row; once it is closed no request starts to compare, and
  the bound is what was under way.
- `EventsApplyOnce`, `EventsTakeEffect` (webhook). `EventInv`: the unique row of an event makes the
  delivery that inserted it the only one at work on it, and it has not applied it before
  its update. An event whose row is there was applied, is being worked on, or was
  excused: the delivery failed after the insert, or matched no job (Known races).
- `LinkWorksOnce` (accounts). A transaction that has consumed a link holds the lock of the
  user's row, so it is the only one, and the link stays unused until it commits (`LinkInv`).
- `LinksSetWhileGood` (accounts): by the same invariant a link that sets a password is neither
  spent nor revoked at that moment, so the guard of the `updateMany` makes up for the reading
  that `resolveValidRecord` made before.
- `NewestIsSafe`, `RetirementIsSafe` (backups): a successful backup is retired only while a
  newer successful one stays listed. What a task read may be old when it writes; the proof
  needs that it never becomes wrong. `RetireInv` says that a row about to be retired
  had ended and is outlived by a newer successful one, retired or not; `NewestSurvives`
  itself then leads from a retired one to a listed one. A run is written by one task
  only, and only while it is RUNNING, so success is for good. This needs the assumption
  `"audit" \notin Faults`: when the audit of a completed backup fails, the code marks the
  row FAILED although it was successful (`backups.service.ts:229-245`), and what was
  retired for its sake stays retired. These two theorems and the next one state the assumption.
- `CatalogIsImplemented` (backups): every step of `Backups` is a step of
  `BackupCatalog` or changes nothing in it. Most steps are quiet. For the others the proof
  needs that a completion gets a time which no other row has, whoever writes it: by assumption
  the Dates of the code differ, and `StampInv` keeps track of which of them are in artifacts, in
  tasks that are about to write them, and in rows. That the retired row is not the newest completed
  one comes from `RetireInv` and `NewestSurvives`.
- `RunsDoNotOverlap` (backups): never two automatic runs at once. `OverlapInv` says that a tick
  between the lock and its release holds it by a connection of its own process, and that
  what it found about recent runs is still right when it creates its row. Ticks may
  crash. The theorem assumes that the processes have pools of their own and one tick each
  (`OneTickPerWorker`; the timer does not wait for a slow tick, and two ticks of one process can
  both get the re-entrant lock), that no lock statement fails (the code takes an error for
  success), and that no connection is lost (the lock goes with it, the run goes on). Without any
  one of them TLC finds an overlap: Known races.
- `JoinsAreSafe`, `LimitHolds` (groups): `JoinInv` says that the advisory lock keeps two joins
  of a group apart, and that what a join counted is at least what there is, because
  removals, which do not take the lock, only lower it. The cardinalities are those of
  finite sets of students of any size.
- `LeadersLead` (groups): `LeaderInv` adds that who is in no group has no role.
- `ErasureIsAuthorised`, `CompletionIsTrue` (data deletion). The inductive invariant has what each
  request knows when it writes (`Knows`): that the request it works on was approved at some time,
  that the backup it holds had been completed, that the profile it has passed is gone, that the
  user it has passed is anonymous. None of it is undone by anybody (`Monotone`): approvals are
  remembered, a backup that was completed, retired or failed since, still was, no profile comes
  back. Whether the backup can still be restored is another matter (Known races).
- `UploadsAreUsedOnce`, `ListedFilesAreStored` (submissions). `Consumers`: the uploads of
  a submission are CONSUMED by it, and by no other. `PendingIsKept`: an object is there as
  long as its upload may be attached. `RemoveOf`: a file whose object is about to be deleted is
  marked, or its row is gone, and no transaction will list it again, since its upload is
  consumed. Each step leaves alone what the other requests know (`Keeps`).
- `StaysSignedIn` (browser), for one tab (`OneTab`) and any number of calls. `SingleFlight`:
  the refresh of a tab is the one it awaits, and the only one in flight. `Alive`: as long as
  every refresh was answered, the one in flight has the live token, or the one that replaced it.
  The types are proved for any number of tabs; with two the property is false (Known races).

Only model-checked:

- liveness (`EveryJobSettles`, `SlotAttempted`): the prover handles neither fairness nor ENABLED;
- `PeopleTypeOK` and `RecordsTypeOK`, which are conjunctions of the components' type invariants,
  each of them proved in its module.

No module declares a recursive operator.

## What the documents say and the code does not do

Three runs show it; `PROJECT.json` has the quotations.

- `MailPaused`: of a job paused by rate limiting the API says that it retries automatically when
  the limit window clears (`mail/mail.service.ts:970`; for daily and monthly limits it says
  something else). The worker never claims a paused row.
- `AccountReset`: the runbook says that an active account uses a password reset. A
  reset link of an active account is issued and then rejected.
- `BackupArtifact`: the runbook says that the latest successful backup cannot be
  deleted. Its artifact can, through the second row that a listing makes of it while
  its run is about to complete.

No run shows these two, which can be read off the code:

- `src/guidelines/phase5-group-state-machine.md:9-10` says that a created group is pending and that
  a valid join makes a pending one active. Both depend on the minimal size
  (`repositories/subject.repository.ts:47-50`): with a minimum of 1 a created group is ACTIVE, and
  a join that does not reach the minimum leaves it PENDING.
- `src/docs/design/data-deletion-execution-restore-runbook.md:247` says that the backup must be
  restorable before any irreversible step. What the code checks is that its row is COMPLETED and
  listed, once, before the erasure (`data-deletion-execution.service.ts:295`).

### Known races

Seen while modelling. Most are in the models, as behaviours that no property excludes.

Mail, accounts, browser:

- `cancelJob` reads QUEUED and updates by id (`mail/mail.service.ts:498`): a job sent in
  between ends CANCELLED with its `sentAt` set.
- `retryJob` reads a failed job and resets it by id (`mail/mail.service.ts:628`): a job that was
  claimed in between is queued again while the pass that claimed it sends it, which comes on top
  of the new attempts.
- A pass that outlives its lock writes its outcome by id (`mail/mail.worker.ts:398`): it
  can leave FAILED with no attempts left, and no pass claims the job again.
- Such a pass, when it meets a send limit, writes back the attempts it read less one
  (`mail/mail.worker.ts:555`): the attempt of the pass that took the job over is undone, and the
  job can be sent more than `maxAttempts` times.
- A webhook event whose handler fails after the insert of its row is lost: the repetition
  is a duplicate (`mail/mail.webhook.service.ts:57`). So is one that arrives before the worker
  has stored the message's id.
- Whatever revokes the sessions of an account revokes those that its update finds
  (`auth/auth-session.service.ts:176`, `auth/auth.service.ts:164`): a successor that a refresh
  commits meanwhile stays live, after a reuse, a new password or a deactivation.
- A login that compared the old password, or found the account ACTIVE, creates its session
  after the change has revoked the others (`auth/auth.service.ts:72`).
- `changePassword` sets the password in one statement and revokes in the next
  (`profile/profile.service.ts:145`): a crash in between leaves all sessions.
- A failure that arrives late, or a success, deletes a row that is blocked already
  (`auth/auth-throttle.service.ts:78`, `115`).
- Two tabs refresh with the same cookie; the second use is taken for theft and ends every
  session (`src/src/app/lib/api/http.ts:136-142`; `src/SECURITY_NOTES.md:49` speaks of the
  calls of one tab). Any answer but success, the rate limit's too, ends the tab's session.
- A logout while a refresh is in flight leaves the rotated session live.

Backups, deletion:

- A tick computes that a run is due before it takes the lock and does not look again
  (`backups/backups.service.ts:270`): two runs, one after the other, for one time.
- An error of the statement that takes the lock counts as success (`backups.service.ts:965`); two
  ticks of one process may share its re-entrant lock; and a lost connection frees it while
  the run goes on. In each case two runs overlap, if neither sees the row of the other.
- The unlock may run on another connection than the lock (`backups.service.ts:974`):
  later ticks are turned away although nobody makes a backup.
- Retention and `delete` retire by id what they read as unprotected
  (`backup-retention.service.ts:55`): a backup protected in between is retired.
- Two runs completed in the same millisecond tie for the newest (`backups.service.ts:546-551`
  orders by `completedAt` only), and each may be taken for it.
- Retention looks at the age of failed runs only (`backup-retention.service.ts:41-45`).
- Two requests of one user may both be pending (`data-deletion/data-deletion.service.ts:52`), and a
  decision overwrites another one that was taken meanwhile (`:130`, `:186`).
- Attempts overlap, and `verifyBackup` takes an execution in any status, a completed one too
  (`data-deletion-execution.service.ts:216`): it may be executed again, with the anonymized
  address. A dry run that ends late sets the status back.
- The linked backup is not protected from retention; it may be retired, and its artifact removed,
  at any time after the check (`:295`). A newer one stays listed then, but it may have been made
  after the erasure, and its artifact may be gone too (`BackupArtifact`). If the audit record of
  the linked backup fails after the check, its row turns FAILED and its artifact is removed
  (`backups/backups.service.ts:229-245`).
- Sessions and mail that appear during the erasure survive it. Uploads lose their rows while
  the objects stay. A crash leaves EXECUTION_STARTED, which no request accepts.

Groups, submissions:

- Two removals that read the same members leave a group empty, or led by a student who was
  removed (`subjects/subject-groups.service.ts:236`); an assignment does the latter too, and so does
  the deletion of an account.
- A join or a removal that read PENDING or ACTIVE writes its status over a lock
  (`guidelines/phase5-group-state-machine.md:11`); approve sets ACTIVE on an old count;
  two changes of the restrictions lose one.
- A resubmission whose check came before a grade overwrites the grade's status, and a review
  that of a resubmission (`submissions/submissions.service.ts:214`, `:312`).
- Two resubmissions at once keep the files of both; a deletion of the row that races a
  resubmission loses its files' rows.
- `deleteSubmission` calls `remove` without an actor, which is refused: a submission with
  files cannot be deleted (`admin/admin-submissions.service.ts`).
- The browser offers review actions that the server rejects: a submission that needs revision can
  be graded and marked reviewed by `getReviewActionState`
  (`src/src/app/lib/submissionRules.ts:49-56`) and by no transition of
  `submissions/submission-lifecycle.ts:29-43`.

Academic structure (not modelled, see below):

- Two activations at once leave two ACTIVE years: neither transaction sees the other's
  (`repositories/academic-structure.repository.ts:447-556`).
- `deleteAcademicYear` (`:558`) deletes sections and levels before the year, in separate
  statements; a year that has courses is then refused by their foreign key, and stays without
  its sections. A student moved into a section between the count and the delete loses it.
- `moveStudents` (`:1510`) reads which students it moves before its transaction, which moves the
  profiles of all that are in the section by then, but the enrollments of those it read.
- Every listing runs `syncLegacyAcademicYearLevels` (`:230`), which writes the year and level
  it read by id: it may set a student back who was moved meanwhile.

## Not modelled

- Academic structure: its operations have no invariant over several rows to check. The agreement
  of a student's section with the enrollments is broken by an administrator's update of the
  profile without any race, "one active year" by two requests, and the rest is single rows.
- Providers, templates, S3, cryptography, cookies, guards and access policies: external calls, or
  functions of one argument that keep nothing. Where a policy guards a modelled operation,
  its condition is in the action's guard.
- Notifications, announcements, calendar, settings, branding, audit log, health, reports,
  configuration: single statements that no other state depends on, or reads.
- System tools (preview, cleanup of seed data, import of backups): run by hand in maintenance.
- Creating, importing, archiving and deleting accounts; profile data and avatars.
- The pages and the API client of the frontend: most of the repository's lines are React
  components, forms, tables and the types of requests and responses. They keep state of one
  user's screen and send requests that the models take as free choices, which is why the
  mapped lines are a small share of all lines.
- Deployment and test scripts.

## Plan

Done: the modules above, in this order: `MailQueue`, `AccountAccess`, `BackupCatalog`, `Backups`,
`DataDeletion`, `Submissions`, `SubjectGroups`, `MailWebhook`, `AuthThrottle`, `RefreshFlight`,
`MailOutbox`, `LoginTokens`.

Next, if the code changes or more is wanted:

1. the logout in `RefreshFlight`, and events that name no message in `MailWebhook`;
2. liveness of a refresh (whoever waits is answered), under fairness of the timeout;
3. the academic structure, once activation and deletion are transactions with a lock.
