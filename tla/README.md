# TLA+ models of NamelessUnSee

NamelessUnSee shares images and videos that every viewer receives as a copy of
their own, watermarked with their identity. Uploads expire by time or by number
of views, can be shared through limited recipient links, and every view is
logged. The server is a Node process over SQLite or Cloudflare D1, a temp
directory, an object store, child processes of ffmpeg and, if configured, Redis.
It has no locks: every `await` is a place where another request, a timer or a
callback runs. These modules are about what then goes wrong, or does not.

Paths are relative to the server's `src/` (`src/src/` in `PROJECT.json`).

## Inventory

| Component | State | Operations | What is hard | What makes it correct |
|---|---|---|---|---|
| View pipeline: `routes/view.js`, `logging.js` | rows of `images`, `view_links`, `access_logs`; the locals of each request | page, render, telemetry | ten awaits between the first read and the answer; replays decided by a row another request writes; swallowed errors | uses and views are neither lost nor exceeded; the timer starts once; closed images stay closed |
| Encoder: `watermark.js` | `activeEncodes`, `encodeQueue`, `hwChoice` | acquire, release, hardware attempt, software retry | a retry re-enters the queue; one catch for every failure; arguments older than the state they rest on | exact slot count, no idle slot, everybody answered |
| Render cache: `render-cache.js` | `entries`, `totalBytes`, files | get, put, sweep | awaited renames, unlinks nobody waits for, a sweep that races both, restarts | total covers the entries, bounded overrun, no leak, no stuck key |
| Chunked upload: `chunked-upload.js`, `routes/upload.js` | sessions in memory, staged files | init, chunk, complete, sweep | concurrent and retried writes, discards during completions, files that outlive sessions | declared size held, whole assemblies, no orphans |
| Upload pipeline: `routes/upload.js`, `storage.js` | temp files, objects, `images`, quota | probe, normalise, scan, store, insert, undo | quota read before it is used, half-done batches | quota held, rows and media agree |
| Retention: `server.js`, `access-log.js`, `user-deletion.js` | `deleted_at`, logs, reports | maintenance, erasure, account deletion | open reports hold a log back; counted before the batch; foreign keys | evidence outlives the media as long as promised |
| Moderation: `moderation.js`, `nsfw.js`, `routes/review.js` | `moderation_status`, blocklist of hashes | scan, flag, allow, deny, blocklist | decisions by id on a row read before; a list that changes during scans | what was denied or blocked is not shown |
| Reports: `routes/reports.js` | `leak_reports` | report an image or a log row, decide | duplicate reports, erased logs | one report per log row |
| Galleries: `routes/galleries.js` | `galleries`, `gallery_items` | create, edit, delete, show | item by item or one batch | the list last asked for, filtered |
| Bans: `bans.js` | rows, and an index in memory | add, remove, sweep, lookup | loads that overtake each other | who is banned is refused, who is not is admitted |
| Accounts: `routes/account.js`, `auth.js`, `twofa.js` | users, sessions, two kinds of challenge | signup, login, second factor, recovery, changes | challenges read, checked and deleted in separate statements | one code, one session; bounded guesses; a new password ends old sessions |
| Administration: `routes/admin.js`, `audit.js` | users, bans, reports | approve, reject, override, ban, delete | two administrators at once | as for bans, retention and reports |
| Rate limiting: `ratelimit.js` | counters in Redis or memory | hit | four commands, each may fail; windows out of phase | nobody is locked out for ever; Retry-After is true |
| Network intelligence: `netlists.js`, `geoip.js`, `email-domains.js`, `util/fetch-cache.js` | lists in memory, files, validators | refresh, classify | several writes per fetch, several sources per list | a failed refresh keeps the old list, a later one catches up |
| ALTCHA and consent, ranks, database, notifications, helpers, browser code | - | - | - | see "Not modelled" |

They interact like this. The upload routes call the encoder (normalisation),
moderation, storage and the database. The render handler reads rows, asks the
network intelligence, logs, looks into the render cache, and on a miss
materialises the media and calls the encoder; then it accounts for the view and
offers the render to the cache. Every route passes the rate limiter, and every
request with a session the index of bans. Maintenance deletes expired images, old
logs, sessions and bans every ten minutes; the cache sweeps every five, the chunk
store every fifteen, the datasets refresh every few hours. Every change to shared
rows is a single SQL statement or a `batch()`.

What all models take from the database: a statement is atomic and a batch is a
transaction; foreign keys are enforced (sessions, challenges, recoveries, reports
and galleries end with their user, log entries, reports and gallery items with their image,
`images.owner_id` becomes NULL, and a log entry that a report cites cannot be
deleted); ids are not used again.

## Modules

| Module | Models |
|---|---|
| `LinkLedger` | what a recipient link promises: grants within the limit, no first delivery without a grant, no grant once revoked |
| `ViewAccounting` | the render handler, the beacon, the owner, maintenance, errors, restarts, for one image; implements `LinkLedger` |
| `EncodeService` | what the encoder promises: a fixed number of places, a call refused exactly when all are taken, a place kept until the answer |
| `EncoderQueue` | the encoder's semaphore, bounded queue and hardware fallback; implements `EncodeService` |
| `RenderCache` | the cache's Map and total, its files, its sweep |
| `ChunkedUpload` | one upload session, its requests, its staged files, the sweep |
| `UploadPipeline` | the uploads of one user, from the received files to the answer, with deletions, the purge and the end of the account |
| `LoginChallenges` | the challenges of one account: login and deletion codes by mail or authenticator, resends, enrolment |
| `AccountRecovery` | signup, verification, recovery, changes of password and address, the sessions that rest on them |
| `AccountBans` | one account, the decisions about it, the rows that ban it, the index in memory, the requests that look it up |
| `ImageLife` | what can be relied on of an image: shown or held, then down for good, gone only without owner and views |
| `ImageEvidence` | one image, its log, the reports, every review, deletion and erasure, and the maintenance; implements `ImageLife` |
| `Exhibits` | the scan of uploads against the blocklist, its administrators, and the galleries |
| `Datasets` | the downloaded lists and databases: fetch, cache files, memory, restarts |
| `RequestLimits` | the rate limiter on Redis and in memory |
| `ViewAccountingProofs`, `EncoderQueueProofs`, `ImageEvidenceProofs`, `LoginChallengesProofs`, `AccountRecoveryProofs`, `ExhibitsProofs`, `AdmissionProofs`, `StorageProofs` | the theorems |
| `MC*` | instances for TLC |

A variable that stands for rows is a function from names to records; a handler is
a record with its location and its local variables. Every awaited call is one
action. What a comment calls "history" is not in the program.

**ViewAccounting.** `image`, `useCount`, `revoked` and `rows` are columns of the
three tables; `req[r]` is one handler. `LoadImage` and `ResolveLink` come in either
order, because a `/r/` URL resolves its link in a middleware and `?r=` after the
image; then `CheckReplay`, `LogRender`, `Render` or `RenderFails`, `ConsumeLink` or
`ConsumeNothing` (the two outcomes of one conditional UPDATE), `StartTimer`,
`BumpViews`, `SoftDelete`, `Send`. `AccountFails` is the swallowed error of
`accountView`; `Refuse` is the moderation hold, the missing bot-check cookie or a
refused network. A log row is absent, written by the beacon, or written by a render.
The link of a request (`via`) and its view id are independent of each other, as the
URL brings them: the row that makes a replay has the image and the view id only, so
that a view id rendered through one link replays through another. `logged` is history:
the request wrote the row.

**EncoderQueue.** A caller is one slot of the server's concurrency and calls again
and again. Node runs without interruption between two I/O events, so the end of
an ffmpeg process, the hand-over of its slot, the catch and the retry's request
for a slot are one action (`HardwareFails`); a waiter whose promise was resolved
is no longer in the queue and counts as running. `EncodeService` has one place for
each slot and each seat of the queue; a call keeps its place from the admission to the
answer, so that the hardware encode that fails and the retry in software are one call.

**RenderCache.** `cache` is the Map with its total: the bytes of each entry, 0 where there
is none, and the order of insertion as the set of pairs of an older and a younger
entry, so that `MakeRoom` says which entries go (those without which the new one still
does not fit) rather than how the loop takes them off; `files` and `oldFiles` are the files,
`pending` the calls of `unlink` not executed yet, per path: a rename may come while one
for the previous file of its key is still waiting. A handler is before,
or inside, the awaited rename of `put`. Time is two marks: an entry has expired,
a file is older than the ttl.

**ChunkedUpload.** `session` is the object, alive while the Map holds it. A
handler that was given the object keeps using it after a discard, as in the code;
that is why `session.bytes` may become negative on a dead session. A file is
absent, torn (opened, not completely written) or has a length. A request
`/upload/complete` with several ids appears as refusals and discards caused by
another session of the request (`CompleteChecks`, `QuotaRefuses`).

**UploadPipeline.** `image` holds the rows, `store` the objects, `temp` the copies
in the temp directory, `req[r]` one handler (`file` is the loop's position, `media` is
`mediaPath`, `undone` the loop of the catch), `account` the user and the handler of
the deletion. `fs.unlink` and `storage.remove` are rarely awaited, and their errors
are ignored; the model takes them as done at the call, so its properties say that
somebody has asked for the removal. Both handlers share the actions; they differ in
`Assemble`, in `removeStaged`, and in what an error outside the loop does: Express
answers for a chunked request, whereas the callback of multer leaves a rejection
that nobody handles, which ends the process (`Uncaught`). Written into the
properties as exceptions: an image inserted while the deletion of its account
removes the media one by one keeps its media without a row (`missed`); the images
of an account are without media for as long as that takes, and a row whose read-back
failed stays, empty (`hollow`).

**LoginChallenges.** `chal[i]` is a row of `login_challenges`, `user` what the second
factor reads of the account. A code is the number of the mail it was sent in, a TOTP
code its time step. The handlers share `Read` (with the checks of `Readable` and
`MayTry`) and end in `CreateSession`, `Send` and `Store` (a resend), or `Erase` (the
account). Enrolment is three statements of its own.

**AccountRecovery.** A password is the number of times it was changed; a session
carries the one it was opened with. A login waits for its second factor as
`sess[s].state = "login"`. `late` marks the sessions of logins whose password had been
checked when the sessions were deleted.

**AccountBans.** A handler of an administrator is the list of statements it has
still to send (`Plans`, `Decisions`). `loads` are the SELECTs under way, each with the rows
it will deliver and the handlers that await it; `Reload` forgets the promise,
`LoadFails` clears it, `Apply` replaces the index. `overtaken` marks rows applied out of
order, which D1 can do.

**ImageEvidence.** `image` is the row with its deletion and retention; `log` and
`report` are rows; a handler is named by the awaits of its route; `sweep` is the
place of `runMaintenance`. Whether `holdOnReview` is set is left open. Of `ImageLife`,
the stage is "shown" or "held" as long as the row is live (`Viewable`, the case that
nothing flagged is held, decides which), "down" once it is deleted, within the
retention window or past it, and "gone" with the row.

**Exhibits.** `image[x]` is first an upload at its scan (`Hash`, `Scan`, `Store`), or
one that is stored without (`Unscanned`: its user is trusted or an owner at that time,
or moderation is off), and then a row; `block` are the rows of the blocklist.
`standing` and `due` are history: the looks that an answered request has put on the
list, and the uploads whose scan began after that, with a hash. `writer[w]` is a request on a gallery: a creation on the dashboard adds
its items one by one (`AddItem`), an upload and an edit send a `Batch`.

**Datasets.** One behaviour is about one dataset (`kind`). A text is a version and
whether it is whole, blank or cut. `job` is the refresh, one source after the other;
a fetch is `NotModified`, `Answered`, `WriteText` and `Note`, each of which may fail or
be the last before a crash.

**RequestLimits.** `redis[k]` is a counter and its time to live, `bucket[p][k]` the
entry of the Map, `caller[r].hit[k]` the command a hit waits for. What a caller was told
(`told`) is kept only as long as nobody else touches its keys.

## Runs

All runs pass. Every property has a mutant, a plausible bug in one definition, that
its run refutes.

| Run | Shows | Instance | Distinct states |
|---|---|---|---|
| `ViewPipeline` | `LinkUsesHeld`, `ReplayWasRendered`, `LateStarterRefused`, `ViewsAccounted`, `TimerStartsOnce`, `LimitDeletes`, refinement of `LinkLedger` | two requests, each through a one-time link or the image's token, with a view id or without, max_views 1, ttl 1, a clock of three, faults | 1 187 000 |
| `EncoderQueue` | `QueueSound`, `AcceleratorCostsNothing`, `CallsAnswered`, refinement of `EncodeService` | five callers, two slots, two queue places | 16 000 |
| `RenderCache` | `BytesBounded`, `LeftoversCollected`, `LostFilesHeal` | two deliveries, two keys, renders of 2 in a budget of 5, two waiting unlinks per path, one restart | 282 000 |
| `ChunkedUpload` | `BudgetHeld`, `AssembledWhole`, `StagedFilesCollected` | two slices, two chunk requests, two completions, one restart | 104 000 |
| `UploadPipeline` | `RowsAndMediaAgree`, `OverrunBounded`, `FailedRequestUndone` | a request of two files, a chunked one of one, room for two, normalised files of 1 or 2, faults, crashes | 727 000 |
| `LoginChallenges` | `ChallengesSound`, `RedeemedOnce`, `CounterOnce` | two handlers, two challenges, one attempt, one resend, one secret, two time steps, faults | 1 029 000 |
| `AccountRecovery` | `TypeOK`, `ResetEndsSessions`, `FirstApproved` | two handlers, accounts and logins, a challenge that both may have read, two changes of a password, verification required or not, faults | 999 000 |
| `AccountBans` | `BannedRefused`, `LiftedAdmitted`, `TypeOK` | two administrators, one request, bans by user and e-mail, two loads, expiry, restarts | 2 297 000 |
| `ImageEvidence` | `RetentionProceeds`, `EvidenceKept`, `NoDuplicates`, refinement of `ImageLife` | two handlers, log entries and reports, one refused attempt kept, the maintenance | 1 506 000 |
| `Datasets` | `CatchesUp`, `ListedStaysRefused`, `ListsTypeOK` | each dataset, two sources, two versions, one crash | 194 000 |
| `RequestLimits` | `RetryAfterSuffices`, `LockoutEnds` | a patient caller on address and user, another on the address, one request per window of two ticks, restarts, a Redis that comes and goes | 363 000 |
| `Exhibits` | `BlockedLookRefused`, `GalleryAsAsked` | two images that look the same, scanned or not, two rows, one administrator, two requests on one gallery | 1 470 000 |

Why these are enough: a race for a use, a view, a slot, a key, a slice, a code, a
report or a row needs two actors and a third step that finds what they left (a
replay, the next view, a retry, a second session). `EncoderQueue` has one caller more
than fits into slots and queue, so that both refusal and the retry into a full
queue happen; the cache budget holds two renders and not three, and of the two unlinks
that may wait for one path, one can be left from the previous file when a new one is
renamed in and needs to be unlinked as well; the two chunk requests are two slices, a slice and its retry, or two that together exceed the
declared size; two upload requests fit alone and not together, and the one with two
files can fail at the second and has the first to take back; two secondary sources
are the first and the last of a round; a window of two ticks lets two windows be out of
phase. The other numbers, named as bounds where the constants are declared, keep
the state space finite: names of rows are used again when no handler holds them.

The deadlock check is off where the system may stop: an upload ends, a bounded number
of requests or of changes is used up (`ChunkedUpload`, `UploadPipeline`,
`LoginChallenges`, `AccountRecovery`, `AccountBans`). Symmetry is used in runs without
liveness only, over names that no property tells apart.

## Fairness

* `ViewAccounting`: weak fairness of each request's own steps; an awaited call comes
  back with a result or an error. Nobody has to make a request, revoke, delete, or
  let time pass. `LimitDeletes` excludes accountings that a database error or a
  restart cut short, and `ViewsAccounted` says what makes up for those.
* `EncoderQueue`: weak fairness of the end of each ffmpeg process, which is killed
  after `timeoutSec`. Callers need not call. `CallsAnswered` needs at least one slot
  (`FFMPEG_MAX_CONCURRENT=0` is not clamped in `config.js`).
* `RenderCache`: the five-minute timer, the clock and pending unlinks. Deliveries
  need not progress.
* `ChunkedUpload`: the clock, the fifteen-minute timer and pending unlinks. Requests
  need not progress.
* `Datasets`: refreshes begin again and again (intervals). Strong fairness of an answer of
  each source and of the two writes: publisher, network and disk may fail any number
  of times, but not for ever. `CatchesUp` begins when nothing new is published.
* `RequestLimits`: time passes. That callers come and that Redis answers them is the
  premise of `LockoutEnds`.
* The other models have no liveness property and assume no fairness.

## Proofs

TLAPS proves the following for every value of the constants allowed by the
`ASSUME` of the component's module, that is for any number of requests, page
loads, links, limits, slots, callers, rows and challenges.

`ViewAccountingProofs`. The sets of requests and callers need not be finite: where a
property counts a set, the proof shows that set finite in every reachable state.

* `TypeCorrect`: `TypeOK` is inductive by itself.
* `ControlHolds`: the control invariant: what a request's location says about its
  link, its membership in `paid`, `counted` and `served`, and its replay flag. It is
  what the others rest on: that a request takes a use only once, for instance, is
  that a request at `consume` is not in `paid`.
* `LinkUsesBounded` and `LinkDeliveriesBounded`, with the types `LinkUsesAlwaysHeld`:
  `useCount[l]` equals the number of users, a finite set, and stays within the limit;
  needs the control invariant to know that a new user is new, so that the cardinality
  grows by one. First deliveries are a subset of the users.
* `PipelineImplementsLedger`: every step is a grant, a delivery, a revocation or a
  stutter of `LinkLedger`. The guard of a grant needs `LinkUsesBounded`.
* `TimerStartsOnceHolds`: an action property, by cases on the actions that write
  the image row.
* `LateStartersRefused`: strengthened by "a late request is done or still reading,
  and while it reads it has yet to meet the closed image or the revoked link"
  (`LateInv`), and by the facts that deletion, expiry and revocation are stable.
  Expiry is stable because the clock only grows and `TimerStartsOnce` keeps
  `expires_at`.
* `ReplaysWereRendered`: strengthened by what a row of rendered views stands for
  (`RenderedInv`): somebody with that view id wrote it in his own right (`Original`),
  through a link that he had not found exhausted. Whoever is past the reads keeps his
  link's answer and his replay flag (`ReadInv`), and a replay that writes the row again
  has one who did before it, so that whoever reads the row later finds him. Nothing
  follows about his link, which may be another one, or about his render.
* `ViewsAreAccounted`: `AccountedInv` says of each place of a handler whether it has
  timed and counted the view it is going to send, or has been cut short, and that the
  counter is the cardinality of those that counted. It needs that only finitely many
  have begun. A handler that has read a full count is about to delete the image, or
  the image is gone.

`EncoderQueueProofs`.

* `TypeCorrect`, `SlotsAreExact`, `NoIdleSlot`, together `QueueIsSound`: one inductive
  invariant joins the count, the queue (no repetition, exactly the queued callers),
  the bounds and work conservation: the hand-over keeps the count only because the
  head of the queue is a queued caller, and the retry can be refused only if the
  queue is full after the hand-over, which work conservation excludes.
* `AcceleratorIsFree`: from the same invariant, and that a waiting or running call
  has no outcome yet.
* `QueueImplementsService`: every step takes a call in, turns one away, finishes one or
  is not seen by the callers. The work is in `PlacesTaken`: the number of calls that
  are waiting or running is the number of slots in use and of seats taken, so that the
  code's two conditions (a free slot, room in the queue) amount to a free place. That a
  failed hardware encode is not seen, though its caller leaves its slot and asks again,
  needs that the retry is never refused (`NoIdleSlot`).
* `CallsAreWithin`: the promise of the service, proved of `EncodeService` alone
  (`ServiceWithin`) and carried over by the refinement.

`ImageEvidenceProofs`, for any number of handlers, log entries and reports.

* `EvidenceInvariant`: `Inv`, from which the others follow. The properties are not
  inductive: that a denied image is down needs nothing else, but that no foreign key
  refuses the maintenance needs to know that every report cites a view, and that a
  handler which is going to delete or write a row of refused attempts holds no view. So
  `Inv` says, of each place where a handler waits, what it still `Knows` of the row it has
  read there, or that it has been raced: a request between look and insertion knows that
  there is no earlier report, one between count and batch that no open report cites the
  log.
* `StaysDownHolds` and `RetentionProceedsHolds` are parts of `Inv`.
* `EvidenceImplementsLife`: every step of a handler, a visitor or the maintenance is a
  step of `ImageLife` or not seen. An Allow or a flag whose handler read the row before a denial
  or a deletion writes the status of a row that is down, never `deleted_at`; no step
  writes that back to NULL. A row goes only without owner, past its window and without
  views (`DeleteOrphans`). From `Inv` comes that a handler which writes a refused
  attempt over an earlier one does not hold a view, so that no view leaves the record
  that way.
* `DownIsFinal`: a denial and the end of the account are final, and down is down for good,
  proved of `ImageLife` alone (`LifePromises`) and carried over by the refinement.
* `EvidenceKeptHolds`: from `Inv`, by cases on the actions in which a view disappears:
  the purge, of an image that is not live by `Inv`, and the erasure.
* `NoDuplicatesHolds`: from `Knows` of a handler at its insertion.

`LoginChallengesProofs`, for any number of challenges, attempts, resends, secrets and
time steps, and a finite number of handlers.

* `TypeCorrect`: the types, with the places at which a handler holds a challenge or a
  secret, are inductive.
* `RedeemedOnceHolds`: strengthened by `Holding`: the row of a challenge in anybody's hands
  has been stored; two that hold it are not alone; whoever is past the check has
  taken the row away; a challenge that opened a session has no row, and nobody holds it
  alone. The last is what the property asks of the next session.
* `ChallengesSoundHold`: `Mailed` follows a code from the mail to the row. `Guesses` bounds
  refused guesses together with the handlers that are still checking, as a
  cardinality: the sum stays within the limit, since only a handler that read fewer
  attempts than allowed goes on to check, and a refusal turns one of the checkers into
  one of the guesses.
* `CounterOnceHolds`: `Counted`: secrets in use have been enabled, so that a new one is
  new; and unless uses overlapped, nobody past the check has a code that was used or that
  another holds (`Apart`), because the recorded counter is not behind either.

`AccountRecoveryProofs`, for any number of handlers, accounts, challenges, sessions and
changes of a password.

* `TypeCorrect`: the types and the foreign keys, which need `InsertInv`: a handler that is
  going to insert a user is the only one who knows that id.
* `ResetsEndSessions`: `PasswordInv`. A handler that has yet to end the sessions of
  an account replaced a password that the account has had, and no session is older than
  the last replacement that was answered, unless it is late. The proof found a
  mistake in an earlier form of the model, which recorded the change that was answered
  last, and not the latest: two changes by one session that overlap, of which one
  change in the run was too few to show, lowered it.
* `FirstAlone`: `FirstInv`. A handler that counted no user, while no other was about to
  insert one, is the only such handler, and nobody has been first.

`ExhibitsProofs`, for any number of images, looks, rows of the blocklist,
administrators, galleries and requests of their owner. The two halves of the module
share only the images, and so do the two halves of the invariant.

* `BlockedRefused`, of the uploads that are scanned and hashed: `ListInv` (what an answer has put on the list has a row, and what is
  about to be answered has one too) and `DueInv` (a look that stood all through a scan
  is in what the scan has read, and an image so found is not stored as "ok").
* `GalleriesAsAsked`: `StoredInv` (items refer to images that are there), `WriterInv` (one
  request at most creates a gallery) and `ShownInv` (a gallery that is being
  filled has exactly what has been added of its list up to now, as far as it is still
  there). Viewable images are among those that are there, so that nothing is said of
  the order of deletions and edits.

`AdmissionProofs` is about the three modules that refuse requests. It extends them
together, which is why `Datasets` and `RequestLimits` name their specifications `ListsSpec`
and `LimitsSpec`; for the same reason those of `ChunkedUpload` and `RenderCache`
are `SessionSpec` and `CacheSpec`.

For `AccountBans`, with any number of administrators, of requests of the account and
of loads under way. The names of the administrators' handlers and of the account's
requests are assumed to be disjoint, as both wait for loads.

* `TypeCorrect`: with `CurrentInv`: the current load is the latest and has read what is
  stored now; when the promise has been kept, all that are still under way are older,
  and count as passed.
* `BannedAreRefused`: `AnsweredInv` (every load under way has read a ban that has been
  answered, or will count as overtaken; a ban that is waited for is in all loads from
  that one on), `IndexInv` and `CoveredInv`. A load that fails takes nothing away from
  that: the next lookup begins another, which reads the row. `WaitInv`, that a
  request waits for one load and looks nothing up before it is over, is what lets
  a request go on with a promise that is no longer the current one.
* `LiftedAreAdmitted`: `CleanInv`: from the load that such a request waits for on, all have
  found no ban.

For `Datasets`, with any number of versions and crashes:

* `ListsTypeCorrect`, `ListedAreRefused`: `ListsInv`, of each source and of the refresh. What
  is in memory is not newer than the file, and the file not newer than what is published
  (`SourceInv`). A file whose version is noted is not cut, so that the answer "not modified"
  loads a whole list: a torn write has a version above the one that is noted. What a
  refresh has read of the first source is still in its file when the second is done.

For `RequestLimits`, with any processes, callers and keys, any limit and any window:

* `RetryAfterIsEnough`: `CallerInv`. As long as a refused caller relies on what it was
  told, each of its counters ends within the time it waits (`Ends`, of Redis or of the
  process's own entries, whichever the connection selects); one that has waited finds none,
  and none of its hits is over. The wait is the greatest of the resets (`GreatestIs`). Nothing
  is said of callers that were told nothing, whose counters others may have touched.

`StorageProofs` is about the three modules that keep a total of bytes.

For `UploadPipeline`, with any number of requests and of files in each, any limit, and
also infinitely many requests:

* Sums. The bytes of a user are a fold over a set. What a fold computes is proved by
  induction over the subsets of that set, put as the choice of a least counterexample
  (`WFMin` with `NatLessThanWellFounded`), which needs no theorem with an operator
  for a parameter: a sum exists and is a number (`SumExists`, `SumType`), does not
  depend on what is chosen first (`SumLess`), and grows by one for each file by which
  all do (`SumShift`).
* `RowsAgreeWithMedia` and `FailuresAreUndone`: `ItemInv`, one predicate of each file. A
  file that is ahead of its request has no row, and no media unless it is the one
  that is being inserted; a file that was taken back, or never got so far, is not both live and in
  the store; an expired row has no media; and what the deletion of the account has yet
  to remove is on its list, or is missed.
* `OverrunIsBounded`: `BoundInv`. The bytes of the rows are not what is bounded by
  induction, but the number of files that have a row or have been admitted and may yet
  get one: at most the limit, and what late requests brought. Nothing but an admission adds to
  them. When no handler is at work there is none to come, and then the quota has
  counted all there are, each with a byte at least.

For `ChunkedUpload`, with any number of slices, requests and completions, and any
declared size:

* `BudgetIsHeld`: `SessionInv`. The total is the sum of the reservations for as long as the
  session is in the Map, since a change of one reservation changes both by as much
  (`SumOfReplace`). Of a session that was discarded only that it holds no
  reservations: a handler may still subtract from its total.
* `AssembledIsWhole`: `ChunkInv` (a file that nobody is writing is missing or has the length
  that was reserved, unless a retry of another length was mixed in) and `ReadInv` (while
  a completion reads, nobody writes, and what it has read and has yet to read are together
  what was declared, if nothing is missing; or it counts as unsure).

For `RenderCache`, with any finite numbers of deliveries and keys:

* `BytesAreBounded`: `CacheInv`. The total is bounded together with the bytes of the
  renames that are under way, which have been let in and not yet added (`RenamesInv`); and
  the key of a rename has no entry unless puts of one key overlapped, so that an
  entry is added once. That eviction makes room needs the order to be total, and sums over
  a set without one part of it (`SumOfPart`, `SumsDrop`).

Model-checked only: the liveness properties (`LimitDeletes`, `CallsAnswered`,
`LeftoversCollected`, `LostFilesHeal`, `StagedFilesCollected`, `CatchesUp`, `LockoutEnds`), which
the prover cannot reach. Every other property that a run checks is a theorem.

## Seen while modelling

Where the code and its comments part, or where a property had to be stated more
weakly than one would expect. The properties above say exactly what does hold.

Views and rendering

* `routes/view.js:247`: an exhausted link "may still replay a view it already paid
  for", and "only the first render of a view id counts". The row that marks a view as
  rendered is written before the render and before the use is taken. If the render
  fails, or the race for the last use is lost, a second request with the same view
  id passes as a replay; two overlapping requests of one page load both count. And
  since a view id is not tied to a link (29, 250), one that was rendered through any
  link of the image, or without one, also replays through an exhausted link, which has
  not paid for it.
* `watermark.js:421`: the README (`README.md:287`) lets hardware encoding fall back "if
  an encode later fails". A refusal by the full queue, where no encode ran, goes
  through the same catch and disables it for the rest of the process.
* `render-cache.js:113`: replacing an entry "must release its bytes first" (94). Two
  overlapping puts of one key release nothing and add twice, until a restart.
* A crashed render leaves its files, and two renders of one image in the same
  millisecond write the same output path (`routes/view.js:302`).

Uploads

* `routes/upload.js:147`: a normalisation failure "must not lose the upload" (157). If
  the transcode succeeds and the stat or probe of its result fails, the original is
  unlinked already, and the catch unlinks the result.
* A chunked request that fails after the assembly of a file leaves it in the temp
  directory, since only the slices are discarded.
* A rejected batch of gallery items (`galleryFor`) fails an upload whose images exist
  already; on `/upload` the rejection is handled by nobody and ends the process.

Accounts

* `GET /login/2fa/email` reads the attempts and does not count its own failures.
* Two overlapping logins may record the older TOTP counter last; a second confirmation
  of one enrolment clears it. These are the exceptions of `CounterOnce`.
* A resend whose UPDATE fails is not counted, although the mail was sent.
* `routes/account.js:369` answers "Please sign up again." where a second signup is
  refused with 409 (281) while the unverified account is there.
* Two signups that overlap while there is no user are both approved as the first one:
  the exception of `FirstApproved`.

Bans and administration

* A ban on an approved account leaves its status, so that `override` returns early and
  does not lift it; `unban` lifts the ban by user only. An approval racing a rejection
  with a ban leaves an account approved and banned.
* An expired ban stays in the index until the next load, and D1 answers that arrive
  out of order can put old rows back until then.

Images, logs and reports

* Flagging a quarantined image makes it viewable without an Allow if `holdOnReview` is
  off (`moderation.js:58` says "Never served; awaits admin confirmation").
* `rejectImg` and `markPurged` stamp `deleted_at` again on a deleted row, which extends
  its retention. A viewer's report, which cites no log entry, does not hold the log back.
* Two overlapping reports on one entry, and two overlapping refused attempts, are both
  inserted: the exceptions of `NoDuplicates`.
* Uploads of trusted users and owners skip the whole scan (`routes/upload.js:170`), the
  blocklist too; `README.md:311` says that trusted users "skip NSFW scanning" (105:
  "trusted users skip scanning"). An image that an administrator has blocked can be
  uploaded again by them, as `BlockedLookRefused` excepts.
* A failure to compute either hash lets an upload pass the blocklist; `failClosed` takes
  effect only if no frame of a video could be classified. Existing images are not
  scanned again when a look is blocked. Compact (16-hex) entries are compared but can
  no longer be added.
* A gallery on the dashboard is created item by item: a failure leaves a part of it,
  and an edit that overtakes the creation ends with a mixture, as `GalleryAsAsked`
  excepts.

Limits and datasets

* Requests that are refused count as well: a caller who does not wait, on two keys whose
  windows are out of phase, may stay refused. A hit that fails in Redis after it was
  executed is counted in both stores. A rejected first connection is final until a
  restart.
* `geoip.js:123`: if the second edition throws after the first was installed, the readers
  are not opened again until an edition changes or the server restarts.
* `email-domains.js:64`: an empty list is refused for memory, but has replaced the cache
  file and its validators. An empty Tor or VPN list that is published clears the list.
* A failed write that damages a cache file may be loaded on the error path. `available`
  is true once any one list is loaded.

## Not modelled, and why

* What is drawn, encoded, encrypted or hashed, the matching of addresses to ranges, and
  the wording of pages and mails.
* SQLite and D1 beyond what is said above, and the migrations. `db.js` is loaded by
  tests only.
* ALTCHA and consent: stateless checks; the map of used challenges is checked and set in
  one turn, per process, and is lost with it.
* Ranks and limits, but for who is scanned (`Exhibits`): arithmetic on one row. The single-statement operations of the
  administration (rank, role, limits, notes) and the audit row that follows them.
* The output path of a render and leftovers of a crashed render: nothing in the
  code promises to collect them.
* Notifications: best effort, nothing depends on them.
* The classifier and the browser code: the models let both answer and send anything.

## Plan

What is left: a composition of `ViewAccounting` with the failure modes of `EncoderQueue`
and `RenderCache` (refused, swept before the send) in place of its arbitrary failures.
