# Zoomon API: models and proofs

Zoomon is a NestJS API for articles, comments and likes. Its state is in MongoDB,
Redis and BullMQ queues, and several processes of it may run at once. This directory
holds TLA+ models of the parts in which requests, retries, processes and faults
interact, the TLC configurations that check them, and proofs that TLAPS checks.
Paths below are relative to `src/`, the root of the repository; `X.service` and the
like stand for the file of that name under `src/src/`.

## 1. Inventory

| Component | State | Operations | Module |
|---|---|---|---|
| Idempotent creation (`idempotency.interceptor`, `idempotency.service`, `idempotent-service.abstract`) | Redis lock per key, with a TTL and a heartbeat; MongoDB record per key, user and operation, with a TTL; the transaction of the request | lock, find, reopen, create, run, complete, commit, catch, abort, release | `Idempotency`, `IdempotentApi` |
| Likes (`like.service`) | like documents; `likesCount` of articles and comments | like or take back, in a transaction; emits `COMMENT_LIKED` | `Engagement`, `Discussion` |
| Comments (`comment.service`) | comment documents (tree by `parentId`, `rootId`, `path`), `repliesCount`, `commentsCount` | comment, reply, patch, delete | `Engagement`, `Discussion` |
| ETags and optimistic lock (`etag`, `optimistic-lock`, `cache-with-etag` interceptors, `etag.helper`, `mongo.helper`) | `version` and `updatedAt` of documents; the copies clients hold | GET, conditional GET, PATCH and PUT with `If-Match` | `OptimisticLock` |
| Presence (`sse.service`, `app.controller`) | open event streams per process; Redis counter per user | connect, disconnect, is the user online | `Presence` |
| Notification pipeline (`event.service`, `notif.consumer`, `comment-notification.service`) | BullMQ jobs; notification documents; Redis unread counter | queue, check preferences, put off, handle, send or count | `Notifications` |
| Notifications of a user (`notification.service`, `notificationById.pipe`) | status of notification documents | read one, read all, two crons that delete | `Notifications` |
| Articles, categories, profile (`article.service`, `category.service`, `user.service`) | documents | create, patch, replace, delete | create in `Idempotency`, edits in `OptimisticLock`, counters in `Engagement`, references in `CategoryReferences` |
| Lists of articles (`article.service`, `cursor.util`) | none on the server: a signed cursor that the client sends back | first page, next page | `ArticleList` |
| Preferences (`user-preference.service`) | preferences of a user | is it a quiet hour, and until when | `QuietHours`; only its three answers in `Notifications` |
| Sign-in (`auth.service`, `otp.service`, guards) | OTP in Redis; user and preference documents; the session's user | issue, verify, cancel, sign in by password, log out | `Accounts` |
| Avatars (`user.service`, `image.consumer`, `upload.service`, `file.service`) | temporary file, job, stored variants, `avatars` of the user | upload, process | `Avatars` |
| E-mail, storage, session, CSRF, configuration, DTOs, logger, wiring | libraries' | calls of libraries and pure checks | not modelled (section 8) |

How they interact:

- A request passes the interceptors of `app.module.ts:126-162` in the order response
  (timeout), etag, optimistic lock, cache, idempotency, then the pipes, which load
  documents, then the service. Every one of these reads state that the later ones rely on.
- Article and category creation run as the `businessLogic` of `executeIdempotent`, in the
  transaction that also writes the idempotency record.
- Likes and comments increment counters of documents that other requests patch, delete and
  count the versions of; the schema's middleware counts a version for every update.
- A like of a comment emits an event in the process (`EventEmitter2`), which becomes a
  BullMQ job, which any process may take, whose handler asks Redis for the presence that
  all processes maintain and emits to the streams of its own process only.

What is hard here: handlers interleave at every `await`; MongoDB transactions conflict,
abort, or commit with an unknown outcome; a handler outlives the timeout that answered its
client; locks expire under their owners; promises are started and not awaited; a process
dies between any two steps; a job is tried again; documents are read by a guard or a pipe
and used much later. `PROJECT.json` lists the hazards at their lines.

What makes each component correct:

- Idempotent creation: a document is created at most once per record, with one exception
  that the code does not close (section 2); a replay tells the truth; a success is durable; a
  failure left nothing; one request of a key at a time; no key stays locked, with one
  exception again; every request is answered.
- Engagement: counters equal the documents they count; threads are trees; a like is
  announced; every comment and like is as if it were made in one step.
- Optimistic lock: an etag that is current names the content the client has; content is
  not overwritten unseen.
- Presence: the counter is the number of streams; who has none is offline.
- Notifications: once per event, never forgotten, received by who is there, and read stays
  read.
- Sign-in: one user per identifier, preferences for every user, an OTP that was answered is
  not accepted later, a session is that of an account verified in it.
- Lists: whoever follows the cursors sees every article that stays where it is, sees none
  twice that does not fall back, and comes to an end.
- References: an article refers to categories that exist, and loses one only by an edit or
  with the category itself.
- Avatars: what a user is shown is stored, complete, and of this user; a temporary file is
  removed by its own job only, once its avatars are saved.
- Quiet hours: one delay leads out of them, and drops nothing.

## 2. Modules

| Module | What it is |
|---|---|
| `Idempotency` | lock, record and transaction of creations |
| `IdempotentApi` | what an idempotent endpoint promises: slots that remember an executed request |
| `IdempotencyProofs` | theorems about `Idempotency` |
| `Engagement`, `EngagementProofs` | likes and comments, statement by statement; theorems |
| `Discussion` | what comments and likes promise: each is made and counted in one step |
| `OptimisticLock`, `OptimisticLockProofs` | one resource under conditional requests; theorems |
| `Presence` | event streams and counters |
| `Notifications`, `NotificationsProofs` | extends `Presence` with the queue, the handlers and reading; theorems about both |
| `Accounts`, `AccountsProofs` | sign-in by OTP or password, and the creation of users; theorems |
| `ArticleList` | pages of articles that change between them |
| `CategoryReferences`, `CategoryReferencesProofs` | articles written while categories are deleted; theorems |
| `Avatars`, `AvatarsProofs` | uploads, the image queue, the object store and the temporary disk; theorems |
| `QuietHours` | the arithmetic of quiet hours and a job that they put off |
| `PartsMC` | the instance of the last four, which share no state |
| `PartsProofs` | theorems about `ArticleList`, `QuietHours` and the composition of the four |
| `IdempotencyMC`, `EngagementMC`, `OptimisticLockMC`, `NotificationsMC`, `AccountsMC` | instances and symmetry for TLC |

A definition whose name begins like another one's and whose comment says *Mutant of* is a
plausible bug of that definition; the runs must refute it.

### Idempotency

`lock[k]` is the request whose token the key's lock holds, `beat[r]` says that r's renewal
interval runs, `record[i]` is the committed record of a key and scope (a scope is a user and
an operation), `effects` the requests whose document is committed, `txn[r]` and `staged[r]`
r's transaction. `title[r]` says whether the document of r still has the unique title or name
that it was created with, or which one of another payload it was given. `pc[r]` follows the
code:

| Action | Code |
|---|---|
| `Lock`, `Busy` | `SET NX EX` in the interceptor |
| `Invalid` | a pipe refuses the request after the lock was taken |
| `Find` | `findOne`, `validateFingerPrint`, `resolveStatus` |
| `Replay`, `Reopen`, `Create` | the three ways into `executeIdempotent` |
| `Run`, `Complete`, `Commit` | business logic, COMPLETED, `commitTransaction` |
| `Catch`, `Abort`, `Release` | FAILED, `abortTransaction`, DEL and `endSession` in `finally` |
| `LateLock` | the SET is answered after the 408 was: nobody subscribes to the handler, nor to `finalize` |
| `Retitle`, `EditProfile` | PATCH of an article, PUT or DELETE of a category; PATCH of the user |
| `Timeout`, `LockExpires`, `TtlDelete`, `NextDay`, `Crash`, `Reap` | response timeout, lock TTL, TTL index, clock, death of a process, `transactionLifetimeLimitSeconds` |

Details that matter and are kept: DEL of the lock ignores its owner; the expiry of a record
comes from the moment the process loaded its modules (`date.constant.ts`); the fingerprint
contains the whole user document, so that `EditProfile` changes it; FAILED is written in the
transaction that is then aborted; the unique index decides between concurrent inserts, either
at the insert or at the commit. `Faults` selects which faults the environment has, and
`NewTitles` to which of the titles that requests ask for a document may be renamed; it may
always lose its title to one that no request asks for, or with the document.

Two things go wrong here, and the properties say where. A 408 may be answered while the SET
of the lock is still pending (`Timeout` in `idle`). `intercept` then takes the lock and starts
the heartbeat for an observable that nobody subscribes to: no `finalize` ever stops it, and
the key stays locked until the process dies (`LateLock`, `orphan`; `LockIsFreed` excepts it).
And after a commit that was reported as an error only the unique title stops a retry from
creating the document again: once the document is renamed or deleted the retry does so, under
the record that still exists (`MayBeRepeated`; `AtMostOnce` excepts it).

### Engagement

`handler[r]` holds what r asks and the statements it still has to execute, `wrote[r]` the
documents its open transaction has written with the counters it stages. A statement conflicts
with another open transaction's write of its document, or with a write committed since the
snapshot; nothing catches this, and the transaction is aborted. `Overlap` says whether a user
may have two likes in progress: the lookup is outside the transaction and no unique index
exists, so that the counters of likes are only claimed for users who wait for their answer.

`Discussion` has no handlers, statements or transactions, and keeps of a comment its article
and the path from its root. `Posts` is its view of the comment documents; counters, likes,
events and moderation are mapped to themselves. It lets a comment be added to a withdrawn
article or a deleted parent, as the code does when these go between the pipe and the
snapshot, and it promises nothing of the likes of users who overlap them (`Overlapping`).
A like is taken back from whatever the user likes of that kind, and counted down on the
document of the request: that is the code's lookup without `entityId` (section 3).

### OptimisticLock

One document (article, category or user), the copies that clients hold, and requests that
read the etag (`Admit`), compare it (`Edit`, `Revalidate`), load the document again
(`LoadArticle`, `Body`) and write (`Save`). Likes, comments and category deletions touch
`version` and `updatedAt` in between. Users' etags are made without a version; a category's
version is reset by `replaceOne`; times have a unit within which several writes may fall.

### Presence and Notifications

A stream goes from `new` over `adding` (INCR sent) to `open`, and over `leaving` (GET sent)
and `removing` (counter read) to `gone`. `Notifications` extends this state with jobs,
handlers (`task`), documents (`note`), the streams that were there and that received, and
the notifications that a PATCH has found and is about to update. `Finish` of a job and the
steps of its handler interleave, as the handler's promise is dropped. Which answer
`isInQuietHours` gives is left open.

### Accounts

`pc[r]` is the next statement of request r, which asks for an OTP (`get`, `check`, `set`),
answers one (`fetch`, `del`, `find`, then `create`, `lookup`, `prefer`, `commit` for a new
user) or gives a password. `otp` and `session` are the stores, `user` and `preferences` the
committed documents, `staged[r]` what r's open transaction has written. `Fail` stands for
every refusal, error and death between two statements; it aborts nothing, as the code has no
catch, and `Reap` is MongoDB's. A request whose client was told that it timed out (`late`)
goes on, but the session was saved with that answer. OTPs and users are named by the
requests that made them, which is what their random ids amount to. A code may always be
wrong: whether it is right is left open. `signIn` only reads.

### ArticleList

One list: `sort` and `limit` are the client's parameters, `value[a]` is the field that the
list is sorted by, `cursor` and `more` are what the last page answered. `NextPage` is
`listAll`: `Matching` applies `createCursorQuery`, `Limited` is what MongoDB answers for
`sort` and `limit(limit + 1)`, `HasNextPage` compares the length, and `Sign` makes a cursor
of the last article of the page. `Like`, `Unlike`, `Comment`, `Withdraw` and `Publish` happen
between pages; `ahead`, `back` and `stayed` remember what they did.

Kept as the code has it: the words of a direction (`desc` and `descending` are one, `asc` and
`ascending` another, `1` the third) are compared with 0 as they are, so that the cursor of a
list in the order `asc` goes the wrong way; the cursor holds the first sort key only, while a
second one decides between equals; a page of limit 0 is empty, and its cursor carries no
article. The properties `NothingSkipped` and `RepeatsFellBack` are about the lists in which
the cursor follows the order (`Followed`): no line of the repository promises more of the
others. A negative limit gives a next page for ever, and `PagesEnd` leaves it out.

### CategoryReferences

`Check` is one `exists` of the checks that `create` and `patchOne` await together, `Write`
the insert or update of the article. `Pull` is the `updateMany` of `deleteOne`, which takes
the transaction's snapshot and locks every article (it matches all of them, and the
timestamps change), `Remove` the `deleteOne`, `Commit` makes both visible. A statement that
meets what another transaction has written is refused (`Conflict`), and any statement may be
for reasons of MongoDB's own (`Fail`); the code aborts nothing then, MongoDB does. A process
that dies (`Lose`) leaves an open transaction that holds its locks until the time limit
(`Reap`). A patch carries the
categories that its pipe has read, or those of its body. `raced[a]` remembers which of
the categories of a were being deleted between check and write.

### Avatars

`upload[u].pc` follows an upload: `WriteTempFile` and `AddAvatarJob` are the request, `Take`
to `Complete` the job. The puts of all sizes run at once (`inflight`), also after one of
them has failed. A job is tried once, as its queue has no `attempts`; when its worker dies
BullMQ gives it to another one, once (`Stall`). An `unlink` that fails is logged and no more
(`CleanupTempFile`), so that a job that is done may leave its file. `dotted` says that the host of the store's
URL contains a dot: then the text between the first underscore and the first dot is empty,
and the sizes collapse into one (`Suffix`). Keys are made of user, original file name and
suffix, so that two uploads of one file name share them. All processes share one temporary
disk; where they do not, a job on another host fails in `Resize`.

### QuietHours

One user's preference, one job and the clock in minutes. `Delay` is computed as in
`getDelayUntilQuietHoursEnd`; BullMQ takes a negative one for none. Hours that pass midnight
are therefore asked again and again in their first evening, without a delay, and hours that
begin the minute after they end drop the job, as a delay of 0 counts as none; both are
outside of `OneDelayIsEnough`. The module assumes that the preference is found:
`findById` is called with the user's id, where the preference has one of its own, so that
today no preference is. `Notifications` leaves the answer open and covers both.

## 3. Runs

| Run | Instance | Shows |
|---|---|---|
| `idempotency_faults` | 3 requests, 1 key, 1 user, 2 payloads, all five faults, documents that lose their titles | `TypeOK`, `AtMostOnce`, `ReplayIsFaithful`, `SuccessIsDurable` |
| `idempotency_calm` | 2 requests, 2 users, 1 payload, timeouts, renames, profile edit, crash, aborted transactions | `MutualExclusion`, `RecordMeansEffect`, `FailureMeansNothing`, `Answered`, `LockIsFreed`, `Refinement` |
| `engagement` | 4 requests, 2 users, 1 article, depth 2 | `TypeOK`, `CountersExact`, `ThreadsWellFormed`, `LikesAddUp`, `Refinement` |
| `optimistic_lock` | 4 requests, 3 writes of content, 2 other writes, all three kinds | `TypeOK`, `CopiesAreExact`, `LostOnlyToOverlap` |
| `notifications` | 1 event, 2 jobs, 2 handlers, 2 streams of the recipient, 1 crash, 2 attempts | `TypeOK`, `PresenceExact`, `NotifiedOnce`, `NothingForgotten`, `StayersReceive`, `ReadStaysRead` |
| `accounts` | 4 requests, 2 identifiers, 1 session | `TypeOK`, `UsersHavePreferences`, `OneUserPerIdentifier`, `SpentStaysSpent`, `SignedInIsVerified` |
| `parts` | 3 articles, limits 0 to 2, 2 changes; 2 requests, 2 articles, 2 categories; 2 uploads, 2 file names, 2 sizes, 2 workers; a day of 4 minutes, two days, 9 minutes | `PartsTypeOK`, `NothingSkipped`, `RepeatsFellBack`, `PagesEnd`, `DanglingOnlyByOverlap`, `PulledWithCategory`, `EditsEnd`, `AvatarsServed`, `ShowsWhatWasSaved`, `TempFilesMatch`, `OneDelayIsEnough` |
| `engagement_likes` | 3 requests, 1 user, 2 articles | `LikesCountNotNegative` is violated |
| `idempotency_busy` | 2 requests, no fault | `BusyMeansInProgress` is violated |
| `idempotency_mismatch` | a profile edit between a request and its retry | `MismatchMeansOtherPayload` is violated |
| `optimistic_lock_lost` | two overlapping PATCHes | `NoLostUpdate` is violated |
| `presence_left` | 2 streams of a user that overlap | `LeftMeansOffline` is violated |

The five violations are disagreements between the code and what its own schema, error
messages or comments say; `PROJECT.json` quotes them.

Bounds, and why they are enough. Three requests of one key are the least with which a lock
is lost twice: one holds it, one takes it after it expired, and the first deletes the lock
of the second while a third comes. One key suffices there, as lock and record of different
keys are disjoint; the second scope of `idempotency_calm` is there because the lock does not
know the user while the record does. `MaxDay = 1` lets a record expire, or be born expired. The
two payloads of `idempotency_faults` tell a mismatch from a replay; in `idempotency_calm`, where
one is enough, a renamed document may also take the title back.
Four requests on one article with depth 2 make a thread with a reply of a reply, which is
refused, or two likes and two comments that conflict. Three content writes let an etag be
reused after a reset. In `notifications` a second job is the one that quiet hours add, and
the second handler is the duplicate that must not come to be; a second stream is what
distinguishes DEL from DECR. One crash is enough to stall a job at every step. The four requests
of `accounts` are two issues and two answers that overlap; one session is where sign-ins,
for either identifier, and logouts meet, and that sessions do not mix is proved for any number.

`parts` lets one of its four components run and the others rest in an initial state. They
share no variable, so that a behaviour of all four is an interleaving of one of each, and
an invariant or a liveness property of one component holds of the whole when it holds of it.
Three articles are the least with a page between two others; with the values 0 and 1 there
are ties on the edge of a page and inside it. Two requests are a deletion and an edit, or
two deletions of one category; two uploads are two of one user under one file name or two,
and the sharing of keys between users is what the proof covers for any number. A day of four minutes has
quiet hours of every shape (none, one minute, to the last minute, over midnight), and nine
minutes lead over two midnights.

`CHECK_DEADLOCK FALSE` is set everywhere: requests, days and streams are bounded, and the
system is at rest when they are used up.

Symmetry is used for safety runs only, over requests, users, jobs and so on, which nothing but
their own records tells apart. `idempotency_calm`, which checks liveness, uses none.

## 4. Fairness

Only `idempotency_calm` and `parts` need it. `Fairness` of Idempotency asks for weak fairness
of the steps of a handler (the event loop runs it, and MongoDB and Redis answer or fail), of
the reaping of abandoned transactions (`transactionLifetimeLimitSeconds`) and of the expiry
of a lock that no heartbeat renews (its TTL). Nothing makes clients send, users edit or days
pass, nor Redis answer a SET before the request times out. A crash is allowed: `Answered`
excludes the requests of a process that died, `LockIsFreed` does not. `LockIsFreed` claims
nothing of a lock that was taken after its request had timed out, as its heartbeat goes on.

In `parts`, `NextPage` is weakly fair because `PagesEnd` is about a client that goes on
reading, and so are the steps of a request of CategoryReferences (`Proceed`) for the reasons above.
Errors are no part of it, but for the conflict that MongoDB reports at once to a transaction
that meets another one's write: nothing makes an edit fail that waits for the locks of a
deletion. `EditsEnd` therefore rests on the deletion that goes on, or whose transaction is
reaped after its process died. Nobody is made to ask, and processes need not die.

## 5. Proofs

All for any number of requests, keys, users, streams and so on.

| Theorem | Assumes |
|---|---|
| `IdempotencyProofs!TypeCorrect`, `ReplayIsFaithfulThm`, `SuccessIsDurableThm`, `AtMostOnceThm` | nothing: every fault may happen |
| `IdempotencyProofs!RecordMeansEffectThm`, `RefinementThm` | `Known`: the outcome of every commit is known |
| `IdempotencyProofs!FailureMeansNothingThm` | `Known`, and Redis deletes the locks |
| `IdempotencyProofs!MutualExclusionThm` | `Steady`: no heartbeat stalls |
| `EngagementProofs!TypeCorrect`, `CountersExactThm`, `ThreadsWellFormedThm`, `AncestryThm`, `LikesAnnouncedThm`, `LikesAddUpThm`, `RefinementThm` | finitely many requests and articles; documents and articles have different names, and `Nobody` is none of them and no like. `Overlap` may be either; `LikesAddUp` claims nothing if it is TRUE, nor does `Discussion` of likes |
| `CategoryReferencesProofs!RefTypeCorrect`, `DanglingOnlyByOverlapThm`, `PulledWithCategoryThm` | `Nothing` is no article or category; fairness is not used |
| `AvatarsProofs!AvatarTypeCorrect`, `AvatarsServedThm`, `ShowsWhatWasSavedThm`, `TempFilesMatchThm` | the last size is a size; `Nobody` is no upload |
| `OptimisticLockProofs!TypeCorrect`, `CopiesAreExactThm`, `LostOnlyToOverlapThm` | nothing beyond the constants' assumptions |
| `AccountsProofs!TypeCorrect`, `UsersHavePreferencesThm`, `OneUserPerIdentifierThm`, `SpentStaysSpentThm`, `SignedInIsVerifiedThm` | `None` is no request or identifier |
| `NotificationsProofs!PresenceExactThm` (of `Presence`), `TypeCorrect`, `ReadStaysReadThm`, `NotifiedOnceThm`, `NothingForgottenThm`, `StayersReceiveThm`, `PresenceKept` (of the pipeline) | finitely many streams |
| `PartsProofs!NothingSkippedThm`, `RepeatsFellBackThm`, `PagesShrinkThm` | finitely many articles, which are integers (ObjectIds are ordered), and integer limits |
| `PartsProofs!OneDelayIsEnoughThm` | a day has at least one minute, and a week one day |
| `PartsProofs!PartsTypeCorrect`, `PartsRefineComponents` | the assumptions of the four components |

Argument for Idempotency. At-most-once does not come from the lock, which faults take away,
but from the unique indexes. `InsertInv`: open inserts are of records that do not exist and of
different ones. `DocInv`: who runs the business logic without such an insert was let in by a
record whose creator committed the same payload and was told that the commit had failed.
`UniqueInv`: what open transactions have saved differs in its title from what is committed. So
a commit either finds no record, or the document of the creator has given up its title since,
which is what `AtMostOnce` says. `RecordInv` (a record exists only with the documents of its
creator and of its completer, and is other than completed only after such a commit) and
`RunInv` (what each step of a handler knows of its transaction) make this inductive; replays
and successes have an invariant each. Mutual exclusion needs `LockInv`: until a request of the
key outlives its timeout, who executes holds the lock, and its heartbeat runs.

Argument for the refinement. `KnownInv`: with known outcomes no session loses its
transaction, so that nobody writes FAILED to a record, nobody reopens one, and every record
is completed. `ToldInv`: until its handler ends a request was told nothing but that it timed
out, and whose document is committed has a committed transaction and no step left but the
answer. Then a commit is `Execute` (no record before, by `InsertInv`), an answer is `Created`,
`Replayed` (by `ReplayInv`) or `Rejected`, the TTL index is `Forget`, and all else stutters.

Argument for OptimisticLock. `EtagInv` ranks etags by version (articles) or time (others):
no etag is ahead of the document, and one that is level with it names its content.
`WriteInv` says that an admitted write that was not overtaken knows what it overwrites.
`BoundInv` and `VerbInv` give the types.

Argument for Presence. `SerialInv`: as long as the streams of a user come and go one after
the other (`~Overlap`), at most one stream of a user moves, so that what its removal has read
is still the counter (`ReadIsFresh`). The counter then changes with the set of streams it
counts; crashes, which remove streams only, leave it too high, never too low (`Covered`).

Argument for Notifications. Every property is part of one inductive invariant.
`NoteInv`: what was sent, read or deleted was left by its handler, so that the update to
SENT cannot come after a READ. `OneCarrier`: as long as nothing dies, an event has one
job that is still to start its handler, or the handler, never two; quiet hours replace the
job by another one, and a retry gives back the same one. `Carried`: there is always such a
carrier, or a job that was muted or used up, or a crash. `StayInv`: a stream that was there
when the notification was created is either not open any more, which it stays, or counted;
with `Covered` its user is online when the handler asks, and the handler's own process emits
to it.

Argument for Accounts. `StagedInv`: an open transaction is the only one that creates a user
of its identifier, no such user is committed, and by the time of its commit it has written
both documents; so commits add users with preferences, one per identifier. `OtpInv`: stored
and read OTPs were issued before, so that a new one differs from all that were read.
`UserInv`: who is about to sign in has found a committed user of the identifier.

Argument for Engagement. That an article counts its comments is not inductive: a commit sets
a counter to a value that was computed when its statement ran. `ExclusiveInv`: no two open
transactions have written one document. `StagedOK`: a comment in progress has written exactly
the documents of the statements done so far, and stages one more than the *committed* counter
of each; this stays true because another commit changes counters only of documents it has
written itself. With `HandlerOK` (the target exists, and is not too deep, until the end) the
commit of a comment then adds one document and one to each counter that has to count it.
`EmittedOK` says the same of a like and its event. A single counter of likes may be wrong
(that is the finding of `engagement_likes`), and the theorem about types lets it be any
integer.

Argument for the sums of likes, for users who wait for their answers. `LikesInv`: a user has
one like in progress (`Alone`) and likes one article and one comment (`OneLike`); what a
request has found is therefore still all there is of its user when it commits, and it stages
the committed counter of its target with one more or one less (`LikeOK`). So each commit
changes one like and one counter of the same kind by the same amount, and the sum of all
counters of a kind follows the number of likes of that kind, whichever document was counted
down. The sum is the fold that TLC evaluates; that it exists, is unique and does not depend
on the order is proved from its definition (`Sums` to `SumZero`) by a smallest
counterexample among the subsets (`SmallestBad`), as the induction theorems of the library
take an operator and cannot be used here.

Argument for the ancestors. `ThreadsWellFormed` relates a reply to its parent only. Of the
comments whose path is not one of ancestors the shallowest (`Shallowest`) would have a parent
that is shallower and so all right, and `AncestorsOf` makes it all right as well. Two equal
comments on one path would have two paths of different lengths.

Argument for the refinement of `Discussion`. Statements, conflicts, deaths and reaping leave
the documents alone, and emitting is `Announce`. `CommentCounts` says that the commit of a
comment sets the counters to one more than they are, although the values were computed by
earlier statements, and changes no other document: it is `Post`, or `Reply`, whose depth was
checked when the request came and whose parent has not moved since. `LikeCounts` says the
same of a like or of one taken back, by `LikeOK`.

Argument for the lists. After a page that is not the last one the cursor names its final
article (`PageIs`). `Read`: what was shown and has not moved back lies before the cursor;
`Unread`: what stayed and has not moved ahead was shown or lies after it. For this the
cursor's order (`Behind`) has to be the list's (`BehindOrders`), which is what `Followed`
says; `limit >= 1` makes a page that has a next one contain an article. A page moves the
cursor from one position to a later one, and whoever moves over the cursor meanwhile is
noted in `ahead` or `back`. `PagesShrink` needs only that `Behind` is transitive and leads
away from the article itself, and holds of all sorts.

Argument for quiet hours. `QuietInv`: a job that was put off today is due the minute after
the end, counted from the midnight before (`MinutePasses`: minutes pass one by one or start
again at 0). If it is taken then or later on that day, it is not quiet any more; after
midnight it may be put off anew. If the hours do not pass midnight, the delay is at least
one minute, so that only what is muted is dropped.

Argument for the composition. A step of `PartsMC` is for each component a step of its own or
none (`PartsMove`), so that the conjunction of the four inductive invariants is inductive.

Argument for CategoryReferences. `CheckedInv`: a category that a request has checked exists
and is not being deleted, or the request knows of the deletion (`unsure`). `DeletionInv`: an
open deletion has locked every article that still has its category, but those written
meanwhile by a request that knew. So what a commit leaves dangling was raced.

Argument for Avatars. `PutInv`: a job that stores has put every size that is not in flight;
`KeyInv`: whoever stored an object has the user and the file name of its key; `SavedInv`
carries both over to the URLs of the user. `JobInv` relates the steps of a job to its file.

Every safety and action property of the passing runs is a theorem. Left to TLC, as out of
the prover's reach: liveness under fairness (`Answered`, `LockIsFreed`, `PagesEnd`,
`EditsEnd`) and ENABLED. Of `PagesEnd` the part that is no liveness is proved: each page
leaves fewer articles (`PagesShrinkThm`). The modules with theorems contain no RECURSIVE
operator. The violations are runs only.

## 6. What the refinements say

`Idempotency` implements `IdempotentApi` as long as a commit's outcome is known: the memory
of a slot is the request of its committed record, executing is the commit of record and
document together, and clients are told *created* or *replayed* only about executed requests.
With the fault `commit` it does not: the catch may mark the record of a committed document
FAILED, and a later request reopens it. It is then rejected for the title, or, if the document
has given its title up meanwhile, saves a second one.

`Engagement` implements `Discussion`: a client that sees the documents and counters cannot
tell that comments and likes take several statements in transactions that conflict and are
aborted. Comments are only ever added, with their counters, status goes from pending over
active to deleted, and a like of a comment comes after its event. What it does not say is
that an event is followed by its like: the event is emitted before the commit, which may
fail.

## 7. Plan

Done, in this order: `Idempotency` with its abstraction and proofs, `Engagement`,
`OptimisticLock` with proofs, `Presence` and `Notifications` with proofs, `Accounts` with
proofs, `ArticleList`, `CategoryReferences` and `Avatars` with proofs, `QuietHours`, the
proofs of `Engagement`, the proof that `Idempotency` implements `IdempotentApi`, the sums of
likes, the proofs of lists, quiet hours and their composition, and `Discussion`, which
`Engagement` is proved to implement.

What could follow:

1. A mailbox with at-most-once entries as the abstract specification of `Notifications`.
2. The list of categories, and `setPassword`.
3. The answers of `QuietHours` in `Notifications`, once preferences are found by their user.

## 8. Not modelled

- E-mail: jobs that each call the mailer once.
- Session store, CSRF, configuration: values and calls of libraries (who is signed in to a
  session is part of `Accounts`). Of the storage only `upload` is (in `Avatars`); buckets are
  made at start-up, and nothing calls `delete`.
- The list of categories: `skip` and `limit` of one query, next to a count, with no state
  between pages. `setPassword`: one update after a check.
- Temporary disks of several hosts: `Avatars` has one.
- DTOs and validators: pure checks of one input; in the models an input is valid or not.
- Logger, antivirus (empty), text and gravatar helpers, response envelope and error filter:
  formatting, apart from the timeout of `response.interceptor`, which is in `Idempotency`.
- The only test is the scaffold's end-to-end test, and the documentation a set of requests
  (`Zoomon-endpoints/`); neither states a property.
- Authorization: which user may edit what is a guard of single requests and left out.
