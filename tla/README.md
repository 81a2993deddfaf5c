# Notifications: TLA+ specifications

Specifications of the Cloud Foundry Notifications service, kept beside its Go
code. The service accepts "notify" requests over HTTP, stores one job per
recipient in a queue kept in MySQL, and has workers in every instance take jobs
from that queue, decide whether the recipient wants the mail, render it and hand
it to an SMTP server. Statuses, preferences, registered notifications and
templates are rows in the same database.

Paths below are relative to `src/`.

## The system and its parts

| Part | Code | State | What changes it |
|---|---|---|---|
| Job queue | `gobble/` | table `jobs` with a version column, one reserving goroutine per worker | Enqueue, Reserve, Requeue, Dequeue, Unlock, Close |
| Worker loop | `gobble/worker.go` | goroutine of Work/Perform | Perform, Halt |
| Processes | `application/application.go` | up or down | Boot (migrate, unlock all jobs, start workers, start the collector), panics, kills |
| Mailer | `postal/strategies/mailer.go` | one transaction per request | Enqueue and status "queued" per recipient, commit or rollback |
| Delivery worker | `postal/delivery_worker.go` | progress of one attempt | receipts, token, user, preferences, template, mail, status, retry |
| Statuses | `models/messages_repo.go`, `postal/message_gc.go` | table `messages` | Upsert by mailer and workers, deletion by the collector |
| SMTP client | `mail/client.go` | `c.client`, one per worker | Connect (with timeout), Send, Quit, Error |
| Registry | `web/services/registrar.go`, `models/{clients,kinds}_repo.go` | tables `clients`, `kinds` | register, prune, notify, update |
| Templates | `models/templates_repo.go`, `models/database.go`, `web/services/template_*` | table `templates`, `template_id` of clients and kinds | create, update, delete, assign, seed |
| Preferences | `web/services/preference*`, `models/*unsubscribes_repo.go` | tables `unsubscribes`, `global_unsubscribes` | update, by user or by administrator, in one transaction |
| Token loader | `postal/token_loader.go` | global `token` and `mutex`, the token of each UAA client | Load |
| Recipients | `postal/strategies/`, `postal/utilities/`, `cf/` | progress of one request | lookups in UAA and the Cloud Controller |
| HTTP layer | `web/handlers`, `web/params`, `web/middleware`, `valiant` | none of its own | |

What makes it hard: the instances share one database and most operations are
several statements that are not in one transaction; a booting instance unlocks
the jobs that other instances are working on; processes die by panic on database
errors; the mailer enqueues outside its own transaction; statuses are written by
three parties; a mail may be accepted and reported as failed. The hazards, with
their lines and the properties that would catch them, are listed in
`PROJECT.json`.

## Modules

| Module | Models | Checked by | Proved in |
|---|---|---|---|
| `Gobble` | the job queue, its workers and the processes that run them | `MCGobble`, runs `gobble_two`, `gobble_unlock` | `GobbleInvariant`, `GobbleTheorems` |
| `JobQueue` | what a client of the queue may rely on (abstract) | as `ImplementsJobQueue` of `gobble_two` | `Refinement` in `GobbleTheorems` |
| `Delivery` | mailer, delivery workers, statuses, collector, preferences as read | `MCDelivery`, runs `delivery_*` | `DeliveryProofs` |
| `MailClient` | the SMTP client as one worker uses it | runs `mail_client`, `mail_client_retry` | `MailClientProofs` |
| `Registry` | clients, notifications, templates and the lookup of a mail's template | `MCRegistry`, run `registry` | `RegistryProofs` |
| `Preferences` | the preferences of a user: updates, listings, and what a worker makes of them | `MCPreferences`, run `preferences` | `PreferencesProofs` |
| `Templates` | contents of templates, the seeding of the default template | `MCTemplates`, run `templates` | `TemplatesProofs` |
| `Dispatch` | the UAA token and the lookups made with it | `MCDispatch`, runs `dispatch`, `dispatch_expiry` | `DispatchProofs` |

How they fit together. `Gobble` is the queue in full detail. `Delivery` uses the
queue through what `Gobble` establishes of it: only the worker whose copy has
the version of the row (`lease`) can requeue or delete the job
(`OneCurrentHolder`, `ReservationRespected`), a boot unlocks every job, and a
worker that lost its lease panics. `MailClient` opens up the step "hand the
mail to the server" of `Delivery`, whose outcomes (accepted and reported,
accepted and reported as failed, not accepted) are the ones `ResultTruthful`
allows. `Registry` opens up the rows that `Delivery` reads as `critical` and the
lookup that `Delivery` takes as one step that may fail. `Preferences` opens up
`Change` of `Delivery`: there an update of the preferences is one step, here it is
a transaction of many statements, beside the same two lookups of `shouldDeliver`.
`Templates` has the contents of the rows whose existence `Registry` is about, and
`Dispatch` what comes before the mailer of `Delivery`, and its `LoadUser`.

### Gobble and JobQueue

`jobs` is the table; a row has `worker_id`, `version`, `retry_count`, and
`active_at` reduced to whether it has passed. `fetch[w]` is the goroutine that
`Reserve` starts (`findJob`, `updateJob`, the look at `queue.closed`, the send on
the channel) and `perf[w]` the loop of `Work` and `Perform`. Each statement is
one action. `Write` is gorp's UPDATE with `version = ?`, which fails with an
`OptimisticLockError` when the copy is stale; `Requeue` and `Dequeue` panic on
it, which ends the process (`Die`). `Boot` contains `Unlock`, which clears
`worker_id` in all rows of all instances and does not touch the version.
`attempts` and `completed` record callbacks for the properties, and `latest` the
instance that booted last.

- `gobble_two` (two instances of one worker, two jobs, one retry, three boots,
  one worker that may be halted and one queue that may be closed, fairness): at
  most one holder can still change a row; a row whose holder is current changes
  only by that holder or by an `Unlock`; callbacks are repeated only by retries
  and boots; no locked row is orphaned; the instance that booted last holds no
  stale copy, so that the panics on a lock error end older processes only (and
  none, where one instance is all there is); the queue implements `JobQueue`; and
  across crashes, panics and reboots every job is finished and removed, but for
  the one that a halted worker or a closed queue leaves locked, as long as some
  worker works. Three boots are the two first ones and one that happens beside a
  live instance.
- `gobble_unlock` is a violation: a second instance that boots unlocks and
  reserves a job the first one is working on, against the test that says a job
  can be reserved by one worker only.

Fairness: goroutines are scheduled, callbacks return, time passes, and the
platform restarts an instance that went down. Nothing obliges anyone to enqueue,
crash, halt or close.

### Delivery

`req[r]` is `Mailer.Deliver`: one transaction at REPEATABLE READ in which each
recipient's status is upserted, with the job enqueued on the queue's own
connection in between, so that workers see it before the commit. `work[w]` is
`DeliveryWorker.Deliver`: receipt, token and user, `isCritical`, the two
preferences, the template, the mail, the status (a SELECT, then an INSERT or
UPDATE), and the deletion or the requeueing of the job. `count` is the retry count
in the worker's copy of the job, which is what it compares and writes back. Every statement and
every outside call may fail. `Collect` removes a status older than the lifetime.
`Change` is another request that changes the kind or the preferences.

- `delivery_status` (two messages of one request, one worker, one change of the
  kind or of the preferences during an attempt): "delivered" is shown only for a
  mail that was accepted; "queued" with no job left has one of four
  explanations; receipts never fall behind mails.
- `delivery_lease` (one message, two workers, two boots, fairness): a mail is
  accepted twice only if an accepted mail was reported as failed or a boot
  handed the job out again, and every enqueued job ends, whatever fails.
  Fairness is that of `gobble_two`, with requests that run to their end.
- `delivery_queued` is a violation: API.md says "queued" means that the message
  will be processed; it also remains after a suppression or an early failure.

`RetryLimit` is 10 in the code and 1 or 0 in the runs: the limit is only ever
compared with the count, so one retry shows a job that is tried again and a
job that is given up. Two messages are enough for one transaction to hold rows of
several, and two boots are enough for a lost lease: the second one unlocks what the
first worker holds. `mailed` counts, per user, the mails that `sent` counts per
message.

### MailClient

`client` is `c.client`, `sess` the connections, `dial` the one the `select` in
`Connect` waits for. `Command` is one SMTP command of `Send`, `Error` the QUIT
that follows a failed one. Faults (a refusal, a dropped connection, a server that
does not greet) are bounded by `MaxFaults`; a run needs more sessions than
faults so that a dial always finds one.

- `mail_client` (three sessions, two faults): the reported status is true, every
  call returns, and the only connections that are left open without being
  `c.client` are those of dials that succeeded after `ConnectTimeout`
  (`LateDial`): there are never more of them than timeouts, whatever fails later.
- `mail_client_retry` is a violation: after one failed command `c.client` stays
  set to the session that was quit, `Connect` takes it for a connection, and no
  later mail of that worker gets out, although API.md promises a retry.

Fairness assumes that the server answers each command in the end, since the code
sets no deadline on the connection: without that assumption `Returns` would be
false, and the hazard is listed as uncovered.

### Registry

One client with its kinds, statement by statement. A registration is one
transaction: `snap` is its snapshot with its own writes, and `wrote` the rows it
has written, which stay locked until `Commit`. A notify request reads the client
and the kind, checks the scope and then upserts both outside of any transaction,
before it dispatches. Updates and assignments read the row, look up the template
(assignments only) and write the whole row. `Load` is a worker's `LoadTemplates`.
`overlap` records the rows others changed during a request: the properties say
what holds of rows that nobody else changed, which is all the code can promise.

- `registry` (two kinds, two requests, templates come and go): a committed
  registration leaves the kinds it names, as critical as it says and with the templates it
  names, and none other;
  no registration or notify request undoes an assignment made before it began; no
  kind becomes critical but by a request that may make it so; a dispatched mail
  has rows to find, or its kind was pruned; no row has an empty template; a
  lookup fails only because of a pruned kind, or a template that was deleted or
  that an update or a registration named without a check.

Two requests show each race between two handlers; races of three are not
covered by the run (three requests of all kinds are out of TLC's reach); the proofs
are for any number. Requests that are
over have left only rows: `Init` starts with any of the rows present, critical
or not, with or without a template, and with mails waiting or not. A lookup's
own database errors are left out here (`Delivery` has them). A registration may
name a template for a kind: `web/params/registration.go:16` decodes the kinds into
`models.Kind`, `TemplateID` included. In the run only registrations of `MaxNamed`
kinds, here one, do so. A registration that names a kind twice is not among the
inputs.

A row that others changed during a request is where updates are lost: a notify
request and a registration write back what they read before, and a pruning misses a
kind that was created since. The properties do not say that this cannot happen,
since it does; they say that it happens to no other row. `granted` only grows, so
that `CriticalAuthorised` is about kinds that nobody ever made critical, and not
about a demotion that such a write undoes.

### Preferences

One user, whose rows are the only ones a statement of an update touches. `upd[p]`
is a PATCH of `/user_preferences`: `Update` begins the transaction and takes its
snapshot, `FindKind` is one turn of the loop of `PreferenceUpdater.Execute` (the
kind must exist and not be critical), `Insert` and `Delete` are the statements of
`Upsert`, `Destroy` and `Set`. Reads see the snapshot; writes see the committed
rows and wait for locks. So an INSERT may find the key taken (the request is
refused) and a DELETE may find the row gone (which is no error). An INSERT is two
steps: `Share` is its check for a duplicate, which waits for the lock of the row
and leaves a shared lock, and `Insert` turns that into an exclusive one, which waits
for the shared locks of others. InnoDB takes the shared lock if there is a key to
lock, that of a row or of one that was deleted or rolled back and not yet purged;
here every INSERT finds one, so that the model has more waits than the database. Gap
locks are left out. `Victim` is InnoDB ending one of the
transactions on a cycle of lock waits: kinds come out of a Go map, in any order. `reader[r]` is a delivery attempt (`IsCritical`, then
`ReadSetting` twice) or a GET (`GetGlobal`, `GetKinds`, `GetUnsubscribes`).
`Change` is a registration.

The history variable `promise` is what an accepted update entitles the user to
expect: what it asked for, or "any" for a setting that somebody else changed during
the transaction and that it did not have to write, while the other was promised the
opposite (both orders are then right). `ever` collects, for each reader, what
was true at some moment of it.

- `preferences` (two updates, two kinds, one reader, one change): what an accepted
  update asked for is in the table; rows change only as a whole; nobody is
  unsubscribed from a kind that has always been critical; what a worker decides
  and what a GET lists agrees with the promises at some moment of it; and InnoDB
  ends only updates that name two kinds, since the global setting always comes
  first, or that insert a row which another one inserts at the same time.

Two updates are the smallest cycle of waits and the smallest overlap; the proofs
cover any number. The instance restricts what updates ask for (`SomeAsks`) to
requests that meet: all three settings on, or off globally and for at most one
kind. Kinds and updates are interchangeable, hence the symmetry. A listing's
counts are left out. (They come from a join of `receipts` that is not restricted
to the user, `models/preferences_repo.go:20`, and the kinds are those of clients
the user has had something from.)

### Templates

Every statement commits by itself. `boot[i]` is an instance with index 0, the one
that migrates and seeds: `SeedFind`, then `SeedInsert` or `SeedUpdate`, or neither
if the default template is marked as overridden. Deployments of two releases
(blue and green) make two such instances that bring different default templates.
`req[p]` is a POST, PUT or DELETE: a find by identifier, then a write by primary
key, so that a row that was deleted, or deleted and created again, is missed.
`shown` remembers what the last completed operation put into a template, or "any"
if somebody else changed the row while it ran.

- `templates` (two instances, two releases, three requests, one other template,
  one fault): the last write shows; the `overridden` flag is set exactly for what
  a request wrote; a boot replaces an overridden default template only if the
  override came after it had looked, which is the race of
  `models/database.go:131`; a template that was created again is left alone by
  what began before; once an instance is up there is a default template unless it
  was deleted since; and, since the panic on a duplicate key is followed by a
  restart, all instances come up in the end.

Three requests are needed for a DELETE, a re-creation and a late write. Fairness:
the platform restarts an instance and `Seed` runs to its end. Failed statements
and crashes are bounded, since a database that fails for ever keeps every
instance down. Validation of a template's syntax happens before any statement.

### Dispatch

One process. A token is the time of its expiry; 0 is the empty string. `Lock`,
`Fetch` (or one of its two failures) and `SetToken` are `TokenLoader.Load`. `client`
is the `AccessToken` of the UAA clients: every strategy has one of its own, because
`Mother` is passed by value and never keeps the client it makes
(`application/mother.go:64`), and all requests of a route share it. The lookups
by UAA scope and of all users read it without the mutex; while another request
sets it the read is a data race, and `Torn` is the outcome that is neither token.
The other lookups use what `Load` returned. `Answer` is the status the failure of a
call leads to: an error that nobody translates makes `ErrorWriter` panic. UAA may
once answer with something that is no token (`FetchGarbled`): either the string
has no expiry that `ExpiresBefore` could read (`broken`), and the next `Load`
panics (`LockPanics`), which is a 500 for a request and the end of the process for a
worker, or it is the empty string, and is fetched again.

- `dispatch` (three requests, tokens that live for two ticks and a tolerance of
  one, five ticks, one fault): a lookup never goes out with an older token than
  its request's own, unless the read was torn or UAA once answered with no token;
  a token is fetched once per lifetime however many requests find it expired; and
  everybody who waits for the mutex is answered, or ends with the process.
- `dispatch_expiry` is a violation: the comment on `ExpiresBefore` says that a
  token counts as expired ahead of its time; `Load` returns one that has expired.

Five ticks make the token expire and be fetched again while requests wait.
Fairness assumes that UAA and the Cloud Controller answer each call in the end,
since no call has a deadline: a UAA that never answers would hold the mutex, and
with it every worker and every request but those for a user or an address.

Read off the code while modelling, and part of the model: a failed fetch overwrites the cached token;
the 404 of `CCNotFoundError` is out of reach, because `cf` wraps every error with
the code 0.

### Deadlock

Deadlock is not checked where the system may stop: an idle service waits, every
request is handled once, and the bounds on jobs, boots and changes end a run.
That everything under way comes to its end is what `Drains`, `Processed`,
`Returns`, `AllUp` and `Answered` say. `mail_client`, whose client is called again
and again, does check it.

## What is proved

Every safety property that a passing run checks is a theorem, for any values of the
constants; the named assumptions on the constants are evaluated by the runs.

For any number of instances, workers, jobs, retries and boots, from
`GobbleAssumption` (every worker has a host, the mark of a free row is not a
worker, the bounds are naturals) and `WorkersFinite`:

- `TypeCorrect`, and from the inductive invariant `OneHolder`, `LockedHeld`,
  `LockedRowsActive`, `ReservationKept`, `LatestNeverStale`;
- `Refinement`: `Gobble` implements `JobQueue`;
- `AttemptsPaid`: callbacks are repeated only by retries and boots.

`OneCurrentHolder` is not inductive: two workers may hold a job at different
versions, one of them stale, and nothing in the property keeps the stale one from
becoming current. `IndInv` of `GobbleInvariant` adds what does: copies are never
newer than their rows (`CopyInv`), versions of copies of one job differ between
workers (`DistinctInv`), and a row that `findJob` read is still free while its
version is the one read (`FindInv`): `Unlock` frees rows and only `Write`, which
increments the version, locks them. `DoneInv` (a row disappears only after a
finished callback) is what the refinement needs, `LockInv` and `ProcInv` what
`LockedRowHasHolder` needs. `LatestInv` says of the instance that booted last that
the rows of its copies are still locked for it: only `Unlock` frees a locked row, and
a boot makes another instance the last. That a step keeps `IndInv` is one lemma per action in
`GobbleInvariant`; the properties follow in `GobbleTheorems`.

`AttemptsPaid` is a budget (`BudgetInv`): the attempts of a job, the workers that
hold a copy they have not yet attempted, and the row if it is free, are together no
more than the boots and the retries granted. A reservation turns the free row into
a holding worker, a callback the worker into an attempt, a retry adds to both sides,
and so does the `Unlock` of a boot, which frees each row once. A release and a lost
copy never add to the left side. It rests on `RetriesInv`: the copy that `Requeue`
writes is current and has the row's retries and one more, so that no retry is
written without being counted. The size of a set of workers is only meaningful if
they are finitely many, hence `WorkersFinite`.

For any number of sessions and faults, from `MailClientAssumption` and
`SessionsAssumption`: `ClientTyped`, `Truthful`, `OnlyTimeoutsLeak`. The
strengthening says that the mail is with the server from `Data` on and not
before, that an awaited connection is not up, and that each dial that was given up
(`Abandoned`) is charged to its timeout before its connection can be a leak.

For any number of requests, messages, users, workers, retries, boots and changes,
from `DeliveryAssumption` (the messages of different requests are different, and
the workers are finitely many): `DeliveredMeansSent`, `DuplicatesBounded`,
`QueuedHasReason`, `PreferencesDecide`, `CriticalGoesOut`, `TypeCorrect` and
`ReceiptsFirst`. Each needs to know what a worker at each point of an attempt
carries (`WorkInv`: a status "delivered" means that the mail was accepted, and the
facts it has gathered include what is true now) and what a mailer has yet to write
(`RequestInv`). "Queued" is explained through `StatusInv`: a job that is gone or
about to go has an excuse, or a status other than "queued" and a mailer that has
finished, so that nobody can write "queued" again. `DuplicatesBounded` is a
counting argument (`CountInv`): the mails accepted, the attempts that may still
lead to one and the job that may still be reserved are together no more than the
boots and the mails wrongly reported as failed; a boot adds one to each side, a
reservation turns a free job into an attempt, and an accepted mail turns an
attempt into a mail. `PreferencesDecide` and `CriticalGoesOut` state
`UnsubscribeHonoured` and `CriticalNotSuppressed`, which say of `Delivery` what
`OffHonoured` and `OnHonoured` say, more strongly, of `Preferences`; only the
latter are also model-checked. The difficult part of `TypeCorrect` is that no job
is retried beyond the limit: an attempt compares the count in its copy with the limit
and writes that copy back later, and `RetryInv` says that the comparison still holds
of the copy then. `ReceiptsFirst` is again a count (`ReceiptInv`):
the mails of a user, and the attempts that have left a receipt and may still send
their mail, are no more than the receipts.

For any number of kinds, templates and requests, from `RegistryAssumption`:
`TypeCorrect`, `CriticalNeedsAuthority`, `RegisteredBeforeDispatch`,
`LookupsExplained`, and the action properties `RegistrationsTakeEffect` and
`NothingUndone`. The invariant says of the rows that they name templates which exist
or whose loss is accounted for, and of each request what it may rely on: what it has
read or is to write is authorised and known (`Sane`); a notify request goes from the
client to its kind (`Notifying`), and what it is to write back is what is there, but
for rows that others changed (`WritesBack`); a registration's view is the table but
for what it wrote and what others changed, with the same templates where it names
none (`Isolated`), and the rows it is done with are as it was told (`Registering`, `Registered`); a lookup follows rows that were
dispatched for (`Loading`). The lemma `OthersKeep` settles once what a change of
some rows means for all other requests, so that each action is left with the one
request that takes it.

For any number of instances, releases, requests and templates, from
`TemplatesAssumption` (contents, instances and requests are told apart by their
names): `TypeCorrect`, `LastWriteWins`, `FlagKept`, `Seeds`, and the action
properties `OverridesKept`, `RecreatedSafe` and `KeysNew`. What a boot or a handler
has found is still there as long as nobody else has changed the row (`BootGood`,
`ReqGood`); a row that was created again has a key that nobody remembers
(`KeysInv`), and an identifier that was never handed out has no row (`UsedInv`).
`Bystanders` is here what `OthersKeep` is above. `KeysNew` is the fact that the two
others use of AUTO_INCREMENT, and is stated for its own sake.

For any number of kinds, updates, readers and changes, from
`PreferencesAssumption`: `UpdatesTakeEffect`, `AllOrNothing`, `CriticalKept`,
`DeadlocksNeedCause` from the invariant `UpdInv`, and `OffKept`, `OnKept`,
`ListingsTrue` from `ReadInv`; `TypeCorrect` from both. `UpdInv` says that no two
updates have written the same row, and of each update (`Sound`) that its view is
that of the table but for what it wrote and what others changed, and that what it
is done with is as asked, the global switch first. `ReadInv` says that all that
is true now is in `ever` (`UpToDate`) and that what a reader has found was true at
some moment (`Found`); `PromiseKept` connects the rows it reads to the promises.

For any number of requests, lifetimes, tolerances and faults, from
`DispatchAssumption`: `TypeCorrect`, `TokensNotOlder`, `TokensRare`. That a lookup is not made with an older token needs that tokens only
get newer where they can be read: only the holder of the mutex is inside `Load`
(`MutexInv`), the cached token is the newest of all (`NewestInv`), and while UAA
is asked nobody has one that expires later than the one it will issue
(`AskedInv`). Hence a client is never set back behind what a request that uses it
has loaded (`ClientInv`), unless UAA once answered with no token. `TokensRare`
counts in time: `IssuedInv` says that the last token was issued no earlier than
the ones before it could have run out, and that a token which is being fetched had
run out when `Load` looked, a failed call giving one period back; the mutex is
what makes the requests that wait see the new token (the division by the period is
taken apart in `Spending` and `Periods`).

The type invariants of `Gobble`, `MailClient`, `Preferences` and `Dispatch` are
proved and not repeated in the runs; those of `Delivery`, `Registry` and
`Templates` are both.

Only model-checked: liveness (`Drains`, `Processed`, `Returns`, `AllUp`,
`Answered`), since neither fairness nor ENABLED is within the prover's reach. The
four violations (`SingleReservation`, `QueuedHasJob`, `RetryDelivers`,
`ExpiryAhead`) are counterexamples, and need no proof.

## Not modelled

- Validation of parameters (`web/params`, `valiant`), authentication and routing
  (`web/middleware`, `web/router.go`): a function of one request, with no state;
  the models start from the requests that pass.
- The formatting of mails (`mail/message.go`, `postal/packager.go`,
  `postal/message_context.go`) and the metrics: text.
- The listings that only read (`GET /notifications`, `GET /templates`,
  `GET /messages`, the associations of a template): single statements, or two
  whose results concern different rows.
- Which users UAA and the Cloud Controller find: external; `Dispatch` has the
  calls and their failures, `MessagesOf` of `Delivery` stands for the result.
- The connection singletons, the migrations, the SMTP probe and the retrieval of
  the UAA key at the boot: they run once, before anything that is modelled, and
  decide only whether the process starts.
- The vendored libraries under `Godeps/`, of others and by far the larger part of
  the tree: what the service relies on (gorp's optimistic lock and its writes by
  primary key, the snapshot, locks and deadlocks of InnoDB, the UAA client) is in
  the modules, marked as external.
- A deadline on the SMTP connection and on the calls to UAA and the Cloud
  Controller does not exist in the code, so that no model can show what it would
  achieve; the fairness above says where one is missed.

## Plan

1. `Delivery` over an abstract queue that `Gobble` is shown to implement, leases
   included.
2. The retry schedule (delays that double, against the 24 hours API.md names).
