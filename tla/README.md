# TicketHub: specifications and proofs

TLA+ models of the TicketHub backend (`src/`), the TLC runs that check them and
the theorems TLAPS checks about them. The server is one Fastify process, run in
as many instances as one likes, over one PostgreSQL database, one Redis (seat
locks, cache, idempotency keys) and BullMQ queues (also in Redis). Nothing in
the process is shared between two requests except at the `await`s, where every
other request of every instance may run; that interleaving, and calls that fail
half way, are what the models are about.

## 1. Inventory

| Component | State it keeps | Operations | Talks to |
|---|---|---|---|
| Booking (`modules/booking`) | tables `reservations` (status, version, expiry) and `seat_holds` (status) | hold, confirm, cancel, expire; `getReservation` reads | seat locks, pricing (reads), events (reads), async bus |
| Seat locks (`shared/lock/redlock.ts`) | one Redis key per seat, TTL 30 s | acquire with about a second of retries, release by token | Redis |
| Async bus and queues (`shared/events/async-event-bus.ts`, `shared/queue/bullmq.ts`) | jobs per queue, attempts | add (delay, job id), run, retry (3 attempts), dead letter | Redis; workers of tickets and notifications |
| Sync bus (`shared/events/sync-event-bus.ts`) | handlers in memory | on, emit | nobody registers a handler |
| Tickets (`modules/tickets`) | table `tickets` | generate (job `reservation.confirmed`), validate (scan), reads | booking's tables |
| Notifications (`modules/notifications`) | table `notifications`, mails sent | job `notification.send` | SMTP |
| Payments (`modules/payments`) | table `payments`; circuit breaker in memory of each instance | charge, refund, webhook | gateway (Stripe or mock), idempotency guard |
| Idempotency guard (`shared/middleware/idempotency.ts`) | Redis keys with 24 h TTL | guard before `charge` | Redis |
| Circuit breaker (`modules/payments/circuit-breaker.ts`) | state, failure count, time of last failure | execute | the gateway call |
| Pricing (`modules/pricing`) | event log, projection of the current price, cached price | set base price, surge, early bird, rebuild | PostgreSQL, Redis |
| Events and cache (`modules/events`, `shared/redis/cache.ts`) | table `events`, cached copies | find (cache-aside), update, remove | PostgreSQL, Redis |
| Users (`modules/users`, `shared/middleware/auth.ts`) | users, refresh tokens by family | register, login, refresh (rotation, reuse detection), logout | PostgreSQL |
| Venues (`modules/venues`) | venues and sections | create, read, update | PostgreSQL |
| Start and shutdown (`main.ts`, `app.ts`) | which workers run | start, SIGTERM sequence | everything |
| Surroundings | none of the domain | errors, logging, rate limits, request ids, health, configuration | |
| Pagination and money (`shared/utils/pagination.ts`, `money.value-object.ts`) | none | cursors, limits, arithmetic in the smallest unit | used by lists, booking and pricing |
| Value object catalogue (`docs/value-objects-catalog.ts`) | none | some fifty small classes; teaching material the program does not import | |
| Frontend (`frontend/`) | session (memory and localStorage), selected seats, query cache | pages; single-flight token refresh; charge, then confirm | the HTTP API |

What is hard here, and what must hold:

* **Booking.** A hold is a sequence of awaited calls: count the user's seats,
  lock each seat, check each seat, read the event, insert, enqueue the expire
  job, unlock. Confirm, cancel and expire load, decide, write the status
  guarded by a version, then write the seat rows by a second statement, then
  enqueue events. Any of these may be overtaken, may fail, or may be cut short
  by a crash. To hold: no seat twice; status and rows never contradict each
  other so that a sold seat is free or an expired one sold; the entity's
  transitions only, one per version; every event true and told once; locks
  given back on every path; every hold ends.
* **Tickets and notifications** run as jobs that are retried as a whole after
  having done a part, and may run twice at a time when BullMQ thinks a job
  stalled. To hold: a completed job has made every ticket; nobody enters twice;
  what is stored as sent was sent; every job ends.
* **Payments.** The gateway acts before the row exists, refunds overlap,
  webhooks come late and again. To hold: who is told "paid" has a row and the
  money was taken; a key that is stored lets no further request in; an intent
  without a row has a known cause; refunds add up; a status that speaks of
  money received is true.
* **Circuit breaker.** Results of overlapping calls arrive in any order, and
  nothing limits the calls of a half open breaker. To hold: it is closed
  exactly while fewer calls than the threshold have failed since the last
  success, and it never stays half open.
* **Pricing.** Log, projection and cached price are written by separate calls
  without a lock. To hold: row and cache are prices the log has really said;
  they are current after a change that ran alone; surges never build on one
  another.
* **Events.** A copy is loaded, then stored; an update writes, then deletes the
  copy. To hold: an outdated copy has a cause one can name, and it does not
  last.
* **Lists.** Rows come and go between two pages. To hold: nothing that stays is
  skipped, nothing is shown twice.
* **Sessions.** Rotation against overlapping refreshes, logouts and other tabs.
  To hold: the reuse alarm has a cause; rotation and logout leave no usable
  token behind; every call ends.
* **Checkout.** Polling, the countdown and mutations fetch the same copy. To
  hold: what the page shows never goes back in time.
* **Start and shutdown.** Every signal and every uncaught error runs the whole
  sequence. To hold: nothing accepted is cut off by a clean exit.

`PROJECT.json` lists the single hazards at their lines, with the properties
that cover each or a note why none does.

## 2. Plan

| Order | Module | Status |
|---|---|---|
| 1 | `Booking`, with the abstract `ReservationLifecycle` | checked and proved |
| 2 | `Fulfilment`: tickets and notifications, fed by the events of `ReservationLifecycle` | checked and proved |
| 3 | `Payments` with the idempotency guard, the gateway and `CircuitBreaker`, over `ReservationLifecycle` | checked and proved |
| 4 | `Pricing`: event log, replay as a fold, projection and cache | checked and proved |
| 5 | `EventCache`: cache-aside reads against updates | checked and proved |
| 6 | `Listing`: cursor pages of a list that changes | checked and proved |
| 7 | `Sessions`: rotation, reuse alarm, tabs | checked and proved |
| 8 | `Checkout`: the reservation as the browser sees it | checked and proved |
| 9 | `Shutdown`: order of closing against running work | checked and proved |
| 10 | `ValueObjects`: the arithmetic of the value objects | checked and proved |
| 11 | `GatewayCalls`: the breaker by itself, with more callers and failures than fit beside the payments | checked and proved |
| 12 | `Services`: 4 to 11 side by side | checked and proved |

"Proved" stands for the safety properties: every invariant, every action
property and the refinement that the passing runs check are theorems (section
6); their liveness properties are checked by TLC alone. What is left is a
larger instance of `Payments` with two reservations, whose state space is out of
reach of a short run (the theorems speak of any number).

## 3. Modules

**`ReservationLifecycle`** is what `reservation.entity.ts` promises about each
reservation: the transitions PENDING to CONFIRMED, EXPIRED or CANCELLED and
CONFIRMED to CANCELLED, each by one version; and events that may be published
only when they are true and only once (`Tell`). It knows no handlers.

**`Booking`** is the module as it runs, for one event. A *handler* (`h[p]`) is
one call of a service function; its `pc` names the `await` it has reached, and
its other fields are the local variables the rest of the function uses. Slots
of `Http` serve requests, slots of `Worker` run expire jobs.

| Action | Code |
|---|---|
| `HoldStart` | `getUserSeatCount` and the limit, before any lock |
| `AcquireLock`, `LockBusy` | the loop over `acquireSeatLock`; a taken key is retried for about a second, which is either freed meanwhile or refused |
| `CheckSeat` | the loop over `isSeatAvailable` |
| `LoadEvent` | prices (a missing one counts as 0) and the event, which may be missing or unpublished |
| `Insert`, `InsertRefused` | the transaction of `repository.createReservation`, refused as a whole by the unique index |
| `ScheduleExpire` | the delayed job `expire-<id>`, then the sync event that nobody listens to |
| `ReleaseLock` | one round of the `finally` block; a failed release is swallowed and leaves the key to its TTL |
| `ConfirmStart`, `CancelStart`, `ExpireStart` | `findById` and the entity's rules; a refusal changes nothing and is no step |
| `UpdateReservation`, `UpdateConflict` | `updateReservation` with `WHERE version`, and its ConflictError |
| `UpdateSeats` | `confirmSeats` or `releaseSeats`, which look at no status |
| `EmitConfirmed`, `EmitNotification`, `EmitCancelled` | the events, after the writes |
| `HoldTimeUp`, `DeadlinePasses`, `LockExpires` | the passing of 10 minutes, of the 48 h limit, of a lock's TTL |
| `CallFails`, `Crash` | a rejected call at any await; the end of an instance at any point |

`lock` keeps for each seat the token of the acquisition (handler and number of
the lock) or `Orphan` for a key nobody will delete. Prices, QR codes, mail
texts, names and times have no part in the properties and are left out; a
user, seat or identifier is a model value. A request that names one seat twice
is admitted by the schema and is in `Requests`. Payment identifiers are left
out: confirm accepts any non-empty string.

Constants that are switches: `WorkerRegistered` (is there an expire worker, as
the documentation says, or none, as in `main.ts`), `SlowHandlers` (may a
handler outlive its locks) and `CanFail` (may calls fail and instances die).

**`BookingProperties`** states the properties, **`MCBooking`** adds the
symmetry sets, **`BookingProofs`** holds the theorems.

**`Fulfilment`** is what follows a confirmation. Its booking side is the
abstract `ReservationLifecycle` (the action `Booking`), which is sound because
`Booking` implements it (`LifecycleImplemented`, section 6): every
`reservation.confirmed` and `notification.send` that is told becomes one job. A
worker slot (`w[p]`) runs one job at a time; its `pc` is the `await` it has
reached and `todo` the seats its loop has still to do.

| Action | Code |
|---|---|
| `Booking` | a transition of a reservation, or `asyncEventBus.emit` of one of its events, which adds the job |
| `Take` | BullMQ hands a waiting job to an idle worker slot |
| `LoadSeats` | `generateTickets` reads the reservation, whatever its status is by now, with its seats |
| `CreateTicket` | one INSERT of the loop, VALID by default |
| `DuplicateTicket` | the INSERT refused by the unique `seat_hold_id`: the attempt throws |
| `SendMail`, `StoreNotification` | `sendMail`, then the row of `notifications` |
| `Finish`, `Throw` | the processor returns or rejects: completed, waiting again, or dead after 3 attempts |
| `Scan`, `MarkUsed` | `validateTicket`: the checks on the row that was read, then the UPDATE without a condition |
| `CallFails`, `ScanFails` | any awaited call rejects, also after it had its effect |
| `Stall` | BullMQ takes the job away, because its worker died or because it was too busy to renew the lock and runs on; it can do so once per job |

A worker that runs on without its job (`~Owns`) still writes tickets and sends
mails but can neither complete nor fail the job. A QR payload stands for its
ticket; a forged one, a missing ticket and a used one are refused without any
change and are no step. Nothing in the code writes REVOKED. **`MCFulfilment`**
is its instance for TLC, **`FulfilmentProofs`** holds the theorems.

**`Payments`** takes money and gives it back. Its booking side is
`ReservationLifecycle` again. A submission of the payment page has a number,
which is also its `Idempotency-Key`, since the page draws a new key for each; 0
stands for a request without a key.

| Action | Code |
|---|---|
| `Submit`, `Resend` | `PaymentPage.tsx` sends the charge; a request may reach the server again, before its key is stored or long after |
| `ChargeWithoutKey` | a charge of another client without the header, which the guard lets through at once |
| `PageConfirms`, `PageFails` | the page goes on to confirm after a 201, or shows the error and may be submitted again |
| `GuardRefuses`, `GuardPasses`, `GuardStores` | the GET of the guard and its answers, then the SETEX |
| `Enter` (of `CircuitBreaker`) | `breaker.execute` up to the gateway call |
| `IntentMade`, `GatewayThrows` | `createPaymentIntent` has an intent, paid or still pending; or rejects, with or without having made one |
| `Store`, `StoreRefused` | `payment.create`, refused as a whole by a unique column |
| `Refund`, `GatewayRefunds`, `GatewayDeclines`, `RefundAnswerLost`, `RecordRefund` | `refund`: read the row, ask the gateway, increment what was paid back |
| `GatewaySettles`, `HandleWebhook` | the gateway decides a pending intent and tells so, again and again and in any order; `handleWebhook` overwrites the status |
| `CallFails`, `Crash`, `CooldownPasses` | a rejected call at any await, the end of the process, the breaker's clock |

`ledger` is what the gateway knows, `row` the table, `receipts` the
submissions that were answered 201. Of amounts it matters which part was paid
back; currencies, card data and texts are left out. **`CircuitBreaker`** is the
object as it is: `Enter`, `OnSuccess`, `OnFailure`, the cooldown and a restart,
by itself a specification, and used by `Payments` for the call in front of the
gateway. **`GatewayCalls`** has the same object with nothing but its callers:
`BeginCall`, then `CallSucceeds` or `CallRejects`, overlapping at will, so that
several failures are counted. **`MCPayments`**, **`PaymentsProofs`**: the
instance of `Payments` and its theorems.

**`Pricing`** has one section of one event: `log` (`pricing_events`),
`priceRow` (`current_prices`), `priceCache`. `SetBasePrice`, `ApplySurge`,
`ApplyEarlyBird` and `GetSectionPrice` start a handler; `ReadCache`, `ReadRow`,
`AppendEvent`, `LoadLog`, `UpsertPrice` and `SetCache` are its awaited calls.
`Replay` is `rebuild`'s loop as a fold over the log in the order of its stamps,
which two overlapping inserts need not share. Multipliers are percents,
amounts are rounded as the code does. `clean` is a history variable: no write
overlapped another one or failed since the last one that ran alone.

**`EventCache`** has one event and its venue. `FindById`, `GetCopy`,
`LoadDetail`, `StoreCopy` are the cache-aside read; `EditEvent`, `FindRow`,
`WriteRow`, `DeleteCopy` are `update` and `remove`; `UpdateVenue` changes the
venue and deletes no copy; `CopyExpires` is the TTL. A copy is the version of
event and venue it shows; `late` says that it was stored by a read that a change
or a failure had overtaken.

**`Listing`** browses `findMany` page by page (`Browse`, `NextPage`) while rows
come and go anywhere (`InsertRow`, `DeleteRow`): the order by stamp and id, the
cursor condition, the extra row for `hasMore`.

**`Sessions`** has one user and the tabs of one browser. A tab keeps its pair
of tokens in memory and in `stored`, the localStorage that only an opened tab
reads. Every call (`Send`) may be turned away by 401; it then joins the refresh
of its tab or starts one (`JoinRefresh`, `StartRefresh`) and is tried once more.
On the server a refresh finds its token, raises the alarm or revokes it and
creates the next; registration, login and logout run beside it (`Enter`,
`Logout`), and answers may be lost (`JobFails`). `alarms`, `excused` and
`strays` are history variables.

**`Checkout`** is the way of a customer: `Toggle` seats, `Continue` (the hold
mutation), then the checkout page with its copy of the reservation, which
`Poll` and `CountdownOver` fetch again, each fetch with its one retry; `Cancel`;
`Navigate`; `Move` by other hands.

**`Shutdown`** is `main.ts`: signals and uncaught errors each run the whole of
`shutdown`, overlapping and also during the start: server, workers, queues,
database, Redis, exit. `app.close` returns when no connection is left
(`ServerClosed`), so it waits for the handlers of clients that wait for an
answer; the handler of a client that has gone (`ClientLeaves`) runs on, and
nothing waits for it.

**`ValueObjects`** has the methods that calculate: `Money`, `Quantity`,
`WorkingHours`, `DateRange`, package sizes, blood types, `TCKimlikNo`, `IBAN`,
grades, and the limit of a page. A method that may throw is the set of its
results, empty if it throws. Each law compares a method with a reference
definition; a behaviour is one sample.

**`Services`** puts 4 to 11 side by side. They share no state, so steps of two
of them commute; a behaviour moves one of them, chosen at the start.

## 4. Runs

| Run | Instance | Shows |
|---|---|---|
| `booking` | 1 seat, 1 user, 2 identifiers, 2 requests and 1 job at a time; all failures, early lock expiry | `TypeOK`, `NoDoubleBooking`, `SeatsMatchStatus`, `LocksHaveKeepers`; Booking implements `ReservationLifecycle` |
| `booking_live` | 2 seats, 1 user, 1 identifier, overlapping requests, limit 2, no failures; fair scheduling | `LockCoversCheck`, `ExpireJobNeverFails`, `RequestsEnd`, `HoldsEnd`, `ConfirmationsAreTold` |
| `no_expire_worker` | 1 seat, fair scheduling, without the worker | `HoldsEnd` is violated |
| `full_index` | 1 seat, 2 identifiers | `FreedSeatsCanBeHeld` is violated |
| `seat_cap` | 2 seats, limit 1, overlapping requests of one user | `SeatCap` is violated |
| `cancel_race` | 1 seat | `CancelledSeatsAreFree` is violated |
| `fulfilment` | 1 reservation of 2 seats, 2 worker slots, 1 gate, 2 failures; fair | `TypeOK`, `DoneMeansComplete`, `StoredMeansSent`, `UsedTicketsStayUsed`, `JobsEnd`, `ConfirmationsAreFulfilled` |
| `double_entry` | the same with 1 worker slot, 2 gates and no failures | `OneEntryPerTicket` is violated |
| `lost_tickets` | 1 worker slot, 1 failure; fair | `RetriesMakeTickets` is violated |
| `payments` | 1 reservation of price 2, 1 page, 2 requests at a time, threshold 1, 2 submissions, 2 intents, 1 failure; fair | `TypeOK`, `ReceiptsAreBacked`, `ConfirmedIsPaid`, `NoLostIntent`, `RefundsAddUp`, `PaidMeansCharged`, `RecordsOnlyGrow`, `StoredKeysAreSpent`, `PagesEnd` |
| `double_charge` | the same with 1 submission and no failures | `KeyChargesOnce` is violated |
| `services` | each part by itself, see below; fair | `TypeOK`; `PricesWereTrue`, `CleanPricesAreCurrent`, `SurgesNeverCompound`; `StaleOnlyByLateFill`, `EventuallyFresh`; `BrowsesAreExact`; `AlarmsHaveACause`, `LiveTokensAreHeld`, `CallsEnd`; `CopyNeverGoesBack`; `NothingIsCutOff`; `ClosedMeansFewFailures`, `HalfOpenEnds`; `ValuesKeepLaws` |

*Bounds.* Two concurrent requests and one job are enough for every race of the
code: each involves one reader and one or two writers of one reservation, or two
holds of one seat. Two identifiers allow a seat to be asked for again after it
was given back. A limit of 2 admits requests of two seats, of one seat twice,
and the counter's boundary. With one seat the run with all failures stays small
(about 280 000 states); the two seats of `booking_live` add partial acquisition
and two requests that take the same seats in crossed order, for which the user
who asks makes no difference. In `Fulfilment` reservations do not meet each
other (a job, its tickets and its mails belong to one), so one is enough; two
seats give a job that is half done; two slots run both jobs at a time, or one
job twice after a stall; two failures allow a partial attempt followed by a
stall, or a job that stalls twice; one gate lets scans meet jobs and failures,
while `double_entry` is what two gates do to each other and the theorem speaks
of any number; and the repeated `DuplicateTicket` exhausts the attempts without
further ones. `MaxFailures` bounds `failures`, and with it mails and
notifications. No variable of `Booking` is unbounded: versions reach 3 and
attempts `MaxAttempts` by the code itself.

*Fairness* (`Fairness`, only in the runs with liveness properties): a handler
that was started goes on, since Node.js resumes every settled await; BullMQ
hands a due job to an idle worker; time passes; Redis drops a key that nobody
deletes. No request is ever obliged to come, so nothing relies on a client.
`HoldsEnd` and `ConfirmationsAreTold` are checked without failures: with them
they are false, and that is the hazard of enqueueing after the commit (section
1); deadlock is not checked because the system may come to rest when nobody
asks for anything.

In `Fulfilment` the fairness is that of its worker slots: a slot takes a
waiting job when there is one (`Start`) and goes on with the one it has
(`Work`). Bookings, scans, failures and stalls are not fair. `JobsEnd` holds
with failures; `ConfirmationsAreFulfilled` says what the jobs come to when
nothing fails.

*Bounds of `payments`* (about 470 000 states). One reservation has one row, and
reservations meet only in the breaker, whose state is reached with one as well.
Two submissions of it give two keys, two intents and the unique column; two
requests at a time give the same key twice, before or after it is stored, a
request without a key beside one with a key, two refunds, or a refund beside a
charge. Price 2 allows a refund in two halves, `RefundAmounts` is one half; a
refund without an amount, of all that is left, is covered by the theorem alone.
A threshold of 1 opens the breaker with the one failure there is, which may be a
lost answer, a rejected call, or a crash; declines by the gateway are no failures
and not bounded. What the breaker does with several failures is `GatewayCalls`.
`MaxCharges` bounds the requests that may reach the gateway to charge.

*Bounds of `services`* (about 440 000 states, each part by itself). Three
callers, a threshold of 2 and five failures in `GatewayCalls`: failures that are
counted up, reset by a late success, and continued beyond the threshold by calls
that began before it was reached, more than once. Two handlers, two changes
after the first price and one failure in `Pricing`: an overlap, then a change
that ran alone. Two handlers and three versions in `EventCache`: a late fill and
a change after it. Three ids, two stamps, limits 1 and 2 in `Listing`: equal
stamps, a last page that is full. Two tabs, two calls, one login or registration
in `Sessions` (the other pairs come from refreshes): two calls of one tab or of
two that meet in a refresh, a logout between. Two seats, two fetches, one lost
answer in `Checkout`. Two alarms and two tasks in `Shutdown`. `Amount` has the
values at which the rules of `ValueObjects` change, 0 and 7 are digits that make
valid and invalid numbers.

*Fairness there.* In `Payments` a handler goes on and a page that was answered
confirms; nobody must pay, refund or book, and the gateway need not settle. In
`Services` Redis drops a copy at its TTL, calls of the gateway end, handlers and
the server's side of a session go on. `CallsEnd` so rests on every refresh being
answered or its connection being lost: `client.ts:40` sends it by plain axios,
without the timeout of the other calls, and a refresh that hangs for ever would
keep its callers for ever. Both runs may come to rest, so deadlock is not
checked. Their liveness holds with the failures.

*Mutants.* Beside an operation stands the variant with a plausible mistake in
it (no unique index, no `finally`, an update without its WHERE, an ignored
conflict, a lock without NX, ...). Each property is violated under one of them,
so none holds for a trivial reason.

## 5. Findings

* `no_expire_worker`: no worker consumes `reservation.expired`; unpaid holds
  never expire, although `booking.service.ts:30` and the README describe it.
* `full_index`: the unique index covers RELEASED rows, so a seat that was given
  back can never be held again (`schema.prisma:258` wants a partial index).
* `seat_cap`: the limit is checked before the locks, and the locks are per
  seat; overlapping requests of one user exceed it.
* `cancel_race`: a cancellation that runs between the two writes of a
  confirmation leaves a CANCELLED reservation whose seats are CONFIRMED.
* `double_charge`: two requests with one `Idempotency-Key` that come close together
  both pass the guard, whose GET and SETEX are two calls (`idempotency.ts:52`,
  `:68`), and the gateway is charged twice; the code calls the SETEX a precaution
  against exactly this race (`:67`). `StoredKeysAreSpent` says how far the guard
  does reach.
* `double_entry`: two gates that scan one ticket at the same time both read
  VALID and both open (`tickets.service.ts:189`).
* `lost_tickets`: a ticket job that fails after its first ticket can only fail
  when it is retried; the other seats never get a ticket
  (`tickets.service.ts:38`).

Also met while modelling, without a run:

*Payments.* A submission that is repeated by the customer has a new key, so the
guard does not stop it, and the gateway charges again before the unique column
refuses the row (`PaymentPage.tsx:48`; `NoLostIntent` names the case). No
response is ever stored under a key, so a repeated request is refused for 24
hours instead of being answered as the first one (`idempotency.ts:9`). Confirm
does not look for a payment; only the page does. A cancellation pays nothing
back, for nobody consumes `reservation.cancelled`. A webhook that comes before
the row finds nothing and is dropped; a late `payment_failed` overwrites a
success or a refund. A webhook's body is serialised anew before its signature
is checked, which a real Stripe signature would not survive. A refund that is
pending at the gateway is reported as failed, and one that the gateway declines
counts as a success of the breaker. A half open breaker lets every call pass,
where `circuit-breaker.ts:9` and `:14` speak of one trial call, and a call that
began before the breaker opened and succeeds late closes it at once, before the
cooldown is over. The header of the guard is optional: who leaves it out is
never stopped.

*Sessions.* Two tabs that refresh with the pair they both read raise the alarm
for a customer who did nothing wrong, as does a refresh whose answer was lost;
the alarm of one tab makes the next refresh of the others an alarm too. A
refresh that found its token before an alarm still creates a usable one after
it. A logout during a refresh is undone by the answer of the refresh.
Two refreshes with one token that both read it before either revokes it get a pair each, unnoticed.

*Pricing and events.* Overlapping rebuilds may leave an older price in the row
until the next change. A section without a price gets a row of price zero, so
its "not found" never occurs. An early-bird event is stored as
`EARLY_BIRD_APPLIED` with a payload that says `DISCOUNT_APPLIED`. An update of a
venue leaves copies of its events as they are until their TTL. A search with
`q` ignores cursor, city and dates. The update of an event checks no dates.

*Frontend.* `useCountdown` calls `onExpire` at every tick after the end although
its comment says once. The payment page does not look at the status of the
reservation. A hold whose answer is lost is shown as failed while it holds the
seats. "Biletlerin hazır" is shown before there are tickets.

*Others.* `main.ts:45` wants requests that are under way to be completed; the
handler of a client that has disconnected is not waited for, and its database
may be closed under it. `uncaughtException` ends with exit
code 0; shutdown waits for ever for a Redis that does not answer. `TCKimlikNo`
takes the remainder of a difference that may be negative and rejects some valid
numbers. A float product may fall just below a half, as 58 % of 25. The comment
of `tickets.worker.ts:5` announces a `ticket.generated` and a
`notification.send` event after the generation; no code emits either there.

## 6. Proofs

`BookingProofs` proves, for every set of seats, users, identifiers and
handlers, every limit and every setting of the switches, from the assumptions
of `Booking` only (`None` is no member of the sets, request and worker slots
differ, `None` is no token of a lock, the limit is positive, the switches are
Booleans):

| Theorem | Statement |
|---|---|
| `TypeCorrect` | `Spec => [](TypeOK /\ ControlInv)` |
| `HistoryCorrect` | `Spec => []HistoryInv`, the inductive invariant |
| `NeverDoubleBooked` | `Spec => []NoDoubleBooking` |
| `SeatsAlwaysMatch` | `Spec => []SeatsMatchStatus` |
| `LifecycleImplemented` | `Spec => ImplementsLifecycle`, the refinement |
| `LocksAreReleased` | `Spec => []LocksHaveKeepers` |
| `LocksCoverChecks` | `Spec => []LockCoversCheck`, if handlers do not outlive their locks (`~SlowHandlers`) |
| `EventsTellOneStory` | `Spec => []OneStory`: the published events of a reservation never contradict each other |
| `ExpireJobsSucceed` | `Spec => []ExpireJobNeverFails`, if nothing fails (`~CanFail`) |

*Argument.* `ControlInv` says for each `pc` which local variables mean
something and how far the loops have come. `HistoryInv` adds: the version
counts the transitions (`VersionInv`); what a handler has loaded is no newer
than the row, and while the version matches the status matches too
(`LoadInv`), which is why the guarded update is always a legal transition; a
handler past its update is the only one that made that transition
(`WriterInv`, `SingleWriter`), which is why its events are true and not yet
told (`UntoldInv`, `TellerInv`); and the index makes seats unique
(`UniqueSeats`), without any help from the locks. `SeatsMatchStatus` is not
inductive alone: that an expiry never meets a confirmed row needs
`WriterInv` and `VersionInv`. Most steps are *quiet*: they touch neither
reservations nor rows nor events, and `QuietHistory` disposes of them at once.
`LocksHaveKeepers` is inductive with the types: a handler keeps every lock it
has counted as acquired until its `finally` has tried to release it.
`LockCoversCheck` is strengthened to `CoverInv`: the seats a handler has locked
carry its own token, and those it has checked stay free, since whoever else
would write a row of that seat needs its lock, and a confirmation or an expiry
touches rows of seats that were not free (`LoadInv`, `WriterInv`,
`SeatsMatchStatus`). `ExpireJobNeverFails` is strengthened to `JobInv`: one
handler schedules a job and one runs it, and a job has failed at most once, with
its reservation over by then; the conflict that made it fail says so, since by
`LoadInv` whoever changed the version ended the hold, and no reservation that is
over becomes pending again (`Onward`).
`EventsTellOneStory` needs nothing of `Booking` but `LifecycleImplemented`: its
invariant `StoryInv`, that a version stands for one way a reservation may have
gone and what was told is true of that way, is inductive for the steps of
`ReservationLifecycle`, and so holds of whatever implements it.

`FulfilmentProofs` proves, for every number of reservations, seats, worker
slots, gates and failures, from `NoneAssumption` and `MaxFailuresAssumption`:

| Theorem | Statement |
|---|---|
| `FulfilmentCorrect` | `Spec => []TicketInv`, the inductive invariant |
| `FulfilmentTypes` | `Spec => []TypeOK`, which bounds the attempts |
| `DoneIsComplete` | `Spec => []DoneMeansComplete` |
| `UsedTicketsAreSpent` | `Spec => UsedTicketsStayUsed`: once a ticket is used only scans that had read it before let somebody in, each once |
| `StoredIsSent` | `Spec => []StoredMeansSent`, for finitely many worker slots |

*Argument.* `JobInv`: a job exists exactly when its event was told, whoever
runs it is the one BullMQ listens to, and it has attempts left while it may
still run. `ProgressInv`: the seats a worker has behind it have tickets, also
those of a worker that lost its job; with `todo` empty at `finish`
(`ControlInv`) the completion of a job follows. Tickets are never taken away,
so nothing another worker or a gate does can disturb it; steps that only let
workers go are disposed of by `DroppedKeeps`. `UsedTicketsAreSpent` is a fact
about single steps (`Spent`, `StepSpends`): an entry is counted with the write of
USED by the gate that then stops marking, a scan begins only on a ticket that is
VALID, and `CreateTicket` only makes tickets that are not there. It needs no
bound on the gates; that scans which overlap still make two entries of one ticket
is `double_entry`. `MailInv`
counts: rows stored and rows about to be stored together never exceed the mails.

`PaymentsProofs` proves, for any reservations, pages, requests, prices,
thresholds and bounds, from the assumptions of `Payments`:

| Theorem | Statement |
|---|---|
| `RecordsCorrect` | `Spec => []RecordInv`: table, handlers and webhooks agree with the ledger |
| `PaymentTypes` | `Spec => []TypeOK` |
| `BreakerCounts` | `Spec => []ClosedMeansFewFailures`: what `ClosedWhileFewFail` says of the breaker, beside the payments |
| `PaidIsCharged` | `Spec => []PaidMeansCharged` |
| `RecordsNeverShrink` | `Spec => RecordsOnlyGrow` |
| `PaymentsCorrect` | `Spec => []PaymentInv`, the inductive invariant |
| `ReceiptsCorrect`, `ConfirmationsArePaid`, `NoIntentIsLost` | `ReceiptsAreBacked`, `ConfirmedIsPaid`, `NoLostIntent` |
| `KeysAreSpent` | `Spec => StoredKeysAreSpent`: only requests that looked for a key before it was stored take money under it, each once |
| `RefundsAreNotLost` | `Spec => []RefundsAddUp`, for any finite set of requests at a time |

*Argument.* Every action is shown to have the same few `Effects`: entries of the
ledger never change their owner and never become unpaid (`Grows`), rows stay
(`RowKeeps`), a handler that changes knows an entry that exists. From these
alone `RecordInv` follows. `ClaimInv` adds that whoever speaks of a key, page,
handler or ledger, speaks of one reservation, so that a refused insert is
refused by the row of the same reservation; `ConfirmInv` that a page that
confirms has a receipt. `SpentInv` says that a request with a key is at the
gateway only when the key is stored; `GuardStep` sums up what a step may do to
the guard: keys stay, a handler comes behind the guard only while its key is not
stored, and an intent under a key is made by a handler that leaves the gateway
with it. Requests without a key make intents under none. The breaker's invariant
is inductive by itself. `RefundInv` says for each intent that what its row has
of the refunds (`Booked`) and what handlers have still to record (`Unrecorded`,
a sum over all handlers) together never exceed what the gateway paid back, and
equal it while nothing failed. A step moves at most one summand: `OneDue` lets
the sum change by what one handler has (`SumChanges`), and the increment of the
row and the end of the handler cancel out.

`PricingProofs` proves, for every set of handlers, prices and demands, from
`PricingAssumption`, each `PricingSpec => []...`:

| Theorem | Statement |
|---|---|
| `PricingTypes` | types and the control state of the handlers |
| `PricesAlwaysWereTrue` | `PricesWereTrue` |
| `CleanPricesStayCurrent` | `CleanPricesAreCurrent` |
| `SurgesDoNotCompound` | `SurgesNeverCompound` |

*Argument.* All three speak of `Replay`, a fold over a log of any length. The
proofs never compute it: they use how the fold treats one more row, and that a
price stays in a set that every kind of row keeps it in, which follows by
induction over the subsets of the log's rows (`FoldLemmas`). `TrueInv` adds to
`PricesWereTrue` the prices that handlers carry between their calls; a longer
log still has its old prefixes. `CleanInv` says that a handler which works alone
is up to date, and that while `clean` lasts and no change is half done, row and
copy are too. `SurgeInv` bounds every price, carried or stored, by a base price
of the log; a surge multiplies the base, never the current price, so that its
event obeys the bound again.

`SessionsProofs` proves, for every finite set of tabs and calls and any number
of logins and failures, from `SessionAssumption`:

| Theorem | Statement |
|---|---|
| `SessionsKeepShape` | `SessionSpec => [](SessionShape /\ Numbered)`: pairs numbered without a gap, at most one refresh of a tab under way that it will hear of, every pair in use made by the server |
| `NoFalseAlarm` | `SessionSpec => []AlarmsHaveACause` |
| `NoForgottenToken` | `SessionSpec => []LiveTokensAreHeld` |

*Argument.* `SessionShape` fits jobs, calls and tabs together: a tab hears one
refresh at a time, and nobody hears an answer for a closed tab. `Numbered` counts
pairs made and pairs still to be made against logins and calls, so that there is
always a number for the next pair. `Custody` follows a pair from hand to hand: a
pair whose answer is on its way is known to nobody else (`Unknown`); a pair
without an excuse has one owner, who presents it once (`Alone`), and once it is
revoked it is still being presented or forgotten by all; a live pair is held, on
its way, or a stray (`Kept`). Neither property is inductive without all of these.

`ServicesProofs` has the theorems of the smaller parts, each for every value of
its constants, and those of the composition:

| Theorem | Statement |
|---|---|
| `StaleCopiesHaveACause`, `EventTypes` | `EventSpec => []StaleOnlyByLateFill`: inductive with the shape of the handlers |
| `ListingCorrect`, `BrowsingIsExact` | everything shown lies before the cursor, everything of the first page's time not shown lies behind it; needs that the order is total and that a page has a last row |
| `CheckoutCorrect`, `PageNeverGoesBack`, `CheckoutTypes` | only the last fetch is wanted, and what a fetch brings lies between the copy and the server's status |
| `ClosedWhileFewFail` | `GatewaySpec => []ClosedMeansFewFailures`, for every threshold and any number of callers |
| `ShutdownCorrect`, `NothingEverCutOff` | a run of shutdown that has come to a step has the steps before it behind it, so no work is left when a resource closes |
| `PartsBehave` | `Spec` of `Services` implies the specification of each part: a behaviour moves one part and every other one rests |
| `ServiceTypes`, `ServicesKeepTheirPromises` | the types and the safety properties of all parts, for the composition, from `PartsBehave` and the theorems of the parts |

`ValueObjectsProofs` has the law of each value object, for all integers it
accepts, and `LawsAreKept`, that `ValuesKeepLaws` holds of every sample.
`MisreadDigitIsFound` (TCKimlikNo) is a calculation. `MisreadIBANIsFound` holds
for digit sequences of any length: the number modulo 97 is what remains when its
digits are read one by one; two remainders that differ still differ after the
same next digit, since 10 is prime to 97, and two digits that differ make
remainders that differ (`StepsDiffer`); by induction from the misread digit on,
at most one of the two numbers has remainder 1 (`OneDigitTells`). Moving the
country to the end keeps the difference at one digit.

`FoldLemmas` holds what these proofs need of folds and recursive functions. The
provers cannot use a theorem that takes a predicate as a parameter, but a
set of numbers can stand for the predicate: a set with 0 and the successors of
its members has every number, for the least number outside would be a
counterexample (`NumberInduction`); likewise for the subsets of a finite set
(`SubsetInduction`). From these: a recursion over subsets has one value whatever
element it takes first (`SubsetRecursion`), a sum over a finite set is that of
all but one element and the one (`SumUnfolds`), is a number (`SumType`), and
changes with one summand by its difference (`SumChanges`).

*Only model-checked*: liveness under fairness, with ENABLED, which is out of the
prover's reach (`RequestsEnd`, `HoldsEnd`, `ConfirmationsAreTold`, `JobsEnd`,
`ConfirmationsAreFulfilled`, `PagesEnd`, `HalfOpenEnds`, `EventuallyFresh`,
`CallsEnd`), and the counterexamples of section 5, which a run shows. The
theorems that assume something are `LocksCoverChecks` (`~SlowHandlers`),
`ExpireJobsSucceed` (`~CanFail`), `StoredIsSent` and `RefundsAreNotLost`
(finitely many slots); in each case the assumption is what the run has, and
without one of the first two the property is false.

## 7. Not modelled

* The value objects of the catalogue that only check a pattern, hold a value or
  format it: there is no state and nothing to calculate.
* HTTP surroundings (error mapping, logging, rate limits, request ids, health,
  configuration) and the wiring of `app.ts`: no state of the domain.
* The sync bus: nobody registers a handler, so `emit` returns at once.
  `acquireLock`, `delPattern`, `confirmPayment` and the transaction helper have
  no caller.
* Operations that change nothing and relate nothing: histories, single reads,
  listing of tickets, QR images; of venues, `create` and `remove` of one row in
  one call.
* Reconnecting and pooling of the PostgreSQL, Redis and BullMQ clients, which
  the libraries do; that a query of several rows is a snapshot and a transaction
  atomic is taken from PostgreSQL.
* The seed, and the visual part of the frontend.
