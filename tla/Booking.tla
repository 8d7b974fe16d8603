------------------------------- MODULE Booking -------------------------------
(***************************************************************************)
(* The booking module of one event: seats, reservations and the seat locks *)
(* (booking.service.ts, booking.repository.ts, reservation.entity.ts,      *)
(* redlock.ts and the Reservation and SeatHold tables of schema.prisma).   *)
(*                                                                         *)
(* A handler is one call of a service function.  It gives up control at    *)
(* every `await`, so each database, Redis or BullMQ call is one action,    *)
(* and the handlers of all server instances interleave between them.       *)
(***************************************************************************)
EXTENDS Naturals, Sequences, FiniteSets

CONSTANTS
    Seat,               \* the seats of the event
    User,               \* the signed-in users
    Res,                \* the reservation identifiers uuidv4() may return
    Http,               \* slots for requests being served, over all instances
    Worker,             \* slots for expire jobs being run
    None,               \* stands for null
    MaxSeats,           \* MAX_SEATS_PER_BOOKING
    WorkerRegistered,   \* does a worker consume the queue 'reservation.expired'?
    SlowHandlers,       \* may a handler outlive the 30 s TTL of its locks?
    CanFail             \* may an awaited call reject, or an instance die?

ASSUME NoneAssumption == None \notin Seat \cup User \cup Res \cup Http \cup Worker
ASSUME SlotAssumption == Http \cap Worker = {}
ASSUME TokenAssumption == None \notin (Http \cup Worker) \X (1..MaxSeats)
ASSUME MaxSeatsAssumption == MaxSeats \in Nat \ {0}
ASSUME SwitchAssumption == {WorkerRegistered, SlowHandlers, CanFail} \subseteq BOOLEAN

VARIABLES
    status,     \* reservations.status, "NONE" for an identifier without a row
    version,    \* reservations.version
    owner,      \* reservations.user_id
    overdue,    \* reservations whose expires_at has passed
    holds,      \* the rows of seat_holds
    lock,       \* the Redis keys lock:seat:<event>:<seat>
    h,          \* the handlers
    sent,       \* how often each event of a reservation was put on its queue
    expireJob,  \* the delayed job expire-<reservation>
    attempts,   \* the failed attempts of that job
    tooLate     \* less than 48 hours are left before the event

reservationVars == <<status, version, owner>>
jobVars == <<sent, expireJob, attempts>>
timeVars == <<overdue, tooLate>>
vars == <<reservationVars, holds, lock, h, jobVars, timeVars>>

-----------------------------------------------------------------------------
Proc == Http \cup Worker
Status == {"NONE", "PENDING", "CONFIRMED", "EXPIRED", "CANCELLED"}
Live == {"PENDING", "CONFIRMED"}
Active == {"HELD", "CONFIRMED"}
OneAttempt == 1                     \* variant: jobs are not retried
MaxAttempts == 3

(* The body of POST /hold: one to MaxSeats seats, the same seat twice      *)
(* included: the schema does not refuse it.                                *)
Requests == UNION {[1..n -> Seat] : n \in 1..MaxSeats}

(* The value redlock stores for an acquisition: of a handler, its n-th     *)
(* lock.  A lock whose handler is gone keeps its key until its TTL.        *)
Token(p, n) == <<p, n>>
Orphan == <<None, 0>>

Op == {"hold", "confirm", "cancel", "expire"}
Event == {"reservation.confirmed", "notification.send",
          "reservation.cancelled", "reservation.cancelled (refund)"}

Idle == [op |-> "none", pc |-> "idle", user |-> None, seats |-> <<>>, n |-> 0,
         got |-> 0, res |-> None, was |-> "NONE", ver |-> 0]

Handler == [op    : Op \cup {"none"},
            pc    : {"idle", "lock", "check", "event", "insert", "schedule",
                     "release", "update", "seats", "emit", "notify"},
            user  : User \cup {None},
            seats : Requests \cup {<<>>},
            n     : 0..MaxSeats,          \* seats done in the current loop
            got   : 0..MaxSeats,          \* locks.length
            res   : Res \cup {None},
            was   : Status,               \* the status that findById returned
            ver   : Nat]                  \* the version that findById returned

SeatHold == [res : Res, seat : Seat, n : 1..MaxSeats, status : Active \cup {"RELEASED"}]

TypeOK ==
    /\ status \in [Res -> Status]
    /\ version \in [Res -> Nat]
    /\ owner \in [Res -> User \cup {None}]
    /\ overdue \in [Res -> BOOLEAN]
    /\ holds \subseteq SeatHold
    /\ lock \in [Seat -> (Proc \X (1..MaxSeats)) \cup {Orphan, None}]
    /\ h \in [Proc -> Handler]
    /\ sent \in [Res -> [Event -> Nat]]
    /\ expireJob \in [Res -> {"none", "delayed", "active", "done", "failed"}]
    /\ attempts \in [Res -> Nat]
    /\ tooLate \in BOOLEAN

Init ==
    /\ status = [r \in Res |-> "NONE"]
    /\ version = [r \in Res |-> 0]
    /\ owner = [r \in Res |-> None]
    /\ overdue = [r \in Res |-> FALSE]
    /\ holds = {}
    /\ lock = [s \in Seat |-> None]
    /\ h = [p \in Proc |-> Idle]
    /\ sent = [r \in Res |-> [e \in Event |-> 0]]
    /\ expireJob = [r \in Res |-> "none"]
    /\ attempts = [r \in Res |-> 0]
    /\ tooLate = FALSE

-----------------------------------------------------------------------------
(* Queries of the repository.                                              *)

(* getUserSeatCount *)
UserSeatCount(u) ==
    Cardinality({x \in holds : /\ owner[x.res] = u
                               /\ status[x.res] \in Live
                               /\ x.status \in Active})

(* isSeatAvailable *)
SeatAvailable(s) == ~ \E x \in holds : x.seat = s /\ x.status \in Active

(* Variant: no index. *)
NoIndex(seats) == FALSE

(* The unique index of seat_holds covers every row, whatever its status.   *)
UniqueViolation(seats) ==
    \/ \E i \in DOMAIN seats : \E x \in holds : x.seat = seats[i]
    \/ \E i, j \in DOMAIN seats : i # j /\ seats[i] = seats[j]

(* updateMany on the holds of a reservation; their status is not looked at *)
SetSeats(r, st) == {IF x.res = r THEN [x EXCEPT !.status = st] ELSE x : x \in holds}

Goto(p, pc) == h' = [h EXCEPT ![p].pc = pc]
Return(p) == h' = [h EXCEPT ![p] = Idle]

-----------------------------------------------------------------------------
(* createReservation                                                       *)

(* The scalping check comes first, before any lock is taken.               *)
HoldStart(p, u, seats) ==
    /\ h[p].pc = "idle"
    /\ UserSeatCount(u) + Len(seats) <= MaxSeats
    /\ h' = [h EXCEPT ![p] = [Idle EXCEPT !.op = "hold", !.pc = "lock",
                                          !.user = u, !.seats = seats]]
    /\ UNCHANGED <<reservationVars, holds, lock, jobVars, timeVars>>

(* One round of the loop over `list`: on to the next element, or to pc.    *)
NextSeat(p, pc, got) ==
    h' = [h EXCEPT ![p].n = IF h[p].n + 1 = Len(h[p].seats) THEN 0 ELSE h[p].n + 1,
                   ![p].pc = IF h[p].n + 1 = Len(h[p].seats) THEN pc ELSE @,
                   ![p].got = got]

ThisSeat(p) == h[p].seats[h[p].n + 1]

(* Variant: no finally block. *)
NoFinally(p) == Return(p)

(* The finally block: an exception leads here as well as success.          *)
Finally(p) ==
    IF h[p].got = 0 THEN Return(p)
    ELSE h' = [h EXCEPT ![p].pc = "release", ![p].n = 0]

(* Variant: the key is written without NX. *)
AcquireAnyway(p) ==
    /\ h[p].pc = "lock"
    /\ lock' = [lock EXCEPT ![ThisSeat(p)] = Token(p, h[p].n + 1)]
    /\ NextSeat(p, "check", h[p].got + 1)
    /\ UNCHANGED <<reservationVars, holds, jobVars, timeVars>>

(* A free key is taken.  A taken one is retried for about a second: either *)
(* it is freed meanwhile, or the request ends in SeatUnavailableError.     *)
AcquireLock(p) ==
    /\ h[p].pc = "lock"
    /\ lock[ThisSeat(p)] = None
    /\ lock' = [lock EXCEPT ![ThisSeat(p)] = Token(p, h[p].n + 1)]
    /\ NextSeat(p, "check", h[p].got + 1)
    /\ UNCHANGED <<reservationVars, holds, jobVars, timeVars>>

(* Variant: a taken key is waited for. *)
WaitForLock(p) == FALSE

LockBusy(p) ==
    /\ h[p].pc = "lock"
    /\ lock[ThisSeat(p)] # None
    /\ Finally(p)
    /\ UNCHANGED <<reservationVars, holds, lock, jobVars, timeVars>>

CheckSeat(p) ==
    /\ h[p].pc = "check"
    /\ IF SeatAvailable(ThisSeat(p)) THEN NextSeat(p, "event", h[p].got) ELSE Finally(p)
    /\ UNCHANGED <<reservationVars, holds, lock, jobVars, timeVars>>

(* The prices and the event are read: the event may be missing or not      *)
(* PUBLISHED.  A missing price counts as 0 and stops nothing.              *)
LoadEvent(p) ==
    /\ h[p].pc = "event"
    /\ Goto(p, "insert") \/ Finally(p)
    /\ UNCHANGED <<reservationVars, holds, lock, jobVars, timeVars>>

(* repository.createReservation: one transaction for the reservation and   *)
(* its holds; the unique index refuses it as a whole.  So does the primary *)
(* key when the identifier is taken, as it must be once all of Res are.    *)
Insert(p) ==
    /\ h[p].pc = "insert"
    /\ ~ UniqueViolation(h[p].seats)
    /\ \E r \in Res :
          /\ status[r] = "NONE"
          /\ status' = [status EXCEPT ![r] = "PENDING"]
          /\ version' = [version EXCEPT ![r] = 1]
          /\ owner' = [owner EXCEPT ![r] = h[p].user]
          /\ holds' = holds \cup {[res |-> r, seat |-> h[p].seats[i], n |-> i, status |-> "HELD"] :
                                     i \in DOMAIN h[p].seats}
          /\ h' = [h EXCEPT ![p].pc = "schedule", ![p].res = r]
    /\ UNCHANGED <<lock, jobVars, timeVars>>

InsertRefused(p) ==
    /\ h[p].pc = "insert"
    /\ UniqueViolation(h[p].seats) \/ \A r \in Res : status[r] # "NONE"
    /\ Finally(p)
    /\ UNCHANGED <<reservationVars, holds, lock, jobVars, timeVars>>

(* Variant: no job. *)
ForgetExpire(p) ==
    /\ h[p].pc = "schedule"
    /\ Finally(p)
    /\ UNCHANGED <<reservationVars, holds, lock, jobVars, timeVars>>

(* The delayed job.  'reservation.created' goes to the in-process bus      *)
(* afterwards, where nothing listens.                                      *)
ScheduleExpire(p) ==
    /\ h[p].pc = "schedule"
    /\ expireJob' = [expireJob EXCEPT ![h[p].res] = "delayed"]
    /\ Finally(p)
    /\ UNCHANGED <<reservationVars, holds, lock, sent, attempts, timeVars>>

(* redlock deletes a key only if it still holds this acquisition's token.  *)
(* With `freed` false the call failed, which is logged and swallowed.      *)
ReleaseLock(p, freed) ==
    /\ h[p].pc = "release"
    /\ lock' = IF lock[ThisSeat(p)] # Token(p, h[p].n + 1) THEN lock
               ELSE [lock EXCEPT ![ThisSeat(p)] = IF freed THEN None ELSE Orphan]
    /\ IF h[p].n + 1 = h[p].got THEN Return(p) ELSE h' = [h EXCEPT ![p].n = @ + 1]
    /\ UNCHANGED <<reservationVars, holds, jobVars, timeVars>>

-----------------------------------------------------------------------------
(* confirmReservation, cancelReservation and expireReservation load the    *)
(* reservation, let the entity decide on what was loaded, then write.  A   *)
(* request that the entity or the owner check refuses changes nothing.     *)

Load(p, op, r) ==
    h' = [h EXCEPT ![p] = [Idle EXCEPT !.op = op, !.pc = "update", !.res = r,
                                       !.was = status[r], !.ver = version[r]]]

ConfirmStart(p, r) ==
    /\ h[p].pc = "idle"
    /\ status[r] = "PENDING"
    /\ ~ overdue[r]
    /\ Load(p, "confirm", r)
    /\ UNCHANGED <<reservationVars, holds, lock, jobVars, timeVars>>

CancelStart(p, r) ==
    /\ h[p].pc = "idle"
    /\ \/ status[r] = "PENDING"
       \/ status[r] = "CONFIRMED" /\ ~ tooLate
    /\ Load(p, "cancel", r)
    /\ UNCHANGED <<reservationVars, holds, lock, jobVars, timeVars>>

(* The worker that the documentation describes runs the job when its delay *)
(* is over.  A reservation that is no longer pending ends the job at once. *)
ExpireStart(p, r) ==
    /\ WorkerRegistered
    /\ h[p].pc = "idle"
    /\ expireJob[r] = "delayed"
    /\ overdue[r]
    /\ IF status[r] = "PENDING"
       THEN Load(p, "expire", r) /\ expireJob' = [expireJob EXCEPT ![r] = "active"]
       ELSE expireJob' = [expireJob EXCEPT ![r] = "done"] /\ UNCHANGED h
    /\ UNCHANGED <<reservationVars, holds, lock, sent, attempts, timeVars>>

(* An exception ends a request; a job is retried, three attempts in all.   *)
FailJob(r) ==
    /\ attempts' = [attempts EXCEPT ![r] = @ + 1]
    /\ expireJob' = [expireJob EXCEPT ![r] = IF attempts[r] + 1 < MaxAttempts THEN "delayed"
                                                                              ELSE "failed"]
    /\ UNCHANGED sent

Reject(p) ==
    /\ Return(p)
    /\ IF h[p].op = "expire" THEN FailJob(h[p].res) ELSE UNCHANGED jobVars

(* Variant: the enum of the holds instead of that of the reservations. *)
SeatTarget(op) == CASE op = "confirm" -> "CONFIRMED"
                    [] op = "cancel"  -> "RELEASED"
                    [] op = "expire"  -> "RELEASED"

(* confirmPayment, cancel and expire: the status they set *)
Target(op) == CASE op = "confirm" -> "CONFIRMED"
                [] op = "cancel"  -> "CANCELLED"
                [] op = "expire"  -> "EXPIRED"

(* Variant: the update has no WHERE version. *)
LastWriteWins(p) == TRUE

(* updateReservation: UPDATE ... WHERE id = :id AND version = :loaded      *)
VersionMatches(p) == version[h[p].res] = h[p].ver

UpdateReservation(p) ==
    /\ h[p].pc = "update"
    /\ VersionMatches(p)
    /\ status' = [status EXCEPT ![h[p].res] = Target(h[p].op)]
    /\ version' = [version EXCEPT ![h[p].res] = h[p].ver + 1]
    /\ Goto(p, "seats")
    /\ UNCHANGED <<owner, holds, lock, jobVars, timeVars>>

(* Variant: the number of updated rows is not looked at. *)
ConflictIgnored(p) ==
    /\ h[p].pc = "update"
    /\ ~ VersionMatches(p)
    /\ Goto(p, "seats")
    /\ UNCHANGED <<reservationVars, holds, lock, jobVars, timeVars>>

UpdateConflict(p) ==
    /\ h[p].pc = "update"
    /\ ~ VersionMatches(p)
    /\ Reject(p)
    /\ UNCHANGED <<reservationVars, holds, lock, timeVars>>

(* confirmSeats of a confirmation, releaseSeats of the two others          *)
UpdateSeats(p) ==
    /\ h[p].pc = "seats"
    /\ holds' = SetSeats(h[p].res, IF h[p].op = "confirm" THEN "CONFIRMED" ELSE "RELEASED")
    /\ IF h[p].op = "expire"
       THEN Return(p) /\ expireJob' = [expireJob EXCEPT ![h[p].res] = "done"]
       ELSE Goto(p, "emit") /\ UNCHANGED expireJob
    /\ UNCHANGED <<reservationVars, lock, sent, attempts, timeVars>>

Enqueue(r, e) == sent' = [sent EXCEPT ![r][e] = @ + 1]

(* Variant: only the e-mail is asked for. *)
EmitForgotten(p) ==
    /\ h[p].pc = "emit" /\ h[p].op = "confirm"
    /\ Goto(p, "notify")
    /\ UNCHANGED <<reservationVars, holds, lock, jobVars, timeVars>>

EmitConfirmed(p) ==
    /\ h[p].pc = "emit" /\ h[p].op = "confirm"
    /\ Enqueue(h[p].res, "reservation.confirmed")
    /\ Goto(p, "notify")
    /\ UNCHANGED <<reservationVars, holds, lock, expireJob, attempts, timeVars>>

EmitNotification(p) ==
    /\ h[p].pc = "notify"
    /\ Enqueue(h[p].res, "notification.send")
    /\ Return(p)
    /\ UNCHANGED <<reservationVars, holds, lock, expireJob, attempts, timeVars>>

(* refundRequired is what the entity saw when it was loaded.               *)
EmitCancelled(p) ==
    /\ h[p].pc = "emit" /\ h[p].op = "cancel"
    /\ Enqueue(h[p].res, IF h[p].was = "CONFIRMED" THEN "reservation.cancelled (refund)"
                                                   ELSE "reservation.cancelled")
    /\ Return(p)
    /\ UNCHANGED <<reservationVars, holds, lock, expireJob, attempts, timeVars>>

-----------------------------------------------------------------------------
(* What happens around the handlers.                                       *)

HoldTimeUp(r) ==
    /\ status[r] # "NONE" /\ ~ overdue[r]
    /\ overdue' = [overdue EXCEPT ![r] = TRUE]
    /\ UNCHANGED <<reservationVars, holds, lock, h, jobVars, tooLate>>

DeadlinePasses ==
    /\ ~ tooLate
    /\ tooLate' = TRUE
    /\ UNCHANGED <<reservationVars, holds, lock, h, jobVars, overdue>>

(* A key outlives its handler until the TTL; with SlowHandlers the TTL may *)
(* also end while the handler still believes that it holds the lock.       *)
LockExpires(s) ==
    /\ lock[s] # None
    /\ lock[s] = Orphan \/ SlowHandlers
    /\ lock' = [lock EXCEPT ![s] = None]
    /\ UNCHANGED <<reservationVars, holds, h, jobVars, timeVars>>

(* An awaited database or Redis call rejects.  That a write was applied    *)
(* although its answer was lost is the write, then a failure of the next   *)
(* call.                                                                   *)
CallFails(p) ==
    /\ CanFail
    /\ \/ /\ h[p].op = "hold" /\ h[p].pc # "release"
          /\ Finally(p)
          /\ UNCHANGED <<lock, jobVars>>
       \/ /\ h[p].pc \in {"update", "seats", "emit", "notify"}
          /\ Reject(p)
          /\ UNCHANGED lock
    /\ UNCHANGED <<reservationVars, holds, timeVars>>

(* The instance dies: no finally block runs.  BullMQ notices that a job    *)
(* has stalled and puts it back, but gives it up when it stalls again.     *)
Crash(p) ==
    /\ CanFail
    /\ h[p].pc # "idle"
    /\ Return(p)
    /\ lock' = [s \in Seat |-> IF \E n \in 1..MaxSeats : lock[s] = Token(p, n) THEN Orphan
                                                                               ELSE lock[s]]
    /\ IF h[p].op = "expire"
       THEN \E st \in {"delayed", "failed"} : expireJob' = [expireJob EXCEPT ![h[p].res] = st]
       ELSE UNCHANGED expireJob
    /\ UNCHANGED <<reservationVars, holds, sent, attempts, timeVars>>

-----------------------------------------------------------------------------
HoldStep(p) ==
    \/ AcquireLock(p) \/ LockBusy(p) \/ CheckSeat(p) \/ LoadEvent(p)
    \/ Insert(p) \/ InsertRefused(p) \/ ScheduleExpire(p) \/ ReleaseLock(p, TRUE)

WriteStep(p) ==
    \/ UpdateReservation(p) \/ UpdateConflict(p) \/ UpdateSeats(p)
    \/ EmitConfirmed(p) \/ EmitNotification(p) \/ EmitCancelled(p)

Request(p) ==
    \/ \E u \in User, seats \in Requests : HoldStart(p, u, seats)
    \/ \E r \in Res : ConfirmStart(p, r) \/ CancelStart(p, r)

ExpireJob(p) == \E r \in Res : ExpireStart(p, r)

Environment ==
    \/ \E r \in Res : HoldTimeUp(r)
    \/ DeadlinePasses
    \/ \E s \in Seat : LockExpires(s)

Failure(p) == CallFails(p) \/ (CanFail /\ ReleaseLock(p, FALSE)) \/ Crash(p)

Next ==
    \/ \E p \in Http : Request(p)
    \/ \E p \in Worker : ExpireJob(p)
    \/ \E p \in Proc : HoldStep(p) \/ WriteStep(p) \/ Failure(p)
    \/ Environment

Spec == Init /\ [][Next]_vars

(* A handler that was started runs on; BullMQ hands due jobs to an idle    *)
(* worker; time passes, and Redis drops keys at their TTL.  No request is  *)
(* ever obliged to come.                                                   *)
Fairness ==
    /\ \A p \in Proc : WF_vars(HoldStep(p) \/ WriteStep(p))
    /\ \A p \in Worker : WF_vars(ExpireJob(p))
    /\ \A r \in Res : WF_vars(HoldTimeUp(r))
    /\ \A s \in Seat : WF_vars(LockExpires(s) /\ lock[s] = Orphan)

FairSpec == Spec /\ Fairness
=============================================================================
