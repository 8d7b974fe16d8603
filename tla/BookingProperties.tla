-------------------------- MODULE BookingProperties --------------------------
(***************************************************************************)
(* What the booking module is meant to guarantee.                          *)
(***************************************************************************)
EXTENDS Booking

RowsOf(r) == {x \in holds : x.res = r}

(* The promise of the entity, kept although handlers of several instances  *)
(* load, decide and write at the same time and may fail between any two    *)
(* calls (reservation.entity.ts, repository.updateReservation).            *)
Lifecycle == INSTANCE ReservationLifecycle WITH told <- sent
ImplementsLifecycle == Lifecycle!Spec

(* No seat is held or sold twice, even if a lock expires under the handler *)
(* that relies on it (redlock.ts, createReservation, unique index).        *)
NoDoubleBooking ==
    \A x, y \in holds :
        x.seat = y.seat /\ x.status \in Active /\ y.status \in Active => x = y

(* The rows of a reservation never contradict its status in the dangerous  *)
(* direction: a pending hold keeps all its seats, a confirmed reservation  *)
(* never loses one, an expired one never owns one, although the status and *)
(* the rows are written by separate calls of handlers that may have loaded *)
(* the reservation long before (confirmSeats, releaseSeats).               *)
SeatsMatchStatus ==
    \A x \in holds :
        /\ status[x.res] = "PENDING"   => x.status = "HELD"
        /\ status[x.res] = "CONFIRMED" => x.status # "RELEASED"
        /\ status[x.res] = "EXPIRED"   => x.status # "CONFIRMED"

(* A lock that a handler owns is one that this handler will still release: *)
(* no way through createReservation returns with a lock in hand, and a     *)
(* crashed handler leaves only keys that Redis drops at their TTL.         *)
LocksHaveKeepers ==
    \A s \in Seat, p \in Proc, n \in 1..MaxSeats :
        lock[s] = Token(p, n) =>
            /\ h[p].op = "hold"
            /\ n <= h[p].got
            /\ h[p].seats[n] = s
            /\ h[p].pc = "release" => n > h[p].n

(* While locks outlive their handlers' work, the lock makes the check that *)
(* a seat is free still true when the reservation is inserted: the unique  *)
(* index is never needed against a live reservation.                       *)
LockCoversCheck ==
    \A p \in Http : h[p].pc \in {"event", "insert"} =>
        \A i \in DOMAIN h[p].seats : \A x \in holds :
            x.seat = h[p].seats[i] /\ x.status \in Active => status[x.res] \notin Live

(* Without failures, three attempts are always enough for an expire job:   *)
(* a version conflict means that somebody else ended the hold.             *)
ExpireJobNeverFails == \A r \in Res : expireJob[r] # "failed"

-----------------------------------------------------------------------------
(* Expectations of the documentation that the code does not meet.          *)

(* A user has at most MaxSeats seats of an event (constants.ts), also when *)
(* requests of that user overlap.                                          *)
SeatCap ==
    \A u \in User :
        Cardinality({x \in holds : /\ owner[x.res] = u /\ status[x.res] \in Live
                                   /\ x.status \in Active}) <= MaxSeats

(* Nobody but an active hold keeps a seat from being held: a seat that was *)
(* given back can be held again (SeatHold in schema.prisma).               *)
FreedSeatsCanBeHeld ==
    \A p \in Http :
        /\ h[p].pc = "insert"
        /\ \A i \in DOMAIN h[p].seats : SeatAvailable(h[p].seats[i])
        => ~ UniqueViolation(h[p].seats)

(* When every handler of a reservation has finished, the seats of a        *)
(* cancelled one are free: processes that update the same reservation at   *)
(* the same time leave the data consistent (booking.repository.ts).        *)
CancelledSeatsAreFree ==
    \A x \in holds :
        /\ status[x.res] = "CANCELLED"
        /\ \A p \in Proc : h[p].res # x.res
        => x.status = "RELEASED"

-----------------------------------------------------------------------------
(* Every request and every job ends: a lock that cannot be had, even one   *)
(* that the same request holds already, is refused and never waited for.   *)
RequestsEnd == \A p \in Proc : []<>(h[p].pc = "idle")

(* With a worker on its queue, a hold that is neither paid nor cancelled   *)
(* expires and gives all its seats back.                                   *)
HoldsEnd ==
    \A r \in Res :
        status[r] = "PENDING" ~>
            \/ status[r] \in {"CONFIRMED", "CANCELLED"}
            \/ status[r] = "EXPIRED" /\ \A x \in RowsOf(r) : x.status = "RELEASED"

(* A confirmed reservation is announced, for the tickets and the e-mail.   *)
ConfirmationsAreTold ==
    \A r \in Res :
        status[r] = "CONFIRMED" ~> /\ sent[r]["reservation.confirmed"] = 1
                                   /\ sent[r]["notification.send"] = 1
=============================================================================
