---------------------------- MODULE BookingProofs ----------------------------
(***************************************************************************)
(* Proofs about Booking, for every set of seats, users and handlers and    *)
(* every setting of the switches.                                          *)
(***************************************************************************)
EXTENDS BookingProperties, TLAPS

(* The control state of a handler: which of its fields mean something, and *)
(* how far its loops have come.                                            *)
HoldPc == {"lock", "check", "event", "insert", "schedule", "release"}
WritePc == {"update", "seats", "emit", "notify"}

ControlOK(x) ==
    /\ x.pc = "idle" => x = Idle
    /\ x.pc \in HoldPc => x.op = "hold" /\ x.seats \in Requests /\ x.got <= Len(x.seats)
    /\ x.pc \in WritePc => x.op \in {"confirm", "cancel", "expire"} /\ x.res \in Res
    /\ x.pc = "lock" => x.n < Len(x.seats) /\ x.got = x.n
    /\ x.pc \in {"check", "event", "insert", "schedule"} => x.got = Len(x.seats)
    /\ x.pc = "check" => x.n < Len(x.seats)
    /\ x.pc = "release" => x.n < x.got
    /\ x.pc = "schedule" => x.res \in Res
    /\ x.pc = "notify" => x.op = "confirm"

HandlersOK == h \in [Proc -> Handler] /\ \A p \in Proc : ControlOK(h[p])

(* A request body is a non-empty sequence of seats within the limit.       *)
LEMMA RequestFacts ==
    ASSUME NEW s \in Requests
    PROVE  /\ Len(s) \in 1..MaxSeats
           /\ DOMAIN s = 1..Len(s)
           /\ \A i \in 1..Len(s) : s[i] \in Seat
<1>1. PICK n \in 1..MaxSeats : s \in [1..n -> Seat]
  BY DEF Requests
<1>2. Len(s) = n /\ DOMAIN s = 1..n
  BY <1>1, MaxSeatsAssumption
<1> QED
  BY <1>1, <1>2

(* Where a handler can be.                                                 *)
Pc == {"idle"} \cup HoldPc \cup WritePc

(* Handlers stay handlers when their counters move.                        *)
LEMMA HandlerUpdate ==
    ASSUME NEW x \in Handler, NEW pc \in Pc, NEW n \in 0..MaxSeats, NEW got \in 0..MaxSeats
    PROVE  [x EXCEPT !.n = n, !.pc = pc, !.got = got] \in Handler
  BY Zenon DEF Handler, Pc, HoldPc, WritePc

(* A free slot is a well-formed handler.                                   *)
LEMMA IdleFacts == Idle \in Handler /\ ControlOK(Idle)
  BY MaxSeatsAssumption DEF Idle, Handler, ControlOK, HoldPc, WritePc, Status

(* Returning, and starting to release, keep the control state in order.    *)
LEMMA ReturnOK ==
    ASSUME NEW p \in Proc, HandlersOK, Return(p)
    PROVE  HandlersOK'
  BY IdleFacts DEF HandlersOK, Return

(* Leaving a hold through its finally block.                               *)
LEMMA FinallyOK ==
    ASSUME NEW p \in Proc, HandlersOK, h[p].pc \in HoldPc, Finally(p)
    PROVE  HandlersOK'
<1>1. CASE h[p].got = 0
  BY <1>1, ReturnOK DEF Finally
<1>2. CASE h[p].got # 0
  <2> DEFINE x == [h[p] EXCEPT !.n = 0, !.pc = "release", !.got = h[p].got]
  <2>2. h[p] \in Handler /\ ControlOK(h[p])
    BY DEF HandlersOK
  <2>1. h' = [h EXCEPT ![p] = x]
    BY <1>2, <2>2 DEF Finally, HandlersOK, Handler
  <2>3. x \in Handler
    <3>1. h[p].got \in 0..MaxSeats /\ 0 \in 0..MaxSeats /\ "release" \in Pc
      BY <2>2, MaxSeatsAssumption DEF Handler, Pc, HoldPc
    <3> QED
      BY <2>2, <3>1, HandlerUpdate
  <2>4. ControlOK(x)
    BY <2>2, <1>2 DEF ControlOK, Handler, HoldPc, WritePc
  <2> QED
    BY <2>1, <2>3, <2>4 DEF HandlersOK
<1> QED
  BY <1>1, <1>2

(* One round of a loop over the seats.                                     *)
LEMMA NextSeatOK ==
    ASSUME NEW p \in Proc, HandlersOK, NEW pc, NEW got,
           \/ h[p].pc = "lock" /\ pc = "check" /\ got = h[p].got + 1
           \/ h[p].pc = "check" /\ pc = "event" /\ got = h[p].got,
           NextSeat(p, pc, got)
    PROVE  HandlersOK'
<1>1. h[p] \in Handler /\ ControlOK(h[p])
  BY DEF HandlersOK
<1>2. h[p].seats \in Requests /\ h[p].op = "hold" /\ h[p].n < Len(h[p].seats)
  BY <1>1 DEF ControlOK, HoldPc
<1>3. Len(h[p].seats) \in 1..MaxSeats
  BY <1>2, RequestFacts
<1> DEFINE x == [h[p] EXCEPT !.n = IF h[p].n + 1 = Len(h[p].seats) THEN 0 ELSE h[p].n + 1,
                             !.pc = IF h[p].n + 1 = Len(h[p].seats) THEN pc ELSE h[p].pc,
                             !.got = got]
<1>4. h' = [h EXCEPT ![p] = x]
  BY DEF NextSeat, HandlersOK
<1>5. got \in 0..MaxSeats /\ h[p].n + 1 \in 0..MaxSeats
  BY <1>1, <1>2, <1>3, MaxSeatsAssumption DEF ControlOK, Handler, HoldPc
<1>6. x \in Handler
  <2>1. 0 \in 0..MaxSeats /\ pc \in Pc /\ h[p].pc \in Pc
    BY <1>1, MaxSeatsAssumption DEF Handler, Pc, HoldPc, WritePc
  <2> QED
    BY <1>1, <1>5, <2>1, HandlerUpdate
<1>7. ControlOK(x)
  BY <1>1, <1>2, <1>3, <1>5 DEF ControlOK, Handler, HoldPc, WritePc
<1> QED
  BY <1>4, <1>6, <1>7 DEF HandlersOK

(* A jump to a later step of the same handler.                             *)
LEMMA GotoOK ==
    ASSUME NEW p \in Proc, HandlersOK, NEW pc,
           \/ h[p].pc = "event" /\ pc = "insert"
           \/ h[p].pc = "update" /\ pc = "seats"
           \/ h[p].pc = "seats" /\ pc = "emit"
           \/ h[p].pc = "emit" /\ h[p].op = "confirm" /\ pc = "notify",
           Goto(p, pc)
    PROVE  HandlersOK'
<1> DEFINE x == [h[p] EXCEPT !.n = h[p].n, !.pc = pc, !.got = h[p].got]
<1>1. h[p] \in Handler /\ ControlOK(h[p])
  BY DEF HandlersOK
<1>2. h' = [h EXCEPT ![p] = x]
  BY <1>1 DEF Goto, HandlersOK, Handler
<1>3. x \in Handler
  <2>1. h[p].got \in 0..MaxSeats /\ h[p].n \in 0..MaxSeats /\ pc \in Pc
    BY <1>1 DEF Handler, Pc, HoldPc, WritePc
  <2> QED
    BY <1>1, <2>1, HandlerUpdate
<1>4. ControlOK(x)
  BY <1>1 DEF ControlOK, Handler, HoldPc, WritePc
<1> QED
  BY <1>2, <1>3, <1>4 DEF HandlersOK

(* Loading a reservation starts a handler in good order.                   *)
LEMMA LoadOK ==
    ASSUME NEW p \in Proc, HandlersOK, NEW op \in {"confirm", "cancel", "expire"}, NEW r \in Res,
           status[r] \in Status, version[r] \in Nat, Load(p, op, r)
    PROVE  HandlersOK'
<1> DEFINE x == [Idle EXCEPT !.op = op, !.pc = "update", !.res = r,
                             !.was = status[r], !.ver = version[r]]
<1>1. h' = [h EXCEPT ![p] = x]
  BY DEF Load
<1>2. x \in Handler
  <2>1. op \in Op \cup {"none"} /\ r \in Res \cup {None}
    BY DEF Op
  <2> QED
    BY <2>1, IdleFacts, Zenon DEF Handler
<1>3. ControlOK(x)
  BY IdleFacts DEF Handler, ControlOK, HoldPc, WritePc
<1> QED
  BY <1>1, <1>2, <1>3 DEF HandlersOK

(* A new hold starts at its first seat without a lock.                     *)
LEMMA HoldStartOK ==
    ASSUME NEW p \in Proc, HandlersOK, NEW u \in User, NEW seats \in Requests,
           HoldStart(p, u, seats)
    PROVE  HandlersOK'
<1> DEFINE x == [Idle EXCEPT !.op = "hold", !.pc = "lock", !.user = u, !.seats = seats]
<1>1. h' = [h EXCEPT ![p] = x]
  BY DEF HoldStart
<1>2. x \in Handler
  <2>1. "hold" \in Op \cup {"none"} /\ u \in User \cup {None} /\ seats \in Requests \cup {<<>>}
    BY DEF Op
  <2> QED
    BY <2>1, IdleFacts, Zenon DEF Handler
<1>3. ControlOK(x)
  <2>1. Idle.n = 0 /\ Idle.got = 0 /\ Len(seats) \in 1..MaxSeats
    BY RequestFacts DEF Idle
  <2> QED
    BY <2>1, IdleFacts, MaxSeatsAssumption DEF Handler, ControlOK, HoldPc, WritePc
<1> QED
  BY <1>1, <1>2, <1>3 DEF HandlersOK

(* Insert also notes the new identifier in its handler.                    *)
LEMMA InsertedOK ==
    ASSUME NEW p \in Proc, HandlersOK, NEW r \in Res, h[p].pc = "insert",
           h' = [h EXCEPT ![p].pc = "schedule", ![p].res = r]
    PROVE  HandlersOK'
<1> DEFINE x == [h[p] EXCEPT !.pc = "schedule", !.res = r]
<1>1. h[p] \in Handler /\ ControlOK(h[p])
  BY DEF HandlersOK
<1>2. h' = [h EXCEPT ![p] = x]
  BY DEF HandlersOK
<1>3. x \in Handler
  BY <1>1, Zenon DEF Handler
<1>4. ControlOK(x)
  BY <1>1 DEF ControlOK, Handler, HoldPc, WritePc
<1> QED
  BY <1>2, <1>3, <1>4 DEF HandlersOK

(* One round of the finally block.                                         *)
LEMMA ReleaseOK ==
    ASSUME NEW p \in Proc, HandlersOK, NEW freed, ReleaseLock(p, freed)
    PROVE  HandlersOK'
<1>1. CASE h[p].n + 1 = h[p].got
  BY <1>1, ReturnOK DEF ReleaseLock
<1>2. CASE h[p].n + 1 # h[p].got
  <2> DEFINE x == [h[p] EXCEPT !.n = h[p].n + 1, !.pc = "release", !.got = h[p].got]
  <2>1. h[p] \in Handler /\ ControlOK(h[p]) /\ h[p].pc = "release"
    BY DEF HandlersOK, ReleaseLock
  <2>2. h' = [h EXCEPT ![p] = x]
    BY <1>2, <2>1 DEF ReleaseLock, HandlersOK, Handler
  <2>3. h[p].n + 1 < h[p].got /\ h[p].n \in 0..MaxSeats /\ h[p].got \in 0..MaxSeats
    BY <2>1, <1>2 DEF ControlOK, Handler
  <2>4. x \in Handler
    <3>1. h[p].n + 1 \in 0..MaxSeats /\ "release" \in Pc
      BY <2>3, MaxSeatsAssumption DEF Pc, HoldPc
    <3> QED
      BY <2>1, <2>3, <3>1, HandlerUpdate
  <2>5. ControlOK(x)
    BY <2>1, <2>3 DEF ControlOK, Handler, HoldPc, WritePc
  <2> QED
    BY <2>2, <2>4, <2>5 DEF HandlersOK
<1> QED
  BY <1>1, <1>2

-----------------------------------------------------------------------------
(* Type correctness.  The types alone are not inductive: that a loop       *)
(* counter stays in range needs the control state.                         *)
ControlInv == \A p \in Proc : ControlOK(h[p])

(* Types and control state at the start.                                   *)
LEMMA TypeInit == Init => TypeOK /\ ControlInv
<1> SUFFICES ASSUME Init PROVE TypeOK /\ ControlInv
  OBVIOUS
<1>1. h \in [Proc -> Handler] /\ ControlInv
  BY IdleFacts DEF Init, ControlInv
<1>2. sent \in [Res -> [Event -> Nat]]
  BY DEF Init
<1> QED
  BY <1>1, <1>2 DEF Init, TypeOK, Status

(* A reservation that a handler works on exists.                           *)
LEMMA OwnReservation ==
    ASSUME NEW p \in Proc, ControlInv, h[p].pc \in WritePc \cup {"schedule"}
    PROVE  h[p].res \in Res
  BY DEF ControlInv, ControlOK

(* A rejected call leaves types and control state in order.                *)
LEMMA RejectType ==
    ASSUME TypeOK, ControlInv, NEW p \in Proc, h[p].pc \in WritePc, Reject(p)
    PROVE  /\ HandlersOK'
           /\ sent' = sent
           /\ attempts' \in [Res -> Nat]
           /\ expireJob' \in [Res -> {"none", "delayed", "active", "done", "failed"}]
<1>1. HandlersOK'
  BY ReturnOK DEF Reject, HandlersOK, TypeOK, ControlInv
<1>2. h[p].res \in Res
  BY OwnReservation
<1>3. CASE h[p].op = "expire"
  <2>1. attempts' \in [Res -> Nat]
    BY <1>2, <1>3 DEF Reject, FailJob, TypeOK
  <2>2. expireJob' \in [Res -> {"none", "delayed", "active", "done", "failed"}]
    <3> DEFINE st == IF attempts[h[p].res] + 1 < MaxAttempts THEN "delayed" ELSE "failed"
    <3>1. expireJob' = [expireJob EXCEPT ![h[p].res] = st]
      BY <1>3 DEF Reject, FailJob
    <3>2. st \in {"none", "delayed", "active", "done", "failed"}
      OBVIOUS
    <3> HIDE DEF st
    <3> QED
      BY <3>1, <3>2 DEF TypeOK
  <2> QED
    BY <1>1, <1>3, <2>1, <2>2 DEF Reject, FailJob
<1>4. CASE h[p].op # "expire"
  BY <1>1, <1>4 DEF Reject, jobVars, TypeOK
<1> QED
  BY <1>3, <1>4

(* So does every step of a hold,                                           *)
LEMMA HoldStepType ==
    ASSUME TypeOK, ControlInv, NEW p \in Proc, HoldStep(p)
    PROVE  TypeOK' /\ HandlersOK'
<1> USE DEF reservationVars, jobVars, timeVars
<1>1. HandlersOK /\ h[p] \in Handler /\ ControlOK(h[p])
  BY DEF HandlersOK, TypeOK, ControlInv
<1>2. CASE AcquireLock(p)
  <2>1. HandlersOK'
    BY <1>1, <1>2, NextSeatOK DEF AcquireLock
  <2>2. h[p].n + 1 \in 1..MaxSeats
    <3>1. h[p].seats \in Requests /\ h[p].n < Len(h[p].seats)
      BY <1>1, <1>2 DEF AcquireLock, ControlOK, HoldPc
    <3> QED
      BY <1>1, <3>1, RequestFacts, MaxSeatsAssumption DEF Handler
  <2>3. lock' \in [Seat -> (Proc \X (1..MaxSeats)) \cup {Orphan, None}]
    <3>1. Token(p, h[p].n + 1) \in Proc \X (1..MaxSeats)
      BY <2>2 DEF Token
    <3> QED
      BY <3>1, <1>2 DEF AcquireLock, TypeOK
  <2> QED
    BY <2>1, <2>3, <1>2 DEF AcquireLock, TypeOK, HandlersOK
<1>3. CASE LockBusy(p)
  <2>1. HandlersOK'
    BY <1>1, <1>3, FinallyOK DEF LockBusy, HoldPc
  <2> QED
    BY <2>1, <1>3 DEF LockBusy, TypeOK, HandlersOK
<1>4. CASE CheckSeat(p)
  <2>1. HandlersOK'
    BY <1>1, <1>4, NextSeatOK, FinallyOK DEF CheckSeat, HoldPc
  <2> QED
    BY <2>1, <1>4 DEF CheckSeat, TypeOK, HandlersOK
<1>5. CASE LoadEvent(p)
  <2>1. HandlersOK'
    BY <1>1, <1>5, GotoOK, FinallyOK DEF LoadEvent, HoldPc
  <2> QED
    BY <2>1, <1>5 DEF LoadEvent, TypeOK, HandlersOK
<1>6. CASE Insert(p)
  <2>1. PICK r \in Res :
          /\ status' = [status EXCEPT ![r] = "PENDING"]
          /\ version' = [version EXCEPT ![r] = 1]
          /\ owner' = [owner EXCEPT ![r] = h[p].user]
          /\ holds' = holds \cup {[res |-> r, seat |-> h[p].seats[i], n |-> i, status |-> "HELD"] :
                                     i \in DOMAIN h[p].seats}
          /\ h' = [h EXCEPT ![p].pc = "schedule", ![p].res = r]
    BY <1>6 DEF Insert
  <2>2. HandlersOK'
    BY <1>1, <1>6, <2>1, InsertedOK DEF Insert
  <2>3. status' \in [Res -> Status] /\ version' \in [Res -> Nat] /\ owner' \in [Res -> User \cup {None}]
    BY <1>1, <2>1 DEF TypeOK, Status, Handler
  <2>4. holds' \subseteq SeatHold
    <3>1. h[p].seats \in Requests
      BY <1>1, <1>6 DEF Insert, ControlOK, HoldPc
    <3>2. ASSUME NEW i \in DOMAIN h[p].seats
          PROVE  [res |-> r, seat |-> h[p].seats[i], n |-> i, status |-> "HELD"] \in SeatHold
      BY <3>1, RequestFacts, MaxSeatsAssumption DEF SeatHold, Active
    <3> QED
      BY <2>1, <3>2 DEF TypeOK
  <2> QED
    BY <2>2, <2>3, <2>4, <1>6 DEF Insert, TypeOK, HandlersOK
<1>7. CASE InsertRefused(p)
  <2>1. HandlersOK'
    BY <1>1, <1>7, FinallyOK DEF InsertRefused, HoldPc
  <2> QED
    BY <2>1, <1>7 DEF InsertRefused, TypeOK, HandlersOK
<1>8. CASE ScheduleExpire(p)
  <2>1. HandlersOK'
    BY <1>1, <1>8, FinallyOK DEF ScheduleExpire, HoldPc
  <2>2. expireJob' \in [Res -> {"none", "delayed", "active", "done", "failed"}]
    BY <1>8 DEF ScheduleExpire, TypeOK
  <2> QED
    BY <2>1, <2>2, <1>8 DEF ScheduleExpire, TypeOK, HandlersOK
<1>9. CASE ReleaseLock(p, TRUE)
  <2>1. HandlersOK'
    BY <1>1, <1>9, ReleaseOK
  <2>2. lock' \in [Seat -> (Proc \X (1..MaxSeats)) \cup {Orphan, None}]
    BY <1>9 DEF ReleaseLock, TypeOK
  <2> QED
    BY <2>1, <2>2, <1>9 DEF ReleaseLock, TypeOK, HandlersOK
<1> QED
  BY <1>2, <1>3, <1>4, <1>5, <1>6, <1>7, <1>8, <1>9 DEF HoldStep

(* every step of a confirmation, a cancellation or an expiry,              *)
LEMMA WriteStepType ==
    ASSUME TypeOK, ControlInv, NEW p \in Proc, WriteStep(p)
    PROVE  TypeOK' /\ HandlersOK'
<1> USE DEF reservationVars, jobVars, timeVars
<1>1. HandlersOK /\ h[p] \in Handler /\ ControlOK(h[p])
  BY DEF HandlersOK, TypeOK, ControlInv
<1>2. CASE UpdateReservation(p)
  <2>1. HandlersOK'
    BY <1>1, <1>2, GotoOK DEF UpdateReservation
  <2>2. h[p].op \in {"confirm", "cancel", "expire"} /\ h[p].ver \in Nat
    BY <1>1, <1>2 DEF UpdateReservation, ControlOK, WritePc, Handler
  <2>3. Target(h[p].op) \in Status
    BY <2>2 DEF Target, Status
  <2>4. status' \in [Res -> Status]
    BY <1>2, <2>3 DEF UpdateReservation, TypeOK
  <2>5. version' \in [Res -> Nat]
    <3> DEFINE v == h[p].ver + 1
    <3>1. v \in Nat /\ version' = [version EXCEPT ![h[p].res] = v]
      BY <1>2, <2>2 DEF UpdateReservation
    <3> HIDE DEF v
    <3> QED
      BY <3>1 DEF TypeOK
  <2> QED
    BY <2>1, <2>4, <2>5, <1>2 DEF UpdateReservation, TypeOK, HandlersOK
<1>3. CASE UpdateConflict(p)
  <2>1. h[p].pc \in WritePc /\ Reject(p)
    BY <1>3 DEF UpdateConflict, WritePc
  <2> QED
    BY <1>3, <2>1, RejectType DEF UpdateConflict, TypeOK, HandlersOK
<1>4. CASE UpdateSeats(p)
  <2>1. HandlersOK'
    BY <1>1, <1>4, GotoOK, ReturnOK DEF UpdateSeats
  <2>2. holds' \subseteq SeatHold
    <3> DEFINE st == IF h[p].op = "confirm" THEN "CONFIRMED" ELSE "RELEASED"
    <3>1. st \in Active \cup {"RELEASED"} /\ holds' = SetSeats(h[p].res, st)
      BY <1>4 DEF UpdateSeats, Active
    <3> HIDE DEF st
    <3>2. ASSUME NEW x \in holds
          PROVE  (IF x.res = h[p].res THEN [x EXCEPT !.status = st] ELSE x) \in SeatHold
      <4>1. x \in SeatHold
        BY DEF TypeOK
      <4> QED
        BY <3>1, <4>1 DEF SeatHold
    <3> QED
      BY <3>1, <3>2 DEF SetSeats
  <2>3. expireJob' \in [Res -> {"none", "delayed", "active", "done", "failed"}]
    BY <1>4 DEF UpdateSeats, TypeOK
  <2> QED
    BY <2>1, <2>2, <2>3, <1>4 DEF UpdateSeats, TypeOK, HandlersOK
<1>5. ASSUME NEW e \in Event, Enqueue(h[p].res, e), h[p].pc \in WritePc
      PROVE  sent' \in [Res -> [Event -> Nat]]
  <2>1. h[p].res \in Res
    BY <1>1, <1>5 DEF ControlOK
  <2> QED
    BY <1>5, <2>1 DEF Enqueue, TypeOK
<1>6. CASE EmitConfirmed(p)
  <2>1. HandlersOK'
    BY <1>1, <1>6, GotoOK DEF EmitConfirmed
  <2>2. sent' \in [Res -> [Event -> Nat]]
    BY <1>5, <1>6 DEF EmitConfirmed, WritePc, Event
  <2> QED
    BY <2>1, <2>2, <1>6 DEF EmitConfirmed, TypeOK, HandlersOK
<1>7. CASE EmitNotification(p)
  <2>1. HandlersOK'
    BY <1>1, <1>7, ReturnOK DEF EmitNotification
  <2>2. sent' \in [Res -> [Event -> Nat]]
    BY <1>5, <1>7 DEF EmitNotification, WritePc, Event
  <2> QED
    BY <2>1, <2>2, <1>7 DEF EmitNotification, TypeOK, HandlersOK
<1>8. CASE EmitCancelled(p)
  <2>1. HandlersOK'
    BY <1>1, <1>8, ReturnOK DEF EmitCancelled
  <2>2. sent' \in [Res -> [Event -> Nat]]
    BY <1>5, <1>8 DEF EmitCancelled, WritePc, Event
  <2> QED
    BY <2>1, <2>2, <1>8 DEF EmitCancelled, TypeOK, HandlersOK
<1> QED
  BY <1>2, <1>3, <1>4, <1>6, <1>7, <1>8 DEF WriteStep

(* every request and every job that starts,                                *)
LEMMA StartType ==
    ASSUME TypeOK, ControlInv, NEW p \in Proc, Request(p) \/ ExpireJob(p)
    PROVE  TypeOK' /\ HandlersOK'
<1> USE DEF reservationVars, jobVars, timeVars
<1>1. HandlersOK
  BY DEF HandlersOK, TypeOK, ControlInv
<1>2. ASSUME NEW u \in User, NEW seats \in Requests, HoldStart(p, u, seats)
      PROVE  TypeOK' /\ HandlersOK'
  <2>1. HandlersOK'
    BY <1>1, <1>2, HoldStartOK
  <2> QED
    BY <1>2, <2>1 DEF HoldStart, TypeOK, HandlersOK
<1>3. ASSUME NEW r \in Res, NEW op \in {"confirm", "cancel", "expire"}, Load(p, op, r)
      PROVE  HandlersOK'
  BY <1>1, <1>3, LoadOK DEF TypeOK
<1>4. ASSUME NEW r \in Res, ConfirmStart(p, r) \/ CancelStart(p, r)
      PROVE  TypeOK' /\ HandlersOK'
  <2>1. HandlersOK'
    BY <1>3, <1>4 DEF ConfirmStart, CancelStart
  <2> QED
    BY <1>4, <2>1 DEF ConfirmStart, CancelStart, TypeOK, HandlersOK
<1>5. ASSUME NEW r \in Res, ExpireStart(p, r)
      PROVE  TypeOK' /\ HandlersOK'
  <2>1. HandlersOK'
    <3>1. CASE status[r] = "PENDING"
      BY <1>3, <1>5, <3>1 DEF ExpireStart
    <3>2. CASE status[r] # "PENDING"
      BY <1>1, <1>5, <3>2 DEF ExpireStart, HandlersOK
    <3> QED
      BY <3>1, <3>2
  <2>2. expireJob' \in [Res -> {"none", "delayed", "active", "done", "failed"}]
    BY <1>5 DEF ExpireStart, TypeOK
  <2> QED
    BY <1>5, <2>1, <2>2 DEF ExpireStart, TypeOK, HandlersOK
<1> QED
  BY <1>2, <1>4, <1>5 DEF Request, ExpireJob

(* the passing of time,                                                    *)
LEMMA EnvironmentType ==
    ASSUME TypeOK, ControlInv, Environment
    PROVE  TypeOK' /\ HandlersOK'
<1> USE DEF reservationVars, jobVars, timeVars
<1>1. HandlersOK
  BY DEF HandlersOK, TypeOK, ControlInv
<1>2. h' = h
  BY DEF Environment, HoldTimeUp, DeadlinePasses, LockExpires
<1>3. HandlersOK'
  BY <1>1, <1>2 DEF HandlersOK
<1>4. ASSUME NEW r \in Res, HoldTimeUp(r) PROVE TypeOK'
  BY <1>4 DEF HoldTimeUp, TypeOK
<1>5. CASE DeadlinePasses
  <2>1. tooLate' \in BOOLEAN
    BY <1>5, Zenon DEF DeadlinePasses
  <2>2. UNCHANGED <<status, version, owner, holds, lock, sent, expireJob, attempts, overdue>>
    BY <1>5 DEF DeadlinePasses
  <2>3. TypeOK'
    BY <1>2, <2>1, <2>2, Zenon DEF TypeOK
  <2> QED
    BY <1>3, <2>3
<1>6. ASSUME NEW s \in Seat, LockExpires(s) PROVE TypeOK'
  BY <1>6 DEF LockExpires, TypeOK
<1> QED
  BY <1>3, <1>4, <1>5, <1>6 DEF Environment

(* every failure and every crash,                                          *)
LEMMA FailureType ==
    ASSUME TypeOK, ControlInv, NEW p \in Proc, Failure(p)
    PROVE  TypeOK' /\ HandlersOK'
<1> USE DEF reservationVars, jobVars, timeVars
<1>1. HandlersOK /\ h[p] \in Handler /\ ControlOK(h[p])
  BY DEF HandlersOK, TypeOK, ControlInv
<1>2. CASE CallFails(p)
  <2>1. CASE h[p].op = "hold" /\ h[p].pc # "release" /\ Finally(p) /\ UNCHANGED <<lock, jobVars>>
    <3>1. h[p].pc \in HoldPc
      BY <1>1, <2>1 DEF ControlOK, Handler, HoldPc, WritePc, Idle
    <3>2. HandlersOK'
      BY <1>1, <2>1, <3>1, FinallyOK
    <3> QED
      BY <1>2, <2>1, <3>2 DEF CallFails, TypeOK, HandlersOK
  <2>2. CASE h[p].pc \in {"update", "seats", "emit", "notify"} /\ Reject(p) /\ UNCHANGED lock
    <3>1. h[p].pc \in WritePc
      BY <2>2 DEF WritePc
    <3> QED
      BY <1>2, <2>2, <3>1, RejectType DEF CallFails, TypeOK, HandlersOK
  <2> QED
    BY <1>2, <2>1, <2>2 DEF CallFails
<1>3. CASE ReleaseLock(p, FALSE)
  <2>1. HandlersOK'
    BY <1>1, <1>3, ReleaseOK
  <2>2. lock' \in [Seat -> (Proc \X (1..MaxSeats)) \cup {Orphan, None}]
    BY <1>3 DEF ReleaseLock, TypeOK
  <2> QED
    BY <2>1, <2>2, <1>3 DEF ReleaseLock, TypeOK, HandlersOK
<1>4. CASE Crash(p)
  <2>1. HandlersOK'
    BY <1>1, <1>4, ReturnOK DEF Crash
  <2>2. lock' \in [Seat -> (Proc \X (1..MaxSeats)) \cup {Orphan, None}]
    BY <1>4 DEF Crash, TypeOK
  <2>3. expireJob' \in [Res -> {"none", "delayed", "active", "done", "failed"}]
    BY <1>4 DEF Crash, TypeOK
  <2> QED
    BY <2>1, <2>2, <2>3, <1>4 DEF Crash, TypeOK, HandlersOK
<1> QED
  BY <1>2, <1>3, <1>4 DEF Failure

(* and so every step at all.                                               *)
LEMMA TypeNext == TypeOK /\ ControlInv /\ [Next]_vars => TypeOK' /\ ControlInv'
<1> SUFFICES ASSUME TypeOK, ControlInv, [Next]_vars PROVE TypeOK' /\ HandlersOK'
  BY DEF HandlersOK, ControlInv
<1>1. ASSUME NEW p \in Http, Request(p) PROVE TypeOK' /\ HandlersOK'
  BY <1>1, StartType DEF Proc
<1>2. ASSUME NEW p \in Worker, ExpireJob(p) PROVE TypeOK' /\ HandlersOK'
  BY <1>2, StartType DEF Proc
<1>3. ASSUME NEW p \in Proc, HoldStep(p) \/ WriteStep(p) \/ Failure(p) PROVE TypeOK' /\ HandlersOK'
  BY <1>3, HoldStepType, WriteStepType, FailureType
<1>4. CASE Environment
  BY <1>4, EnvironmentType
<1>5. CASE UNCHANGED vars
  <2>1. TypeOK'
    BY <1>5 DEF vars, reservationVars, jobVars, timeVars, TypeOK
  <2>2. h' = h
    BY <1>5 DEF vars
  <2> QED
    BY <2>1, <2>2 DEF TypeOK, HandlersOK, ControlInv
<1> QED
  BY <1>1, <1>2, <1>3, <1>4, <1>5 DEF Next

(* Every variable keeps its type, and every handler its control state.     *)
THEOREM TypeCorrect == Spec => [](TypeOK /\ ControlInv)
<1>1. Init => TypeOK /\ ControlInv
  BY TypeInit
<1>2. TypeOK /\ ControlInv /\ [Next]_vars => (TypeOK /\ ControlInv)'
  BY TypeNext
<1> QED
  BY <1>1, <1>2, PTL DEF Spec

-----------------------------------------------------------------------------
(* The unique index alone keeps a seat from being sold twice: it holds     *)
(* whatever happens to locks, handlers and jobs.                           *)
UniqueSeats == \A x, y \in holds : x.seat = y.seat => x = y

-----------------------------------------------------------------------------
(* What ties the handlers, the reservations, their rows and the published  *)
(* events together.                                                        *)

(* The version counts the transitions. *)
VersionInv ==
    \A r \in Res :
        /\ status[r] = "NONE" <=> version[r] = 0
        /\ status[r] = "PENDING" <=> version[r] = 1
        /\ status[r] \in {"CONFIRMED", "EXPIRED"} => version[r] = 2
        /\ status[r] = "CANCELLED" => version[r] \in {2, 3}

RowsInv == \A x \in holds : status[x.res] # "NONE"

(* What a handler has loaded is no newer than the row, and if the version  *)
(* still matches then so does the status it decided on.                    *)
LoadInv ==
    \A p \in Proc : h[p].pc = "update" =>
        /\ h[p].was \in Live
        /\ h[p].op # "cancel" => h[p].was = "PENDING"
        /\ 1 <= h[p].ver /\ h[p].ver <= version[h[p].res]
        /\ h[p].ver = version[h[p].res] => h[p].was = status[h[p].res]

WasConfirmed(r) == status[r] = "CONFIRMED" \/ (status[r] = "CANCELLED" /\ version[r] = 3)

(* A handler past its update is the one that made the transition. *)
Writing(p) == h[p].pc \in {"seats", "emit", "notify"}

WriterInv ==
    \A p \in Proc : Writing(p) =>
        /\ h[p].op = "confirm" => WasConfirmed(h[p].res)
        /\ h[p].op = "expire"  => status[h[p].res] = "EXPIRED"
        /\ h[p].op = "cancel"  => /\ status[h[p].res] = "CANCELLED"
                                  /\ version[h[p].res] = IF h[p].was = "CONFIRMED" THEN 3 ELSE 2

SingleWriter ==
    \A p, q \in Proc :
        Writing(p) /\ Writing(q) /\ h[p].res = h[q].res /\ h[p].op = h[q].op => p = q

(* Nothing is told before it is true, and what a handler is about to tell  *)
(* has not been told yet.                                                  *)
UntoldInv ==
    \A r \in Res :
        /\ ~ WasConfirmed(r) => sent[r]["reservation.confirmed"] = 0 /\ sent[r]["notification.send"] = 0
        /\ status[r] # "CANCELLED" => /\ sent[r]["reservation.cancelled"] = 0
                                      /\ sent[r]["reservation.cancelled (refund)"] = 0

TellerInv ==
    \A p \in Proc : Writing(p) =>
        /\ h[p].op = "confirm" =>
              /\ sent[h[p].res]["reservation.confirmed"] = IF h[p].pc = "notify" THEN 1 ELSE 0
              /\ sent[h[p].res]["notification.send"] = 0
        /\ h[p].op = "cancel" =>
              /\ sent[h[p].res]["reservation.cancelled"] = 0
              /\ sent[h[p].res]["reservation.cancelled (refund)"] = 0

HistoryInv ==
    /\ VersionInv /\ RowsInv /\ LoadInv /\ WriterInv /\ SingleWriter
    /\ UntoldInv /\ TellerInv
    /\ UniqueSeats /\ SeatsMatchStatus

(* The history invariant at the start: nothing has happened.               *)
LEMMA HistoryInit == Init => HistoryInv
<1> SUFFICES ASSUME Init PROVE HistoryInv
  OBVIOUS
<1>1. \A p \in Proc : h[p].pc = "idle"
  BY DEF Init, Idle
<1>2. LoadInv /\ WriterInv /\ SingleWriter
  BY <1>1 DEF LoadInv, WriterInv, SingleWriter, Writing
<1>3. UntoldInv /\ TellerInv
  BY <1>1 DEF Init, UntoldInv, TellerInv, Writing, Event
<1>4. VersionInv /\ RowsInv /\ UniqueSeats /\ SeatsMatchStatus
  BY DEF Init, VersionInv, RowsInv, UniqueSeats, SeatsMatchStatus
<1> QED
  BY <1>2, <1>3, <1>4 DEF HistoryInv

(* Most steps are quiet: they leave reservations, rows and events alone,   *)
(* and no handler takes a step of a write.                                 *)
Quiet ==
    /\ UNCHANGED <<status, version, holds, sent>>
    /\ \A q \in Proc : h'[q] = h[q] \/ h'[q].pc \notin WritePc

(* A step that moves no reservation and no row, and at most drops handlers *)
(* or walks through a hold, keeps the history invariant.                   *)
LEMMA QuietHistory == HistoryInv /\ Quiet => HistoryInv'
<1> SUFFICES ASSUME HistoryInv, Quiet PROVE HistoryInv'
  OBVIOUS
<1>1. \A q \in Proc : h'[q] = h[q] \/ (h'[q].pc # "update" /\ ~ Writing(q)')
  BY DEF Quiet, WritePc, Writing
<1>2. UNCHANGED <<status, version, holds, sent>>
  BY DEF Quiet
<1>3. VersionInv' /\ RowsInv' /\ UniqueSeats' /\ SeatsMatchStatus'
  BY <1>2 DEF HistoryInv, VersionInv, RowsInv, UniqueSeats, SeatsMatchStatus
<1>4. LoadInv'
  BY <1>1, <1>2 DEF HistoryInv, LoadInv
<1>5. \A q \in Proc : Writing(q)' => h'[q] = h[q] /\ Writing(q)
  BY <1>1 DEF Writing
<1>6. WriterInv'
  BY <1>2, <1>5 DEF HistoryInv, WriterInv, WasConfirmed
<1>7. SingleWriter'
  BY <1>5 DEF HistoryInv, SingleWriter
<1>8. UntoldInv' /\ TellerInv'
  <2>1. UntoldInv'
    BY <1>2 DEF HistoryInv, UntoldInv, WasConfirmed
  <2>2. TellerInv'
    BY <1>2, <1>5 DEF HistoryInv, TellerInv
  <2> QED
    BY <2>1, <2>2
<1> QED
  BY <1>3, <1>4, <1>6, <1>7, <1>8 DEF HistoryInv

(* The handler of one process moves outside the write path. *)
LEMMA OneQuietHandler ==
    ASSUME TypeOK, NEW p \in Proc, UNCHANGED <<status, version, holds, sent>>,
           NEW x, h' = [h EXCEPT ![p] = x], x.pc \notin WritePc
    PROVE  Quiet
  BY DEF Quiet, TypeOK

(* Quiet: a handler returns,                                               *)
LEMMA ReturnQuiet ==
    ASSUME TypeOK, NEW p \in Proc, UNCHANGED <<status, version, holds, sent>>, Return(p)
    PROVE  Quiet
<1>1. h' = [h EXCEPT ![p] = Idle] /\ Idle.pc \notin WritePc
  BY DEF Return, Idle, WritePc
<1> QED
  BY <1>1, OneQuietHandler

(* a hold enters its finally block,                                        *)
LEMMA FinallyQuiet ==
    ASSUME TypeOK, NEW p \in Proc, UNCHANGED <<status, version, holds, sent>>, Finally(p)
    PROVE  Quiet
<1>1. CASE h[p].got = 0
  BY <1>1, ReturnQuiet DEF Finally
<1>2. CASE h[p].got # 0
  <2> DEFINE x == [h[p] EXCEPT !.pc = "release", !.n = 0]
  <2>1. h' = [h EXCEPT ![p] = x] /\ h[p] \in Handler
    BY <1>2 DEF Finally, TypeOK
  <2>2. x.pc \notin WritePc
    BY <2>1 DEF Handler, WritePc
  <2> QED
    BY <2>1, <2>2, OneQuietHandler
<1> QED
  BY <1>1, <1>2

(* a hold goes on to the next seat,                                        *)
LEMMA NextSeatQuiet ==
    ASSUME TypeOK, NEW p \in Proc, UNCHANGED <<status, version, holds, sent>>,
           NEW pc, NEW got, pc \notin WritePc, h[p].pc \notin WritePc, NextSeat(p, pc, got)
    PROVE  Quiet
<1> DEFINE x == [h[p] EXCEPT !.n = IF h[p].n + 1 = Len(h[p].seats) THEN 0 ELSE h[p].n + 1,
                             !.pc = IF h[p].n + 1 = Len(h[p].seats) THEN pc ELSE h[p].pc,
                             !.got = got]
<1>1. h' = [h EXCEPT ![p] = x] /\ h[p] \in Handler
  BY DEF NextSeat, TypeOK
<1>2. x.pc \notin WritePc
  BY <1>1 DEF Handler
<1> QED
  BY <1>1, <1>2, OneQuietHandler

(* a call is rejected,                                                     *)
LEMMA RejectQuiet ==
    ASSUME TypeOK, NEW p \in Proc, UNCHANGED <<status, version, holds>>, Reject(p)
    PROVE  Quiet
  BY ReturnQuiet DEF Reject, FailJob, jobVars

(* a lock is given back.                                                   *)
LEMMA ReleaseQuiet ==
    ASSUME TypeOK, NEW p \in Proc, NEW freed, ReleaseLock(p, freed)
    PROVE  Quiet
<1> USE DEF reservationVars, jobVars, timeVars
<1>1. CASE Return(p)
  BY <1>1, ReturnQuiet DEF ReleaseLock
<1>2. CASE h' = [h EXCEPT ![p].n = @ + 1]
  <2> DEFINE x == [h[p] EXCEPT !.n = h[p].n + 1]
  <2>1. h' = [h EXCEPT ![p] = x] /\ h[p] \in Handler
    BY <1>2 DEF TypeOK
  <2>2. x.pc \notin WritePc
    BY <2>1 DEF Handler, WritePc, ReleaseLock
  <2> QED
    BY <2>1, <2>2, OneQuietHandler DEF ReleaseLock
<1> QED
  BY <1>1, <1>2 DEF ReleaseLock

(* All steps of a hold request but the insertion are quiet. *)
LEMMA HoldStepQuiet ==
    ASSUME TypeOK, NEW p \in Proc, HoldStep(p), ~ Insert(p)
    PROVE  Quiet
<1> USE DEF reservationVars, jobVars, timeVars
<1>1. CASE AcquireLock(p)
  BY <1>1, NextSeatQuiet DEF AcquireLock, WritePc
<1>2. CASE LockBusy(p)
  BY <1>2, FinallyQuiet DEF LockBusy
<1>3. CASE CheckSeat(p)
  BY <1>3, NextSeatQuiet, FinallyQuiet DEF CheckSeat, WritePc
<1>4. CASE LoadEvent(p)
  <2>1. CASE Goto(p, "insert")
    <3> DEFINE x == [h[p] EXCEPT !.pc = "insert"]
    <3>1. h' = [h EXCEPT ![p] = x] /\ h[p] \in Handler
      BY <2>1 DEF Goto, TypeOK
    <3>2. x.pc \notin WritePc
      BY <3>1 DEF Handler, WritePc
    <3> QED
      BY <1>4, <3>1, <3>2, OneQuietHandler DEF LoadEvent
  <2> QED
    BY <1>4, <2>1, FinallyQuiet DEF LoadEvent
<1>5. CASE InsertRefused(p)
  BY <1>5, FinallyQuiet DEF InsertRefused
<1>6. CASE ScheduleExpire(p)
  BY <1>6, FinallyQuiet DEF ScheduleExpire
<1>7. CASE ReleaseLock(p, TRUE)
  BY <1>7, ReleaseQuiet
<1> QED
  BY <1>1, <1>2, <1>3, <1>4, <1>5, <1>6, <1>7 DEF HoldStep

(* So is everything around the handlers, failures and crashes included.    *)
LEMMA SurroundingsQuiet ==
    ASSUME TypeOK,
           \/ Environment
           \/ \E p \in Proc : Failure(p) \/ UpdateConflict(p)
           \/ UNCHANGED vars
    PROVE  Quiet
<1> USE DEF reservationVars, jobVars, timeVars
<1>1. CASE Environment
  <2>1. UNCHANGED <<status, version, holds, sent, h>>
    BY <1>1 DEF Environment, HoldTimeUp, DeadlinePasses, LockExpires
  <2> QED
    BY <2>1 DEF Quiet
<1>2. ASSUME NEW p \in Proc, CallFails(p) PROVE Quiet
  <2>1. CASE Finally(p) /\ UNCHANGED jobVars
    BY <1>2, <2>1, FinallyQuiet DEF CallFails
  <2>2. CASE Reject(p)
    BY <1>2, <2>2, RejectQuiet DEF CallFails
  <2> QED
    BY <1>2, <2>1, <2>2 DEF CallFails
<1>3. ASSUME NEW p \in Proc, Crash(p) PROVE Quiet
  BY <1>3, ReturnQuiet DEF Crash
<1>4. ASSUME NEW p \in Proc, UpdateConflict(p) PROVE Quiet
  BY <1>4, RejectQuiet DEF UpdateConflict
<1>5. ASSUME NEW p \in Proc, Failure(p) PROVE Quiet
  BY <1>2, <1>3, <1>5, ReleaseQuiet DEF Failure
<1>6. CASE UNCHANGED vars
  BY <1>6 DEF vars, Quiet
<1> QED
  BY <1>1, <1>4, <1>5, <1>6

(* Nothing is told, and those who write go on as they were.                *)
LEMMA TellersStay ==
    ASSUME TellerInv, sent' = sent,
           \A q \in Proc : Writing(q)' => /\ Writing(q) /\ h'[q].op = h[q].op /\ h'[q].res = h[q].res
                                          /\ h'[q].pc = "notify" <=> h[q].pc = "notify"
    PROVE  TellerInv'
<1> SUFFICES ASSUME NEW q \in Proc, Writing(q)'
             PROVE  /\ h'[q].op = "confirm" =>
                          /\ sent'[h'[q].res]["reservation.confirmed"] = IF h'[q].pc = "notify" THEN 1 ELSE 0
                          /\ sent'[h'[q].res]["notification.send"] = 0
                    /\ h'[q].op = "cancel" =>
                          /\ sent'[h'[q].res]["reservation.cancelled"] = 0
                          /\ sent'[h'[q].res]["reservation.cancelled (refund)"] = 0
  BY Zenon DEF TellerInv
<1>1. Writing(q) /\ h'[q].op = h[q].op /\ h'[q].res = h[q].res /\ (h'[q].pc = "notify" <=> h[q].pc = "notify")
  OBVIOUS
<1>2. /\ h[q].op = "confirm" =>
            /\ sent[h[q].res]["reservation.confirmed"] = IF h[q].pc = "notify" THEN 1 ELSE 0
            /\ sent[h[q].res]["notification.send"] = 0
      /\ h[q].op = "cancel" =>
            /\ sent[h[q].res]["reservation.cancelled"] = 0
            /\ sent[h[q].res]["reservation.cancelled (refund)"] = 0
  BY <1>1, Zenon DEF TellerInv
<1>3. sent'[h'[q].res] = sent[h[q].res]
  BY <1>1
<1>4. CASE h[q].pc = "notify"
  BY <1>1, <1>2, <1>3, <1>4, Zenon
<1>5. CASE h[q].pc # "notify"
  BY <1>1, <1>2, <1>3, <1>5, Zenon
<1> QED
  BY <1>4, <1>5

(* Loading a reservation whose status allows the operation. *)
LEMMA LoadHistory ==
    ASSUME TypeOK, HistoryInv, NEW p \in Proc, NEW r \in Res,
           NEW op \in {"confirm", "cancel", "expire"}, Load(p, op, r),
           status[r] \in Live, op # "cancel" => status[r] = "PENDING",
           UNCHANGED <<status, version, holds, sent>>
    PROVE  HistoryInv'
<1> DEFINE x == [Idle EXCEPT !.op = op, !.pc = "update", !.res = r,
                             !.was = status[r], !.ver = version[r]]
<1>1. h' = [h EXCEPT ![p] = x]
  BY DEF Load
<1>2. x.op = op /\ x.pc = "update" /\ x.res = r /\ x.was = status[r] /\ x.ver = version[r]
  BY DEF Idle
<1> HIDE DEF x
<1>3. \A q \in Proc : Writing(q)' => h'[q] = h[q] /\ Writing(q)
  BY <1>1, <1>2 DEF Writing, TypeOK
<1>4. VersionInv' /\ RowsInv' /\ UniqueSeats' /\ SeatsMatchStatus'
  BY DEF HistoryInv, VersionInv, RowsInv, UniqueSeats, SeatsMatchStatus
<1>5. version[r] \in Nat /\ 1 <= version[r]
  BY DEF TypeOK, HistoryInv, VersionInv, Live
<1>6. LoadInv'
  BY <1>1, <1>2, <1>5 DEF HistoryInv, LoadInv, TypeOK
<1>7. WriterInv'
  BY <1>3 DEF HistoryInv, WriterInv, WasConfirmed
<1>8. SingleWriter'
  BY <1>3 DEF HistoryInv, SingleWriter
<1>9. UntoldInv' /\ TellerInv'
  <2>1. UntoldInv'
    BY DEF HistoryInv, UntoldInv, WasConfirmed
  <2>2. TellerInv'
    BY <1>3, TellersStay, Zenon DEF HistoryInv
  <2> QED
    BY <2>1, <2>2
<1> QED
  BY <1>4, <1>6, <1>7, <1>8, <1>9 DEF HistoryInv

(* The steps by which a request or a job begins. *)
LEMMA StartHistory ==
    ASSUME TypeOK, HistoryInv, NEW p \in Proc, Request(p) \/ ExpireJob(p)
    PROVE  HistoryInv'
<1> USE DEF reservationVars, jobVars, timeVars
<1>1. ASSUME NEW u \in User, NEW seats \in Requests, HoldStart(p, u, seats) PROVE HistoryInv'
  <2> DEFINE x == [Idle EXCEPT !.op = "hold", !.pc = "lock", !.user = u, !.seats = seats]
  <2>1. h' = [h EXCEPT ![p] = x] /\ x.pc \notin WritePc
    BY <1>1 DEF HoldStart, Idle, WritePc
  <2>2. Quiet
    BY <1>1, <2>1, OneQuietHandler DEF HoldStart
  <2> QED
    BY <2>2, QuietHistory
<1>2. ASSUME NEW r \in Res, ConfirmStart(p, r) PROVE HistoryInv'
  BY <1>2, LoadHistory DEF ConfirmStart, Live
<1>3. ASSUME NEW r \in Res, CancelStart(p, r) PROVE HistoryInv'
  BY <1>3, LoadHistory DEF CancelStart, Live
<1>4. ASSUME NEW r \in Res, ExpireStart(p, r) PROVE HistoryInv'
  <2>1. CASE status[r] = "PENDING"
    BY <1>4, <2>1, LoadHistory DEF ExpireStart, Live
  <2>2. CASE status[r] # "PENDING"
    <3>1. Quiet
      BY <1>4, <2>2 DEF ExpireStart, Quiet
    <3> QED
      BY <3>1, QuietHistory
  <2> QED
    BY <2>1, <2>2
<1> QED
  BY <1>1, <1>2, <1>3, <1>4 DEF Request, ExpireJob

(* The insertion of a reservation under a new identifier.  No handler and  *)
(* no row can know that identifier yet.                                    *)
LEMMA InsertHistory ==
    ASSUME TypeOK, ControlInv, HistoryInv, NEW p \in Proc, Insert(p)
    PROVE  HistoryInv'
<1>1. PICK r \in Res :
        /\ status[r] = "NONE"
        /\ status' = [status EXCEPT ![r] = "PENDING"]
        /\ version' = [version EXCEPT ![r] = 1]
        /\ holds' = holds \cup {[res |-> r, seat |-> h[p].seats[i], n |-> i, status |-> "HELD"] :
                                   i \in DOMAIN h[p].seats}
        /\ h' = [h EXCEPT ![p].pc = "schedule", ![p].res = r]
  BY DEF Insert
<1>2. sent' = sent
  BY DEF Insert, jobVars
<1>3. h'[p].pc = "schedule" /\ \A q \in Proc : q # p => h'[q] = h[q]
  BY <1>1 DEF TypeOK, Handler
<1>4. version[r] = 0
  BY <1>1 DEF HistoryInv, VersionInv
<1>5. \A q \in Proc : h'[q].pc = "update" => h'[q] = h[q] /\ h[q].res # r /\ h[q].res \in Res
  <2> SUFFICES ASSUME NEW q \in Proc, h'[q].pc = "update"
               PROVE  h'[q] = h[q] /\ h[q].res # r /\ h[q].res \in Res
    OBVIOUS
  <2>1. h'[q] = h[q] /\ h[q].pc = "update"
    BY <1>3
  <2>2. h[q].res \in Res /\ h[q].ver \in Nat
    BY <2>1, OwnReservation DEF WritePc, TypeOK, Handler
  <2>3. 1 <= h[q].ver /\ h[q].ver <= version[h[q].res]
    BY <2>1 DEF HistoryInv, LoadInv
  <2> QED
    BY <1>4, <2>1, <2>2, <2>3
<1>6. \A q \in Proc : Writing(q)' => h'[q] = h[q] /\ Writing(q) /\ h[q].res # r /\ h[q].res \in Res
  <2> SUFFICES ASSUME NEW q \in Proc, Writing(q)'
               PROVE  h'[q] = h[q] /\ Writing(q) /\ h[q].res # r /\ h[q].res \in Res
    OBVIOUS
  <2>1. h'[q] = h[q] /\ Writing(q)
    BY <1>3 DEF Writing
  <2>2. h[q].res \in Res /\ h[q].op \in {"confirm", "cancel", "expire"}
    BY <2>1 DEF ControlInv, ControlOK, Writing, WritePc
  <2>3. status[h[q].res] # "NONE"
    BY <2>1, <2>2 DEF HistoryInv, WriterInv, WasConfirmed
  <2> QED
    BY <1>1, <2>1, <2>2, <2>3
<1>7. VersionInv'
  BY <1>1 DEF HistoryInv, VersionInv, TypeOK
<1>8. \A x \in holds' : \/ x \in holds /\ x.res \in Res /\ x.res # r
                        \/ x.res = r /\ x.status = "HELD"
  BY <1>1 DEF HistoryInv, RowsInv, TypeOK, SeatHold
<1>9. RowsInv' /\ SeatsMatchStatus'
  <2>1. status'[r] = "PENDING" /\ \A r1 \in Res : r1 # r => status'[r1] = status[r1]
    BY <1>1 DEF TypeOK
  <2> QED
    BY <1>8, <2>1 DEF HistoryInv, RowsInv, SeatsMatchStatus
<1>10. UniqueSeats'
  BY <1>1 DEF HistoryInv, UniqueSeats, Insert, UniqueViolation
<1>11. \A r1 \in Res : r1 # r => status'[r1] = status[r1] /\ version'[r1] = version[r1]
  BY <1>1 DEF TypeOK
<1>12. LoadInv'
  BY <1>5, <1>11 DEF HistoryInv, LoadInv
<1>13. WriterInv'
  BY <1>6, <1>11 DEF HistoryInv, WriterInv, WasConfirmed
<1>14. SingleWriter'
  BY <1>6 DEF HistoryInv, SingleWriter
<1>15. UntoldInv'
  BY <1>1, <1>2, <1>11 DEF HistoryInv, UntoldInv, WasConfirmed
<1>16. TellerInv'
  BY <1>2, <1>6 DEF HistoryInv, TellerInv
<1> QED
  BY <1>7, <1>9, <1>10, <1>12, <1>13, <1>14, <1>15, <1>16 DEF HistoryInv

(* The versioned update.  The status the handler decided on is the current *)
(* one, so no other handler can be past an update that left it.            *)
LEMMA UpdateHistory ==
    ASSUME TypeOK, ControlInv, HistoryInv, NEW p \in Proc, UpdateReservation(p)
    PROVE  HistoryInv'
<1> DEFINE r == h[p].res
           x == [h[p] EXCEPT !.pc = "seats"]
<1>1. /\ h' = [h EXCEPT ![p] = x] /\ h[p] \in Handler
      /\ h[p].pc = "update" /\ r \in Res /\ h[p].ver \in Nat
      /\ h[p].op \in {"confirm", "cancel", "expire"}
  BY DEF UpdateReservation, Goto, TypeOK, ControlInv, ControlOK, WritePc, Handler
<1>2. /\ x.pc = "seats" /\ x.op = h[p].op /\ x.res = r /\ x.was = h[p].was
  BY <1>1 DEF Handler
<1>3. /\ status[r] = h[p].was /\ h[p].was \in Live
      /\ h[p].op # "cancel" => h[p].was = "PENDING"
      /\ version[r] = h[p].ver
      /\ version[r] = IF h[p].was = "PENDING" THEN 1 ELSE 2
  BY <1>1 DEF UpdateReservation, VersionMatches, HistoryInv, LoadInv, VersionInv, Live
<1>4. /\ status' = [status EXCEPT ![r] = Target(h[p].op)]
      /\ version' = [version EXCEPT ![r] = h[p].ver + 1]
      /\ holds' = holds /\ sent' = sent
  BY DEF UpdateReservation, jobVars
<1>5. /\ status'[r] = Target(h[p].op) /\ version'[r] = version[r] + 1
      /\ \A r1 \in Res : r1 # r => status'[r1] = status[r1] /\ version'[r1] = version[r1]
  BY <1>1, <1>3, <1>4 DEF TypeOK
<1>6. /\ h[p].op = "confirm" => status'[r] = "CONFIRMED" /\ version'[r] = 2 /\ status[r] = "PENDING"
      /\ h[p].op = "expire"  => status'[r] = "EXPIRED" /\ version'[r] = 2 /\ status[r] = "PENDING"
      /\ h[p].op = "cancel"  => /\ status'[r] = "CANCELLED"
                                /\ version'[r] = IF h[p].was = "CONFIRMED" THEN 3 ELSE 2
  BY <1>1, <1>3, <1>5 DEF Target, Live
<1> HIDE DEF r, x
<1>7. /\ h'[p] = x
      /\ \A q \in Proc : q # p => h'[q] = h[q]
  BY <1>1 DEF TypeOK
<1>8. VersionInv'
  <2> SUFFICES ASSUME NEW r1 \in Res
               PROVE  /\ status'[r1] = "NONE" <=> version'[r1] = 0
                      /\ status'[r1] = "PENDING" <=> version'[r1] = 1
                      /\ status'[r1] \in {"CONFIRMED", "EXPIRED"} => version'[r1] = 2
                      /\ status'[r1] = "CANCELLED" => version'[r1] \in {2, 3}
    BY DEF VersionInv
  <2>1. CASE r1 = r
    BY <1>1, <1>6, <2>1
  <2>2. CASE r1 # r
    BY <1>5, <2>2 DEF HistoryInv, VersionInv
  <2> QED
    BY <2>1, <2>2
<1>9. RowsInv' /\ UniqueSeats'
  BY <1>1, <1>4, <1>5, <1>6 DEF HistoryInv, RowsInv, UniqueSeats, TypeOK, SeatHold
<1>10. SeatsMatchStatus'
  <2> SUFFICES ASSUME NEW y \in holds
               PROVE  /\ status'[y.res] = "PENDING"   => y.status = "HELD"
                      /\ status'[y.res] = "CONFIRMED" => y.status # "RELEASED"
                      /\ status'[y.res] = "EXPIRED"   => y.status # "CONFIRMED"
    BY <1>4 DEF SeatsMatchStatus
  <2>1. y.res \in Res
    BY DEF TypeOK, SeatHold
  <2>2. CASE y.res = r
    BY <1>1, <1>6, <2>2 DEF HistoryInv, SeatsMatchStatus
  <2>3. CASE y.res # r
    BY <1>5, <2>1, <2>3 DEF HistoryInv, SeatsMatchStatus
  <2> QED
    BY <2>2, <2>3
<1>11. LoadInv'
  <2> SUFFICES ASSUME NEW q \in Proc, h'[q].pc = "update"
               PROVE  /\ h'[q].was \in Live
                      /\ h'[q].op # "cancel" => h'[q].was = "PENDING"
                      /\ 1 <= h'[q].ver /\ h'[q].ver <= version'[h'[q].res]
                      /\ h'[q].ver = version'[h'[q].res] => h'[q].was = status'[h'[q].res]
    BY DEF LoadInv
  <2>1. h'[q] = h[q] /\ h[q].pc = "update"
    BY <1>2, <1>7
  <2>2. h[q].res \in Res /\ h[q].ver \in Nat
    BY <2>1, OwnReservation DEF WritePc, TypeOK, Handler
  <2>3. CASE h[q].res # r
    BY <1>5, <2>1, <2>2, <2>3 DEF HistoryInv, LoadInv
  <2>4. CASE h[q].res = r
    <3>1. h[q].ver <= version[r] /\ version[r] \in Nat
      BY <1>1, <2>1, <2>4 DEF HistoryInv, LoadInv, TypeOK
    <3>2. h[q].ver < version'[r]
      BY <1>5, <2>2, <3>1
    <3> QED
      BY <2>1, <2>2, <2>4, <3>2, <1>1, <1>5, <3>1 DEF HistoryInv, LoadInv
  <2> QED
    BY <2>3, <2>4
<1>12. \A q \in Proc : q # p /\ Writing(q)' =>
          /\ h'[q] = h[q] /\ Writing(q) /\ h[q].res \in Res
          /\ h[q].op \in {"confirm", "cancel", "expire"}
  BY <1>7 DEF Writing, ControlInv, ControlOK, WritePc
(* Another writer of the same reservation can only be a confirmation that  *)
(* has been cancelled by this update.                                      *)
<1>13. ASSUME NEW q \in Proc, q # p, Writing(q)', h[q].res = r
       PROVE  h[q].op = "confirm" /\ h[p].op = "cancel" /\ h[p].was = "CONFIRMED"
  <2>1. /\ h[q].op = "confirm" => WasConfirmed(r)
        /\ h[q].op = "expire"  => status[r] = "EXPIRED"
        /\ h[q].op = "cancel"  => status[r] = "CANCELLED"
    BY <1>12, <1>13 DEF HistoryInv, WriterInv
  <2>2. status[r] = "PENDING" \/ (status[r] = "CONFIRMED" /\ h[p].op = "cancel" /\ h[p].was = "CONFIRMED")
    BY <1>1, <1>3 DEF Live, r
  <2> QED
    BY <1>12, <1>13, <2>1, <2>2 DEF WasConfirmed
<1>14. WriterInv'
  <2> SUFFICES ASSUME NEW q \in Proc, Writing(q)'
               PROVE  /\ h'[q].op = "confirm" =>
                            \/ status'[h'[q].res] = "CONFIRMED"
                            \/ status'[h'[q].res] = "CANCELLED" /\ version'[h'[q].res] = 3
                      /\ h'[q].op = "expire"  => status'[h'[q].res] = "EXPIRED"
                      /\ h'[q].op = "cancel"  =>
                            /\ status'[h'[q].res] = "CANCELLED"
                            /\ version'[h'[q].res] = IF h'[q].was = "CONFIRMED" THEN 3 ELSE 2
    BY DEF WriterInv, WasConfirmed
  <2>1. CASE q = p
    BY <1>2, <1>6, <1>7, <2>1 DEF WasConfirmed
  <2>2. CASE q # p /\ h[q].res # r
    BY <1>5, <1>12, <2>2 DEF HistoryInv, WriterInv, WasConfirmed
  <2>3. CASE q # p /\ h[q].res = r
    BY <1>6, <1>12, <1>13, <2>3 DEF WasConfirmed
  <2> QED
    BY <2>1, <2>2, <2>3
<1>15. SingleWriter'
  <2>1. \A q \in Proc : q # p /\ Writing(q)' /\ h'[q].res = r => h'[q].op # h[p].op
    BY <1>12, <1>13
  <2> QED
    BY <1>2, <1>7, <1>12, <2>1 DEF HistoryInv, SingleWriter
<1>16. UntoldInv'
  <2> SUFFICES ASSUME NEW r1 \in Res
               PROVE  /\ ~ WasConfirmed(r1)' => /\ sent[r1]["reservation.confirmed"] = 0
                                                /\ sent[r1]["notification.send"] = 0
                      /\ status'[r1] # "CANCELLED" => /\ sent[r1]["reservation.cancelled"] = 0
                                                      /\ sent[r1]["reservation.cancelled (refund)"] = 0
    BY <1>4 DEF UntoldInv
  <2>1. CASE r1 = r
    BY <1>1, <1>3, <1>6, <2>1 DEF HistoryInv, UntoldInv, WasConfirmed, Live
  <2>2. CASE r1 # r
    BY <1>5, <2>2 DEF HistoryInv, UntoldInv, WasConfirmed
  <2> QED
    BY <2>1, <2>2
<1>17. TellerInv'
  <2> SUFFICES ASSUME NEW q \in Proc, Writing(q)'
               PROVE  /\ h'[q].op = "confirm" =>
                            /\ sent[h'[q].res]["reservation.confirmed"] = IF h'[q].pc = "notify" THEN 1 ELSE 0
                            /\ sent[h'[q].res]["notification.send"] = 0
                      /\ h'[q].op = "cancel" =>
                            /\ sent[h'[q].res]["reservation.cancelled"] = 0
                            /\ sent[h'[q].res]["reservation.cancelled (refund)"] = 0
    BY <1>4 DEF TellerInv
  <2>1. CASE q # p
    BY <1>12, <2>1 DEF HistoryInv, TellerInv
  <2>2. CASE q = p
    <3>1. h'[q].op = h[p].op /\ h'[q].pc = "seats" /\ h'[q].res = r
      BY <1>2, <1>7, <2>2
    <3>2. h[p].op = "confirm" => sent[r]["reservation.confirmed"] = 0 /\ sent[r]["notification.send"] = 0
      BY <1>1, <1>6 DEF HistoryInv, UntoldInv, WasConfirmed
    <3>3. /\ sent[r]["reservation.cancelled"] = 0
          /\ sent[r]["reservation.cancelled (refund)"] = 0
      BY <1>1, <1>3 DEF HistoryInv, UntoldInv, Live, r
    <3> QED
      BY <3>1, <3>2, <3>3
  <2> QED
    BY <2>1, <2>2
<1> QED
  BY <1>8, <1>9, <1>10, <1>11, <1>14, <1>15, <1>16, <1>17 DEF HistoryInv

(* confirmSeats and releaseSeats give the rows a status that goes with the *)
(* transition their handler made, and with what may have followed it.      *)
LEMMA SeatsHistory ==
    ASSUME TypeOK, ControlInv, HistoryInv, NEW p \in Proc, UpdateSeats(p)
    PROVE  HistoryInv'
<1> DEFINE r == h[p].res
           st == IF h[p].op = "confirm" THEN "CONFIRMED" ELSE "RELEASED"
<1>1. /\ UNCHANGED <<status, version, sent>>
      /\ holds' = SetSeats(r, st)
      /\ h[p].pc = "seats" /\ Writing(p) /\ r \in Res
      /\ h[p].op \in {"confirm", "cancel", "expire"}
  BY DEF UpdateSeats, reservationVars, Writing, ControlInv, ControlOK, WritePc
<1>2. /\ h'[p].pc # "update"
      /\ Writing(p)' => h'[p].pc = "emit" /\ h'[p].op = h[p].op /\ h'[p].res = r /\ h'[p].was = h[p].was
      /\ \A q \in Proc : q # p => h'[q] = h[q]
  BY DEF UpdateSeats, Return, Goto, TypeOK, Handler, Idle, Writing
<1>3. /\ st = "CONFIRMED" => WasConfirmed(r)
      /\ st = "RELEASED" => status[r] \in {"CANCELLED", "EXPIRED"}
      /\ st \in {"CONFIRMED", "RELEASED"}
  BY <1>1 DEF HistoryInv, WriterInv
<1> HIDE DEF r, st
<1>4. \A x \in holds' : \E y \in holds :
         /\ x.res = y.res /\ x.seat = y.seat
         /\ \/ y.res # r /\ x = y
            \/ y.res = r /\ x.status = st
         /\ x = IF y.res = r THEN [y EXCEPT !.status = st] ELSE y
  BY <1>1 DEF SetSeats, TypeOK, SeatHold
<1>5. RowsInv' /\ SeatsMatchStatus'
  BY <1>1, <1>3, <1>4 DEF HistoryInv, RowsInv, SeatsMatchStatus, WasConfirmed
<1>6. UniqueSeats'
  <2> SUFFICES ASSUME NEW x1 \in holds', NEW x2 \in holds', x1.seat = x2.seat
               PROVE  x1 = x2
    BY DEF UniqueSeats
  <2>1. PICK y1 \in holds : x1.seat = y1.seat /\ x1 = IF y1.res = r THEN [y1 EXCEPT !.status = st] ELSE y1
    BY <1>4
  <2>2. PICK y2 \in holds : x2.seat = y2.seat /\ x2 = IF y2.res = r THEN [y2 EXCEPT !.status = st] ELSE y2
    BY <1>4
  <2>3. y1 = y2
    BY <2>1, <2>2 DEF HistoryInv, UniqueSeats
  <2> QED
    BY <2>1, <2>2, <2>3
<1>7. \A q \in Proc : Writing(q)' => /\ Writing(q) /\ h'[q].op = h[q].op /\ h'[q].res = h[q].res
                                     /\ h'[q].was = h[q].was
                                     /\ h'[q].pc = "notify" <=> h[q].pc = "notify"
  BY <1>1, <1>2 DEF Writing, r
<1>8. VersionInv' /\ LoadInv'
  BY <1>1, <1>2 DEF HistoryInv, VersionInv, LoadInv
<1>9. WriterInv' /\ SingleWriter'
  BY <1>1, <1>7 DEF HistoryInv, WriterInv, SingleWriter, WasConfirmed
<1>10. UntoldInv'
  BY <1>1 DEF HistoryInv, UntoldInv, WasConfirmed
<1>11. TellerInv'
  BY <1>1, <1>7, TellersStay, Zenon DEF HistoryInv
<1> QED
  BY <1>5, <1>6, <1>8, <1>9, <1>10, <1>11 DEF HistoryInv

(* A handler publishes an event that is true and new, and is the only one  *)
(* that could publish it.                                                  *)
LEMMA EmitHistory ==
    ASSUME TypeOK, ControlInv, HistoryInv, NEW p \in Proc,
           EmitConfirmed(p) \/ EmitNotification(p) \/ EmitCancelled(p)
    PROVE  HistoryInv'
<1> DEFINE r == h[p].res
<1>1. /\ UNCHANGED <<status, version, holds>>
      /\ Writing(p) /\ h[p].pc # "seats" /\ r \in Res
  BY DEF EmitConfirmed, EmitNotification, EmitCancelled, reservationVars, Writing, ControlInv,
         ControlOK, WritePc
<1>a. /\ Return(p) => h'[p].pc = "idle" /\ ~ Writing(p)'
      /\ Goto(p, "notify") => h'[p].pc = "notify" /\ h'[p].op = h[p].op /\ h'[p].res = h[p].res
      /\ Return(p) \/ Goto(p, "notify") => \A q \in Proc : q # p => h'[q] = h[q]
  BY DEF Return, Goto, Idle, TypeOK, Handler, Writing
<1>2. /\ h'[p].pc # "update" /\ \A q \in Proc : q # p => h'[q] = h[q]
      /\ Writing(p)' => /\ h[p].op = "confirm" /\ h[p].pc = "emit" /\ h'[p].pc = "notify"
                        /\ h'[p].op = h[p].op /\ h'[p].res = r
  <2>1. CASE EmitConfirmed(p)
    BY <1>a, <2>1 DEF EmitConfirmed
  <2>2. CASE EmitNotification(p)
    BY <1>a, <2>2 DEF EmitNotification
  <2>3. CASE EmitCancelled(p)
    BY <1>a, <2>3 DEF EmitCancelled
  <2> QED
    BY <2>1, <2>2, <2>3
<1>3. PICK e \in Event :
         /\ sent' = [sent EXCEPT ![r][e] = @ + 1]
         /\ \/ /\ e = "reservation.confirmed" /\ h[p].op = "confirm" /\ h[p].pc = "emit"
            \/ /\ e = "notification.send" /\ h[p].op = "confirm" /\ h[p].pc = "notify"
               /\ ~ Writing(p)'
            \/ /\ e \in {"reservation.cancelled", "reservation.cancelled (refund)"}
               /\ h[p].op = "cancel" /\ ~ Writing(p)'
  <2>1. CASE EmitConfirmed(p)
    BY <2>1 DEF EmitConfirmed, Enqueue, Event
  <2>2. CASE EmitNotification(p)
    <3>1. h[p].op = "confirm"
      BY <2>2 DEF EmitNotification, ControlInv, ControlOK
    <3> QED
      BY <1>a, <2>2, <3>1 DEF EmitNotification, Enqueue, Event
  <2>3. CASE EmitCancelled(p)
    BY <1>a, <2>3 DEF EmitCancelled, Enqueue, Event
  <2> QED
    BY <2>1, <2>2, <2>3
<1>4. /\ \A r1 \in Res : r1 # r => sent'[r1] = sent[r1]
      /\ \A e1 \in Event : e1 # e => sent'[r][e1] = sent[r][e1]
      /\ sent'[r][e] = sent[r][e] + 1
  BY <1>1, <1>3 DEF TypeOK
<1>5. /\ h[p].op = "confirm" => WasConfirmed(r)
      /\ h[p].op = "cancel" => status[r] = "CANCELLED"
  BY <1>1 DEF HistoryInv, WriterInv
<1>6. \A q \in Proc : q # p /\ Writing(q)' /\ h'[q].res = r =>
                         h'[q] = h[q] /\ Writing(q) /\ h[q].op # h[p].op
  BY <1>1, <1>2 DEF HistoryInv, SingleWriter, Writing
<1> HIDE DEF r
<1>7. \A q \in Proc : Writing(q)' => /\ Writing(q) /\ h'[q].op = h[q].op /\ h'[q].res = h[q].res
                                     /\ q # p => h'[q] = h[q]
                                     /\ h[q].op = "cancel" => h'[q].was = h[q].was
  BY <1>1, <1>2 DEF Writing, r
<1>8. VersionInv' /\ LoadInv' /\ RowsInv' /\ UniqueSeats' /\ SeatsMatchStatus'
  BY <1>1, <1>2 DEF HistoryInv, VersionInv, LoadInv, RowsInv, UniqueSeats, SeatsMatchStatus
<1>9. WriterInv' /\ SingleWriter'
  BY <1>1, <1>7 DEF HistoryInv, WriterInv, SingleWriter, WasConfirmed
<1>10. UntoldInv'
  <2> SUFFICES ASSUME NEW r1 \in Res
               PROVE  /\ ~ WasConfirmed(r1) => /\ sent'[r1]["reservation.confirmed"] = 0
                                               /\ sent'[r1]["notification.send"] = 0
                      /\ status[r1] # "CANCELLED" => /\ sent'[r1]["reservation.cancelled"] = 0
                                                     /\ sent'[r1]["reservation.cancelled (refund)"] = 0
    BY <1>1 DEF UntoldInv, WasConfirmed
  <2>1. CASE r1 # r
    BY <1>4, <2>1 DEF HistoryInv, UntoldInv
  <2>2. CASE r1 = r
    BY <1>3, <1>4, <1>5, <2>2 DEF HistoryInv, UntoldInv, Event, WasConfirmed
  <2> QED
    BY <2>1, <2>2
<1>11. TellerInv'
  <2> SUFFICES ASSUME NEW q \in Proc, Writing(q)'
               PROVE  /\ h'[q].op = "confirm" =>
                            /\ sent'[h'[q].res]["reservation.confirmed"] = IF h'[q].pc = "notify" THEN 1 ELSE 0
                            /\ sent'[h'[q].res]["notification.send"] = 0
                      /\ h'[q].op = "cancel" =>
                            /\ sent'[h'[q].res]["reservation.cancelled"] = 0
                            /\ sent'[h'[q].res]["reservation.cancelled (refund)"] = 0
    BY DEF TellerInv
  <2>0. h[q].res \in Res /\ Writing(q) /\ h'[q].res = h[q].res /\ h'[q].op = h[q].op
    BY <1>7 DEF ControlInv, ControlOK, Writing, WritePc
  <2>1. CASE q = p
    <3>1. h[p].op = "confirm" /\ h[p].pc = "emit" /\ h'[p].pc = "notify" /\ h'[p].res = r
      BY <1>2, <2>1
    <3>2. e = "reservation.confirmed"
      BY <1>3, <2>1, <3>1
    <3>3. sent[r]["reservation.confirmed"] = 0 /\ sent[r]["notification.send"] = 0
      BY <1>1, <3>1 DEF HistoryInv, TellerInv, r
    <3>4. sent'[r]["reservation.confirmed"] = 1 /\ sent'[r]["notification.send"] = 0
      <4>1. sent'[r]["reservation.confirmed"] = sent[r]["reservation.confirmed"] + 1
        BY <1>4, <3>2
      <4>2. sent'[r]["notification.send"] = sent[r]["notification.send"]
        BY <1>4, <3>2 DEF Event
      <4> QED
        BY <3>3, <4>1, <4>2
    <3> QED
      BY <2>1, <2>0, <3>1, <3>4
  <2>2. CASE q # p /\ h[q].res # r
    <3>1. h'[q] = h[q] /\ sent'[h[q].res] = sent[h[q].res]
      BY <1>4, <1>7, <2>0, <2>2
    <3> QED
      BY <2>0, <3>1 DEF HistoryInv, TellerInv
  <2>3. CASE q # p /\ h[q].res = r
    <3>1. h'[q] = h[q] /\ h[q].op # h[p].op
      BY <1>6, <2>0, <2>3
    <3>2. /\ h[q].op = "confirm" => e \notin {"reservation.confirmed", "notification.send"}
          /\ h[q].op = "cancel" => e \notin {"reservation.cancelled", "reservation.cancelled (refund)"}
      BY <1>3, <3>1
    <3>3. /\ h[q].op = "confirm" =>
                /\ sent'[r]["reservation.confirmed"] = sent[r]["reservation.confirmed"]
                /\ sent'[r]["notification.send"] = sent[r]["notification.send"]
          /\ h[q].op = "cancel" =>
                /\ sent'[r]["reservation.cancelled"] = sent[r]["reservation.cancelled"]
                /\ sent'[r]["reservation.cancelled (refund)"] = sent[r]["reservation.cancelled (refund)"]
      BY <1>4, <3>2 DEF Event
    <3> QED
      BY <2>0, <2>3, <3>1, <3>3 DEF HistoryInv, TellerInv
  <2> QED
    BY <2>1, <2>2, <2>3
<1> QED
  BY <1>8, <1>9, <1>10, <1>11 DEF HistoryInv

(* Every step keeps the history invariant.                                 *)
LEMMA HistoryNext == TypeOK /\ ControlInv /\ HistoryInv /\ [Next]_vars => HistoryInv'
<1> SUFFICES ASSUME TypeOK, ControlInv, HistoryInv, [Next]_vars PROVE HistoryInv'
  OBVIOUS
<1>1. ASSUME NEW p \in Proc, Request(p) \/ ExpireJob(p) PROVE HistoryInv'
  BY <1>1, StartHistory
<1>2. ASSUME NEW p \in Proc, HoldStep(p) PROVE HistoryInv'
  <2>1. CASE Insert(p)
    BY <2>1, InsertHistory
  <2>2. CASE ~ Insert(p)
    BY <1>2, <2>2, HoldStepQuiet, QuietHistory
  <2> QED
    BY <2>1, <2>2
<1>3. ASSUME NEW p \in Proc, WriteStep(p) PROVE HistoryInv'
  BY <1>3, UpdateHistory, SeatsHistory, EmitHistory, SurroundingsQuiet, QuietHistory DEF WriteStep
<1>4. CASE Environment \/ (\E p \in Proc : Failure(p)) \/ UNCHANGED vars
  BY <1>4, SurroundingsQuiet, QuietHistory
<1> QED
  BY <1>1, <1>2, <1>3, <1>4 DEF Next, Proc

(* In every reachable state the versions tell the history of each          *)
(* reservation, and what handlers remember and have told fits it.          *)
THEOREM HistoryCorrect == Spec => []HistoryInv
<1>1. Spec => [](TypeOK /\ ControlInv)
  BY TypeCorrect
<1>2. Init => HistoryInv
  BY HistoryInit
<1>3. TypeOK /\ ControlInv /\ HistoryInv /\ [Next]_vars => HistoryInv'
  BY HistoryNext
<1> QED
  BY <1>1, <1>2, <1>3, PTL DEF Spec

(* No seat is ever held or sold twice, whatever the locks do. *)
THEOREM NeverDoubleBooked == Spec => []NoDoubleBooking
<1>1. HistoryInv => NoDoubleBooking
  BY DEF HistoryInv, UniqueSeats, NoDoubleBooking
<1> QED
  BY <1>1, HistoryCorrect, PTL

(* The rows never contradict the status of their reservation. *)
THEOREM SeatsAlwaysMatch == Spec => []SeatsMatchStatus
<1>1. HistoryInv => SeatsMatchStatus
  BY DEF HistoryInv
<1> QED
  BY <1>1, HistoryCorrect, PTL

-----------------------------------------------------------------------------
(* The booking module implements the life cycle of the entity: each step   *)
(* is a transition, a publication or nothing to the reservations.          *)

(* The insert is the entity's creation.                                    *)
LEMMA InsertCreates ==
    ASSUME TypeOK, HistoryInv, NEW p \in Proc, Insert(p)
    PROVE  Lifecycle!Next
<1>1. PICK r \in Res :
        /\ status[r] = "NONE"
        /\ status' = [status EXCEPT ![r] = "PENDING"]
        /\ version' = [version EXCEPT ![r] = 1]
  BY DEF Insert
<1>2. version[r] = 0 /\ sent' = sent
  BY <1>1 DEF HistoryInv, VersionInv, Insert, jobVars
<1>3. version' = [version EXCEPT ![r] = @ + 1]
  BY <1>1, <1>2
<1>4. Lifecycle!Create(r)
  BY <1>1, <1>2, <1>3 DEF Lifecycle!Create, Lifecycle!Move
<1> QED
  BY <1>4 DEF Lifecycle!Next

(* The guarded update is a transition of the entity.                       *)
LEMMA UpdateMoves ==
    ASSUME TypeOK, ControlInv, HistoryInv, NEW p \in Proc, UpdateReservation(p)
    PROVE  Lifecycle!Next
<1> DEFINE r == h[p].res
<1>1. /\ r \in Res /\ h[p].pc = "update" /\ h[p].op \in {"confirm", "cancel", "expire"}
      /\ status' = [status EXCEPT ![r] = Target(h[p].op)]
      /\ sent' = sent
  BY DEF UpdateReservation, jobVars, ControlInv, ControlOK, WritePc
<1>2. h[p].ver = version[r] /\ version' = [version EXCEPT ![r] = h[p].ver + 1]
  BY DEF UpdateReservation, VersionMatches
<1>3. version' = [version EXCEPT ![r] = @ + 1]
  BY <1>2
<1>4. status[r] \in Live /\ (h[p].op # "cancel" => status[r] = "PENDING")
  BY <1>1, <1>2 DEF HistoryInv, LoadInv
<1>5. CASE h[p].op = "confirm"
  BY <1>1, <1>3, <1>4, <1>5 DEF Target, Lifecycle!Next, Lifecycle!Confirm, Lifecycle!Move
<1>6. CASE h[p].op = "expire"
  BY <1>1, <1>3, <1>4, <1>6 DEF Target, Lifecycle!Next, Lifecycle!Expire, Lifecycle!Move
<1>7. CASE h[p].op = "cancel"
  <2>1. status' = [status EXCEPT ![r] = "CANCELLED"]
    BY <1>1, <1>7 DEF Target
  <2> QED
    BY <1>1, <1>3, <1>4, <2>1
       DEF Live, Lifecycle!Next, Lifecycle!CancelHold, Lifecycle!CancelPaid, Lifecycle!Move
<1> QED
  BY <1>1, <1>5, <1>6, <1>7

(* An enqueued event is true and has not been told before.                 *)
LEMMA EmitTells ==
    ASSUME TypeOK, ControlInv, HistoryInv, NEW p \in Proc,
           EmitConfirmed(p) \/ EmitNotification(p) \/ EmitCancelled(p)
    PROVE  Lifecycle!Next
<1> DEFINE r == h[p].res
<1>1. UNCHANGED <<status, version>> /\ r \in Res /\ Writing(p)
  BY DEF EmitConfirmed, EmitNotification, EmitCancelled, reservationVars, Writing, ControlInv,
         ControlOK, WritePc
<1>2. ASSUME NEW e \in Event, Enqueue(r, e), sent[r][e] = 0, Lifecycle!MayTell(r, e)
      PROVE  Lifecycle!Next
  <2>1. sent' = [sent EXCEPT ![r][e] = 1]
    BY <1>2 DEF Enqueue
  <2>2. Lifecycle!Tell(r, e)
    BY <1>1, <1>2, <2>1 DEF Lifecycle!Tell
  <2> QED
    BY <1>1, <2>2 DEF Lifecycle!Next, Lifecycle!Event, Event
<1>3. CASE EmitConfirmed(p)
  <2>1. WasConfirmed(r) /\ sent[r]["reservation.confirmed"] = 0
    BY <1>1, <1>3 DEF EmitConfirmed, HistoryInv, WriterInv, TellerInv
  <2>2. Lifecycle!MayTell(r, "reservation.confirmed")
    BY <2>1 DEF Lifecycle!MayTell, Lifecycle!WasConfirmed, WasConfirmed
  <2> QED
    BY <1>2, <1>3, <2>1, <2>2 DEF EmitConfirmed, Event
<1>4. CASE EmitNotification(p)
  <2>1. h[p].op = "confirm" /\ h[p].pc = "notify"
    BY <1>4 DEF EmitNotification, ControlInv, ControlOK
  <2>2. WasConfirmed(r) /\ sent[r]["reservation.confirmed"] = 1 /\ sent[r]["notification.send"] = 0
    BY <1>1, <2>1 DEF HistoryInv, WriterInv, TellerInv
  <2>3. Lifecycle!MayTell(r, "notification.send")
    BY <2>2 DEF Lifecycle!MayTell, Lifecycle!WasConfirmed, WasConfirmed
  <2> QED
    BY <1>2, <1>4, <2>2, <2>3 DEF EmitNotification, Event
<1>5. CASE EmitCancelled(p)
  <2> DEFINE e == IF h[p].was = "CONFIRMED" THEN "reservation.cancelled (refund)"
                                            ELSE "reservation.cancelled"
  <2>1. h[p].op = "cancel" /\ Enqueue(r, e) /\ e \in Event
    BY <1>5 DEF EmitCancelled, Event
  <2>2. /\ status[r] = "CANCELLED"
        /\ version[r] = IF h[p].was = "CONFIRMED" THEN 3 ELSE 2
        /\ sent[r][e] = 0
    BY <1>1, <2>1 DEF HistoryInv, WriterInv, TellerInv
  <2>3. Lifecycle!MayTell(r, e)
    BY <2>2 DEF Lifecycle!MayTell
  <2> QED
    BY <1>2, <2>1, <2>2, <2>3
<1> QED
  BY <1>3, <1>4, <1>5

(* Every step is one of the lifecycle, or none.                            *)
LEMMA StepImplements ==
    TypeOK /\ ControlInv /\ HistoryInv /\ [Next]_vars => [Lifecycle!Next]_(Lifecycle!vars)
<1> SUFFICES ASSUME TypeOK, ControlInv, HistoryInv, [Next]_vars
             PROVE  Lifecycle!Next \/ UNCHANGED <<status, version, sent>>
  BY DEF Lifecycle!vars
<1>1. ASSUME NEW p \in Proc, Request(p) \/ ExpireJob(p) PROVE UNCHANGED <<status, version, sent>>
  BY <1>1 DEF Request, ExpireJob, HoldStart, ConfirmStart, CancelStart, ExpireStart,
              reservationVars, jobVars
<1>2. ASSUME NEW p \in Proc, HoldStep(p)
      PROVE  Lifecycle!Next \/ UNCHANGED <<status, version, sent>>
  BY <1>2, InsertCreates, HoldStepQuiet DEF Quiet
<1>3. ASSUME NEW p \in Proc, UpdateSeats(p) PROVE UNCHANGED <<status, version, sent>>
  BY <1>3 DEF UpdateSeats, reservationVars
<1>4. ASSUME NEW p \in Proc, WriteStep(p)
      PROVE  Lifecycle!Next \/ UNCHANGED <<status, version, sent>>
  BY <1>3, <1>4, UpdateMoves, EmitTells, SurroundingsQuiet DEF WriteStep, Quiet
<1>5. CASE Environment \/ (\E p \in Proc : Failure(p)) \/ UNCHANGED vars
  BY <1>5, SurroundingsQuiet DEF Quiet
<1> QED
  BY <1>1, <1>2, <1>4, <1>5 DEF Next, Proc

(* The initial states agree.                                               *)
LEMMA InitImplements == Init => Lifecycle!Init
  BY DEF Init, Lifecycle!Init, Event, Lifecycle!Event

(* Whatever interleaves, fails or crashes, every reservation goes through  *)
(* the transitions of its entity only, one version at a time, and each     *)
(* event about it is true and published at most once.                      *)
THEOREM LifecycleImplemented == Spec => ImplementsLifecycle
<1>1. Spec => [](TypeOK /\ ControlInv)
  BY TypeCorrect
<1>2. Spec => []HistoryInv
  BY HistoryCorrect
<1>3. Init => Lifecycle!Init
  BY InitImplements
<1>4. TypeOK /\ ControlInv /\ HistoryInv /\ [Next]_vars => [Lifecycle!Next]_(Lifecycle!vars)
  BY StepImplements
<1> QED
  BY <1>1, <1>2, <1>3, <1>4, PTL DEF Spec, ImplementsLifecycle, Lifecycle!Spec

-----------------------------------------------------------------------------
(* What the abstract lifecycle implies is true of the module as it runs.   *)

RefundEvent == "reservation.cancelled (refund)"

(* The events of a reservation tell one story, whoever published them and  *)
(* in whatever order: each is told once at most, a mail is only announced  *)
(* after the confirmation, nobody hears of a refund who has not been       *)
(* confirmed, and who hears of a cancellation without a refund hears of    *)
(* neither a confirmation nor a refund (confirmReservation and             *)
(* cancelReservation, asyncEventBus.emit).                                 *)
OneStory ==
    \A r \in Res :
        /\ \A e \in Event : sent[r][e] <= 1
        /\ sent[r]["notification.send"] = 1 => sent[r]["reservation.confirmed"] = 1
        /\ sent[r][RefundEvent] = 1 => status[r] = "CANCELLED" /\ version[r] = 3
        /\ sent[r]["reservation.cancelled"] = 1 =>
              /\ sent[r]["reservation.confirmed"] = 0 /\ sent[r]["notification.send"] = 0
              /\ sent[r][RefundEvent] = 0

(* Every version stands for one way the reservation may have gone, and     *)
(* what was told is true of that way.                                      *)
StoryOf(r) ==
    /\ status[r] = "NONE" => version[r] = 0
    /\ status[r] = "PENDING" => version[r] = 1
    /\ status[r] \in {"CONFIRMED", "EXPIRED"} => version[r] = 2
    /\ status[r] = "CANCELLED" => version[r] \in {2, 3}
    /\ sent[r]["reservation.confirmed"] = 1 => WasConfirmed(r)
    /\ sent[r]["notification.send"] = 1 => sent[r]["reservation.confirmed"] = 1
    /\ sent[r]["reservation.cancelled"] = 1 => status[r] = "CANCELLED" /\ version[r] = 2
    /\ sent[r][RefundEvent] = 1 => status[r] = "CANCELLED" /\ version[r] = 3

StoryInv ==
    /\ status \in [Res -> Status] /\ version \in [Res -> Nat] /\ sent \in [Res -> [Event -> 0..1]]
    /\ \A r \in Res : StoryOf(r)

LEMMA EventNames ==
    /\ "reservation.confirmed" \in Event /\ "notification.send" \in Event
    /\ "reservation.cancelled" \in Event /\ RefundEvent \in Event
    /\ RefundEvent \notin {"reservation.confirmed", "notification.send", "reservation.cancelled"}
    /\ Event = Lifecycle!Event
  BY Zenon DEF Event, Lifecycle!Event, RefundEvent

LEMMA RefundMayBeTold ==
    ASSUME NEW r \in Res, Lifecycle!MayTell(r, RefundEvent)
    PROVE  status[r] = "CANCELLED" /\ version[r] = 3
  BY Zenon DEF Lifecycle!MayTell, RefundEvent

LEMMA StoryStarts == Lifecycle!Init => StoryInv
<1> SUFFICES ASSUME Lifecycle!Init PROVE StoryInv
  OBVIOUS
<1>1. /\ status = [r \in Res |-> "NONE"] /\ version = [r \in Res |-> 0]
      /\ sent = [r \in Res |-> [e \in Event |-> 0]]
  BY EventNames, Zenon DEF Lifecycle!Init
<1>2. status \in [Res -> Status] /\ version \in [Res -> Nat] /\ sent \in [Res -> [Event -> 0..1]]
  BY <1>1 DEF Status
<1>3. ASSUME NEW r \in Res PROVE StoryOf(r)
  <2>1. status[r] = "NONE" /\ version[r] = 0 /\ \A e \in Event : sent[r][e] = 0
    BY <1>1
  <2> QED
    BY <2>1, EventNames DEF StoryOf
<1> QED
  BY <1>2, <1>3 DEF StoryInv

LEMMA StoryMoves ==
    ASSUME StoryInv, NEW r \in Res, NEW from, NEW to, Lifecycle!Move(r, from, to),
           <<from, to>> \in {<<"NONE", "PENDING">>, <<"PENDING", "CONFIRMED">>, <<"PENDING", "EXPIRED">>,
                             <<"PENDING", "CANCELLED">>, <<"CONFIRMED", "CANCELLED">>}
    PROVE  StoryInv'
<1>1. status[r] = from /\ status' = [status EXCEPT ![r] = to]
      /\ version' = [version EXCEPT ![r] = @ + 1] /\ sent' = sent
  BY DEF Lifecycle!Move
<1>2. from \in Status /\ to \in Status
  BY DEF Status
<1>3. status' \in [Res -> Status] /\ version' \in [Res -> Nat] /\ sent' \in [Res -> [Event -> 0..1]]
  BY <1>1, <1>2 DEF StoryInv
<1>4. StoryOf(r)'
  <2>1. StoryOf(r) /\ status'[r] = to /\ version'[r] = version[r] + 1 /\ version[r] \in Nat
    BY <1>1 DEF StoryInv
  <2> QED
    BY <1>1, <2>1 DEF StoryOf, WasConfirmed
<1>5. ASSUME NEW q \in Res, q # r PROVE StoryOf(q)'
  <2>1. StoryOf(q) /\ status'[q] = status[q] /\ version'[q] = version[q]
    BY <1>1, <1>5 DEF StoryInv
  <2> QED
    BY <1>1, <2>1 DEF StoryOf, WasConfirmed
<1> QED
  BY <1>3, <1>4, <1>5 DEF StoryInv

LEMMA StoryIsTold ==
    ASSUME StoryInv, NEW r \in Res, NEW e \in Event, Lifecycle!Tell(r, e)
    PROVE  StoryInv'
<1>1. sent' = [sent EXCEPT ![r][e] = 1] /\ status' = status /\ version' = version /\ Lifecycle!MayTell(r, e)
  BY DEF Lifecycle!Tell
<1>2. sent' \in [Res -> [Event -> 0..1]]
  BY <1>1 DEF StoryInv
<1>3. StoryOf(r)'
  <2>1. StoryOf(r) /\ sent'[r][e] = 1 /\ \A f \in Event : f # e => sent'[r][f] = sent[r][f]
    BY <1>1 DEF StoryInv
  <2>2. /\ e = "reservation.confirmed" => WasConfirmed(r)
        /\ e = "notification.send" => sent[r]["reservation.confirmed"] = 1
        /\ e = "reservation.cancelled" => status[r] = "CANCELLED" /\ version[r] = 2
        /\ e = RefundEvent => status[r] = "CANCELLED" /\ version[r] = 3
    BY <1>1, RefundMayBeTold DEF Lifecycle!MayTell, Lifecycle!WasConfirmed, WasConfirmed
  <2>3. WasConfirmed(r)' <=> WasConfirmed(r)
    BY <1>1 DEF WasConfirmed
  <2> QED
    BY <1>1, <2>1, <2>2, <2>3, EventNames DEF StoryOf
<1>4. ASSUME NEW q \in Res, q # r PROVE StoryOf(q)'
  <2>1. StoryOf(q) /\ sent'[q] = sent[q]
    BY <1>1, <1>4 DEF StoryInv
  <2> QED
    BY <1>1, <2>1 DEF StoryOf, WasConfirmed
<1> QED
  BY <1>1, <1>2, <1>3, <1>4 DEF StoryInv

LEMMA StoryStep == StoryInv /\ [Lifecycle!Next]_(Lifecycle!vars) => StoryInv'
<1> SUFFICES ASSUME StoryInv, [Lifecycle!Next]_(Lifecycle!vars) PROVE StoryInv'
  OBVIOUS
<1>1. CASE UNCHANGED <<status, version, sent>>
  BY <1>1 DEF StoryInv, StoryOf, WasConfirmed
<1>2. ASSUME NEW r \in Res,
             \/ Lifecycle!Create(r) \/ Lifecycle!Confirm(r) \/ Lifecycle!Expire(r)
             \/ Lifecycle!CancelHold(r) \/ Lifecycle!CancelPaid(r)
      PROVE  StoryInv'
  BY <1>2, StoryMoves
     DEF Lifecycle!Create, Lifecycle!Confirm, Lifecycle!Expire, Lifecycle!CancelHold, Lifecycle!CancelPaid
<1>3. ASSUME NEW r \in Res, NEW e \in Event, Lifecycle!Tell(r, e) PROVE StoryInv'
  BY <1>3, StoryIsTold
<1> QED
  BY <1>1, <1>2, <1>3 DEF Lifecycle!Next, Lifecycle!vars, Lifecycle!Event, Event

(* Whoever listens to the queues of a reservation hears one story of it:   *)
(* the lifecycle allows no other, and the module implements the lifecycle. *)
THEOREM EventsTellOneStory == Spec => []OneStory
<1>1. ASSUME StoryInv, NEW r \in Res
      PROVE  /\ \A e \in Event : sent[r][e] \in 0..1
             /\ StoryOf(r)
  BY <1>1 DEF StoryInv
<1>2. ASSUME StoryInv, NEW r \in Res, sent[r]["reservation.cancelled"] = 1
      PROVE  /\ sent[r]["reservation.confirmed"] # 1 /\ sent[r]["notification.send"] # 1
             /\ sent[r][RefundEvent] # 1
  <2>1. StoryOf(r)
    BY <1>1, <1>2
  <2> QED
    BY <1>2, <2>1 DEF StoryOf, WasConfirmed
<1>3. StoryInv => OneStory
  <2> SUFFICES ASSUME StoryInv, NEW r \in Res
               PROVE  /\ \A e \in Event : sent[r][e] <= 1
                      /\ sent[r]["notification.send"] = 1 => sent[r]["reservation.confirmed"] = 1
                      /\ sent[r][RefundEvent] = 1 => status[r] = "CANCELLED" /\ version[r] = 3
                      /\ sent[r]["reservation.cancelled"] = 1 =>
                            /\ sent[r]["reservation.confirmed"] = 0 /\ sent[r]["notification.send"] = 0
                            /\ sent[r][RefundEvent] = 0
    BY DEF OneStory
  <2>1. \A e \in Event : sent[r][e] = 0 \/ sent[r][e] = 1
    BY <1>1
  <2> QED
    BY <1>1, <1>2, <2>1, EventNames DEF StoryOf
<1> QED
  BY LifecycleImplemented, StoryStarts, StoryStep, <1>3, PTL DEF ImplementsLifecycle, Lifecycle!Spec

-----------------------------------------------------------------------------
(* The locks of a hold.                                                    *)

(* A token names its handler and its lock, and is no other value of a key. *)
LEMMA TokenFacts ==
    ASSUME NEW p \in Proc, NEW n \in 1..MaxSeats
    PROVE  /\ Token(p, n) # None /\ Token(p, n) # Orphan
           /\ \A q, m : Token(p, n) = Token(q, m) => p = q /\ n = m
<1>1. <<p, n>> # None
  BY TokenAssumption DEF Proc
<1>2. n # 0
  BY MaxSeatsAssumption
<1> QED
  BY <1>1, <1>2 DEF Token, Orphan

(* The handler p will still release what it has locked. *)
Keeps(p) ==
    \A s \in Seat, n \in 1..MaxSeats :
        lock[s] = Token(p, n) =>
            /\ h[p].op = "hold"
            /\ n <= h[p].got
            /\ h[p].seats[n] = s
            /\ h[p].pc = "release" => n > h[p].n

(* A step of p that touches no key keeps its locks kept, if p goes on with *)
(* its hold or had locked nothing.                                         *)
LEMMA KeepsOwn ==
    ASSUME TypeOK, ControlInv, NEW p \in Proc, Keeps(p), lock' = lock,
           \/ h'[p] = h[p]
           \/ h[p].pc \notin HoldPc
           \/ h[p].got = 0
           \/ /\ h'[p].op = h[p].op /\ h'[p].got = h[p].got /\ h'[p].seats = h[p].seats
              /\ h'[p].pc = "release" => h'[p].n = 0
    PROVE  Keeps(p)'
<1> SUFFICES ASSUME NEW s \in Seat, NEW n \in 1..MaxSeats, lock'[s] = Token(p, n)
             PROVE  /\ h'[p].op = "hold"
                    /\ n <= h'[p].got
                    /\ h'[p].seats[n] = s
                    /\ h'[p].pc = "release" => n > h'[p].n
  BY DEF Keeps, Token
<1>1. /\ h[p].op = "hold" /\ n <= h[p].got /\ h[p].seats[n] = s
      /\ h[p].pc = "release" => n > h[p].n
  BY DEF Keeps
<1>2. h[p].pc \in HoldPc
  <2>1. h[p].pc \in HoldPc \cup WritePc \cup {"idle"}
    BY DEF TypeOK, Handler, HoldPc, WritePc
  <2>2. h[p].pc # "idle" /\ h[p].pc \notin WritePc
    <3>1. ControlOK(h[p]) /\ Idle.op = "none"
      BY DEF ControlInv, Idle
    <3> QED
      BY <1>1, <3>1 DEF ControlOK
  <2> QED
    BY <2>1, <2>2
<1>3. h[p].got # 0 /\ n > 0
  <2>1. h[p].got \in Nat
    BY DEF TypeOK, Handler
  <2> QED
    BY <1>1, <2>1, MaxSeatsAssumption
<1>4. CASE h'[p] = h[p]
  BY <1>1, <1>4
<1>5. CASE /\ h'[p].op = h[p].op /\ h'[p].got = h[p].got /\ h'[p].seats = h[p].seats
           /\ h'[p].pc = "release" => h'[p].n = 0
  BY <1>1, <1>3, <1>5
<1> QED
  BY <1>2, <1>3, <1>4, <1>5

(* The same for leaving through the finally block.                         *)
LEMMA KeepsFinally ==
    ASSUME TypeOK, ControlInv, NEW p \in Proc, Keeps(p), lock' = lock, Finally(p)
    PROVE  Keeps(p)'
<1>1. h[p] \in Handler /\ h \in [Proc -> Handler]
  BY DEF TypeOK
<1>2. CASE h[p].got = 0
  BY <1>2, KeepsOwn
<1>3. CASE h[p].got # 0
  <2>1. h' = [h EXCEPT ![p].pc = "release", ![p].n = 0]
    BY <1>3 DEF Finally
  <2>2. h'[p].op = h[p].op /\ h'[p].got = h[p].got /\ h'[p].seats = h[p].seats /\ h'[p].n = 0
    BY <1>1, <2>1 DEF Handler
  <2> QED
    BY <2>2, KeepsOwn
<1> QED
  BY <1>2, <1>3

(* The step that takes a lock: the handler has counted it. *)
LEMMA KeepsAcquired ==
    ASSUME TypeOK, ControlInv, NEW p \in Proc, Keeps(p), AcquireLock(p)
    PROVE  Keeps(p)'
<1>1. h[p] \in Handler /\ h \in [Proc -> Handler] /\ ControlOK(h[p])
  BY DEF TypeOK, ControlInv
<1>2. /\ h[p].pc = "lock" /\ h[p].op = "hold" /\ h[p].seats \in Requests
      /\ h[p].n < Len(h[p].seats) /\ h[p].got = h[p].n
      /\ lock' = [lock EXCEPT ![ThisSeat(p)] = Token(p, h[p].n + 1)]
  BY <1>1 DEF AcquireLock, ControlOK, HoldPc
<1>3. /\ Len(h[p].seats) \in 1..MaxSeats /\ h[p].n \in Nat
      /\ h[p].n + 1 \in 1..MaxSeats /\ ThisSeat(p) \in Seat
  <2>1. /\ Len(h[p].seats) \in 1..MaxSeats /\ h[p].n \in 0..MaxSeats
        /\ \A i \in 1..Len(h[p].seats) : h[p].seats[i] \in Seat
    BY <1>1, <1>2, RequestFacts DEF Handler
  <2> QED
    BY <1>2, <2>1, MaxSeatsAssumption DEF ThisSeat
<1>4. /\ h'[p].op = "hold" /\ h'[p].seats = h[p].seats /\ h'[p].got = h[p].n + 1
      /\ h'[p].pc \in {"lock", "check"}
  <2>1. h[p].got + 1 = h[p].n + 1
    BY <1>2
  <2>2. NextSeat(p, "check", h[p].got + 1)
    BY DEF AcquireLock
  <2> QED
    BY <1>1, <1>2, <2>1, <2>2 DEF NextSeat, Handler
<1> SUFFICES ASSUME NEW s \in Seat, NEW n \in 1..MaxSeats, lock'[s] = Token(p, n)
             PROVE  n <= h[p].n + 1 /\ h[p].seats[n] = s
  BY <1>4 DEF Keeps, Token
<1>5. lock \in [Seat -> (Proc \X (1..MaxSeats)) \cup {Orphan, None}]
  BY DEF TypeOK
<1>6. CASE s = ThisSeat(p)
  <2>1. n = h[p].n + 1
    BY <1>2, <1>3, <1>5, <1>6, TokenFacts
  <2> QED
    BY <1>3, <1>6, <2>1 DEF ThisSeat
<1>7. CASE s # ThisSeat(p)
  <2>1. lock[s] = Token(p, n)
    BY <1>2, <1>5, <1>7
  <2> QED
    BY <1>2, <1>3, <2>1 DEF Keeps
<1> QED
  BY <1>6, <1>7

(* The round that gives a lock back: all that is left is further on. *)
LEMMA KeepsReleased ==
    ASSUME TypeOK, ControlInv, NEW p \in Proc, Keeps(p), NEW freed \in BOOLEAN, ReleaseLock(p, freed)
    PROVE  Keeps(p)'
<1>1. h[p] \in Handler /\ h \in [Proc -> Handler] /\ ControlOK(h[p])
  BY DEF TypeOK, ControlInv
<1>2. /\ h[p].pc = "release" /\ h[p].n \in Nat /\ h[p].got \in Nat /\ h[p].n < h[p].got
      /\ h[p].got \in 0..MaxSeats /\ h[p].n + 1 \in 1..MaxSeats
  <2>1. h[p].pc = "release" /\ h[p].n < h[p].got /\ h[p].n \in 0..MaxSeats /\ h[p].got \in 0..MaxSeats
    BY <1>1 DEF ReleaseLock, ControlOK, Handler
  <2> QED
    BY <2>1, MaxSeatsAssumption
<1>3. lock \in [Seat -> (Proc \X (1..MaxSeats)) \cup {Orphan, None}]
  BY DEF TypeOK
<1>4. ASSUME NEW s \in Seat, NEW n \in 1..MaxSeats, lock'[s] = Token(p, n)
      PROVE  lock[s] = Token(p, n) /\ n # h[p].n + 1
  <2>1. CASE lock[ThisSeat(p)] # Token(p, h[p].n + 1)
    <3>1. lock' = lock
      BY <2>1 DEF ReleaseLock
    <3>2. n = h[p].n + 1 => s = ThisSeat(p)
      BY <1>4, <3>1 DEF Keeps, ThisSeat
    <3> QED
      BY <1>4, <2>1, <3>1, <3>2
  <2>2. CASE lock[ThisSeat(p)] = Token(p, h[p].n + 1)
    <3> DEFINE x == IF freed THEN None ELSE Orphan
    <3>1. lock' = [lock EXCEPT ![ThisSeat(p)] = x] /\ x # Token(p, n)
      <4>1. Token(p, n) # None /\ Token(p, n) # Orphan
        BY TokenFacts
      <4> QED
        BY <2>2, <4>1 DEF ReleaseLock
    <3> HIDE DEF x
    <3>2. s # ThisSeat(p) /\ lock[s] = Token(p, n)
      BY <1>3, <1>4, <3>1
    <3>3. n = h[p].n + 1 => s = ThisSeat(p)
      BY <3>2 DEF Keeps, ThisSeat
    <3> QED
      BY <3>2, <3>3
  <2> QED
    BY <2>1, <2>2
<1>5. ASSUME NEW s \in Seat, NEW n \in 1..MaxSeats, lock'[s] = Token(p, n)
      PROVE  /\ h[p].op = "hold" /\ n <= h[p].got /\ h[p].seats[n] = s /\ n > h[p].n + 1
  <2>1. lock[s] = Token(p, n) /\ n # h[p].n + 1
    BY <1>4, <1>5
  <2>2. h[p].op = "hold" /\ n <= h[p].got /\ h[p].seats[n] = s /\ n > h[p].n
    BY <1>2, <2>1 DEF Keeps
  <2> QED
    BY <1>2, <2>1, <2>2
<1>6. CASE h[p].n + 1 = h[p].got
  <2>1. \A s \in Seat, n \in 1..MaxSeats : lock'[s] # Token(p, n)
    BY <1>2, <1>5, <1>6
  <2> QED
    BY <2>1 DEF Keeps, Token
<1>7. CASE h[p].n + 1 # h[p].got
  <2>1. h' = [h EXCEPT ![p].n = @ + 1]
    BY <1>7 DEF ReleaseLock
  <2>2. /\ h'[p].op = h[p].op /\ h'[p].got = h[p].got /\ h'[p].seats = h[p].seats
        /\ h'[p].pc = "release" /\ h'[p].n = h[p].n + 1
    BY <1>1, <1>2, <2>1 DEF Handler
  <2> QED
    BY <1>5, <2>2 DEF Keeps, Token
<1> QED
  BY <1>6, <1>7

(* No step of another handler gives p a lock.                              *)
LEMMA KeepsOthers ==
    ASSUME NEW p \in Proc, Keeps(p), h'[p] = h[p],
           \A s \in Seat, n \in 1..MaxSeats : lock'[s] = Token(p, n) => lock[s] = Token(p, n)
    PROVE  Keeps(p)'
  BY DEF Keeps, Token

(* What a step of p does to the keys: it may take or free keys of p.       *)
LEMMA KeysOfOthers ==
    ASSUME TypeOK, ControlInv, NEW p \in Proc,
           \/ HoldStep(p) \/ WriteStep(p) \/ Request(p) \/ ExpireJob(p) \/ Failure(p),
           NEW q \in Proc, q # p
    PROVE  /\ h'[q] = h[q]
           /\ \A s \in Seat, n \in 1..MaxSeats : lock'[s] = Token(q, n) <=> lock[s] = Token(q, n)
<1>1. h \in [Proc -> Handler] /\ lock \in [Seat -> (Proc \X (1..MaxSeats)) \cup {Orphan, None}]
  BY DEF TypeOK
<1>2. h'[q] = h[q]
  BY <1>1 DEF HoldStep, WriteStep, Request, ExpireJob, Failure, AcquireLock, LockBusy, CheckSeat, LoadEvent,
     Insert, InsertRefused, ScheduleExpire, ReleaseLock, UpdateReservation, UpdateConflict, UpdateSeats,
     EmitConfirmed, EmitNotification, EmitCancelled, HoldStart, ConfirmStart, CancelStart, ExpireStart,
     CallFails, Crash, NextSeat, Finally, Goto, Return, Load, Reject
<1>3. CASE lock' = lock
  BY <1>2, <1>3
<1>4. CASE AcquireLock(p)
  <2>1. /\ lock' = [lock EXCEPT ![ThisSeat(p)] = Token(p, h[p].n + 1)]
        /\ ThisSeat(p) \in Seat => lock[ThisSeat(p)] = None
    BY <1>4 DEF AcquireLock
  <2>2. \A n \in 1..MaxSeats : Token(q, n) # None /\ Token(q, n) # Token(p, h[p].n + 1)
    BY TokenFacts
  <2> QED
    BY <1>1, <1>2, <2>1, <2>2
<1>5. ASSUME NEW freed \in BOOLEAN, ReleaseLock(p, freed)
      PROVE  \A s \in Seat, n \in 1..MaxSeats : lock'[s] = Token(q, n) <=> lock[s] = Token(q, n)
  <2>1. CASE lock[ThisSeat(p)] # Token(p, h[p].n + 1)
    BY <1>5, <2>1 DEF ReleaseLock
  <2>2. CASE lock[ThisSeat(p)] = Token(p, h[p].n + 1)
    <3>1. \E x \in {None, Orphan} : lock' = [lock EXCEPT ![ThisSeat(p)] = x]
      BY <1>5, <2>2 DEF ReleaseLock
    <3>2. \A n \in 1..MaxSeats :
             Token(q, n) # None /\ Token(q, n) # Orphan /\ Token(q, n) # Token(p, h[p].n + 1)
      BY TokenFacts
    <3> QED
      BY <1>1, <2>2, <3>1, <3>2
  <2> QED
    BY <2>1, <2>2
<1>6. CASE Crash(p)
  <2>1. \A s \in Seat : lock'[s] = IF \E n \in 1..MaxSeats : lock[s] = Token(p, n) THEN Orphan ELSE lock[s]
    BY <1>6 DEF Crash
  <2>2. \A n \in 1..MaxSeats :
           Token(q, n) # Orphan /\ \A m \in 1..MaxSeats : Token(q, n) # Token(p, m)
    BY TokenFacts
  <2> QED
    BY <1>2, <2>1, <2>2
<1>7. HoldStep(p) => AcquireLock(p) \/ ReleaseLock(p, TRUE) \/ lock' = lock
  BY DEF HoldStep, LockBusy, CheckSeat, LoadEvent, Insert, InsertRefused, ScheduleExpire
<1>8. WriteStep(p) \/ Request(p) \/ ExpireJob(p) => lock' = lock
  BY DEF WriteStep, Request, ExpireJob, UpdateReservation, UpdateConflict, UpdateSeats,
     EmitConfirmed, EmitNotification, EmitCancelled, HoldStart, ConfirmStart, CancelStart, ExpireStart
<1>9. Failure(p) => ReleaseLock(p, FALSE) \/ Crash(p) \/ lock' = lock
  BY DEF Failure, CallFails
<1> QED
  BY <1>2, <1>3, <1>4, <1>5, <1>6, <1>7, <1>8, <1>9

(* Every step of p itself.                                                 *)
LEMMA KeepsMover ==
    ASSUME TypeOK, ControlInv, NEW p \in Proc, Keeps(p),
           \/ HoldStep(p) \/ WriteStep(p) \/ Request(p) \/ ExpireJob(p) \/ Failure(p)
    PROVE  Keeps(p)'
<1>1. h \in [Proc -> Handler] /\ h[p] \in Handler /\ ControlOK(h[p])
  BY DEF TypeOK, ControlInv
<1>2. CASE AcquireLock(p)
  BY <1>2, KeepsAcquired
<1>3. ASSUME NEW freed \in BOOLEAN, ReleaseLock(p, freed) PROVE Keeps(p)'
  BY <1>3, KeepsReleased
<1>4. CASE Crash(p)
  <2>1. \A s \in Seat, n \in 1..MaxSeats : lock'[s] # Token(p, n)
    <3> SUFFICES ASSUME NEW s \in Seat, NEW n \in 1..MaxSeats, lock'[s] = Token(p, n) PROVE FALSE
      OBVIOUS
    <3>1. lock'[s] = IF \E m \in 1..MaxSeats : lock[s] = Token(p, m) THEN Orphan ELSE lock[s]
      BY <1>4 DEF Crash
    <3>2. Token(p, n) # Orphan
      BY TokenFacts
    <3> QED
      BY <3>1, <3>2
  <2> QED
    BY <2>1 DEF Keeps, Token
<1>5. CASE lock' = lock /\ Finally(p)
  BY <1>5, KeepsFinally
<1>6. CASE lock' = lock /\ h[p].pc \notin HoldPc
  BY <1>6, KeepsOwn
<1>7. CASE CheckSeat(p)
  <2>1. CASE NextSeat(p, "event", h[p].got)
    <3>1. h'[p].op = h[p].op /\ h'[p].got = h[p].got /\ h'[p].seats = h[p].seats /\ h'[p].pc # "release"
      BY <1>1, <1>7, <2>1 DEF CheckSeat, NextSeat, Handler
    <3> QED
      BY <1>7, <3>1, KeepsOwn DEF CheckSeat
  <2> QED
    BY <1>5, <1>7, <2>1 DEF CheckSeat
<1>8. CASE LoadEvent(p)
  <2>1. CASE Goto(p, "insert")
    <3>1. h'[p].op = h[p].op /\ h'[p].got = h[p].got /\ h'[p].seats = h[p].seats /\ h'[p].pc # "release"
      BY <1>1, <2>1 DEF Goto, Handler
    <3> QED
      BY <1>8, <3>1, KeepsOwn DEF LoadEvent
  <2> QED
    BY <1>5, <1>8, <2>1 DEF LoadEvent
<1>9. CASE Insert(p)
  <2>1. PICK r \in Res : h' = [h EXCEPT ![p].pc = "schedule", ![p].res = r]
    BY <1>9 DEF Insert
  <2>2. h'[p].op = h[p].op /\ h'[p].got = h[p].got /\ h'[p].seats = h[p].seats /\ h'[p].pc # "release"
    BY <1>1, <2>1 DEF Handler
  <2> QED
    BY <1>9, <2>2, KeepsOwn DEF Insert
<1>10. CASE LockBusy(p) \/ InsertRefused(p) \/ ScheduleExpire(p)
  BY <1>5, <1>10 DEF LockBusy, InsertRefused, ScheduleExpire
<1>11. CASE WriteStep(p) \/ Request(p) \/ ExpireJob(p)
  <2>1. lock' = lock
    BY <1>11 DEF WriteStep, Request, ExpireJob, UpdateReservation, UpdateConflict, UpdateSeats,
       EmitConfirmed, EmitNotification, EmitCancelled, HoldStart, ConfirmStart, CancelStart, ExpireStart
  <2>2. h[p].pc \in WritePc \cup {"idle"}
    BY <1>11 DEF WriteStep, Request, ExpireJob, UpdateReservation, UpdateConflict, UpdateSeats,
       EmitConfirmed, EmitNotification, EmitCancelled, HoldStart, ConfirmStart, CancelStart, ExpireStart,
       WritePc
  <2> QED
    BY <1>6, <2>1, <2>2 DEF HoldPc, WritePc
<1>12. CASE CallFails(p)
  <2>1. CASE Finally(p) /\ UNCHANGED lock
    BY <1>5, <2>1
  <2>2. CASE h[p].pc \in {"update", "seats", "emit", "notify"} /\ UNCHANGED lock
    BY <1>6, <2>2 DEF HoldPc
  <2> QED
    BY <1>12, <2>1, <2>2 DEF CallFails
<1> QED
  BY <1>2, <1>3, <1>4, <1>7, <1>8, <1>9, <1>10, <1>11, <1>12 DEF HoldStep, Failure

(* Every step keeps the locks of every handler.                            *)
LEMMA KeepersNext ==
    TypeOK /\ ControlInv /\ LocksHaveKeepers /\ [Next]_vars => LocksHaveKeepers'
<1> SUFFICES ASSUME TypeOK, ControlInv, LocksHaveKeepers, [Next]_vars, NEW p \in Proc
             PROVE  Keeps(p)'
  BY DEF LocksHaveKeepers, Keeps, Token
<1>1. \A q \in Proc : Keeps(q)
  BY DEF LocksHaveKeepers, Keeps
<1>2. ASSUME NEW q \in Proc, HoldStep(q) \/ WriteStep(q) \/ Request(q) \/ ExpireJob(q) \/ Failure(q)
      PROVE  Keeps(p)'
  <2>1. CASE q = p
    BY <1>1, <1>2, <2>1, KeepsMover
  <2>2. CASE q # p
    <3>1. /\ h'[p] = h[p]
          /\ \A s \in Seat, n \in 1..MaxSeats : lock'[s] = Token(p, n) <=> lock[s] = Token(p, n)
      BY <1>2, <2>2, KeysOfOthers
    <3> QED
      BY <1>1, <3>1, KeepsOthers
  <2> QED
    BY <2>1, <2>2
<1>3. CASE Environment \/ UNCHANGED vars
  <2>1. h' = h
    BY <1>3 DEF Environment, HoldTimeUp, DeadlinePasses, LockExpires, vars
  <2>2. \A s \in Seat : lock'[s] = lock[s] \/ lock'[s] = None
    <3>1. lock' = lock \/ \E s \in Seat : lock' = [lock EXCEPT ![s] = None]
      BY <1>3 DEF Environment, HoldTimeUp, DeadlinePasses, LockExpires, vars
    <3> QED
      BY <3>1 DEF TypeOK
  <2>3. \A n \in 1..MaxSeats : Token(p, n) # None
    BY TokenFacts
  <2> QED
    BY <1>1, <2>1, <2>2, <2>3, KeepsOthers
<1> QED
  BY <1>2, <1>3 DEF Next, Proc

(* No handler leaves createReservation with a lock in hand, whatever fails *)
(* on its way; what a crash leaves behind is an orphan.                    *)
THEOREM LocksAreReleased == Spec => []LocksHaveKeepers
<1>1. Spec => [](TypeOK /\ ControlInv)
  BY TypeCorrect
<1>2. Init => LocksHaveKeepers
  <2> SUFFICES ASSUME Init, NEW s \in Seat, NEW p \in Proc, NEW n \in 1..MaxSeats
               PROVE  lock[s] # Token(p, n)
    BY DEF LocksHaveKeepers
  <2>1. Token(p, n) # None
    BY TokenFacts
  <2> QED
    BY <2>1 DEF Init
<1>3. TypeOK /\ ControlInv /\ LocksHaveKeepers /\ [Next]_vars => LocksHaveKeepers'
  BY KeepersNext
<1> QED
  BY <1>1, <1>2, <1>3, PTL DEF Spec

-----------------------------------------------------------------------------
(* What the lock is for: between the check of a seat and the insert nobody *)
(* else can hold it.                                                       *)

Free(s) == \A x \in holds : x.seat = s /\ x.status \in Active => status[x.res] \notin Live

(* The seats that p has locked so far are locked by it, and those that it  *)
(* has checked are still free.                                             *)
CoverOK(p) ==
    /\ h[p].pc \in {"lock", "check", "event", "insert"} =>
          \A i \in 1..h[p].got : lock[h[p].seats[i]] = Token(p, i)
    /\ h[p].pc = "check" => \A i \in 1..h[p].n : Free(h[p].seats[i])
    /\ h[p].pc \in {"event", "insert"} => \A i \in 1..h[p].got : Free(h[p].seats[i])

CoverInv == \A p \in Proc : CoverOK(p)

(* A transition of the entity starts or ends no hold on a row that is not  *)
(* there: only an insert makes a seat taken.                               *)
LEMMA UpdateKeepsFree ==
    ASSUME TypeOK, ControlInv, HistoryInv, NEW q \in Proc, UpdateReservation(q) \/ UpdateSeats(q),
           NEW s \in Seat, Free(s)
    PROVE  Free(s)'
<1>1. h[q].pc \in {"update", "seats"} /\ h[q].res \in Res
  BY DEF UpdateReservation, UpdateSeats, ControlInv, ControlOK, WritePc
<1>2. CASE UpdateReservation(q)
  <2>1. /\ status' = [status EXCEPT ![h[q].res] = Target(h[q].op)] /\ holds' = holds
        /\ status[h[q].res] \in Live
    BY <1>2 DEF UpdateReservation, VersionMatches, HistoryInv, LoadInv
  <2>2. \A x \in holds : x.res \in Res
    BY DEF TypeOK, SeatHold
  <2>3. \A r \in Res : status'[r] \in Live => status[r] \in Live
    BY <2>1 DEF TypeOK
  <2> QED
    BY <2>1, <2>2, <2>3 DEF Free
<1>3. CASE UpdateSeats(q)
  <2> DEFINE r == h[q].res
             st == IF h[q].op = "confirm" THEN "CONFIRMED" ELSE "RELEASED"
  <2>1. holds' = SetSeats(r, st) /\ status' = status
    BY <1>3 DEF UpdateSeats, reservationVars
  <2> SUFFICES ASSUME NEW y \in holds', y.seat = s, y.status \in Active
               PROVE  status[y.res] \notin Live
    BY <2>1 DEF Free
  <2>2. PICK x \in holds : y = IF x.res = r THEN [x EXCEPT !.status = st] ELSE x
    BY <2>1 DEF SetSeats
  <2>3. x \in SeatHold
    BY DEF TypeOK
  <2>4. y.seat = x.seat /\ y.res = x.res
    BY <2>2, <2>3 DEF SeatHold
  <2>5. CASE x.res # r
    BY <2>2, <2>4, <2>5 DEF Free
  <2>6. CASE x.res = r
    <3>1. y.status = st
      BY <2>2, <2>3, <2>6 DEF SeatHold
    <3>2. h[q].op = "confirm"
      BY <3>1 DEF Active
    <3>3. WasConfirmed(r)
      BY <1>3, <3>2 DEF UpdateSeats, HistoryInv, WriterInv, Writing
    <3>4. CASE status[r] = "CONFIRMED"
      <4>1. x.status # "RELEASED"
        BY <2>6, <3>4 DEF HistoryInv, SeatsMatchStatus
      <4>2. x.status \in Active
        BY <2>3, <4>1 DEF SeatHold
      <4> QED
        BY <2>4, <4>2 DEF Free
    <3>5. CASE status[r] # "CONFIRMED"
      BY <2>4, <2>6, <3>3, <3>5 DEF WasConfirmed, Live
    <3> QED
      BY <3>4, <3>5
  <2> QED
    BY <2>5, <2>6
<1> QED
  BY <1>2, <1>3

(* An insert takes only seats that its handler has locked.                 *)
LEMMA InsertKeepsFree ==
    ASSUME TypeOK, ControlInv, HistoryInv, CoverInv, NEW q \in Proc, Insert(q),
           NEW p \in Proc, p # q, NEW s \in Seat, NEW i \in 1..MaxSeats, lock[s] = Token(p, i), Free(s)
    PROVE  Free(s)'
<1>1. PICK r \in Res :
        /\ status[r] = "NONE"
        /\ status' = [status EXCEPT ![r] = "PENDING"]
        /\ holds' = holds \cup {[res |-> r, seat |-> h[q].seats[j], n |-> j, status |-> "HELD"] :
                                   j \in DOMAIN h[q].seats}
  BY DEF Insert
<1>2. /\ h[q].pc = "insert" /\ h[q].got = Len(h[q].seats) /\ h[q].seats \in Requests
  BY DEF Insert, ControlInv, ControlOK, HoldPc
<1>3. DOMAIN h[q].seats = 1..h[q].got
  BY <1>2, RequestFacts
<1>4. \A j \in DOMAIN h[q].seats : h[q].seats[j] # s
  <2> SUFFICES ASSUME NEW j \in DOMAIN h[q].seats, h[q].seats[j] = s PROVE FALSE
    OBVIOUS
  <2>1. lock[s] = Token(q, j)
    BY <1>2, <1>3 DEF CoverInv, CoverOK
  <2>2. Token(p, i) # Token(q, j)
    BY TokenFacts
  <2> QED
    BY <2>1, <2>2
<1> SUFFICES ASSUME NEW x \in holds', x.seat = s, x.status \in Active PROVE status'[x.res] \notin Live
  BY DEF Free
<1>5. x \in holds
  BY <1>1, <1>4
<1>6. x.res \in Res /\ x.res # r
  BY <1>1, <1>5 DEF TypeOK, SeatHold, HistoryInv, RowsInv
<1>7. status[x.res] \notin Live
  BY <1>5 DEF Free
<1> QED
  BY <1>1, <1>6, <1>7 DEF TypeOK

(* So the steps of others and of time leave a locked, checked seat free.   *)
LEMMA FreeStays ==
    ASSUME TypeOK, ControlInv, HistoryInv, CoverInv, [Next]_vars,
           NEW p \in Proc, ~ Insert(p), NEW s \in Seat, NEW i \in 1..MaxSeats,
           lock[s] = Token(p, i), Free(s)
    PROVE  Free(s)'
<1>1. CASE UNCHANGED <<status, holds>>
  BY <1>1 DEF Free
<1>2. ASSUME NEW q \in Proc, Insert(q) PROVE Free(s)'
  BY <1>2, InsertKeepsFree
<1>3. ASSUME NEW q \in Proc, UpdateReservation(q) \/ UpdateSeats(q) PROVE Free(s)'
  BY <1>3, UpdateKeepsFree
<1>4. ASSUME NEW q \in Proc, Request(q) \/ ExpireJob(q) \/ Failure(q) PROVE UNCHANGED <<status, holds>>
  BY <1>4 DEF Request, ExpireJob, Failure, HoldStart, ConfirmStart, CancelStart, ExpireStart, CallFails,
     ReleaseLock, Crash, reservationVars
<1>5. ASSUME NEW q \in Proc, HoldStep(q), ~ Insert(q) PROVE UNCHANGED <<status, holds>>
  BY <1>5 DEF HoldStep, AcquireLock, LockBusy, CheckSeat, LoadEvent, InsertRefused, ScheduleExpire,
     ReleaseLock, reservationVars
<1>6. ASSUME NEW q \in Proc, WriteStep(q), ~ (UpdateReservation(q) \/ UpdateSeats(q))
      PROVE  UNCHANGED <<status, holds>>
  BY <1>6 DEF WriteStep, UpdateConflict, EmitConfirmed, EmitNotification, EmitCancelled, reservationVars
<1>7. CASE Environment \/ UNCHANGED vars
  BY <1>1, <1>7 DEF Environment, HoldTimeUp, DeadlinePasses, LockExpires, vars, reservationVars
<1> QED
  BY <1>1, <1>2, <1>3, <1>4, <1>5, <1>6, <1>7 DEF Next, Proc

(* A handler that does not move stays covered: nobody takes its keys away  *)
(* while locks outlive their handlers.                                     *)
LEMMA CoverOthers ==
    ASSUME ~ SlowHandlers, TypeOK, ControlInv, HistoryInv, CoverInv, [Next]_vars,
           NEW p \in Proc, h'[p] = h[p], ~ Insert(p),
           \A s \in Seat, i \in 1..MaxSeats : lock[s] = Token(p, i) => lock'[s] = Token(p, i)
    PROVE  CoverOK(p)'
<1>1. h[p] \in Handler /\ ControlOK(h[p]) /\ CoverOK(p)
  BY DEF TypeOK, ControlInv, CoverInv
<1>2. CASE h[p].pc \notin {"lock", "check", "event", "insert"}
  BY <1>2 DEF CoverOK
<1>3. CASE h[p].pc \in {"lock", "check", "event", "insert"}
  <2>1. /\ h[p].seats \in Requests /\ h[p].got \in 0..MaxSeats /\ h[p].n \in 0..MaxSeats
        /\ h[p].got <= Len(h[p].seats)
        /\ h[p].pc = "check" => h[p].n <= h[p].got
    <3>1. /\ h[p].seats \in Requests /\ h[p].got \in 0..MaxSeats /\ h[p].n \in 0..MaxSeats
          /\ h[p].got <= Len(h[p].seats)
          /\ h[p].pc = "check" => h[p].n < Len(h[p].seats) /\ h[p].got = Len(h[p].seats)
      BY <1>1, <1>3 DEF Handler, ControlOK, HoldPc
    <3>2. Len(h[p].seats) \in Nat /\ h[p].n \in Nat
      BY <3>1, RequestFacts
    <3>3. h[p].pc = "check" => h[p].n <= h[p].got
      BY <3>1, <3>2
    <3> QED
      BY <3>1, <3>3
  <2>2. \A i \in 1..h[p].got : i \in 1..MaxSeats /\ h[p].seats[i] \in Seat
    <3>1. Len(h[p].seats) \in 1..MaxSeats /\ \A i \in 1..Len(h[p].seats) : h[p].seats[i] \in Seat
      BY <2>1, RequestFacts
    <3> QED
      BY <2>1, <3>1, MaxSeatsAssumption
  <2>3. \A i \in 1..h[p].got : lock[h[p].seats[i]] = Token(p, i)
    BY <1>1, <1>3 DEF CoverOK
  <2>4. \A i \in 1..h[p].got : lock'[h[p].seats[i]] = Token(p, i)
    BY <2>2, <2>3
  <2>5. ASSUME NEW i \in 1..h[p].got, Free(h[p].seats[i]) PROVE Free(h[p].seats[i])'
    <3>1. PICK s \in Seat : s = h[p].seats[i]
      BY <2>2
    <3>2. lock[s] = Token(p, i) /\ i \in 1..MaxSeats /\ Free(s)
      BY <2>2, <2>3, <2>5, <3>1 DEF Free
    <3>3. Free(s)'
      BY <3>2, FreeStays
    <3> QED
      BY <3>1, <3>3 DEF Free
  <2> QED
    BY <1>1, <2>1, <2>4, <2>5 DEF CoverOK, Token, Free
<1> QED
  BY <1>2, <1>3

(* The handler that moves: what it has just locked is its own, what it has *)
(* just checked is free.                                                   *)
LEMMA CoverMover ==
    ASSUME TypeOK, ControlInv, HistoryInv, NEW p \in Proc, CoverOK(p),
           \/ HoldStep(p) \/ WriteStep(p) \/ Request(p) \/ ExpireJob(p) \/ Failure(p)
    PROVE  CoverOK(p)' \/ UNCHANGED <<h, lock, holds, status>>
<1>1. /\ h[p] \in Handler /\ h \in [Proc -> Handler] /\ ControlOK(h[p])
      /\ lock \in [Seat -> (Proc \X (1..MaxSeats)) \cup {Orphan, None}]
  BY DEF TypeOK, ControlInv
<1>2. ASSUME h'[p].pc \notin {"lock", "check", "event", "insert"} PROVE CoverOK(p)'
  BY <1>2 DEF CoverOK
<1>3. ASSUME Return(p) PROVE CoverOK(p)'
  <2>1. h'[p].pc = "idle"
    BY <1>1, <1>3 DEF Return, Idle
  <2> QED
    BY <1>2, <2>1
<1>4. CASE Finally(p)
  <2>1. Return(p) \/ h'[p].pc = "release"
    BY <1>1, <1>4 DEF Finally, Handler
  <2> QED
    BY <1>2, <1>3, <2>1
<1>5. CASE AcquireLock(p)
  <2>1. /\ h[p].pc = "lock" /\ h[p].seats \in Requests
        /\ h[p].n < Len(h[p].seats) /\ h[p].got = h[p].n /\ h[p].n \in Nat
        /\ lock[ThisSeat(p)] = None
        /\ lock' = [lock EXCEPT ![ThisSeat(p)] = Token(p, h[p].n + 1)]
    <3>1. h[p].n \in 0..MaxSeats
      BY <1>1 DEF Handler
    <3> QED
      BY <1>1, <1>5, <3>1, MaxSeatsAssumption DEF AcquireLock, ControlOK, HoldPc
  <2>2. /\ Len(h[p].seats) \in 1..MaxSeats
        /\ \A i \in 1..Len(h[p].seats) : h[p].seats[i] \in Seat
    BY <2>1, RequestFacts
  <2>3. /\ h'[p].seats = h[p].seats /\ h'[p].got = h[p].n + 1
        /\ h'[p].pc = "lock" \/ (h'[p].pc = "check" /\ h'[p].n = 0)
    <3>1. h[p].got + 1 = h[p].n + 1 /\ NextSeat(p, "check", h[p].got + 1)
      BY <1>5, <2>1 DEF AcquireLock
    <3> QED
      BY <1>1, <2>1, <3>1 DEF NextSeat, Handler
  <2>4. ASSUME NEW i \in 1..h[p].n + 1 PROVE lock'[h[p].seats[i]] = Token(p, i)
    <3>1. ThisSeat(p) \in Seat
      <4>1. h[p].n + 1 \in 1..Len(h[p].seats)
        BY <2>1, <2>2, MaxSeatsAssumption
      <4> QED
        BY <2>2, <4>1 DEF ThisSeat
    <3>2. CASE i = h[p].n + 1
      BY <1>1, <2>1, <3>1, <3>2 DEF ThisSeat
    <3>3. CASE i # h[p].n + 1
      <4>1. i \in 1..h[p].got /\ i \in 1..Len(h[p].seats) /\ i \in 1..MaxSeats
        <5>1. i \in Nat /\ 1 <= i /\ i <= h[p].n
          BY <2>1, <3>3
        <5>2. Len(h[p].seats) \in Nat /\ Len(h[p].seats) <= MaxSeats
          BY <2>2, MaxSeatsAssumption
        <5>3. i <= Len(h[p].seats) /\ i <= MaxSeats /\ i <= h[p].got
          BY <2>1, <5>1, <5>2, MaxSeatsAssumption
        <5> QED
          BY <2>1, <5>1, <5>2, <5>3, MaxSeatsAssumption
      <4>2. lock[h[p].seats[i]] = Token(p, i) /\ h[p].seats[i] \in Seat
        BY <2>1, <2>2, <4>1 DEF CoverOK
      <4>3. Token(p, i) # None
        BY <4>1, TokenFacts
      <4> QED
        BY <1>1, <2>1, <3>1, <4>2, <4>3
    <3> QED
      BY <3>2, <3>3
  <2>5. \A i \in 1..h'[p].got : lock'[h'[p].seats[i]] = Token(p, i)
    BY <2>3, <2>4
  <2>6. h'[p].pc = "check" => 1..h'[p].n = {}
    BY <2>3
  <2> QED
    BY <2>3, <2>5, <2>6 DEF CoverOK, Token, Free
<1>6. CASE CheckSeat(p) /\ ~ Finally(p)
  <2>1. /\ h[p].pc = "check" /\ SeatAvailable(ThisSeat(p)) /\ NextSeat(p, "event", h[p].got)
        /\ UNCHANGED <<lock, holds, status>>
    BY <1>6 DEF CheckSeat, reservationVars
  <2>2. h[p].n \in Nat /\ h[p].got = Len(h[p].seats)
    <3>1. h[p].n \in 0..MaxSeats
      BY <1>1 DEF Handler
    <3> QED
      BY <1>1, <2>1, <3>1, MaxSeatsAssumption DEF ControlOK
  <2>3. /\ h'[p].seats = h[p].seats /\ h'[p].got = h[p].got
        /\ \/ h'[p].pc = "check" /\ h'[p].n = h[p].n + 1
           \/ h'[p].pc = "event" /\ h[p].n + 1 = h[p].got
    BY <1>1, <2>1, <2>2 DEF NextSeat, Handler
  <2>4. \A i \in 1..h[p].n + 1 : Free(h[p].seats[i])'
    <3>1. \A i \in 1..h[p].n : Free(h[p].seats[i])
      BY <2>1 DEF CoverOK
    <3>2. Free(h[p].seats[h[p].n + 1])
      BY <2>1 DEF SeatAvailable, ThisSeat, Free
    <3>3. \A i \in 1..h[p].n + 1 : i \in 1..h[p].n \/ i = h[p].n + 1
      BY <2>2
    <3>4. ASSUME NEW i \in 1..h[p].n + 1 PROVE Free(h[p].seats[i])
      BY <3>1, <3>2, <3>3
    <3> QED
      BY <2>1, <2>3, <3>4 DEF Free
  <2>5. \A i \in 1..h'[p].got : lock'[h'[p].seats[i]] = Token(p, i)
    BY <2>1, <2>3 DEF CoverOK
  <2> QED
    BY <2>3, <2>4, <2>5 DEF CoverOK, Token, Free
<1>7. CASE LoadEvent(p) /\ ~ Finally(p)
  <2>1. /\ h[p].pc = "event" /\ h' = [h EXCEPT ![p].pc = "insert"] /\ UNCHANGED <<lock, holds, status>>
    BY <1>7 DEF LoadEvent, Goto, reservationVars
  <2>2. h'[p].pc = "insert" /\ h'[p].seats = h[p].seats /\ h'[p].got = h[p].got
    BY <1>1, <2>1 DEF Handler
  <2> QED
    BY <2>1, <2>2 DEF CoverOK, Token, Free
<1>8. ASSUME NEW u \in User, NEW seats \in Requests, HoldStart(p, u, seats) PROVE CoverOK(p)'
  <2>1. h'[p].pc = "lock" /\ h'[p].got = 0
    BY <1>1, <1>8 DEF HoldStart, Idle
  <2> QED
    BY <2>1 DEF CoverOK
<1>9. ASSUME NEW op, NEW r \in Res, Load(p, op, r) PROVE CoverOK(p)'
  <2>1. h'[p].pc = "update"
    BY <1>1, <1>9 DEF Load, Idle
  <2> QED
    BY <1>2, <2>1
<1>10. CASE Insert(p)
  <2>1. h'[p].pc = "schedule"
    BY <1>1, <1>10 DEF Insert, Handler
  <2> QED
    BY <1>2, <2>1
<1>11. ASSUME NEW freed \in BOOLEAN, ReleaseLock(p, freed) PROVE CoverOK(p)'
  <2>1. Return(p) \/ h'[p].pc = "release"
    BY <1>1, <1>11 DEF ReleaseLock, Handler
  <2>2. CASE h'[p].pc = "release"
    BY <2>2 DEF CoverOK
  <2> QED
    BY <1>3, <2>1, <2>2
<1>12. CASE WriteStep(p)
  <2>1. Return(p) \/ \E pc \in {"seats", "emit", "notify"} : Goto(p, pc)
    BY <1>12 DEF WriteStep, UpdateReservation, UpdateConflict, UpdateSeats, EmitConfirmed,
       EmitNotification, EmitCancelled, Reject
  <2>2. ASSUME NEW pc \in {"seats", "emit", "notify"}, Goto(p, pc) PROVE h'[p].pc = pc
    BY <1>1, <2>2 DEF Goto, Handler
  <2> QED
    BY <1>2, <1>3, <2>1, <2>2
<1>13. CASE Request(p) \/ ExpireJob(p)
  <2>1. \/ \E u \in User, seats \in Requests : HoldStart(p, u, seats)
        \/ \E r \in Res : Load(p, "confirm", r) \/ Load(p, "cancel", r) \/ Load(p, "expire", r)
        \/ UNCHANGED <<h, lock, holds, status>>
    BY <1>13 DEF Request, ExpireJob, ConfirmStart, CancelStart, ExpireStart, reservationVars
  <2> QED
    BY <1>8, <1>9, <2>1
<1>14. CASE Failure(p)
  BY <1>3, <1>4, <1>11, <1>14 DEF Failure, CallFails, Crash, Reject
<1> QED
  BY <1>4, <1>5, <1>6, <1>7, <1>10, <1>11, <1>12, <1>13, <1>14
     DEF HoldStep, LockBusy, InsertRefused, ScheduleExpire

(* Every step keeps every handler covered.                                 *)
LEMMA CoverNext ==
    ASSUME ~ SlowHandlers, TypeOK, ControlInv, HistoryInv, CoverInv, [Next]_vars
    PROVE  CoverInv'
<1> SUFFICES ASSUME NEW p \in Proc PROVE CoverOK(p)'
  BY DEF CoverInv
<1>1. CoverOK(p)
  BY DEF CoverInv
<1>2. ASSUME NEW q \in Proc, HoldStep(q) \/ WriteStep(q) \/ Request(q) \/ ExpireJob(q) \/ Failure(q)
      PROVE  CoverOK(p)'
  <2>1. CASE q # p
    <3>1. /\ h'[p] = h[p]
          /\ \A s \in Seat, n \in 1..MaxSeats : lock'[s] = Token(p, n) <=> lock[s] = Token(p, n)
      BY <1>2, <2>1, KeysOfOthers
    <3>2. ~ Insert(p)
      <4>1. ASSUME Insert(p) PROVE h'[p].pc = "schedule"
        BY <4>1 DEF Insert, TypeOK, Handler
      <4>2. ASSUME Insert(p) PROVE h[p].pc = "insert"
        BY <4>2 DEF Insert
      <4> QED
        BY <3>1, <4>1, <4>2
    <3> QED
      BY <3>1, <3>2, CoverOthers
  <2>2. CASE q = p
    <3>1. CoverOK(p)' \/ UNCHANGED <<h, lock, holds, status>>
      BY <1>1, <1>2, <2>2, CoverMover
    <3> QED
      BY <1>1, <3>1 DEF CoverOK, Token, Free
  <2> QED
    BY <2>1, <2>2
<1>3. CASE Environment \/ UNCHANGED vars
  <2>1. h' = h /\ ~ Insert(p)
    <3>1. h' = h
      BY <1>3 DEF Environment, HoldTimeUp, DeadlinePasses, LockExpires, vars
    <3>2. ASSUME Insert(p) PROVE FALSE
      BY <3>1, <3>2 DEF Insert, TypeOK, Handler
    <3> QED
      BY <3>1, <3>2
  <2>2. ASSUME NEW s \in Seat, NEW i \in 1..MaxSeats, lock[s] = Token(p, i)
        PROVE  lock'[s] = Token(p, i)
    <3>1. lock' = lock \/ \E x \in Seat : lock[x] = Orphan /\ lock' = [lock EXCEPT ![x] = None]
      BY <1>3 DEF Environment, HoldTimeUp, DeadlinePasses, LockExpires, vars
    <3>2. Token(p, i) # Orphan
      BY TokenFacts
    <3> QED
      BY <2>2, <3>1, <3>2 DEF TypeOK
  <2> QED
    BY <2>1, <2>2, CoverOthers
<1> QED
  BY <1>2, <1>3 DEF Next, Proc

(* While no lock expires under its handler, what the check of a seat found *)
(* is still true when the reservation is inserted (createReservation).     *)
THEOREM LocksCoverChecks ==
    ASSUME ~ SlowHandlers
    PROVE  Spec => []LockCoversCheck
<1>1. Spec => [](TypeOK /\ ControlInv)
  BY TypeCorrect
<1>2. Spec => []HistoryInv
  BY HistoryCorrect
<1>3. Init => CoverInv
  BY DEF Init, CoverInv, CoverOK, Idle
<1>4. TypeOK /\ ControlInv /\ HistoryInv /\ CoverInv /\ [Next]_vars => CoverInv'
  BY CoverNext
<1>5. ControlInv /\ CoverInv => LockCoversCheck
  <2> SUFFICES ASSUME ControlInv, CoverInv, NEW p \in Http, h[p].pc \in {"event", "insert"},
                      NEW i \in DOMAIN h[p].seats
               PROVE  Free(h[p].seats[i])
    BY DEF LockCoversCheck, Free
  <2>1. p \in Proc /\ ControlOK(h[p]) /\ CoverOK(p)
    BY DEF ControlInv, CoverInv, Proc
  <2>2. h[p].got = Len(h[p].seats) /\ h[p].seats \in Requests
    BY <2>1 DEF ControlOK, HoldPc
  <2>3. i \in 1..h[p].got
    BY <2>2, RequestFacts
  <2> QED
    BY <2>1, <2>3 DEF CoverOK
<1> QED
  BY <1>1, <1>2, <1>3, <1>4, <1>5, PTL DEF Spec

-----------------------------------------------------------------------------
(* The expire jobs, while no call fails.  A reservation has at most one    *)
(* handler that is about to schedule its job and at most one that runs it; *)
(* the job is not there yet for the one and active for the other.  It has  *)
(* failed at most once, and only when somebody else ended the hold, so     *)
(* that the next run of it finds nothing to do.                            *)

Scheduling(p) == h[p].pc = "schedule"
Expiring(p) == h[p].op = "expire"

JobOf(p) ==
    /\ Scheduling(p) => /\ status[h[p].res] # "NONE"
                        /\ expireJob[h[p].res] = "none" /\ attempts[h[p].res] = 0
    /\ Expiring(p) => expireJob[h[p].res] = "active" /\ attempts[h[p].res] = 0

OneHandlerEach ==
    \A p, q \in Proc : h[p].res = h[q].res =>
        /\ Scheduling(p) /\ Scheduling(q) => p = q
        /\ Expiring(p) /\ Expiring(q) => p = q

Ended(r) == status[r] \notin {"NONE", "PENDING"}

JobsOK ==
    \A r \in Res :
        /\ status[r] = "NONE" => expireJob[r] = "none"
        /\ attempts[r] = 0 \/ (attempts[r] = 1 /\ Ended(r))
        /\ expireJob[r] # "failed"

JobInv == (\A p \in Proc : JobOf(p)) /\ OneHandlerEach /\ JobsOK

(* Reservations never come back,                                           *)
Onward == \A r \in Res : (status[r] # "NONE" => status'[r] # "NONE") /\ (Ended(r) => Ended(r)')

(* and most steps begin no work on a job.                                  *)
NoNewWork ==
    \A q \in Proc : /\ Scheduling(q)' => Scheduling(q) /\ h'[q].res = h[q].res
                    /\ Expiring(q)' => Expiring(q) /\ h'[q].res = h[q].res

LEMMA JobsRest ==
    ASSUME ControlInv, JobInv, Onward, NoNewWork, UNCHANGED <<expireJob, attempts>>
    PROVE  JobInv'
<1>1. \A q \in Proc : Scheduling(q) => h[q].res \in Res
  BY DEF ControlInv, ControlOK, Scheduling
<1>2. \A q \in Proc : JobOf(q)'
  BY <1>1 DEF JobInv, JobOf, NoNewWork, Onward
<1>3. OneHandlerEach'
  BY DEF JobInv, OneHandlerEach, NoNewWork
<1>4. JobsOK'
  BY DEF JobInv, JobsOK, Onward
<1> QED
  BY <1>2, <1>3, <1>4 DEF JobInv

LEMMA NoNewWorkOf ==
    ASSUME TypeOK, NEW p \in Proc, NEW x, h' = [h EXCEPT ![p] = x],
           x.pc # "schedule", x.op = "expire" => Expiring(p) /\ x.res = h[p].res
    PROVE  NoNewWork
  BY DEF TypeOK, NoNewWork, Scheduling, Expiring

LEMMA NoNewWorkReturn == ASSUME TypeOK, NEW p \in Proc, Return(p) PROVE NoNewWork
<1>1. h' = [h EXCEPT ![p] = Idle] /\ Idle.pc # "schedule" /\ Idle.op # "expire"
  BY DEF Return, Idle
<1> QED
  BY <1>1, NoNewWorkOf

LEMMA NoNewWorkFinally == ASSUME TypeOK, NEW p \in Proc, Finally(p) PROVE NoNewWork
<1>1. CASE h[p].got = 0
  BY <1>1, NoNewWorkReturn DEF Finally
<1>2. CASE h[p].got # 0
  <2>1. PICK x : x = [h[p] EXCEPT !.pc = "release", !.n = 0]
    OBVIOUS
  <2>2. h' = [h EXCEPT ![p] = x]
    BY <1>2, <2>1 DEF Finally
  <2>3. x.pc = "release" /\ x.op = h[p].op /\ x.res = h[p].res
    BY <2>1 DEF TypeOK, Handler
  <2> QED
    BY <2>2, <2>3, NoNewWorkOf DEF Expiring
<1> QED
  BY <1>1, <1>2

LEMMA NoNewWorkGoto ==
    ASSUME TypeOK, NEW p \in Proc, NEW pc, pc # "schedule", Goto(p, pc) PROVE NoNewWork
<1>1. PICK x : x = [h[p] EXCEPT !.pc = pc]
  OBVIOUS
<1>2. h' = [h EXCEPT ![p] = x]
  BY <1>1 DEF Goto
<1>3. x.pc = pc /\ x.op = h[p].op /\ x.res = h[p].res
  BY <1>1 DEF TypeOK, Handler
<1> QED
  BY <1>2, <1>3, NoNewWorkOf DEF Expiring

LEMMA NoNewWorkNextSeat ==
    ASSUME TypeOK, NEW p \in Proc, NEW pc, NEW got, pc # "schedule", ~ Scheduling(p), NextSeat(p, pc, got)
    PROVE  NoNewWork
<1>1. PICK x : x = [h[p] EXCEPT !.n = IF h[p].n + 1 = Len(h[p].seats) THEN 0 ELSE h[p].n + 1,
                                !.pc = IF h[p].n + 1 = Len(h[p].seats) THEN pc ELSE h[p].pc,
                                !.got = got]
  OBVIOUS
<1>2. h' = [h EXCEPT ![p] = x]
  BY <1>1 DEF NextSeat
<1>3. x.pc # "schedule" /\ x.op = h[p].op /\ x.res = h[p].res
  BY <1>1 DEF TypeOK, Handler, Scheduling
<1> QED
  BY <1>2, <1>3, NoNewWorkOf DEF Expiring

LEMMA NoNewWorkLoad ==
    ASSUME TypeOK, NEW p \in Proc, NEW op, NEW r, op # "expire", Load(p, op, r) PROVE NoNewWork
<1>1. PICK x : x = [Idle EXCEPT !.op = op, !.pc = "update", !.res = r,
                                !.was = status[r], !.ver = version[r]]
  OBVIOUS
<1>2. h' = [h EXCEPT ![p] = x]
  BY <1>1 DEF Load
<1>3. x.pc = "update" /\ x.op = op
  BY <1>1 DEF Idle
<1> QED
  BY <1>2, <1>3, NoNewWorkOf

(* The steps of a hold that have nothing to do with the job.               *)
LEMMA HoldStepRests ==
    ASSUME TypeOK, ControlInv, JobInv, NEW p \in Proc,
           HoldStep(p), ~ Insert(p), ~ ScheduleExpire(p)
    PROVE  JobInv'
<1> USE DEF reservationVars, jobVars, timeVars
<1>1. UNCHANGED <<expireJob, attempts>> /\ Onward
  BY DEF HoldStep, AcquireLock, LockBusy, CheckSeat, LoadEvent, InsertRefused, ReleaseLock, Onward, Ended
<1>2. NoNewWork
  <2>1. CASE AcquireLock(p)
    BY <2>1, NoNewWorkNextSeat DEF AcquireLock, Scheduling
  <2>2. CASE LockBusy(p) \/ InsertRefused(p)
    BY <2>2, NoNewWorkFinally DEF LockBusy, InsertRefused
  <2>3. CASE CheckSeat(p)
    BY <2>3, NoNewWorkFinally, NoNewWorkNextSeat DEF CheckSeat, Scheduling
  <2>4. CASE LoadEvent(p)
    BY <2>4, NoNewWorkFinally, NoNewWorkGoto DEF LoadEvent
  <2>5. CASE ReleaseLock(p, TRUE)
    <3>1. CASE Return(p)
      BY <3>1, NoNewWorkReturn
    <3>2. CASE h' = [h EXCEPT ![p].n = @ + 1]
      <4>1. PICK x : x = [h[p] EXCEPT !.n = h[p].n + 1]
        OBVIOUS
      <4>2. h' = [h EXCEPT ![p] = x]
        BY <3>2, <4>1
      <4>3. x.pc = h[p].pc /\ x.op = h[p].op /\ x.res = h[p].res /\ h[p].pc = "release"
        BY <2>5, <4>1 DEF TypeOK, Handler, ReleaseLock
      <4> QED
        BY <4>2, <4>3, NoNewWorkOf DEF Expiring
    <3> QED
      BY <2>5, <3>1, <3>2 DEF ReleaseLock
  <2> QED
    BY <2>1, <2>2, <2>3, <2>4, <2>5 DEF HoldStep
<1> QED
  BY <1>1, <1>2, JobsRest

(* Whom a job belongs to: a handler of a reservation that exists.          *)
LEMMA WorkHasReservation ==
    ASSUME TypeOK, ControlInv, NEW q \in Proc, Scheduling(q) \/ Expiring(q)
    PROVE  h[q].res \in Res
<1>1. h[q] \in Handler /\ ControlOK(h[q])
  BY DEF TypeOK, ControlInv
<1> QED
  BY <1>1 DEF ControlOK, Handler, Scheduling, Expiring, WritePc, HoldPc, Idle

(* A new reservation has no job, and its handler is the one to make it.    *)
LEMMA InsertJob ==
    ASSUME TypeOK, ControlInv, JobInv, NEW p \in Proc, Insert(p)
    PROVE  JobInv'
<1>1. PICK r \in Res :
         /\ status[r] = "NONE"
         /\ status' = [status EXCEPT ![r] = "PENDING"]
         /\ h' = [h EXCEPT ![p].pc = "schedule", ![p].res = r]
  BY DEF Insert
<1>2. UNCHANGED <<expireJob, attempts>> /\ h[p].pc = "insert"
  BY DEF Insert, jobVars
<1>3. h[p].op = "hold"
  BY <1>2 DEF ControlInv, ControlOK, HoldPc
<1>4. /\ h'[p].pc = "schedule" /\ h'[p].res = r /\ h'[p].op = "hold"
      /\ \A q \in Proc \ {p} : h'[q] = h[q]
  BY <1>1, <1>3 DEF TypeOK, Handler
<1>5. expireJob[r] = "none" /\ attempts[r] = 0
  BY <1>1 DEF JobInv, JobsOK, Ended
<1>6. \A t \in Res : status'[t] = IF t = r THEN "PENDING" ELSE status[t]
  BY <1>1 DEF TypeOK
<1>7. \A q \in Proc : Scheduling(q) \/ Expiring(q) => h[q].res \in Res /\ h[q].res # r
  <2> SUFFICES ASSUME NEW q \in Proc, Scheduling(q) \/ Expiring(q) PROVE h[q].res \in Res /\ h[q].res # r
    OBVIOUS
  <2>1. JobOf(q)
    BY DEF JobInv
  <2>2. h[q].res \in Res
    BY WorkHasReservation
  <2> QED
    BY <1>1, <1>5, <2>1, <2>2 DEF JobOf
<1>8. \A q \in Proc : JobOf(q)'
  <2> SUFFICES ASSUME NEW q \in Proc PROVE JobOf(q)'
    OBVIOUS
  <2>1. CASE q = p
    BY <1>2, <1>4, <1>5, <1>6, <2>1 DEF JobOf, Scheduling, Expiring
  <2>2. CASE q # p
    <3>1. h'[q] = h[q] /\ JobOf(q)
      BY <1>4, <2>2 DEF JobInv
    <3>2. Scheduling(q) => status'[h[q].res] = status[h[q].res]
      BY <1>6, <1>7
    <3> QED
      BY <1>2, <3>1, <3>2 DEF JobOf, Scheduling, Expiring
  <2> QED
    BY <2>1, <2>2
<1>9. OneHandlerEach'
  <2> SUFFICES ASSUME NEW a \in Proc, NEW b \in Proc, h'[a].res = h'[b].res,
                      (Scheduling(a)' /\ Scheduling(b)') \/ (Expiring(a)' /\ Expiring(b)')
               PROVE  a = b
    BY DEF OneHandlerEach
  <2> QED
    BY <1>4, <1>7 DEF JobInv, OneHandlerEach, Scheduling, Expiring
<1>10. JobsOK'
  BY <1>1, <1>2, <1>5, <1>6 DEF JobInv, JobsOK, Ended
<1> QED
  BY <1>8, <1>9, <1>10 DEF JobInv

(* A step that changes one job keeps the invariant when the handlers of    *)
(* that reservation that have to do with it are none but p.                *)
LEMMA OneJobMoves ==
    ASSUME TypeOK, ControlInv, JobInv, NoNewWork, NEW r \in Res, NEW job, UNCHANGED status,
           expireJob' = [expireJob EXCEPT ![r] = job],
           \A t \in Res \ {r} : attempts'[t] = attempts[t],
           \A q \in Proc : h[q].res = r => ~ Scheduling(q)' /\ ~ Expiring(q)',
           job # "failed", status[r] # "NONE",
           attempts'[r] = 0 \/ (attempts'[r] = 1 /\ Ended(r))
    PROVE  JobInv'
<1>1. \A t \in Res : expireJob'[t] = IF t = r THEN job ELSE expireJob[t]
  BY DEF TypeOK
<1>2. \A q \in Proc : JobOf(q)'
  <2> SUFFICES ASSUME NEW q \in Proc, Scheduling(q)' \/ Expiring(q)' PROVE JobOf(q)'
    BY DEF JobOf
  <2>1. /\ Scheduling(q)' => Scheduling(q)
        /\ Expiring(q)' => Expiring(q)
        /\ h'[q].res = h[q].res
    BY DEF NoNewWork
  <2>2. h[q].res \in Res \ {r}
    BY <2>1, WorkHasReservation
  <2>3. JobOf(q) /\ expireJob'[h[q].res] = expireJob[h[q].res] /\ attempts'[h[q].res] = attempts[h[q].res]
    BY <1>1, <2>2 DEF JobInv
  <2> QED
    BY <2>1, <2>3 DEF JobOf
<1>3. OneHandlerEach'
  BY DEF JobInv, OneHandlerEach, NoNewWork
<1>4. JobsOK'
  BY <1>1 DEF JobInv, JobsOK, Ended
<1> QED
  BY <1>2, <1>3, <1>4 DEF JobInv

LEMMA ScheduleJob ==
    ASSUME TypeOK, ControlInv, JobInv, NEW p \in Proc, ScheduleExpire(p)
    PROVE  JobInv'
<1> USE DEF reservationVars, timeVars
<1>1. PICK r \in Res : r = h[p].res
  BY WorkHasReservation DEF ScheduleExpire, Scheduling
<1>2. /\ Scheduling(p) /\ Finally(p) /\ UNCHANGED <<status, attempts>>
      /\ expireJob' = [expireJob EXCEPT ![r] = "delayed"]
  BY <1>1 DEF ScheduleExpire, Scheduling
<1>3. NoNewWork
  BY <1>2, NoNewWorkFinally
<1>4. status[r] # "NONE" /\ expireJob[r] = "none" /\ attempts[r] = 0
  BY <1>1, <1>2 DEF JobInv, JobOf
<1>5. ~ Scheduling(p)'
  BY <1>2 DEF Finally, Return, Idle, TypeOK, Handler, Scheduling
<1>6. \A q \in Proc : h[q].res = r => ~ Scheduling(q)' /\ ~ Expiring(q)'
  <2> SUFFICES ASSUME NEW q \in Proc, h[q].res = r PROVE ~ Scheduling(q)' /\ ~ Expiring(q)'
    OBVIOUS
  <2>1. ~ Expiring(q)
    BY <1>4 DEF JobInv, JobOf
  <2>2. Scheduling(q) => q = p
    BY <1>1, <1>2 DEF JobInv, OneHandlerEach
  <2> QED
    BY <1>3, <1>5, <2>1, <2>2 DEF NoNewWork
<1> QED
  BY <1>2, <1>3, <1>4, <1>6, OneJobMoves

(* A job that finds a pending hold has never failed.                       *)
LEMMA ExpireStartJob ==
    ASSUME TypeOK, ControlInv, JobInv, NEW p \in Proc, NEW r \in Res, ExpireStart(p, r)
    PROVE  JobInv'
<1> USE DEF reservationVars, timeVars
<1>1. /\ expireJob[r] = "delayed" /\ UNCHANGED <<status, attempts>> /\ status[r] # "NONE"
      /\ attempts[r] = 0 \/ (attempts[r] = 1 /\ Ended(r))
  BY DEF ExpireStart, JobInv, JobsOK
<1>2. \A q \in Proc : h[q].res = r => ~ Scheduling(q) /\ ~ Expiring(q)
  BY <1>1 DEF JobInv, JobOf
<1>3. CASE status[r] # "PENDING"
  <2>1. UNCHANGED h /\ expireJob' = [expireJob EXCEPT ![r] = "done"]
    BY <1>3 DEF ExpireStart
  <2>2. NoNewWork
    BY <2>1 DEF NoNewWork, Scheduling, Expiring
  <2> QED
    BY <1>1, <1>2, <2>1, <2>2, OneJobMoves DEF NoNewWork
<1>4. CASE status[r] = "PENDING"
  <2>1. PICK x : x = [Idle EXCEPT !.op = "expire", !.pc = "update", !.res = r,
                                  !.was = status[r], !.ver = version[r]]
    OBVIOUS
  <2>2. h' = [h EXCEPT ![p] = x] /\ expireJob' = [expireJob EXCEPT ![r] = "active"]
    BY <1>4, <2>1 DEF ExpireStart, Load
  <2>3. x.pc = "update" /\ x.op = "expire" /\ x.res = r
    BY <2>1 DEF Idle
  <2>4. h'[p] = x /\ \A q \in Proc \ {p} : h'[q] = h[q]
    BY <2>2 DEF TypeOK
  <2>5. attempts[r] = 0
    BY <1>1, <1>4 DEF Ended
  <2>6. \A t \in Res : expireJob'[t] = IF t = r THEN "active" ELSE expireJob[t]
    BY <2>2 DEF TypeOK
  <2>7. ASSUME NEW q \in Proc PROVE JobOf(q)'
    <3>1. CASE q = p
      BY <1>1, <2>3, <2>4, <2>5, <2>6, <3>1 DEF JobOf, Scheduling, Expiring
    <3>2. CASE q # p
      <4>1. h'[q] = h[q] /\ JobOf(q)
        BY <2>4, <3>2 DEF JobInv
      <4>2. Scheduling(q) \/ Expiring(q) => h[q].res \in Res \ {r}
        BY <1>2, WorkHasReservation
      <4> QED
        BY <1>1, <2>6, <4>1, <4>2 DEF JobOf, Scheduling, Expiring
    <3> QED
      BY <3>1, <3>2
  <2>8. OneHandlerEach'
    BY <1>2, <2>3, <2>4 DEF JobInv, OneHandlerEach, Scheduling, Expiring
  <2>9. JobsOK'
    BY <1>1, <2>5, <2>6 DEF JobInv, JobsOK, Ended
  <2> QED
    BY <2>7, <2>8, <2>9 DEF JobInv
<1> QED
  BY <1>3, <1>4

(* A version conflict of an expire job: the hold has been ended meanwhile. *)
LEMMA ConflictJob ==
    ASSUME TypeOK, ControlInv, HistoryInv, JobInv, NEW p \in Proc, UpdateConflict(p)
    PROVE  JobInv'
<1> USE DEF reservationVars, jobVars, timeVars
<1>1. /\ h[p].pc = "update" /\ version[h[p].res] # h[p].ver
      /\ Reject(p) /\ Return(p) /\ UNCHANGED status
  BY DEF UpdateConflict, VersionMatches, Reject
<1>2. NoNewWork
  BY <1>1, NoNewWorkReturn
<1>3. CASE h[p].op # "expire"
  <2>1. UNCHANGED <<expireJob, attempts>> /\ Onward
    BY <1>1, <1>3 DEF Reject, Onward, Ended
  <2> QED
    BY <1>2, <2>1, JobsRest
<1>4. CASE h[p].op = "expire"
  <2>1. PICK r \in Res : r = h[p].res
    BY <1>4, WorkHasReservation DEF Expiring
  <2>2. expireJob[r] = "active" /\ attempts[r] = 0
    BY <1>4, <2>1 DEF JobInv, JobOf, Expiring
  <2>3. status[r] # "NONE" /\ Ended(r)
    <3>1. 1 <= h[p].ver /\ h[p].ver <= version[r] /\ h[p].ver # version[r]
      BY <1>1, <2>1 DEF HistoryInv, LoadInv
    <3>2. h[p].ver \in Nat /\ version[r] \in Nat
      BY DEF TypeOK, Handler
    <3>3. version[r] # 0 /\ version[r] # 1
      BY <3>1, <3>2
    <3> QED
      BY <3>3 DEF HistoryInv, VersionInv, Ended
  <2>4. /\ expireJob' = [expireJob EXCEPT ![r] = "delayed"]
        /\ attempts' = [attempts EXCEPT ![r] = 1]
    BY <1>1, <1>4, <2>1, <2>2 DEF Reject, FailJob, MaxAttempts
  <2>5. ~ Expiring(p)'
    BY <1>1 DEF Return, Idle, TypeOK, Expiring
  <2>6. ASSUME NEW q \in Proc, h[q].res = r PROVE ~ Scheduling(q)' /\ ~ Expiring(q)'
    <3>1. ~ Scheduling(q)
      BY <2>2, <2>6 DEF JobInv, JobOf
    <3>2. Expiring(q) => q = p
      BY <1>4, <2>1, <2>6 DEF JobInv, OneHandlerEach, Expiring
    <3> QED
      BY <1>2, <2>5, <3>1, <3>2 DEF NoNewWork
  <2>7. attempts'[r] = 1 /\ \A t \in Res \ {r} : attempts'[t] = attempts[t]
    BY <2>4 DEF TypeOK
  <2> QED
    BY <1>1, <1>2, <2>3, <2>4, <2>6, <2>7, OneJobMoves
<1> QED
  BY <1>3, <1>4

LEMMA UpdateSeatsJob ==
    ASSUME TypeOK, ControlInv, HistoryInv, JobInv, NEW p \in Proc, UpdateSeats(p)
    PROVE  JobInv'
<1> USE DEF reservationVars, timeVars
<1>1. h[p].pc = "seats" /\ UNCHANGED <<status, attempts>>
  BY DEF UpdateSeats
<1>2. CASE h[p].op # "expire"
  <2>1. Goto(p, "emit") /\ UNCHANGED expireJob
    BY <1>2 DEF UpdateSeats
  <2>2. Onward
    BY <1>1 DEF Onward, Ended
  <2> QED
    BY <1>1, <2>1, <2>2, NoNewWorkGoto, JobsRest
<1>3. CASE h[p].op = "expire"
  <2>1. PICK r \in Res : r = h[p].res
    BY <1>3, WorkHasReservation DEF Expiring
  <2>2. Return(p) /\ expireJob' = [expireJob EXCEPT ![r] = "done"]
    BY <1>3, <2>1 DEF UpdateSeats
  <2>3. NoNewWork /\ ~ Expiring(p)'
    BY <2>2, NoNewWorkReturn DEF Return, Idle, TypeOK, Expiring
  <2>4. expireJob[r] = "active" /\ attempts[r] = 0
    BY <1>3, <2>1 DEF JobInv, JobOf, Expiring
  <2>5. status[r] # "NONE"
    BY <2>4 DEF JobInv, JobsOK
  <2>6. ASSUME NEW q \in Proc, h[q].res = r PROVE ~ Scheduling(q)' /\ ~ Expiring(q)'
    <3>1. ~ Scheduling(q)
      BY <2>4, <2>6 DEF JobInv, JobOf
    <3>2. Expiring(q) => q = p
      BY <1>3, <2>1, <2>6 DEF JobInv, OneHandlerEach, Expiring
    <3> QED
      BY <2>3, <3>1, <3>2 DEF NoNewWork
  <2> QED
    BY <1>1, <2>2, <2>3, <2>4, <2>5, <2>6, OneJobMoves
<1> QED
  BY <1>2, <1>3

LEMMA WriteStepJob ==
    ASSUME TypeOK, ControlInv, HistoryInv, JobInv, NEW p \in Proc, WriteStep(p)
    PROVE  JobInv'
<1> USE DEF reservationVars, jobVars, timeVars
<1>1. CASE UpdateReservation(p)
  <2>1. h[p].res \in Res /\ h[p].op \in {"confirm", "cancel", "expire"}
    BY <1>1 DEF UpdateReservation, ControlInv, ControlOK, WritePc
  <2>2. Target(h[p].op) \in {"CONFIRMED", "CANCELLED", "EXPIRED"}
    BY <2>1 DEF Target
  <2>3. Onward
    BY <1>1, <2>1, <2>2 DEF UpdateReservation, Onward, Ended, TypeOK
  <2>4. NoNewWork /\ UNCHANGED <<expireJob, attempts>>
    BY <1>1, NoNewWorkGoto DEF UpdateReservation
  <2> QED
    BY <2>3, <2>4, JobsRest
<1>2. CASE EmitConfirmed(p) \/ EmitNotification(p) \/ EmitCancelled(p)
  <2>1. NoNewWork
    BY <1>2, NoNewWorkGoto, NoNewWorkReturn DEF EmitConfirmed, EmitNotification, EmitCancelled
  <2>2. UNCHANGED <<expireJob, attempts>> /\ Onward
    BY <1>2 DEF EmitConfirmed, EmitNotification, EmitCancelled, Onward, Ended
  <2> QED
    BY <2>1, <2>2, JobsRest
<1> QED
  BY <1>1, <1>2, UpdateSeatsJob, ConflictJob DEF WriteStep

LEMMA RequestJob ==
    ASSUME TypeOK, ControlInv, JobInv, NEW p \in Proc, Request(p)
    PROVE  JobInv'
<1> USE DEF reservationVars, jobVars, timeVars
<1>1. UNCHANGED <<expireJob, attempts>> /\ Onward
  BY DEF Request, HoldStart, ConfirmStart, CancelStart, Onward, Ended
<1>2. NoNewWork
  <2>1. ASSUME NEW u \in User, NEW seats \in Requests, HoldStart(p, u, seats) PROVE NoNewWork
    <3>1. PICK x : x = [Idle EXCEPT !.op = "hold", !.pc = "lock", !.user = u, !.seats = seats]
      OBVIOUS
    <3>2. h' = [h EXCEPT ![p] = x]
      BY <2>1, <3>1 DEF HoldStart
    <3>3. x.pc = "lock" /\ x.op = "hold"
      BY <3>1 DEF Idle
    <3> QED
      BY <3>2, <3>3, NoNewWorkOf
  <2>2. ASSUME NEW r \in Res, ConfirmStart(p, r) \/ CancelStart(p, r) PROVE NoNewWork
    BY <2>2, NoNewWorkLoad DEF ConfirmStart, CancelStart
  <2> QED
    BY <2>1, <2>2 DEF Request
<1> QED
  BY <1>1, <1>2, JobsRest

LEMMA JobNext ==
    ASSUME ~ CanFail, TypeOK, ControlInv, HistoryInv, JobInv, [Next]_vars
    PROVE  JobInv'
<1> USE DEF reservationVars, jobVars, timeVars
<1>1. ASSUME NEW p \in Proc, HoldStep(p) PROVE JobInv'
  BY <1>1, HoldStepRests, InsertJob, ScheduleJob
<1>2. ASSUME NEW p \in Proc, WriteStep(p) PROVE JobInv'
  BY <1>2, WriteStepJob
<1>3. ASSUME NEW p \in Proc, Failure(p) PROVE JobInv'
  BY <1>3 DEF Failure, CallFails, Crash
<1>4. ASSUME NEW p \in Proc, Request(p) \/ ExpireJob(p) PROVE JobInv'
  BY <1>4, RequestJob, ExpireStartJob DEF ExpireJob
<1>5. CASE Environment \/ UNCHANGED vars
  <2>1. UNCHANGED <<h, status, expireJob, attempts>>
    BY <1>5 DEF Environment, HoldTimeUp, DeadlinePasses, LockExpires, vars
  <2>2. NoNewWork /\ Onward
    BY <2>1 DEF NoNewWork, Onward, Ended, Scheduling, Expiring
  <2> QED
    BY <2>1, <2>2, JobsRest
<1> QED
  BY <1>1, <1>2, <1>3, <1>4, <1>5 DEF Next, Proc

(* Without failures no expire job uses up its three attempts: after one    *)
(* conflict the hold is no longer pending, and the next run ends the job   *)
(* (expireReservation, defaultJobOptions.attempts).                      *)
THEOREM ExpireJobsSucceed ==
    ASSUME ~ CanFail
    PROVE  Spec => []ExpireJobNeverFails
<1>1. Init => JobInv
  <2> SUFFICES ASSUME Init PROVE JobInv
    OBVIOUS
  <2>1. \A p \in Proc : ~ Scheduling(p) /\ ~ Expiring(p)
    BY DEF Init, Idle, Scheduling, Expiring
  <2>2. JobsOK
    BY DEF Init, JobsOK
  <2> QED
    BY <2>1, <2>2 DEF JobInv, JobOf, OneHandlerEach
<1>2. TypeOK /\ ControlInv /\ HistoryInv /\ JobInv /\ [Next]_vars => JobInv'
  BY JobNext
<1>3. JobInv => ExpireJobNeverFails
  BY DEF JobInv, JobsOK, ExpireJobNeverFails
<1> QED
  BY <1>1, <1>2, <1>3, TypeCorrect, HistoryCorrect, PTL DEF Spec
=============================================================================
