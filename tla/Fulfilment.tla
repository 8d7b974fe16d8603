----------------------------- MODULE Fulfilment -----------------------------
(***************************************************************************)
(* What follows a confirmation: the jobs on 'reservation.confirmed' and    *)
(* 'notification.send' with the workers that run them (bullmq.ts,          *)
(* tickets.worker.ts, notifications.worker.ts), the tickets they make and  *)
(* the gates that scan them (tickets.service.ts).                          *)
(*                                                                         *)
(* The booking side is the abstract ReservationLifecycle, which Booking    *)
(* implements: each event it tells is one job.                             *)
(***************************************************************************)
EXTENDS Naturals, FiniteSets

CONSTANTS
    Res,                \* reservations
    Seat,               \* the seats of a reservation
    Worker,             \* slots for jobs being run, over all instances
    Gate,               \* scans at the doors being served
    None,               \* stands for no worker
    MaxFailures         \* bound on failures of awaited calls and workers

ASSUME NoneAssumption == None \notin Worker
ASSUME SeatAssumption == Seat # {}
ASSUME MaxFailuresAssumption == MaxFailures \in Nat

VARIABLES
    status, version, told,      \* the reservations, as in ReservationLifecycle
    job,                        \* per queue and reservation, the job's state
    attempts,                   \* its failed attempts
    stalled,                    \* has it stalled before?
    runner,                     \* the worker that owns it
    w,                          \* the workers
    ticket,                     \* tickets.status, "none" without a row
    mails,                      \* confirmation mails that went out
    notes,                      \* rows of notifications, status SENT
    gate,                       \* the scans
    entries,                    \* how often a seat's ticket opened a gate
    failures                    \* failures so far

reservationVars == <<status, version, told>>
jobVars == <<job, attempts, stalled, runner>>
mailVars == <<mails, notes>>
gateVars == <<gate, entries>>
vars == <<reservationVars, jobVars, w, ticket, mailVars, gateVars, failures>>

Lifecycle == INSTANCE ReservationLifecycle

-----------------------------------------------------------------------------
Queue == {"reservation.confirmed", "notification.send"}
SeatHold == Res \X Seat
MaxAttempts == 3

JobState == {"none", "waiting", "active", "done", "failed"}

WorkerState == [pc    : {"idle", "load", "create", "send", "store", "finish"},
                queue : Queue \cup {"none"},
                res   : Res \cup {None},
                todo  : SUBSET SeatHold]

IdleWorker == [pc |-> "idle", queue |-> "none", res |-> None, todo |-> {}]
IdleGate == [pc |-> "idle", seat |-> None]

TypeOK ==
    /\ told \in [Res -> [Lifecycle!Event -> 0..1]]
    /\ job \in [Queue -> [Res -> JobState]]
    /\ attempts \in [Queue -> [Res -> 0..MaxAttempts]]
    /\ stalled \in [Queue -> [Res -> BOOLEAN]]
    /\ runner \in [Queue -> [Res -> Worker \cup {None}]]
    /\ w \in [Worker -> WorkerState]
    /\ ticket \in [SeatHold -> {"none", "VALID", "USED"}]
    /\ mails \in [Res -> Nat] /\ notes \in [Res -> Nat]
    /\ gate \in [Gate -> [pc : {"idle", "mark"}, seat : SeatHold \cup {None}]]
    /\ entries \in [SeatHold -> Nat]
    /\ failures \in 0..MaxFailures

PerJob(x) == [q \in Queue |-> [r \in Res |-> x]]

Init ==
    /\ Lifecycle!Init
    /\ job = PerJob("none")
    /\ attempts = PerJob(0)
    /\ stalled = PerJob(FALSE)
    /\ runner = PerJob(None)
    /\ w = [p \in Worker |-> IdleWorker]
    /\ ticket = [s \in SeatHold |-> "none"]
    /\ mails = [r \in Res |-> 0]
    /\ notes = [r \in Res |-> 0]
    /\ gate = [g \in Gate |-> IdleGate]
    /\ entries = [s \in SeatHold |-> 0]
    /\ failures = 0

-----------------------------------------------------------------------------
(* The booking module: reservations go through their life, and each event  *)
(* of the two queues becomes a job.                                        *)
Booking ==
    /\ Lifecycle!Next
    /\ job' = [q \in Queue |-> [r \in Res |->
                  IF told'[r][q] = told[r][q] THEN job[q][r] ELSE "waiting"]]
    /\ UNCHANGED <<attempts, stalled, runner, w, ticket, mailVars, gateVars, failures>>

-----------------------------------------------------------------------------
(* createWorker: BullMQ gives a job to one worker at a time.               *)

First(q) == IF q = "reservation.confirmed" THEN "load" ELSE "send"

Take(p, q, r) ==
    /\ w[p].pc = "idle"
    /\ job[q][r] = "waiting"
    /\ job' = [job EXCEPT ![q][r] = "active"]
    /\ runner' = [runner EXCEPT ![q][r] = p]
    /\ w' = [w EXCEPT ![p] = [pc |-> First(q), queue |-> q, res |-> r, todo |-> {}]]
    /\ UNCHANGED <<reservationVars, attempts, stalled, ticket, mailVars, gateVars, failures>>

Goto(p, pc) == w' = [w EXCEPT ![p].pc = pc]

(* A worker that has lost its job to another one can neither finish nor    *)
(* fail it: BullMQ compares the token of the job.                          *)
Owns(p) == runner[w[p].queue][w[p].res] = p

Leave(p, to) ==
    /\ w' = [w EXCEPT ![p] = IdleWorker]
    /\ IF Owns(p)
       THEN /\ job' = [job EXCEPT ![w[p].queue][w[p].res] = to]
            /\ runner' = [runner EXCEPT ![w[p].queue][w[p].res] = None]
       ELSE UNCHANGED <<job, runner>>

Finish(p) ==
    /\ w[p].pc = "finish"
    /\ Leave(p, "done")
    /\ UNCHANGED <<reservationVars, attempts, stalled, ticket, mailVars, gateVars, failures>>

(* Variant: one attempt too many. *)
ThrowLate(p) ==
    LET n == attempts[w[p].queue][w[p].res] + 1
    IN  /\ Leave(p, IF n <= MaxAttempts THEN "waiting" ELSE "failed")
        /\ attempts' = IF Owns(p) THEN [attempts EXCEPT ![w[p].queue][w[p].res] = n] ELSE attempts
        /\ UNCHANGED stalled

(* Variant: a job is retried for ever. *)
ThrowAgain(p) == Leave(p, "waiting") /\ UNCHANGED <<attempts, stalled>>

(* The processor throws: the job waits for its next attempt, or is dead.   *)
Throw(p) ==
    LET n == attempts[w[p].queue][w[p].res] + 1
    IN  /\ Leave(p, IF n < MaxAttempts THEN "waiting" ELSE "failed")
        /\ attempts' = IF Owns(p) THEN [attempts EXCEPT ![w[p].queue][w[p].res] = n] ELSE attempts
        /\ UNCHANGED stalled

-----------------------------------------------------------------------------
(* generateTickets: all seats of the reservation, whatever its status is   *)
(* by now, one INSERT per seat in the order the database returned them.    *)

LoadSeats(p) ==
    /\ w[p].pc = "load"
    /\ w' = [w EXCEPT ![p].pc = "create", ![p].todo = {w[p].res} \X Seat]
    /\ UNCHANGED <<reservationVars, jobVars, ticket, mailVars, gateVars, failures>>

NextSeat(p, s) ==
    w' = [w EXCEPT ![p].todo = @ \ {s}, ![p].pc = IF w[p].todo = {s} THEN "finish" ELSE "create"]

(* Variant: an upsert, which writes VALID again. *)
UpsertTicket(p, s) ==
    /\ w[p].pc = "create" /\ s \in w[p].todo
    /\ ticket' = [ticket EXCEPT ![s] = "VALID"]
    /\ NextSeat(p, s)
    /\ UNCHANGED <<reservationVars, jobVars, mailVars, gateVars, failures>>

CreateTicket(p, s) ==
    /\ w[p].pc = "create" /\ s \in w[p].todo
    /\ ticket[s] = "none"
    /\ ticket' = [ticket EXCEPT ![s] = "VALID"]
    /\ NextSeat(p, s)
    /\ UNCHANGED <<reservationVars, jobVars, mailVars, gateVars, failures>>

(* Variant: a ticket that exists means that the job was done before. *)
AlreadyGenerated(p, s) ==
    /\ w[p].pc = "create" /\ s \in w[p].todo
    /\ ticket[s] # "none"
    /\ Goto(p, "finish")
    /\ UNCHANGED <<reservationVars, jobVars, ticket, mailVars, gateVars, failures>>

(* seat_hold_id is unique: the INSERT fails, and the attempt with it.      *)
DuplicateTicket(p, s) ==
    /\ w[p].pc = "create" /\ s \in w[p].todo
    /\ ticket[s] # "none"
    /\ Throw(p)
    /\ UNCHANGED <<reservationVars, ticket, mailVars, gateVars, failures>>

-----------------------------------------------------------------------------
(* The processor of 'notification.send': the mail, then its row.           *)

(* Variant: the row is written first. *)
StoreFirst(p) ==
    /\ w[p].pc = "send"
    /\ notes' = [notes EXCEPT ![w[p].res] = @ + 1]
    /\ Goto(p, "store")
    /\ UNCHANGED <<reservationVars, jobVars, ticket, mails, gateVars, failures>>

(* Variant: the type of the job has no template, which is only logged. *)
UnknownTemplate(p) ==
    /\ w[p].pc = "send"
    /\ Goto(p, "finish")
    /\ UNCHANGED <<reservationVars, jobVars, ticket, mailVars, gateVars, failures>>

SendMail(p) ==
    /\ w[p].pc = "send"
    /\ mails' = [mails EXCEPT ![w[p].res] = @ + 1]
    /\ Goto(p, "store")
    /\ UNCHANGED <<reservationVars, jobVars, ticket, notes, gateVars, failures>>

StoreNotification(p) ==
    /\ w[p].pc = "store"
    /\ notes' = [notes EXCEPT ![w[p].res] = @ + 1]
    /\ Goto(p, "finish")
    /\ UNCHANGED <<reservationVars, jobVars, ticket, mails, gateVars, failures>>

-----------------------------------------------------------------------------
(* validateTicket: the ticket is read, then marked.  A missing or used     *)
(* ticket is refused at once and changes nothing.                          *)

Scan(g, s) ==
    /\ gate[g].pc = "idle"
    /\ ticket[s] = "VALID"
    /\ gate' = [gate EXCEPT ![g] = [pc |-> "mark", seat |-> s]]
    /\ UNCHANGED <<reservationVars, jobVars, w, ticket, mailVars, entries, failures>>

MarkUsed(g) ==
    /\ gate[g].pc = "mark"
    /\ ticket' = [ticket EXCEPT ![gate[g].seat] = "USED"]
    /\ entries' = [entries EXCEPT ![gate[g].seat] = @ + 1]
    /\ gate' = [gate EXCEPT ![g] = IdleGate]
    /\ UNCHANGED <<reservationVars, jobVars, w, mailVars, failures>>

-----------------------------------------------------------------------------
(* Failures.                                                               *)

Fail == failures < MaxFailures /\ failures' = failures + 1

(* A call of the processor rejects.  That it had its effect although the   *)
(* answer was lost is the effect, then a failure of the next call.         *)
CallFails(p) ==
    /\ Fail
    /\ w[p].pc \in {"load", "create", "send", "store", "finish"}
    /\ Throw(p)
    /\ UNCHANGED <<reservationVars, ticket, mailVars, gateVars>>

(* The job's lock is lost, because its worker died or because it was only  *)
(* too busy to renew it and runs on.  BullMQ lets a job stall once.        *)
Stall(q, r) ==
    /\ Fail
    /\ job[q][r] = "active"
    /\ job' = [job EXCEPT ![q][r] = IF stalled[q][r] THEN "failed" ELSE "waiting"]
    /\ stalled' = [stalled EXCEPT ![q][r] = TRUE]
    /\ runner' = [runner EXCEPT ![q][r] = None]
    /\ w' \in {w, [w EXCEPT ![runner[q][r]] = IdleWorker]}
    /\ UNCHANGED <<reservationVars, attempts, ticket, mailVars, gateVars>>

(* The UPDATE of a scan rejects, before or after it had its effect: the    *)
(* gate stays shut either way.                                             *)
ScanFails(g) ==
    /\ Fail
    /\ gate[g].pc = "mark"
    /\ ticket' \in {ticket, [ticket EXCEPT ![gate[g].seat] = "USED"]}
    /\ gate' = [gate EXCEPT ![g] = IdleGate]
    /\ UNCHANGED <<reservationVars, jobVars, w, mailVars, entries>>

-----------------------------------------------------------------------------
Work(p) ==
    \/ LoadSeats(p) \/ SendMail(p) \/ StoreNotification(p) \/ Finish(p)
    \/ \E s \in SeatHold : CreateTicket(p, s) \/ DuplicateTicket(p, s)

Start(p) == \E q \in Queue, r \in Res : Take(p, q, r)

Door(g) == MarkUsed(g) \/ \E s \in SeatHold : Scan(g, s)

Failure ==
    \/ \E p \in Worker : CallFails(p)
    \/ \E q \in Queue, r \in Res : Stall(q, r)
    \/ \E g \in Gate : ScanFails(g)

Next ==
    \/ Booking
    \/ \E p \in Worker : Start(p) \/ Work(p)
    \/ \E g \in Gate : Door(g)
    \/ Failure

Spec == Init /\ [][Next]_vars

(* Workers take what waits and go on with what they took.  Nobody has to   *)
(* book anything, and nobody has to come to a gate.                        *)
Fairness == \A p \in Worker : WF_vars(Start(p)) /\ WF_vars(Work(p))

FairSpec == Spec /\ Fairness

-----------------------------------------------------------------------------
(* Properties.                                                             *)

(* A ticket job that BullMQ counts as done has made a ticket for every     *)
(* seat, although attempts may stop half way, be repeated, or run twice at *)
(* the same time after a stall (generateTickets).                          *)
DoneMeansComplete ==
    \A r \in Res : job["reservation.confirmed"][r] = "done" =>
        \A s \in Seat : ticket[<<r, s>>] # "none"

(* A used ticket stays used, whatever jobs are repeated and whatever fails *)
(* at the gates.  From then on only scans that had read it before let      *)
(* somebody in, each once, and none joins them: scans that overlap are the *)
(* only way to a second entry (validateTicket, createTicket).              *)
Marking(s) == {g \in Gate : gate[g].pc = "mark" /\ gate[g].seat = s}

UsedTicketsStayUsed ==
    [][\A s \in SeatHold :
           /\ ticket[s] = "USED" => ticket'[s] = "USED" /\ Marking(s)' \subseteq Marking(s)
           /\ entries'[s] # entries[s] => ticket'[s] = "USED" /\ Marking(s)' # Marking(s)]_vars

(* A notification that is stored as SENT was sent: as many mails as rows,  *)
(* however often the job is repeated (notifications.worker.ts).            *)
StoredMeansSent == \A r \in Res : notes[r] <= mails[r]

(* Every job ends, done or dead: attempts and stalls are limited, also for *)
(* a job that can only fail, because a part of its tickets exists already. *)
JobsEnd ==
    \A q \in Queue, r \in Res :
        job[q][r] \in {"waiting", "active"} ~> job[q][r] \in {"done", "failed"}

(* If nothing fails, a confirmation that was announced ends in tickets for *)
(* all seats, one mail and one stored notification.                        *)
ConfirmationsAreFulfilled ==
    \A r \in Res :
        told[r]["notification.send"] = 1 ~>
            \/ failures > 0
            \/ /\ job["reservation.confirmed"][r] = "done"
               /\ \A s \in Seat : ticket[<<r, s>>] # "none"
               /\ mails[r] = 1 /\ notes[r] = 1

-----------------------------------------------------------------------------
(* Expectations of the documentation that the code does not meet.          *)

(* A ticket opens a gate once (validateTicket: "İkinci okutmada zaten      *)
(* kullanılmış").                                                          *)
OneEntryPerTicket == \A s \in SeatHold : entries[s] <= 1

(* A job that fails once is repeated, and so the tickets are made in the   *)
(* end (bullmq.ts, types.ts).                                              *)
RetriesMakeTickets ==
    \A r \in Res :
        told[r]["reservation.confirmed"] = 1 ~> \A s \in Seat : ticket[<<r, s>>] # "none"
=============================================================================
