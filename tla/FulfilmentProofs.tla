-------------------------- MODULE FulfilmentProofs --------------------------
(***************************************************************************)
(* Proofs about Fulfilment, for every set of reservations, seats, workers  *)
(* and gates and any number of failures.                                   *)
(***************************************************************************)
EXTENDS Fulfilment, FiniteSetTheorems, TLAPS

TicketQueue == "reservation.confirmed"

(* A job exists once its event was told; it is run by at most one worker   *)
(* that BullMQ listens to, and only while it has attempts left.            *)
JobInv ==
    \A q \in Queue, r \in Res :
        /\ job[q][r] = "none" <=> told[r][q] = 0
        /\ job[q][r] \in {"none", "waiting", "active"} => attempts[q][r] < MaxAttempts
        /\ runner[q][r] # None => job[q][r] = "active"

(* What a worker's program counter says about its other fields. *)
ControlInv ==
    \A p \in Worker :
        /\ w[p].pc # "idle" => w[p].queue \in Queue /\ w[p].res \in Res
        /\ w[p].pc = "finish" => w[p].todo = {}
        /\ w[p].pc \in {"send", "store"} => w[p].queue = "notification.send" /\ w[p].todo = {}

(* The seats that a worker has behind it have their tickets. *)
ProgressInv ==
    \A p \in Worker :
        w[p].pc \in {"create", "finish"} /\ w[p].queue = TicketQueue =>
            \A s \in Seat : <<w[p].res, s>> \in w[p].todo \/ ticket[<<w[p].res, s>>] # "none"

GateInv == \A g \in Gate : gate[g].pc = "mark" => gate[g].seat \in SeatHold

TicketInv == TypeOK /\ JobInv /\ ControlInv /\ ProgressInv /\ GateInv /\ DoneMeansComplete

(* Everything holds at the start, when there is no job and no ticket.      *)
LEMMA TicketInit == Init => TicketInv
<1> SUFFICES ASSUME Init PROVE TicketInv
  OBVIOUS
<1>1. TypeOK
  BY MaxFailuresAssumption DEF Init, TypeOK, PerJob, IdleWorker, IdleGate, MaxAttempts, Lifecycle!Init,
     WorkerState, JobState
<1>2. JobInv
  <2>1. \A q \in Queue, r \in Res :
            job[q][r] = "none" /\ attempts[q][r] = 0 /\ runner[q][r] = None
    BY DEF Init, PerJob
  <2>2. \A q \in Queue, r \in Res : told[r][q] = 0
    BY DEF Init, Queue, Lifecycle!Init, Lifecycle!Event
  <2> QED
    BY <2>1, <2>2 DEF JobInv, MaxAttempts
<1>3. ControlInv /\ ProgressInv /\ GateInv /\ DoneMeansComplete
  BY DEF Init, ControlInv, ProgressInv, GateInv, DoneMeansComplete, PerJob, IdleWorker, IdleGate, Queue
<1> QED
  BY <1>1, <1>2, <1>3 DEF TicketInv

-----------------------------------------------------------------------------
(* Leaving a job, finished or not, changes that job only, if it changes    *)
(* one at all, and frees the worker.                                       *)
LEMMA LeaveFacts ==
    ASSUME TicketInv, NEW p \in Worker, w[p].pc # "idle",
           NEW to \in {"waiting", "done", "failed"}, Leave(p, to)
    PROVE  /\ job' \in [Queue -> [Res -> JobState]]
           /\ runner' \in [Queue -> [Res -> Worker \cup {None}]]
           /\ w' \in [Worker -> WorkerState]
           /\ w' = [w EXCEPT ![p] = IdleWorker]
           /\ \A q \in Queue, r \in Res :
                 IF q = w[p].queue /\ r = w[p].res /\ Owns(p)
                 THEN job[q][r] = "active" /\ job'[q][r] = to /\ runner'[q][r] = None
                 ELSE job'[q][r] = job[q][r] /\ runner'[q][r] = runner[q][r]
<1>1. w[p].queue \in Queue /\ w[p].res \in Res
  BY DEF TicketInv, ControlInv
<1>2. w' = [w EXCEPT ![p] = IdleWorker] /\ w' \in [Worker -> WorkerState]
  BY DEF Leave, TicketInv, TypeOK, IdleWorker, WorkerState
<1>3. CASE Owns(p)
  <2>1. job[w[p].queue][w[p].res] = "active"
    BY <1>1, <1>3, NoneAssumption DEF Owns, TicketInv, JobInv
  <2>2. /\ job' = [job EXCEPT ![w[p].queue][w[p].res] = to]
        /\ runner' = [runner EXCEPT ![w[p].queue][w[p].res] = None]
    BY <1>3 DEF Leave
  <2> QED
    BY <1>1, <1>2, <1>3, <2>1, <2>2 DEF TicketInv, TypeOK, JobState
<1>4. CASE ~ Owns(p)
  BY <1>2, <1>4 DEF Leave, TicketInv, TypeOK, JobState
<1> QED
  BY <1>3, <1>4

(* A step that only lets workers go, touches no ticket and completes no    *)
(* ticket job.                                                             *)
Dropped ==
    /\ \A p \in Worker : w'[p] = w[p] \/ w'[p] = IdleWorker
    /\ UNCHANGED <<ticket, gate>>
    /\ \A r \in Res : job'[TicketQueue][r] = "done" => job[TicketQueue][r] = "done"

(* Such a step keeps what was achieved.                                    *)
LEMMA DroppedKeeps ==
    ASSUME TicketInv, Dropped
    PROVE  ControlInv' /\ ProgressInv' /\ GateInv' /\ DoneMeansComplete'
<1>1. ControlInv' /\ ProgressInv'
  BY DEF TicketInv, ControlInv, ProgressInv, Dropped, IdleWorker
<1>2. GateInv' /\ DoneMeansComplete'
  BY DEF TicketInv, GateInv, DoneMeansComplete, Dropped, TicketQueue
<1> QED
  BY <1>1, <1>2

(* An attempt that throws.                                                 *)
LEMMA ThrowKeeps ==
    ASSUME TicketInv, NEW p \in Worker, w[p].pc # "idle", Throw(p),
           UNCHANGED <<reservationVars, ticket, mailVars, gateVars>>, failures' \in 0..MaxFailures
    PROVE  TicketInv'
<1>1. w[p].queue \in Queue /\ w[p].res \in Res
  BY DEF TicketInv, ControlInv
<1> DEFINE n == attempts[w[p].queue][w[p].res] + 1
           to == IF n < MaxAttempts THEN "waiting" ELSE "failed"
<1>2. Leave(p, to) /\ to \in {"waiting", "done", "failed"} /\ to # "done"
  BY DEF Throw
<1> HIDE DEF to
<1>3. /\ job' \in [Queue -> [Res -> JobState]]
      /\ runner' \in [Queue -> [Res -> Worker \cup {None}]]
      /\ w' \in [Worker -> WorkerState]
      /\ w' = [w EXCEPT ![p] = IdleWorker]
      /\ \A q \in Queue, r \in Res :
            IF q = w[p].queue /\ r = w[p].res /\ Owns(p)
            THEN job[q][r] = "active" /\ job'[q][r] = to /\ runner'[q][r] = None
            ELSE job'[q][r] = job[q][r] /\ runner'[q][r] = runner[q][r]
  BY <1>2, LeaveFacts
<1>4. Dropped
  BY <1>2, <1>3 DEF Dropped, TicketInv, TypeOK, gateVars, TicketQueue, Queue
<1>5. n \in Nat /\ (Owns(p) => n <= MaxAttempts)
  <2>1. attempts[w[p].queue][w[p].res] \in 0..MaxAttempts
    BY <1>1 DEF TicketInv, TypeOK
  <2>2. Owns(p) => runner[w[p].queue][w[p].res] # None
    BY NoneAssumption DEF Owns
  <2>3. Owns(p) => attempts[w[p].queue][w[p].res] < MaxAttempts
    BY <1>1, <2>2 DEF TicketInv, JobInv
  <2> QED
    BY <2>1, <2>3 DEF MaxAttempts
<1>6. /\ attempts' \in [Queue -> [Res -> 0..MaxAttempts]]
      /\ \A q \in Queue, r \in Res :
            attempts'[q][r] = IF q = w[p].queue /\ r = w[p].res /\ Owns(p) THEN n ELSE attempts[q][r]
  <2>1. attempts \in [Queue -> [Res -> 0..MaxAttempts]]
    BY DEF TicketInv, TypeOK
  <2>2. attempts' = IF Owns(p) THEN [attempts EXCEPT ![w[p].queue][w[p].res] = n] ELSE attempts
    BY DEF Throw
  <2>3. Owns(p) => n \in 0..MaxAttempts
    BY <1>5 DEF MaxAttempts
  <2> HIDE DEF n
  <2> QED
    BY <1>1, <2>1, <2>2, <2>3
<1>7. TypeOK'
  <2>1. UNCHANGED <<told, stalled, ticket, mails, notes, gate, entries>>
    BY DEF Throw, reservationVars, mailVars, gateVars
  <2>2. TypeOK
    BY DEF TicketInv
  <2> HIDE DEF n
  <2> QED
    BY <1>3, <1>6, <2>1, <2>2 DEF TypeOK
<1>8. JobInv'
  <2> SUFFICES ASSUME NEW q \in Queue, NEW r \in Res
               PROVE  /\ job'[q][r] = "none" <=> told'[r][q] = 0
                      /\ job'[q][r] \in {"none", "waiting", "active"} => attempts'[q][r] < MaxAttempts
                      /\ runner'[q][r] # None => job'[q][r] = "active"
    BY DEF JobInv
  <2>1. told' = told
    BY DEF reservationVars
  <2>2. /\ job[q][r] = "none" <=> told[r][q] = 0
        /\ job[q][r] \in {"none", "waiting", "active"} => attempts[q][r] < MaxAttempts
        /\ runner[q][r] # None => job[q][r] = "active"
    BY DEF TicketInv, JobInv
  <2>3. to = "failed" \/ (to = "waiting" /\ n < MaxAttempts)
    BY DEF to
  <2> HIDE DEF n
  <2> QED
    BY <1>3, <1>6, <2>1, <2>2, <2>3
<1> QED
  BY <1>4, <1>7, <1>8, DroppedKeeps DEF TicketInv

(* Finishing a job: its worker has no seat left, so all have tickets.      *)
LEMMA FinishKeeps ==
    ASSUME TicketInv, NEW p \in Worker, Finish(p)
    PROVE  TicketInv'
<1>1. /\ w[p].pc = "finish" /\ w[p].todo = {}
      /\ w[p].queue \in Queue /\ w[p].res \in Res
  BY DEF Finish, TicketInv, ControlInv
<1>2. /\ job' \in [Queue -> [Res -> JobState]]
      /\ runner' \in [Queue -> [Res -> Worker \cup {None}]]
      /\ w' \in [Worker -> WorkerState]
      /\ w' = [w EXCEPT ![p] = IdleWorker]
      /\ \A q \in Queue, r \in Res :
            IF q = w[p].queue /\ r = w[p].res /\ Owns(p)
            THEN job[q][r] = "active" /\ job'[q][r] = "done" /\ runner'[q][r] = None
            ELSE job'[q][r] = job[q][r] /\ runner'[q][r] = runner[q][r]
  <2>1. Leave(p, "done") /\ w[p].pc # "idle"
    BY DEF Finish
  <2> QED
    BY <2>1, LeaveFacts
<1>3. UNCHANGED <<told, attempts, stalled, ticket, mails, notes, gate, entries, failures>>
  BY DEF Finish, reservationVars, mailVars, gateVars
<1>4. TypeOK'
  BY <1>2, <1>3 DEF TicketInv, TypeOK
<1>5. JobInv'
  BY <1>2, <1>3 DEF TicketInv, JobInv
<1>6. ControlInv' /\ ProgressInv' /\ GateInv'
  BY <1>2, <1>3 DEF TicketInv, TypeOK, ControlInv, ProgressInv, GateInv, IdleWorker
<1>7. w[p].queue = TicketQueue => \A s \in Seat : ticket[<<w[p].res, s>>] # "none"
  BY <1>1 DEF TicketInv, ProgressInv
<1>8. DoneMeansComplete'
  BY <1>2, <1>3, <1>7 DEF TicketInv, DoneMeansComplete, TicketQueue, Queue
<1> QED
  BY <1>4, <1>5, <1>6, <1>8 DEF TicketInv

(* Taking a job, and loading its seats.                                    *)
LEMMA StartKeeps ==
    ASSUME TicketInv, NEW p \in Worker, Start(p) \/ LoadSeats(p)
    PROVE  TicketInv'
<1>1. CASE Start(p)
  <2>1. PICK q \in Queue, r \in Res : Take(p, q, r)
    BY <1>1 DEF Start
  <2>2. /\ job[q][r] = "waiting"
        /\ job' = [job EXCEPT ![q][r] = "active"]
        /\ runner' = [runner EXCEPT ![q][r] = p]
        /\ w' = [w EXCEPT ![p] = [pc |-> First(q), queue |-> q, res |-> r, todo |-> {}]]
        /\ UNCHANGED <<told, attempts, stalled, ticket, mails, notes, gate, entries, failures>>
    BY <2>1 DEF Take, reservationVars, mailVars, gateVars
  <2>3. First(q) \in {"load", "send"}
    BY DEF First
  <2>4. TypeOK'
    BY <2>2, <2>3 DEF TicketInv, TypeOK, WorkerState, JobState
  <2>5. JobInv'
    <3>1. \A k \in Queue, x \in Res :
              IF k = q /\ x = r THEN job'[k][x] = "active" /\ runner'[k][x] = p
              ELSE job'[k][x] = job[k][x] /\ runner'[k][x] = runner[k][x]
      BY <2>2 DEF TicketInv, TypeOK
    <3>2. job[q][r] # "none" /\ attempts[q][r] < MaxAttempts
      BY <2>2 DEF TicketInv, JobInv
    <3> QED
      BY <2>2, <3>1, <3>2 DEF TicketInv, JobInv
  <2>6. ControlInv' /\ ProgressInv' /\ GateInv'
    <3>1. First(q) = "send" => q = "notification.send"
      BY DEF First, Queue
    <3> QED
      BY <2>2, <2>3, <3>1 DEF TicketInv, TypeOK, ControlInv, ProgressInv, GateInv
  <2>7. DoneMeansComplete'
    BY <2>2 DEF TicketInv, TypeOK, DoneMeansComplete
  <2> QED
    BY <2>4, <2>5, <2>6, <2>7 DEF TicketInv
<1>2. CASE LoadSeats(p)
  <2>1. /\ w[p].pc = "load"
        /\ w' = [w EXCEPT ![p].pc = "create", ![p].todo = {w[p].res} \X Seat]
        /\ UNCHANGED <<told, job, attempts, stalled, runner, ticket, mails, notes, gate, entries, failures>>
    BY <1>2 DEF LoadSeats, reservationVars, jobVars, mailVars, gateVars
  <2>2. w[p].queue \in Queue /\ w[p].res \in Res
    BY <2>1 DEF TicketInv, ControlInv
  <2>3. {w[p].res} \X Seat \in SUBSET SeatHold
    BY <2>2 DEF SeatHold
  <2>4. w' \in [Worker -> WorkerState]
    <3> DEFINE all == {w[p].res} \X Seat
    <3>1. w' = [w EXCEPT ![p].pc = "create", ![p].todo = all] /\ all \in SUBSET SeatHold
      BY <2>1, <2>3
    <3> HIDE DEF all
    <3>2. w \in [Worker -> WorkerState]
      BY DEF TicketInv, TypeOK
    <3>3. [w[p] EXCEPT !.pc = "create", !.todo = all] \in WorkerState
      BY <3>1, <3>2 DEF WorkerState
    <3> QED
      BY <3>1, <3>2, <3>3
  <2>5. TypeOK'
    BY <2>1, <2>4 DEF TicketInv, TypeOK
  <2>6. JobInv' /\ GateInv' /\ DoneMeansComplete'
    BY <2>1 DEF TicketInv, JobInv, GateInv, DoneMeansComplete
  <2>7. ControlInv'
    BY <2>1, <2>2 DEF TicketInv, TypeOK, ControlInv, WorkerState
  <2>8. ProgressInv'
    BY <2>1 DEF TicketInv, TypeOK, ProgressInv, WorkerState
  <2> QED
    BY <2>5, <2>6, <2>7, <2>8 DEF TicketInv
<1> QED
  BY <1>1, <1>2

(* A new ticket brings its worker one seat further and takes nothing from  *)
(* anybody.                                                                *)
LEMMA CreateKeeps ==
    ASSUME TicketInv, NEW p \in Worker, NEW s \in SeatHold, CreateTicket(p, s)
    PROVE  TicketInv'
<1>1. /\ w[p].pc = "create" /\ s \in w[p].todo
      /\ ticket' = [ticket EXCEPT ![s] = "VALID"]
      /\ NextSeat(p, s)
      /\ UNCHANGED <<told, job, attempts, stalled, runner, mails, notes, gate, entries, failures>>
  BY DEF CreateTicket, reservationVars, jobVars, mailVars, gateVars
<1>2. /\ w' \in [Worker -> WorkerState]
      /\ \A q \in Worker : q # p => w'[q] = w[q]
      /\ w'[p].queue = w[p].queue /\ w'[p].res = w[p].res
      /\ w'[p].todo = w[p].todo \ {s}
      /\ w'[p].pc = IF w[p].todo = {s} THEN "finish" ELSE "create"
  <2> DEFINE next == IF w[p].todo = {s} THEN "finish" ELSE "create"
             on == [w[p] EXCEPT !.todo = @ \ {s}, !.pc = next]
  <2>1. w \in [Worker -> WorkerState] /\ w[p] \in WorkerState
    BY DEF TicketInv, TypeOK
  <2>2. next \in {"create", "finish"}
    OBVIOUS
  <2> HIDE DEF next
  <2>3. /\ on \in WorkerState /\ on.queue = w[p].queue /\ on.res = w[p].res
        /\ on.todo = w[p].todo \ {s} /\ on.pc = next
    BY <2>1, <2>2 DEF WorkerState
  <2>4. w' = [w EXCEPT ![p] = on]
    BY <1>1, <2>1 DEF NextSeat, next
  <2> HIDE DEF on
  <2>5. w' \in [Worker -> WorkerState] /\ w'[p] = on /\ \A q \in Worker : q # p => w'[q] = w[q]
    BY <2>1, <2>3, <2>4
  <2> QED
    BY <2>3, <2>5 DEF next
<1>3. /\ ticket' \in [SeatHold -> {"none", "VALID", "USED"}]
      /\ ticket'[s] # "none"
      /\ \A t \in SeatHold : ticket[t] # "none" => ticket'[t] # "none"
  BY <1>1 DEF TicketInv, TypeOK
<1>4. TypeOK'
  BY <1>1, <1>2, <1>3 DEF TicketInv, TypeOK
<1>5. JobInv' /\ GateInv'
  BY <1>1 DEF TicketInv, JobInv, GateInv
<1>6. ControlInv'
  BY <1>1, <1>2 DEF TicketInv, ControlInv
<1>7. \A q \in Worker : w[q].pc # "idle" => \A t \in Seat : <<w[q].res, t>> \in SeatHold
  BY DEF TicketInv, ControlInv, SeatHold
<1>8. ProgressInv'
  <2> SUFFICES ASSUME NEW q \in Worker, w'[q].pc \in {"create", "finish"}, w'[q].queue = TicketQueue,
                      NEW t \in Seat, <<w'[q].res, t>> \notin w'[q].todo
               PROVE  ticket'[<<w'[q].res, t>>] # "none"
    BY DEF ProgressInv
  <2>1. CASE q # p
    BY <1>2, <1>3, <1>7, <2>1 DEF TicketInv, ProgressInv
  <2>2. CASE q = p
    BY <1>1, <1>2, <1>3, <1>7, <2>2 DEF TicketInv, ProgressInv
  <2> QED
    BY <2>1, <2>2
<1>9. DoneMeansComplete'
  BY <1>1, <1>3 DEF TicketInv, DoneMeansComplete, SeatHold
<1> QED
  BY <1>4, <1>5, <1>6, <1>8, <1>9 DEF TicketInv

(* The mail job touches neither tickets nor jobs.                          *)
LEMMA MailKeeps ==
    ASSUME TicketInv, NEW p \in Worker, SendMail(p) \/ StoreNotification(p)
    PROVE  TicketInv'
<1>1. /\ w[p].pc \in {"send", "store"}
      /\ UNCHANGED <<told, job, attempts, stalled, runner, ticket, gate, entries, failures>>
  BY DEF SendMail, StoreNotification, reservationVars, jobVars, gateVars
<1>2. PICK pc \in {"store", "finish"} : w' = [w EXCEPT ![p].pc = pc]
  BY DEF SendMail, StoreNotification, Goto
<1>3. w[p].queue = "notification.send" /\ w[p].res \in Res /\ w[p].todo = {}
  BY <1>1 DEF TicketInv, ControlInv
<1>4. mails' \in [Res -> Nat] /\ notes' \in [Res -> Nat]
  <2>1. mails \in [Res -> Nat] /\ notes \in [Res -> Nat]
    BY DEF TicketInv, TypeOK
  <2>2. \/ mails' = [mails EXCEPT ![w[p].res] = @ + 1] /\ notes' = notes
        \/ notes' = [notes EXCEPT ![w[p].res] = @ + 1] /\ mails' = mails
    BY DEF SendMail, StoreNotification
  <2> QED
    BY <2>1, <2>2
<1>5. TypeOK'
  <2>1. w' \in [Worker -> WorkerState]
    <3>1. w \in [Worker -> WorkerState]
      BY DEF TicketInv, TypeOK
    <3>2. [w[p] EXCEPT !.pc = pc] \in WorkerState
      BY <3>1 DEF WorkerState
    <3> QED
      BY <1>2, <3>1, <3>2
  <2> QED
    BY <1>1, <1>4, <2>1, MaxFailuresAssumption DEF TicketInv, TypeOK
<1>6. JobInv' /\ GateInv' /\ DoneMeansComplete'
  BY <1>1 DEF TicketInv, JobInv, GateInv, DoneMeansComplete
<1>7. ControlInv' /\ ProgressInv'
  BY <1>1, <1>2, <1>3 DEF TicketInv, TypeOK, ControlInv, ProgressInv, WorkerState, TicketQueue, Queue
<1> QED
  BY <1>5, <1>6, <1>7 DEF TicketInv

(* A gate marks tickets that exist.                                        *)
LEMMA GateKeeps ==
    ASSUME TicketInv, NEW g \in Gate, Door(g) \/ ScanFails(g)
    PROVE  TicketInv'
<1>1. /\ UNCHANGED <<told, job, attempts, stalled, runner, w, mails, notes>>
      /\ failures' \in 0..MaxFailures
  BY MaxFailuresAssumption
     DEF Door, Scan, MarkUsed, ScanFails, Fail, reservationVars, jobVars, mailVars, TicketInv, TypeOK
<1>2. /\ ticket' \in [SeatHold -> {"none", "VALID", "USED"}]
      /\ \A t \in SeatHold : ticket[t] # "none" => ticket'[t] # "none"
  BY DEF Door, Scan, MarkUsed, ScanFails, TicketInv, TypeOK, GateInv
<1>3. gate' \in [Gate -> [pc : {"idle", "mark"}, seat : SeatHold \cup {None}]] /\ GateInv'
  <2>1. gate \in [Gate -> [pc : {"idle", "mark"}, seat : SeatHold \cup {None}]] /\ GateInv
    BY DEF TicketInv, TypeOK
  <2>2. CASE gate' = [gate EXCEPT ![g] = IdleGate]
    BY <2>1, <2>2 DEF GateInv, IdleGate
  <2>3. ASSUME NEW s \in SeatHold, gate' = [gate EXCEPT ![g] = [pc |-> "mark", seat |-> s]]
        PROVE  <1>3
    BY <2>1, <2>3 DEF GateInv
  <2> QED
    BY <2>2, <2>3 DEF Door, Scan, MarkUsed, ScanFails
<1>4. entries' \in [SeatHold -> Nat]
  BY DEF Door, Scan, MarkUsed, ScanFails, TicketInv, TypeOK, GateInv
<1>5. TypeOK'
  BY <1>1, <1>2, <1>3, <1>4 DEF TicketInv, TypeOK
<1>6. JobInv' /\ ControlInv'
  BY <1>1 DEF TicketInv, JobInv, ControlInv
<1>7. \A q \in Worker : w[q].pc # "idle" => \A t \in Seat : <<w[q].res, t>> \in SeatHold
  BY DEF TicketInv, ControlInv, SeatHold
<1>8. ProgressInv' /\ DoneMeansComplete'
  BY <1>1, <1>2, <1>7 DEF TicketInv, ProgressInv, DoneMeansComplete, SeatHold
<1> QED
  BY <1>3, <1>5, <1>6, <1>8 DEF TicketInv

(* The booking side only adds jobs that nobody has asked for before.       *)
LEMMA BookingKeeps ==
    ASSUME TicketInv, Booking
    PROVE  TicketInv'
<1>1. UNCHANGED <<attempts, stalled, runner, w, ticket, mails, notes, gate, entries, failures>>
  BY DEF Booking, mailVars, gateVars
<1>2. /\ told' \in [Res -> [Lifecycle!Event -> 0..1]]
      /\ \A q \in Queue, r \in Res :
            told'[r][q] = told[r][q] \/ (told[r][q] = 0 /\ told'[r][q] = 1)
  <2>1. Queue \subseteq Lifecycle!Event
    BY DEF Queue, Lifecycle!Event
  <2>2. told \in [Res -> [Lifecycle!Event -> 0..1]]
    BY DEF TicketInv, TypeOK
  <2>3. CASE told' = told
    BY <2>2, <2>3
  <2>4. ASSUME NEW r \in Res, NEW e \in Lifecycle!Event, Lifecycle!Tell(r, e)
        PROVE  <1>2
    BY <2>1, <2>2, <2>4 DEF Lifecycle!Tell
  <2> QED
    BY <2>3, <2>4 DEF Booking, Lifecycle!Next, Lifecycle!Create, Lifecycle!Confirm, Lifecycle!Expire,
       Lifecycle!CancelHold, Lifecycle!CancelPaid, Lifecycle!Move
<1>3. /\ job' \in [Queue -> [Res -> JobState]]
      /\ \A q \in Queue, r \in Res :
            job'[q][r] = IF told'[r][q] = told[r][q] THEN job[q][r] ELSE "waiting"
  BY DEF Booking, TicketInv, TypeOK, JobState
<1>4. TypeOK'
  BY <1>1, <1>2, <1>3 DEF TicketInv, TypeOK
<1>5. JobInv'
  BY <1>1, <1>2, <1>3 DEF TicketInv, JobInv
<1>6. ControlInv' /\ ProgressInv' /\ GateInv'
  BY <1>1 DEF TicketInv, ControlInv, ProgressInv, GateInv
<1>7. DoneMeansComplete'
  BY <1>1, <1>3 DEF TicketInv, DoneMeansComplete, Queue
<1> QED
  BY <1>4, <1>5, <1>6, <1>7 DEF TicketInv

(* A stalled job waits again, or is dead, and may lose its worker.         *)
LEMMA StallKeeps ==
    ASSUME TicketInv, NEW q \in Queue, NEW r \in Res, Stall(q, r)
    PROVE  TicketInv'
<1>1. /\ UNCHANGED <<told, attempts, ticket, mails, notes, gate, entries>>
      /\ job[q][r] = "active"
      /\ runner' = [runner EXCEPT ![q][r] = None]
      /\ stalled' = [stalled EXCEPT ![q][r] = TRUE]
  BY DEF Stall, reservationVars, mailVars, gateVars
<1>2. failures' \in 0..MaxFailures
  BY MaxFailuresAssumption DEF Stall, Fail, TicketInv, TypeOK
<1>3. PICK to \in {"waiting", "failed"} : job' = [job EXCEPT ![q][r] = to]
  BY DEF Stall
<1>4. /\ \A p \in Worker : w'[p] = w[p] \/ w'[p] = IdleWorker
      /\ w' \in [Worker -> WorkerState]
  <2>1. w \in [Worker -> WorkerState] /\ IdleWorker \in WorkerState
    BY DEF TicketInv, TypeOK, IdleWorker, WorkerState
  <2>2. PICK k : w' = w \/ w' = [w EXCEPT ![k] = IdleWorker]
    BY DEF Stall
  <2> QED
    BY <2>1, <2>2
<1>5. /\ job' \in [Queue -> [Res -> JobState]]
      /\ runner' \in [Queue -> [Res -> Worker \cup {None}]]
      /\ stalled' \in [Queue -> [Res -> BOOLEAN]]
      /\ \A k \in Queue, x \in Res :
            IF k = q /\ x = r THEN job'[k][x] = to /\ runner'[k][x] = None
            ELSE job'[k][x] = job[k][x] /\ runner'[k][x] = runner[k][x]
  BY <1>1, <1>3 DEF TicketInv, TypeOK, JobState
<1>6. TypeOK'
  BY <1>1, <1>2, <1>4, <1>5 DEF TicketInv, TypeOK
<1>7. JobInv'
  BY <1>1, <1>5 DEF TicketInv, JobInv
<1>8. Dropped
  BY <1>1, <1>4, <1>5 DEF Dropped, TicketQueue, Queue
<1> QED
  BY <1>6, <1>7, <1>8, DroppedKeeps DEF TicketInv

(* Every step keeps the invariant.                                         *)
LEMMA TicketNext == TicketInv /\ [Next]_vars => TicketInv'
<1> SUFFICES ASSUME TicketInv, [Next]_vars PROVE TicketInv'
  OBVIOUS
<1>1. CASE Booking
  BY <1>1, BookingKeeps
<1>2. ASSUME NEW p \in Worker, Start(p) \/ Work(p) PROVE TicketInv'
  <2>1. ASSUME NEW s \in SeatHold, DuplicateTicket(p, s) PROVE TicketInv'
    <3>1. /\ w[p].pc # "idle" /\ Throw(p) /\ failures' = failures
          /\ UNCHANGED <<reservationVars, ticket, mailVars, gateVars>>
      BY <2>1 DEF DuplicateTicket
    <3>2. failures' \in 0..MaxFailures
      BY <3>1 DEF TicketInv, TypeOK
    <3> QED
      BY <3>1, <3>2, ThrowKeeps
  <2> QED
    BY <1>2, <2>1, StartKeeps, MailKeeps, FinishKeeps, CreateKeeps DEF Work
<1>3. ASSUME NEW g \in Gate, Door(g) PROVE TicketInv'
  BY <1>3, GateKeeps
<1>4. CASE Failure
  <2>1. ASSUME NEW p \in Worker, CallFails(p) PROVE TicketInv'
    <3>1. /\ w[p].pc # "idle" /\ Throw(p)
          /\ UNCHANGED <<reservationVars, ticket, mailVars, gateVars>>
      BY <2>1 DEF CallFails
    <3>2. failures' \in 0..MaxFailures
      BY <2>1, MaxFailuresAssumption DEF CallFails, Fail, TicketInv, TypeOK
    <3> QED
      BY <3>1, <3>2, ThrowKeeps
  <2> QED
    BY <1>4, <2>1, StallKeeps, GateKeeps DEF Failure
<1>5. CASE UNCHANGED vars
  BY <1>5 DEF vars, reservationVars, jobVars, mailVars, gateVars, TicketInv, TypeOK, JobInv,
              ControlInv, ProgressInv, GateInv, DoneMeansComplete
<1> QED
  BY <1>1, <1>2, <1>3, <1>4, <1>5 DEF Next

-----------------------------------------------------------------------------
(* The invariant of the fulfilment, types and attempts included.           *)
THEOREM FulfilmentCorrect == Spec => []TicketInv
<1>1. Init => TicketInv
  BY TicketInit
<1>2. TicketInv /\ [Next]_vars => TicketInv'
  BY TicketNext
<1> QED
  BY <1>1, <1>2, PTL DEF Spec

(* Every variable keeps its type, and no job is tried a fourth time.       *)
THEOREM FulfilmentTypes == Spec => []TypeOK
<1>1. TicketInv => TypeOK
  BY DEF TicketInv
<1> QED
  BY <1>1, FulfilmentCorrect, PTL

(* A ticket job that is done has made a ticket for every seat.             *)
THEOREM DoneIsComplete == Spec => []DoneMeansComplete
<1>1. TicketInv => DoneMeansComplete
  BY DEF TicketInv
<1> QED
  BY <1>1, FulfilmentCorrect, PTL

-----------------------------------------------------------------------------
(* What a step may do to a used ticket and to the scans of it: nothing but *)
(* let in somebody whose scan had read it while it was valid.              *)
Spent(s) ==
    /\ ticket[s] = "USED" => ticket'[s] = "USED" /\ Marking(s)' \subseteq Marking(s)
    /\ entries'[s] # entries[s] => ticket'[s] = "USED" /\ Marking(s)' # Marking(s)

(* Jobs make only tickets that did not exist.                              *)
LEMMA CreationSpends ==
    ASSUME TicketInv, NEW p \in Worker, NEW t \in SeatHold, CreateTicket(p, t),
           NEW s \in SeatHold
    PROVE  Spent(s)
<1>1. ticket[t] = "none" /\ ticket' = [ticket EXCEPT ![t] = "VALID"] /\ UNCHANGED <<gate, entries>>
  BY DEF CreateTicket, gateVars
<1>2. ticket \in [SeatHold -> {"none", "VALID", "USED"}]
  BY DEF TicketInv, TypeOK
<1> QED
  BY <1>1, <1>2 DEF Spent, Marking

(* Any number of gates may stand between a scan and its mark: marking      *)
(* takes the gate out of them, and no gate joins them once the ticket is   *)
(* used.                                                                   *)
LEMMA DoorSpends ==
    ASSUME TicketInv, NEW g \in Gate, Door(g) \/ ScanFails(g), NEW s \in SeatHold
    PROVE  Spent(s)
<1>1. /\ gate \in [Gate -> [pc : {"idle", "mark"}, seat : SeatHold \cup {None}]]
      /\ ticket \in [SeatHold -> {"none", "VALID", "USED"}]
      /\ entries \in [SeatHold -> Nat]
  BY DEF TicketInv, TypeOK
<1>2. ASSUME NEW t \in SeatHold, Scan(g, t) PROVE Spent(s)
  <2>1. /\ ticket[t] = "VALID" /\ UNCHANGED <<ticket, entries>>
        /\ gate' = [gate EXCEPT ![g] = [pc |-> "mark", seat |-> t]]
    BY <1>2 DEF Scan
  <2>2. ticket[s] = "USED" => Marking(s)' \subseteq Marking(s)
    BY <1>1, <2>1 DEF Marking
  <2> QED
    BY <2>1, <2>2 DEF Spent
<1>3. CASE MarkUsed(g)
  <2> DEFINE t == gate[g].seat
  <2>1. t \in SeatHold /\ gate[g].pc = "mark"
    BY <1>3 DEF MarkUsed, TicketInv, GateInv
  <2>2. /\ ticket' = [ticket EXCEPT ![t] = "USED"]
        /\ entries' = [entries EXCEPT ![t] = @ + 1]
        /\ gate' = [gate EXCEPT ![g] = IdleGate]
    BY <1>3 DEF MarkUsed
  <2>3. g \in Marking(t) /\ g \notin Marking(s)' /\ Marking(s)' \subseteq Marking(s)
    BY <1>1, <2>1, <2>2 DEF Marking, IdleGate
  <2> HIDE DEF t
  <2>4. ticket[s] = "USED" => ticket'[s] = "USED"
    BY <1>1, <2>1, <2>2
  <2>5. entries'[s] # entries[s] => s = t
    BY <1>1, <2>1, <2>2
  <2>6. s = t => ticket'[s] = "USED"
    BY <1>1, <2>1, <2>2
  <2> QED
    BY <2>3, <2>4, <2>5, <2>6 DEF Spent
<1>4. CASE ScanFails(g)
  <2>1. entries' = entries /\ gate' = [gate EXCEPT ![g] = IdleGate]
    BY <1>4 DEF ScanFails
  <2>2. ticket[s] = "USED" => ticket'[s] = "USED"
    BY <1>1, <1>4 DEF ScanFails
  <2>3. Marking(s)' \subseteq Marking(s)
    BY <1>1, <2>1 DEF Marking, IdleGate
  <2> QED
    BY <2>1, <2>2, <2>3 DEF Spent
<1> QED
  BY <1>2, <1>3, <1>4 DEF Door

(* So does every other step, which touches no gate and no ticket.          *)
LEMMA StepSpends ==
    ASSUME TicketInv, [Next]_vars, NEW s \in SeatHold
    PROVE  Spent(s)
<1>1. CASE UNCHANGED <<ticket, gate, entries>>
  BY <1>1 DEF Spent, Marking
<1>2. ASSUME NEW p \in Worker, NEW t \in SeatHold, CreateTicket(p, t) PROVE Spent(s)
  BY <1>2, CreationSpends
<1>3. ASSUME NEW g \in Gate, Door(g) \/ ScanFails(g) PROVE Spent(s)
  BY <1>3, DoorSpends
<1>4. CASE Booking
  BY <1>1, <1>4 DEF Booking, gateVars
<1>5. ASSUME NEW p \in Worker, Start(p) \/ LoadSeats(p) \/ SendMail(p) \/ StoreNotification(p)
             \/ Finish(p) \/ CallFails(p) \/ \E t \in SeatHold : DuplicateTicket(p, t)
      PROVE  Spent(s)
  BY <1>1, <1>5 DEF Start, Take, LoadSeats, SendMail, StoreNotification, Finish, CallFails,
                    DuplicateTicket, gateVars
<1>6. ASSUME NEW q \in Queue, NEW r \in Res, Stall(q, r) PROVE Spent(s)
  BY <1>1, <1>6 DEF Stall, gateVars
<1>7. CASE UNCHANGED vars
  BY <1>1, <1>7 DEF vars, gateVars
<1> QED
  BY <1>2, <1>3, <1>4, <1>5, <1>6, <1>7 DEF Next, Work, Failure

(* However many gates scan a ticket at the same time and whatever jobs and *)
(* failures do: once it is used it stays used, and only scans that had     *)
(* read it before let somebody in, each once (validateTicket).             *)
THEOREM UsedTicketsAreSpent == Spec => UsedTicketsStayUsed
<1>1. TicketInv /\ [Next]_vars => [\A s \in SeatHold : Spent(s)]_vars
  BY StepSpends
<1>2. [\A s \in SeatHold : Spent(s)]_vars
      => [\A s \in SeatHold :
             /\ ticket[s] = "USED" => ticket'[s] = "USED" /\ Marking(s)' \subseteq Marking(s)
             /\ entries'[s] # entries[s] => ticket'[s] = "USED" /\ Marking(s)' # Marking(s)]_vars
  BY DEF Spent
<1> QED
  BY <1>1, <1>2, FulfilmentCorrect, PTL DEF Spec, UsedTicketsStayUsed

-----------------------------------------------------------------------------
(* The workers that have sent the mail of r and not yet stored it.         *)
Storing(r) == {p \in Worker : w[p].pc = "store" /\ w[p].res = r}

(* Every row, and every worker about to write one, has a mail of its own.  *)
MailInv == \A r \in Res : notes[r] + Cardinality(Storing(r)) <= mails[r]

(* A step that sends and stores nothing, and brings nobody before a row.   *)
LEMMA NoMailKeeps ==
    ASSUME IsFiniteSet(Worker), TicketInv, MailInv, UNCHANGED mailVars,
           \A p \in Worker : w'[p].pc = "store" => w[p].pc = "store" /\ w'[p].res = w[p].res
    PROVE  MailInv'
<1> SUFFICES ASSUME NEW r \in Res PROVE notes'[r] + Cardinality(Storing(r))' <= mails'[r]
  BY DEF MailInv
<1>1. Storing(r)' \subseteq Storing(r) /\ IsFiniteSet(Storing(r))
  <2>1. Storing(r) \subseteq Worker
    BY DEF Storing
  <2> QED
    BY <2>1, FS_Subset DEF Storing
<1>2. Cardinality(Storing(r)') <= Cardinality(Storing(r)) /\ IsFiniteSet(Storing(r)')
  BY <1>1, FS_Subset
<1>3. Cardinality(Storing(r)) \in Nat /\ Cardinality(Storing(r)') \in Nat
  BY <1>1, <1>2, FS_CardinalityType
<1>4. notes[r] \in Nat /\ mails[r] \in Nat /\ notes'[r] = notes[r] /\ mails'[r] = mails[r]
  BY DEF TicketInv, TypeOK, mailVars
<1>5. notes[r] + Cardinality(Storing(r)) <= mails[r]
  BY DEF MailInv
<1> QED
  BY <1>2, <1>3, <1>4, <1>5

(* A mail brings one worker before a row, and a row takes one away.        *)
LEMMA MailCounts ==
    ASSUME IsFiniteSet(Worker), TicketInv, MailInv, NEW p \in Worker,
           SendMail(p) \/ StoreNotification(p)
    PROVE  MailInv'
<1> SUFFICES ASSUME NEW r \in Res PROVE notes'[r] + Cardinality(Storing(r)') <= mails'[r]
  BY DEF MailInv
<1>1. /\ IsFiniteSet(Storing(r))
      /\ Cardinality(Storing(r)) \in Nat
  <2>1. Storing(r) \subseteq Worker
    BY DEF Storing
  <2> QED
    BY <2>1, FS_Subset, FS_CardinalityType
<1>2. /\ w[p].res \in Res /\ w \in [Worker -> WorkerState]
      /\ notes \in [Res -> Nat] /\ mails \in [Res -> Nat]
  BY DEF SendMail, StoreNotification, TicketInv, TypeOK, ControlInv
<1>3. notes[r] + Cardinality(Storing(r)) <= mails[r]
  BY DEF MailInv
<1>4. CASE SendMail(p)
  <2>1. /\ w[p].pc = "send" /\ w' = [w EXCEPT ![p].pc = "store"]
        /\ notes' = notes /\ mails' = [mails EXCEPT ![w[p].res] = @ + 1]
    BY <1>4 DEF SendMail, Goto
  <2>2. /\ \A x \in Worker : w'[x].res = w[x].res /\ (x # p => w'[x].pc = w[x].pc)
        /\ w'[p].pc = "store"
    BY <1>2, <2>1 DEF WorkerState
  <2>3. CASE r = w[p].res
    <3>1. Storing(r)' = Storing(r) \cup {p} /\ p \notin Storing(r)
      BY <2>1, <2>2, <2>3 DEF Storing
    <3>2. Cardinality(Storing(r)') = Cardinality(Storing(r)) + 1
      BY <1>1, <3>1, FS_AddElement
    <3> QED
      BY <1>1, <1>2, <1>3, <2>1, <2>3, <3>2
  <2>4. CASE r # w[p].res
    <3>1. Storing(r)' = Storing(r)
      BY <2>2, <2>4 DEF Storing
    <3> QED
      BY <1>2, <1>3, <2>1, <2>4, <3>1
  <2> QED
    BY <2>3, <2>4
<1>5. CASE StoreNotification(p)
  <2>1. /\ w[p].pc = "store" /\ w' = [w EXCEPT ![p].pc = "finish"]
        /\ mails' = mails /\ notes' = [notes EXCEPT ![w[p].res] = @ + 1]
    BY <1>5 DEF StoreNotification, Goto
  <2>2. /\ \A x \in Worker : w'[x].res = w[x].res /\ (x # p => w'[x].pc = w[x].pc)
        /\ w'[p].pc = "finish"
    BY <1>2, <2>1 DEF WorkerState
  <2>3. CASE r = w[p].res
    <3>1. Storing(r)' = Storing(r) \ {p} /\ p \in Storing(r)
      BY <2>1, <2>2, <2>3 DEF Storing
    <3>2. Cardinality(Storing(r)') = Cardinality(Storing(r)) - 1
      BY <1>1, <3>1, FS_RemoveElement
    <3> QED
      BY <1>1, <1>2, <1>3, <2>1, <2>3, <3>2
  <2>4. CASE r # w[p].res
    <3>1. Storing(r)' = Storing(r)
      BY <2>2, <2>4 DEF Storing
    <3> QED
      BY <1>2, <1>3, <2>1, <2>4, <3>1
  <2> QED
    BY <2>3, <2>4
<1> QED
  BY <1>4, <1>5

(* No step stores what was not sent.                                       *)
LEMMA MailNext ==
    ASSUME IsFiniteSet(Worker), TicketInv, MailInv, [Next]_vars
    PROVE  MailInv'
<1> DEFINE quiet == /\ UNCHANGED mailVars
                    /\ \A x \in Worker : w'[x].pc = "store" => w[x].pc = "store" /\ w'[x].res = w[x].res
<1>1. quiet => MailInv'
  BY NoMailKeeps
<1>2. w \in [Worker -> WorkerState]
  BY DEF TicketInv, TypeOK
<1>3. CASE Booking \/ (\E g \in Gate : Door(g) \/ ScanFails(g)) \/ UNCHANGED vars
  <2>1. w' = w /\ UNCHANGED mailVars
    BY <1>3 DEF Booking, Door, Scan, MarkUsed, ScanFails, vars
  <2> QED
    BY <1>1, <2>1
<1>4. ASSUME NEW p \in Worker, Start(p) \/ LoadSeats(p) PROVE quiet
  <2>1. UNCHANGED mailVars
    BY <1>4 DEF Start, Take, LoadSeats
  <2>2. \A x \in Worker : x # p => w'[x] = w[x]
    BY <1>2, <1>4 DEF Start, Take, LoadSeats
  <2>3. w'[p].pc # "store"
    BY <1>2, <1>4 DEF Start, Take, LoadSeats, First, WorkerState
  <2> QED
    BY <2>1, <2>2, <2>3
<1>5. ASSUME NEW p \in Worker, NEW s \in SeatHold, CreateTicket(p, s) PROVE quiet
  <2>1. UNCHANGED mailVars /\ NextSeat(p, s)
    BY <1>5 DEF CreateTicket
  <2>2. \A x \in Worker : x # p => w'[x] = w[x]
    BY <1>2, <2>1 DEF NextSeat
  <2>3. w'[p].pc # "store"
    BY <1>2, <2>1 DEF NextSeat, WorkerState
  <2> QED
    BY <2>1, <2>2, <2>3
<1>6. ASSUME NEW p \in Worker,
             Finish(p) \/ CallFails(p) \/ \E s \in SeatHold : DuplicateTicket(p, s)
      PROVE  quiet
  <2>1. UNCHANGED mailVars
    BY <1>6 DEF Finish, CallFails, DuplicateTicket
  <2>2. w' = [w EXCEPT ![p] = IdleWorker]
    BY <1>6 DEF Finish, CallFails, DuplicateTicket, Throw, Leave
  <2> QED
    BY <1>2, <2>1, <2>2 DEF IdleWorker
<1>7. ASSUME NEW q \in Queue, NEW r \in Res, Stall(q, r) PROVE quiet
  <2>1. UNCHANGED mailVars
    BY <1>7 DEF Stall
  <2>2. PICK k : w' = w \/ w' = [w EXCEPT ![k] = IdleWorker]
    BY <1>7 DEF Stall
  <2> QED
    BY <1>2, <2>1, <2>2 DEF IdleWorker
<1>8. ASSUME NEW p \in Worker, SendMail(p) \/ StoreNotification(p) PROVE MailInv'
  BY <1>8, MailCounts
<1> HIDE DEF quiet
<1> QED
  BY <1>1, <1>3, <1>4, <1>5, <1>6, <1>7, <1>8 DEF Next, Work, Failure

(* Nothing is stored as SENT that was not sent, however often the job is   *)
(* repeated or run twice (notifications.worker.ts).                        *)
THEOREM StoredIsSent ==
    ASSUME IsFiniteSet(Worker)
    PROVE  Spec => []StoredMeansSent
<1>1. Init => MailInv
  <2> SUFFICES ASSUME Init, NEW r \in Res PROVE notes[r] + Cardinality(Storing(r)) <= mails[r]
    BY DEF MailInv
  <2>1. Storing(r) = {}
    BY DEF Init, Storing, IdleWorker
  <2>2. Cardinality(Storing(r)) = 0
    BY <2>1, FS_EmptySet
  <2>3. notes[r] = 0 /\ mails[r] = 0
    BY DEF Init
  <2> QED
    BY <2>2, <2>3
<1>2. TicketInv /\ MailInv /\ [Next]_vars => MailInv'
  BY MailNext
<1>3. TicketInv /\ MailInv => StoredMeansSent
  <2> SUFFICES ASSUME TicketInv, MailInv, NEW r \in Res PROVE notes[r] <= mails[r]
    BY DEF StoredMeansSent
  <2>1. Storing(r) \subseteq Worker
    BY DEF Storing
  <2>2. Cardinality(Storing(r)) \in Nat
    BY <2>1, FS_Subset, FS_CardinalityType
  <2>3. notes[r] + Cardinality(Storing(r)) <= mails[r] /\ notes[r] \in Nat /\ mails[r] \in Nat
    BY DEF MailInv, TicketInv, TypeOK
  <2> QED
    BY <2>2, <2>3
<1> QED
  BY <1>1, <1>2, <1>3, FulfilmentCorrect, PTL DEF Spec
=============================================================================
