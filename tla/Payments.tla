------------------------------ MODULE Payments ------------------------------
(***************************************************************************)
(* Taking money and giving it back: the payment page of the browser        *)
(* (PaymentPage.tsx), the idempotency guard (idempotency.ts), the payments *)
(* service (payments.service.ts) with its circuit breaker, and the gateway *)
(* with its webhooks.  One action is what a handler does between two of    *)
(* its awaited calls.                                                      *)
(*                                                                         *)
(* The booking side is the abstract ReservationLifecycle, which Booking    *)
(* implements.  Payments hear nothing of it: reservation.cancelled has no  *)
(* consumer.                                                               *)
(***************************************************************************)
EXTENDS Naturals, Sequences, FiniteSets, Functions

CONSTANTS
    Res,                \* reservations
    Page,               \* open payment pages
    Http,               \* requests being served by one server process
    None,               \* stands for no reservation
    Price,              \* amountInCents of every reservation
    RefundAmounts,      \* amounts that refunds ask for; 0 stands for none
    FailureThreshold,   \* failures that open the breaker
    MaxSubmits,         \* bound on submissions
    MaxCharges,         \* bound on intents at the gateway
    MaxFailures         \* bound on rejected calls, lost answers and crashes

ASSUME NoneAssumption == None \notin Res
ASSUME HttpAssumption == IsFiniteSet(Http)
ASSUME PriceAssumption == Price \in Nat \ {0} /\ RefundAmounts \subseteq 0..Price
ASSUME FailureThresholdAssumption == FailureThreshold \in Nat \ {0}
ASSUME BoundsAssumption == MaxSubmits \in Nat /\ MaxCharges \in Nat /\ MaxFailures \in Nat

VARIABLES
    status, version, told,              \* the reservations
    circuit, failureCount, cooledDown,  \* the breaker
    page,                               \* the payment pages
    submits,                            \* submissions so far
    h,                                  \* the handlers
    idem,                               \* which idempotency:<key> say 'processing'
    row,                                \* the table payments, by reservation
    ledger,                             \* the intents at the gateway
    webhooks,                           \* what the gateway tells, again and again
    receipts,                           \* submissions that were answered 201
    failures

reservationVars == <<status, version, told>>
breakerVars == <<circuit, failureCount, cooledDown>>
pageVars == <<page, submits>>
gatewayVars == <<ledger, webhooks>>
vars == <<reservationVars, breakerVars, pageVars, h, idem, row, gatewayVars, receipts, failures>>

Lifecycle == INSTANCE ReservationLifecycle
Breaker == INSTANCE CircuitBreaker

-----------------------------------------------------------------------------
(* Submissions of the page are numbered, and so are their idempotency      *)
(* keys; 0 is no key, null in the table.  An intent is known by its place  *)
(* in the ledger; 0 is no intent.                                          *)
Key == 1..MaxSubmits
Charge == 1..MaxCharges

PaymentStatus == {"PENDING", "SUCCEEDED", "FAILED", "REFUNDED", "PARTIALLY_REFUNDED"}
IntentStatus == {"pending", "succeeded"}

NoRow == [charge |-> 0, key |-> 0, status |-> "none", refunded |-> 0]
OpenPage == [pc |-> "open", res |-> None, key |-> 0]
IdleHandler == [pc |-> "idle", op |-> "none", res |-> None, key |-> 0,
                charge |-> 0, intent |-> "none", amount |-> 0, back |-> 0]

Payment == [charge : Charge, key : Key \cup {0}, status : PaymentStatus, refunded : Nat]
Intent == [res : Res, key : Key \cup {0}, status : IntentStatus, refunded : 0..Price]

GuardPc == {"get", "set"}
ChargePc == {"get", "set", "gateway", "store"}
RefundPc == {"refunding", "record"}

HandlerState ==
    [pc : GuardPc, op : {"charge"}, res : Res, key : Key, charge : {0},
     intent : {"none"}, amount : {0}, back : {0}]
    \cup
    [pc : ChargePc \ GuardPc, op : {"charge"}, res : Res, key : Key \cup {0}, charge : Charge \cup {0},
     intent : IntentStatus \cup {"none"}, amount : {0}, back : {0}]
    \cup
    [pc : RefundPc, op : {"refund"}, res : Res, key : {0}, charge : Charge,
     intent : {"none"}, amount : RefundAmounts, back : 0..Price]
    \cup {IdleHandler}

TypeOK ==
    /\ Breaker!TypeOK
    /\ page \in [Page -> [pc : {"charging", "confirming", "left"}, res : Res, key : Key] \cup {OpenPage}]
    /\ submits \in 0..MaxSubmits
    /\ h \in [Http -> HandlerState]
    /\ idem \subseteq Key
    /\ row \in [Res -> Payment \cup {NoRow}]
    /\ ledger \in Seq(Intent) /\ Len(ledger) <= MaxCharges
    /\ webhooks \subseteq [charge : Charge, type : {"succeeded", "payment_failed"}]
    /\ receipts \subseteq Res \X (Key \cup {0})
    /\ failures \in 0..MaxFailures

Init ==
    /\ Lifecycle!Init
    /\ Breaker!Init
    /\ page = [p \in Page |-> OpenPage]
    /\ submits = 0
    /\ h = [x \in Http |-> IdleHandler]
    /\ idem = {}
    /\ row = [r \in Res |-> NoRow]
    /\ ledger = <<>>
    /\ webhooks = {}
    /\ receipts = {}
    /\ failures = 0

Goto(x, pc) == h' = [h EXCEPT ![x].pc = pc]
End(x) == h' = [h EXCEPT ![x] = IdleHandler]
Fail == failures < MaxFailures /\ failures' = failures + 1

-----------------------------------------------------------------------------
(* The payment page.  It knows the reservation from when it was opened and *)
(* does not look at its status again; every submission draws a new key.    *)

(* Bound: no request that might charge is accepted beyond MaxCharges.      *)
ChargesLeft ==
    Len(ledger) + Cardinality({x \in Http : h[x].pc \in {"get", "set", "gateway"}}) < MaxCharges

Accept(x, r, k) ==
    h' = [h EXCEPT ![x] = [IdleHandler EXCEPT !.pc = "get", !.op = "charge", !.res = r, !.key = k]]

Submit(p, r, x) ==
    /\ page[p].pc = "open"
    /\ status[r] # "NONE"
    /\ submits < MaxSubmits
    /\ ChargesLeft
    /\ h[x].pc = "idle"
    /\ submits' = submits + 1
    /\ page' = [page EXCEPT ![p] = [pc |-> "charging", res |-> r, key |-> submits']]
    /\ Accept(x, r, submits')
    /\ UNCHANGED <<reservationVars, breakerVars, idem, row, gatewayVars, receipts, failures>>

(* The request reaches the server once more, while the page still waits:   *)
(* before the first one has stored its key, or long after it has charged.  *)
Resend(p, x) ==
    /\ page[p].pc = "charging"
    /\ ChargesLeft
    /\ h[x].pc = "idle"
    /\ Accept(x, page[p].res, page[p].key)
    /\ UNCHANGED <<reservationVars, breakerVars, pageVars, idem, row, gatewayVars, receipts, failures>>

(* A charge is answered, which matters to the page that still waits for    *)
(* it: on success it goes on to the confirmation, on failure it shows the  *)
(* error and can be submitted again.                                       *)
Waits(p, x) == page[p].pc = "charging" /\ page[p].key = h[x].key

Receipt(x, paid) == IF paid THEN receipts \cup {<<h[x].res, h[x].key>>} ELSE receipts

(* Variant: the page confirms whatever the charge said. *)
ConfirmAnyway(x, paid) ==
    /\ End(x)
    /\ receipts' = Receipt(x, paid)
    /\ page' = [p \in Page |-> IF Waits(p, x) THEN [page[p] EXCEPT !.pc = "confirming"] ELSE page[p]]

(* Variant: an error leaves the page waiting. *)
ForgetSpinner(x, paid) ==
    /\ End(x)
    /\ receipts' = Receipt(x, paid)
    /\ page' = [p \in Page |->
                  IF Waits(p, x) /\ paid THEN [page[p] EXCEPT !.pc = "confirming"] ELSE page[p]]

Answer(x, paid) ==
    /\ End(x)
    /\ receipts' = Receipt(x, paid)
    /\ page' = [p \in Page |->
                  IF ~Waits(p, x) THEN page[p]
                  ELSE IF paid THEN [page[p] EXCEPT !.pc = "confirming"] ELSE OpenPage]

Reject(x) == Answer(x, FALSE)

(* After the charge the page asks for the confirmation.                    *)
PageConfirms(p) ==
    /\ page[p].pc = "confirming"
    /\ \/ /\ Lifecycle!Confirm(page[p].res)
          /\ page' = [page EXCEPT ![p].pc = "left"]
       \/ /\ status[page[p].res] # "PENDING"
          /\ page' = [page EXCEPT ![p] = OpenPage]
          /\ UNCHANGED reservationVars
    /\ UNCHANGED <<breakerVars, submits, h, idem, row, gatewayVars, receipts, failures>>

(* The page waits no longer, or the answer to its confirmation is lost.    *)
PageFails(p) ==
    /\ Fail
    /\ page[p].pc \in {"charging", "confirming"}
    /\ page' = [page EXCEPT ![p] = OpenPage]
    /\ \/ UNCHANGED reservationVars
       \/ page[p].pc = "confirming" /\ Lifecycle!Confirm(page[p].res)
    /\ UNCHANGED <<breakerVars, submits, h, idem, row, gatewayVars, receipts>>

(* What else becomes of reservations.                                      *)
Booking ==
    /\ \E r \in Res : \/ Lifecycle!Create(r) \/ Lifecycle!Expire(r)
                      \/ Lifecycle!CancelHold(r) \/ Lifecycle!CancelPaid(r)
    /\ UNCHANGED <<breakerVars, pageVars, h, idem, row, gatewayVars, receipts, failures>>

-----------------------------------------------------------------------------
(* circuitBreaker.execute: the call of the gateway goes out, or is refused *)
(* at once.                                                                *)
Enter(x, pc) ==
    \/ Breaker!Enter /\ Goto(x, pc) /\ UNCHANGED <<page, receipts>>
    \/ Breaker!Refuses /\ Reject(x) /\ UNCHANGED breakerVars

-----------------------------------------------------------------------------
(* idempotencyGuard.  Nothing ever stores a response under a key, so that  *)
(* a key that exists says 'processing'.  Keys are kept for a day, longer   *)
(* than anything here lasts.                                               *)

(* The header is optional: without it the guard returns at once, and the   *)
(* call of the gateway goes out, or is refused and changes nothing.  The   *)
(* page always sends one, so that this is another client of the API.       *)
ChargeWithoutKey(x, r) ==
    /\ h[x].pc = "idle"
    /\ status[r] # "NONE"
    /\ ChargesLeft
    /\ Breaker!Enter
    /\ h' = [h EXCEPT ![x] = [IdleHandler EXCEPT !.pc = "gateway", !.op = "charge", !.res = r]]
    /\ UNCHANGED <<reservationVars, pageVars, idem, row, gatewayVars, receipts, failures>>

GuardRefuses(x) ==
    /\ h[x].pc = "get"
    /\ h[x].key \in idem
    /\ Reject(x)
    /\ UNCHANGED <<reservationVars, breakerVars, submits, idem, row, gatewayVars, failures>>

(* Variant: a key that exists is let through as well. *)
GuardWaves(x) ==
    /\ h[x].pc = "get"
    /\ Goto(x, "set")
    /\ UNCHANGED <<reservationVars, breakerVars, pageVars, idem, row, gatewayVars, receipts, failures>>

GuardPasses(x) ==
    /\ h[x].pc = "get"
    /\ h[x].key \notin idem
    /\ Goto(x, "set")
    /\ UNCHANGED <<reservationVars, breakerVars, pageVars, idem, row, gatewayVars, receipts, failures>>

GuardStores(x) ==
    /\ h[x].pc = "set"
    /\ idem' = idem \cup {h[x].key}
    /\ Enter(x, "gateway")
    /\ UNCHANGED <<reservationVars, submits, row, gatewayVars, failures>>

-----------------------------------------------------------------------------
(* The gateway makes an intent, and takes the money at once or later.      *)
Tell(c, type) == [charge |-> c, type |-> type]

MakeIntent(x, s) ==
    /\ Len(ledger) < MaxCharges
    /\ ledger' = Append(ledger, [res |-> h[x].res, key |-> h[x].key, status |-> s, refunded |-> 0])
    /\ webhooks' = IF s = "succeeded" THEN webhooks \cup {Tell(Len(ledger'), "succeeded")} ELSE webhooks

IntentMade(x) ==
    /\ h[x].pc = "gateway"
    /\ \E s \in IntentStatus :
          /\ MakeIntent(x, s)
          /\ h' = [h EXCEPT ![x].pc = "store", ![x].charge = Len(ledger'), ![x].intent = s]
    /\ Breaker!OnSuccess
    /\ UNCHANGED <<reservationVars, pageVars, idem, row, receipts, failures>>

(* The call rejects, before or after the gateway did it.                   *)
GatewayThrows(x) ==
    /\ Fail
    /\ h[x].pc = "gateway"
    /\ Reject(x)
    /\ Breaker!OnFailure
    /\ UNCHANGED gatewayVars \/ \E s \in IntentStatus : MakeIntent(x, s)
    /\ UNCHANGED <<reservationVars, submits, idem, row>>

-----------------------------------------------------------------------------
(* charge, after the gateway: the row, then the verdict.                   *)

(* Variant: what the gateway calls the intent is stored as it is. *)
RawRow(x) == [charge |-> h[x].charge, key |-> h[x].key, refunded |-> 0, status |-> h[x].intent]

(* Variant: whoever gets this far has paid. *)
PaidRow(x) == [charge |-> h[x].charge, key |-> h[x].key, refunded |-> 0, status |-> "SUCCEEDED"]

NewRow(x) == [charge |-> h[x].charge, key |-> h[x].key, refunded |-> 0,
              status |-> IF h[x].intent = "succeeded" THEN "SUCCEEDED" ELSE "PENDING"]

(* Variant: payments are upserted by reservation. *)
AnyRow(x) == TRUE

(* reservation_id and idempotency_key are unique, but nulls are not equal. *)
RowIsUnique(x) ==
    /\ row[h[x].res] = NoRow
    /\ h[x].key # 0 => \A r \in Res : row[r].key # h[x].key

(* Variant: only an intent that has succeeded is stored. *)
StoreSucceeded(x) ==
    /\ h[x].pc = "store"
    /\ RowIsUnique(x)
    /\ row' = IF h[x].intent = "succeeded" THEN [row EXCEPT ![h[x].res] = NewRow(x)] ELSE row
    /\ Answer(x, h[x].intent = "succeeded")
    /\ UNCHANGED <<reservationVars, breakerVars, submits, idem, gatewayVars, failures>>

Store(x) ==
    /\ h[x].pc = "store"
    /\ RowIsUnique(x)
    /\ row' = [row EXCEPT ![h[x].res] = NewRow(x)]
    /\ Answer(x, h[x].intent = "succeeded")
    /\ UNCHANGED <<reservationVars, breakerVars, submits, idem, gatewayVars, failures>>

StoreRefused(x) ==
    /\ h[x].pc = "store"
    /\ ~RowIsUnique(x)
    /\ Reject(x)
    /\ UNCHANGED <<reservationVars, breakerVars, submits, idem, row, gatewayVars, failures>>

-----------------------------------------------------------------------------
(* refund.  An amount of 0 stands for none: everything that is left.  A    *)
(* request that finds no payment, or the breaker open, changes nothing.    *)

Refund(x, r, a) ==
    /\ h[x].pc = "idle"
    /\ row[r] # NoRow
    /\ Breaker!Enter
    /\ h' = [h EXCEPT ![x] = [IdleHandler EXCEPT !.pc = "refunding", !.op = "refund", !.res = r,
                                                 !.charge = row[r].charge, !.amount = a]]
    /\ UNCHANGED <<reservationVars, pageVars, idem, row, gatewayVars, receipts, failures>>

Left(c) == Price - ledger[c].refunded

(* What the gateway would pay back: never more than is left.               *)
Payable(x) == IF h[x].amount = 0 THEN Left(h[x].charge) ELSE h[x].amount

PayBack(x) ==
    /\ ledger[h[x].charge].status = "succeeded"
    /\ Payable(x) \in 1..Left(h[x].charge)
    /\ ledger' = [ledger EXCEPT ![h[x].charge].refunded = @ + Payable(x)]
    /\ UNCHANGED webhooks

GatewayRefunds(x) ==
    /\ h[x].pc = "refunding"
    /\ PayBack(x)
    /\ h' = [h EXCEPT ![x].pc = "record", ![x].back = Payable(x)]
    /\ Breaker!OnSuccess
    /\ UNCHANGED <<reservationVars, pageVars, idem, row, receipts, failures>>

(* The adapter turns every rejection into an answer without success, which *)
(* the breaker counts as a success.                                        *)
GatewayDeclines(x) ==
    /\ h[x].pc = "refunding"
    /\ End(x)
    /\ Breaker!OnSuccess
    /\ UNCHANGED <<reservationVars, pageVars, idem, row, gatewayVars, receipts, failures>>

(* The money goes back but the adapter says it failed: the answer was lost *)
(* or Stripe's status was pending.                                         *)
RefundAnswerLost(x) ==
    /\ Fail
    /\ h[x].pc = "refunding"
    /\ PayBack(x)
    /\ End(x)
    /\ Breaker!OnSuccess
    /\ UNCHANGED <<reservationVars, pageVars, idem, row, receipts>>

RefundedStatus(x) == IF h[x].amount = 0 THEN "REFUNDED" ELSE "PARTIALLY_REFUNDED"

(* Variant: the amount is overwritten, not incremented. *)
AmountOverwritten(x) ==
    [row EXCEPT ![h[x].res].status = RefundedStatus(x), ![h[x].res].refunded = h[x].back]

Recorded(x) ==
    [row EXCEPT ![h[x].res].status = RefundedStatus(x), ![h[x].res].refunded = @ + h[x].back]

RecordRefund(x) ==
    /\ h[x].pc = "record"
    /\ row' = Recorded(x)
    /\ End(x)
    /\ UNCHANGED <<reservationVars, breakerVars, pageVars, idem, gatewayVars, receipts, failures>>

-----------------------------------------------------------------------------
(* The gateway by itself, and handleWebhook.                               *)

(* A pending intent is paid in the end, perhaps after an attempt that      *)
(* failed.                                                                 *)
GatewaySettles(c) ==
    /\ ledger[c].status = "pending"
    /\ \/ /\ ledger' = [ledger EXCEPT ![c].status = "succeeded"]
          /\ webhooks' = webhooks \cup {Tell(c, "succeeded")}
       \/ /\ webhooks' = webhooks \cup {Tell(c, "payment_failed")}
          /\ UNCHANGED ledger
    /\ UNCHANGED <<reservationVars, breakerVars, pageVars, h, idem, row, receipts, failures>>

(* updateMany: no matter what the status was, and no row is no error.      *)
HandleWebhook(e) ==
    /\ row' = [r \in Res |->
                 IF row[r].charge = e.charge
                 THEN [row[r] EXCEPT !.status = IF e.type = "succeeded" THEN "SUCCEEDED" ELSE "FAILED"]
                 ELSE row[r]]
    /\ UNCHANGED <<reservationVars, breakerVars, pageVars, h, idem, gatewayVars, receipts, failures>>

-----------------------------------------------------------------------------
(* Failures.                                                               *)

(* An awaited call of PostgreSQL or Redis rejects, before or after it had  *)
(* its effect.                                                             *)
CallFails(x) ==
    /\ Fail
    /\ h[x].pc \in {"get", "set", "store", "record"}
    /\ Reject(x)
    /\ \/ UNCHANGED <<idem, row>>
       \/ h[x].pc = "set" /\ idem' = idem \cup {h[x].key} /\ UNCHANGED row
       \/ h[x].pc = "store" /\ RowIsUnique(x) /\ row' = [row EXCEPT ![h[x].res] = NewRow(x)] /\ UNCHANGED idem
       \/ h[x].pc = "record" /\ row' = Recorded(x) /\ UNCHANGED idem
    /\ UNCHANGED <<reservationVars, breakerVars, submits, gatewayVars>>

(* The server process dies; pages that waited for it show an error.        *)
Crash ==
    /\ Fail
    /\ h' = [x \in Http |-> IdleHandler]
    /\ page' = [p \in Page |-> IF page[p].pc = "charging" THEN OpenPage ELSE page[p]]
    /\ Breaker!Restart
    /\ UNCHANGED <<reservationVars, submits, idem, row, gatewayVars, receipts>>

CooldownPasses ==
    /\ Breaker!CooldownPasses
    /\ UNCHANGED <<reservationVars, pageVars, h, idem, row, gatewayVars, receipts, failures>>

-----------------------------------------------------------------------------
Request(x) ==
    \/ \E p \in Page : Resend(p, x) \/ \E r \in Res : Submit(p, r, x)
    \/ \E r \in Res : ChargeWithoutKey(x, r) \/ \E a \in RefundAmounts : Refund(x, r, a)

Serve(x) ==
    \/ GuardRefuses(x) \/ GuardPasses(x) \/ GuardStores(x)
    \/ IntentMade(x) \/ Store(x) \/ StoreRefused(x)
    \/ GatewayRefunds(x) \/ GatewayDeclines(x) \/ RecordRefund(x)

Failure ==
    \/ \E p \in Page : PageFails(p)
    \/ \E x \in Http : GatewayThrows(x) \/ RefundAnswerLost(x) \/ CallFails(x)
    \/ Crash

Next ==
    \/ Booking
    \/ \E x \in Http : Request(x) \/ Serve(x)
    \/ \E p \in Page : PageConfirms(p)
    \/ \E c \in 1..Len(ledger) : GatewaySettles(c)
    \/ \E e \in webhooks : HandleWebhook(e)
    \/ CooldownPasses
    \/ Failure

Spec == Init /\ [][Next]_vars

(* A request that was accepted is served: every call of it is answered or  *)
(* rejected in the end.  Nobody has to book, to pay or to ask for money,   *)
(* and the gateway need not settle or tell anything.                       *)
Fairness ==
    /\ \A x \in Http : WF_vars(Serve(x))
    /\ \A p \in Page : WF_vars(PageConfirms(p))

FairSpec == Spec /\ Fairness

-----------------------------------------------------------------------------
(* Properties.                                                             *)

(* A submission that was answered as paid has the row of its reservation,  *)
(* and the gateway has taken the money for it: of pages that pay the same  *)
(* reservation at the same time at most one is told so (charge, the unique *)
(* columns of payments).                                                   *)
ReceiptsAreBacked ==
    \A r \in Res, k \in Key \cup {0} : <<r, k>> \in receipts =>
        /\ row[r] # NoRow
        /\ row[r].key = k
        /\ ledger[row[r].charge].res = r
        /\ ledger[row[r].charge].status = "succeeded"

(* The page confirms nothing that was not paid, whatever answers overtake  *)
(* each other: a confirmed reservation has a receipt (PaymentPage.tsx; the *)
(* endpoint itself does not look).                                         *)
ConfirmedIsPaid ==
    \A r \in Res : Lifecycle!WasConfirmed(r) => \E k \in Key : <<r, k>> \in receipts

(* The guard against a second charge, as far as it reaches, whatever fails *)
(* or is repeated in between: under a key money is taken only once it is   *)
(* stored; from then on only requests that had looked for it before go on, *)
(* none joins them, and each takes money once (idempotencyGuard).  A       *)
(* repeat that comes after the key was stored never charges.               *)
Made(k) == {c \in DOMAIN ledger : ledger[c].key = k}
Trying(k) == {x \in Http : h[x].key = k /\ h[x].pc \in {"set", "gateway"}}

StoredKeysAreSpent ==
    [][\A k \in Key :
           /\ Made(k)' # Made(k) => k \in idem /\ Trying(k)' # Trying(k)
           /\ k \in idem => k \in idem' /\ Trying(k)' \subseteq Trying(k)]_vars

(* The gateway has an intent that the table does not know only while it is *)
(* being stored, after a failure, or because the reservation had been      *)
(* charged before (charge: the gateway first, then the row).               *)
NoLostIntent ==
    \A c \in DOMAIN ledger :
        \/ row[ledger[c].res].charge = c
        \/ \E x \in Http : h[x].pc = "store" /\ h[x].charge = c
        \/ failures > 0
        \/ row[ledger[c].res] # NoRow

(* Refunds that overlap do not overwrite each other: what the table says   *)
(* was paid back is what the gateway paid back, except for answers that    *)
(* are still to be recorded or were lost (refund: increment).              *)
Unrecorded(c) ==
    SumFunction([x \in Http |-> IF h[x].pc = "record" /\ h[x].charge = c THEN h[x].back ELSE 0])

RefundsAddUp ==
    \A r \in Res : row[r] # NoRow =>
        LET known == row[r].refunded + Unrecorded(row[r].charge)
        IN  /\ known <= ledger[row[r].charge].refunded
            /\ failures = 0 => known = ledger[row[r].charge].refunded

(* Money that the table calls received or paid back was received: no late  *)
(* or repeated webhook and no refund says so of an intent that was not     *)
(* paid (charge, refund, handleWebhook).                                   *)
PaidMeansCharged ==
    \A r \in Res :
        row[r].status \in {"SUCCEEDED", "REFUNDED", "PARTIALLY_REFUNDED"} =>
            ledger[row[r].charge].status = "succeeded"

(* A payment is never replaced by another one, and what it says was paid   *)
(* back never shrinks.                                                     *)
RecordsOnlyGrow ==
    [][\A r \in Res : row[r] # NoRow =>
           /\ row'[r].charge = row[r].charge /\ row'[r].key = row[r].key
           /\ row'[r].refunded >= row[r].refunded]_vars

(* The breaker is closed exactly while fewer than the threshold of calls   *)
(* have failed since the last one that succeeded, in whatever order and    *)
(* state calls that overlap end.  Whom it lets pass while it is half open  *)
(* is another matter: everybody (circuit-breaker.ts, execute).             *)
ClosedMeansFewFailures == Breaker!ClosedMeansFewFailures

(* Every page stops spinning: its submission ends in an answer or an       *)
(* error, also when the breaker refuses it or the request came twice.      *)
PagesEnd ==
    \A p \in Page : []<>(page[p].pc \notin {"charging", "confirming"})

-----------------------------------------------------------------------------
(* An expectation of the documentation that the code does not meet.        *)

(* One Idempotency-Key makes at most one intent: two requests with the     *)
(* same key do not both take money (idempotency.ts, payments.service.ts).  *)
KeyChargesOnce ==
    \A c, d \in DOMAIN ledger : ledger[c].key = ledger[d].key /\ ledger[c].key # 0 => c = d
=============================================================================
