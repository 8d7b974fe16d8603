--------------------------- MODULE PaymentsProofs ---------------------------
(***************************************************************************)
(* Payments, for any number of reservations, pages and requests, any       *)
(* prices and thresholds, and requests that come twice or without a key.   *)
(***************************************************************************)
EXTENDS Payments, FoldLemmas

Assumptions ==
    /\ None \notin Res
    /\ Price \in Nat \ {0} /\ RefundAmounts \subseteq 0..Price
    /\ FailureThreshold \in Nat \ {0}
    /\ MaxSubmits \in Nat /\ MaxCharges \in Nat /\ MaxFailures \in Nat

LEMMA AssumptionsHold == Assumptions
BY NoneAssumption, PriceAssumption, FailureThresholdAssumption, BoundsAssumption
   DEF Assumptions

-----------------------------------------------------------------------------
(* Types.                                                                  *)

ChargeHandler ==
    [pc : ChargePc, op : {"charge"}, res : Res, key : Key \cup {0}, charge : Charge \cup {0},
     intent : IntentStatus \cup {"none"}, amount : {0}, back : {0}]
GuardHandler ==
    [pc : GuardPc, op : {"charge"}, res : Res, key : Key, charge : {0},
     intent : {"none"}, amount : {0}, back : {0}]
RefundHandler ==
    [pc : RefundPc, op : {"refund"}, res : Res, key : {0}, charge : Charge,
     intent : {"none"}, amount : RefundAmounts, back : 0..Price]
BusyPage == [pc : {"charging", "confirming", "left"}, res : Res, key : Key]

(* The step that a handler is at says what kind of handler it is.          *)
LEMMA HandlerKinds ==
    ASSUME TypeOK, NEW x \in Http
    PROVE  /\ h[x].pc \in ChargePc => h[x] \in ChargeHandler
           /\ h[x].pc \in RefundPc => h[x] \in RefundHandler
           /\ h[x].pc = "idle" => h[x] = IdleHandler
           /\ h[x].pc \in ChargePc \cup RefundPc \cup {"idle"}
           /\ h[x].pc \in GuardPc => h[x] \in GuardHandler
           /\ h[x].key # 0 => h[x] \in ChargeHandler
BY DEF TypeOK, HandlerState, ChargeHandler, GuardHandler, RefundHandler, GuardPc, ChargePc, RefundPc, IdleHandler, Key

LEMMA PageKinds ==
    ASSUME TypeOK, NEW p \in Page
    PROVE  /\ page[p].pc # "open" => page[p] \in BusyPage
           /\ page[p].pc = "open" => page[p] = OpenPage
BY DEF TypeOK, BusyPage, OpenPage

(* An answer ends the handler; pages that waited open or confirm.          *)
LEMMA AnswerType ==
    ASSUME TypeOK, NEW x \in Http, NEW paid \in BOOLEAN, Answer(x, paid), h[x].pc \in ChargePc \/ ~paid
    PROVE  /\ h' \in [Http -> HandlerState]
           /\ page' \in [Page -> BusyPage \cup {OpenPage}]
           /\ receipts' \subseteq Res \X (Key \cup {0})
<1>1. h' \in [Http -> HandlerState]
    BY DEF Answer, End, TypeOK, HandlerState
<1>2. ASSUME NEW p \in Page PROVE page'[p] \in BusyPage \cup {OpenPage}
    <2>1. page'[p] = IF ~Waits(p, x) THEN page[p]
                     ELSE IF paid THEN [page[p] EXCEPT !.pc = "confirming"] ELSE OpenPage
        BY DEF Answer
    <2>2. page[p] \in BusyPage \cup {OpenPage}
        BY PageKinds
    <2>3. Waits(p, x) => page[p] \in BusyPage /\ [page[p] EXCEPT !.pc = "confirming"] \in BusyPage
        BY PageKinds DEF Waits, BusyPage
    <2> QED BY <2>1, <2>2, <2>3
<1>3. page' \in [Page -> BusyPage \cup {OpenPage}]
    BY <1>2 DEF Answer
<1>4. receipts' \subseteq Res \X (Key \cup {0})
    <2>1. paid => h[x] \in ChargeHandler
        BY HandlerKinds
    <2> QED BY <2>1 DEF Answer, Receipt, TypeOK, ChargeHandler
<1> QED BY <1>1, <1>3, <1>4

LEMMA MakeIntentType ==
    ASSUME TypeOK, NEW x \in Http, h[x].pc = "gateway", NEW s \in IntentStatus, MakeIntent(x, s)
    PROVE  /\ ledger' \in Seq(Intent) /\ Len(ledger') <= MaxCharges
           /\ Len(ledger') = Len(ledger) + 1
           /\ Len(ledger') \in Charge
           /\ webhooks' \subseteq [charge : Charge, type : {"succeeded", "payment_failed"}]
<1> DEFINE new == [res |-> h[x].res, key |-> h[x].key, status |-> s, refunded |-> 0]
<1>1. new \in Intent
    BY HandlerKinds, AssumptionsHold DEF Assumptions, ChargeHandler, ChargePc, Intent
<1>2. ledger \in Seq(Intent) /\ Len(ledger) \in Nat /\ Len(ledger) < MaxCharges /\ ledger' = Append(ledger, new)
    BY DEF MakeIntent, TypeOK
<1>3. ledger' \in Seq(Intent) /\ Len(ledger') = Len(ledger) + 1
    BY <1>1, <1>2
<1>4. Len(ledger') \in Charge
    BY <1>2, <1>3, AssumptionsHold DEF Assumptions, Charge
<1>5. webhooks' \subseteq [charge : Charge, type : {"succeeded", "payment_failed"}]
    BY <1>4 DEF MakeIntent, Tell, TypeOK
<1> QED BY <1>2, <1>3, <1>4, <1>5, AssumptionsHold DEF Assumptions

(* The records of reservations and of the breaker.                         *)
LifecycleOK ==
    /\ status \in [Res -> {"NONE", "PENDING", "CONFIRMED", "EXPIRED", "CANCELLED"}]
    /\ version \in [Res -> 0..3]
    /\ \A r \in Res :
          /\ status[r] = "NONE" => version[r] = 0
          /\ status[r] = "PENDING" => version[r] = 1
          /\ status[r] \in {"CONFIRMED", "EXPIRED"} => version[r] = 2
          /\ status[r] = "CANCELLED" => version[r] \in {2, 3}

Moved ==
    \/ UNCHANGED reservationVars
    \/ \E r \in Res :
          \/ Lifecycle!Create(r) \/ Lifecycle!Confirm(r) \/ Lifecycle!Expire(r)
          \/ Lifecycle!CancelHold(r) \/ Lifecycle!CancelPaid(r)

LEMMA LifecycleKeeps == LifecycleOK /\ Moved => LifecycleOK'
<1> SUFFICES ASSUME LifecycleOK, Moved PROVE LifecycleOK'
    OBVIOUS
<1> USE DEF LifecycleOK, Lifecycle!Move
<1>1. CASE UNCHANGED reservationVars
    BY <1>1 DEF reservationVars
<1>2. ASSUME NEW r \in Res, Lifecycle!Create(r) PROVE LifecycleOK'
    BY <1>2 DEF Lifecycle!Create
<1>3. ASSUME NEW r \in Res, Lifecycle!Confirm(r) PROVE LifecycleOK'
    BY <1>3 DEF Lifecycle!Confirm
<1>4. ASSUME NEW r \in Res, Lifecycle!Expire(r) PROVE LifecycleOK'
    BY <1>4 DEF Lifecycle!Expire
<1>5. ASSUME NEW r \in Res, Lifecycle!CancelHold(r) PROVE LifecycleOK'
    BY <1>5 DEF Lifecycle!CancelHold
<1>6. ASSUME NEW r \in Res, Lifecycle!CancelPaid(r) PROVE LifecycleOK'
    BY <1>6 DEF Lifecycle!CancelPaid
<1> QED BY <1>1, <1>2, <1>3, <1>4, <1>5, <1>6 DEF Moved

BreakerOK == Breaker!TypeOK /\ Breaker!ClosedMeansFewFailures

Decided ==
    \/ UNCHANGED breakerVars
    \/ Breaker!Enter \/ Breaker!OnSuccess \/ Breaker!OnFailure
    \/ Breaker!CooldownPasses \/ Breaker!Restart

LEMMA BreakerKeeps == BreakerOK /\ Decided => BreakerOK'
<1> SUFFICES ASSUME BreakerOK, Decided PROVE BreakerOK'
    OBVIOUS
<1> USE AssumptionsHold
        DEF Assumptions, BreakerOK, Breaker!TypeOK, Breaker!ClosedMeansFewFailures, Breaker!CircuitState
<1>1. CASE UNCHANGED breakerVars
    BY <1>1 DEF breakerVars
<1>2. CASE Breaker!Enter
    BY <1>2 DEF Breaker!Enter, Breaker!Refuses
<1>3. CASE Breaker!OnSuccess
    BY <1>3 DEF Breaker!OnSuccess
<1>4. CASE Breaker!OnFailure
    <2>1. FailureThreshold \in Nat \ {0} /\ failureCount \in Nat /\ failureCount' = failureCount + 1
        BY <1>4 DEF Breaker!OnFailure
    <2>2. cooledDown' = FALSE /\ circuit' = IF failureCount' >= FailureThreshold \/ circuit = "HALF_OPEN"
                                            THEN "OPEN" ELSE circuit
        BY <1>4 DEF Breaker!OnFailure
    <2>3. circuit \in Breaker!CircuitState /\ (circuit = "CLOSED" <=> failureCount < FailureThreshold)
        OBVIOUS
    <2>4. circuit' \in Breaker!CircuitState /\ (circuit' = "CLOSED" <=> failureCount' < FailureThreshold)
        BY <2>1, <2>2, <2>3
    <2>5. failureCount' \in Nat
        BY <2>1
    <2>6. cooledDown' \in BOOLEAN
        BY <2>2, Zenon
    <2>7. Breaker!TypeOK' /\ Breaker!ClosedMeansFewFailures'
        BY <2>4, <2>5, <2>6, Zenon
    <2> QED BY <2>7, Zenon
<1>5. CASE Breaker!CooldownPasses
    BY <1>5 DEF Breaker!CooldownPasses
<1>6. CASE Breaker!Restart
    BY <1>6 DEF Breaker!Restart
<1> QED BY <1>1, <1>2, <1>3, <1>4, <1>5, <1>6 DEF Decided

-----------------------------------------------------------------------------
(* The records agree with the ledger of the gateway.                       *)

Entry(c, r, k) == c \in DOMAIN ledger /\ ledger[c].res = r /\ ledger[c].key = k
Paid(c) == ledger[c].status = "succeeded"
PaidStatus == {"SUCCEEDED", "REFUNDED", "PARTIALLY_REFUNDED"}

RowInv(r) ==
    row[r] # NoRow =>
        /\ Entry(row[r].charge, r, row[r].key)
        /\ row[r].status \in PaidStatus => Paid(row[r].charge)

HandlerInv(x) ==
    /\ h[x].pc = "store" => /\ Entry(h[x].charge, h[x].res, h[x].key)
                            /\ h[x].intent = "succeeded" => Paid(h[x].charge)
    /\ h[x].pc \in RefundPc => row[h[x].res] # NoRow /\ row[h[x].res].charge = h[x].charge
    /\ h[x].pc = "record" => Paid(h[x].charge)

HookInv(e) == e.charge \in DOMAIN ledger /\ (e.type = "succeeded" => Paid(e.charge))

RecordInv ==
    /\ TypeOK /\ LifecycleOK /\ BreakerOK
    /\ \A r \in Res : RowInv(r)
    /\ \A x \in Http : HandlerInv(x)
    /\ \A e \in webhooks : HookInv(e)

LEMMA RecordsStart == Init => RecordInv
<1> SUFFICES ASSUME Init PROVE RecordInv
    OBVIOUS
<1>1. LifecycleOK
    BY DEF Init, Lifecycle!Init, LifecycleOK
<1>2. BreakerOK
    BY AssumptionsHold DEF Assumptions, Init, Breaker!Init, BreakerOK, Breaker!TypeOK,
        Breaker!CircuitState, Breaker!ClosedMeansFewFailures
<1>3. TypeOK
    BY <1>2, AssumptionsHold DEF Assumptions, Init, BreakerOK, TypeOK, HandlerState
<1>4. /\ \A r \in Res : RowInv(r)
      /\ \A x \in Http : HandlerInv(x)
      /\ \A e \in webhooks : HookInv(e)
    BY DEF Init, RowInv, HandlerInv, RefundPc, IdleHandler
<1> QED BY <1>1, <1>2, <1>3, <1>4 DEF RecordInv

(* What the gateway knows it never forgets, and what was paid stays paid.  *)
Grows ==
    \A c \in DOMAIN ledger :
        /\ c \in DOMAIN ledger'
        /\ ledger'[c].res = ledger[c].res /\ ledger'[c].key = ledger[c].key
        /\ Paid(c) => Paid(c)'

LedgerOK ==
    /\ ledger \in Seq(Intent) /\ Len(ledger) <= MaxCharges
    /\ webhooks \subseteq [charge : Charge, type : {"succeeded", "payment_failed"}]

(* A new intent comes after all others, and what is told of it is so.      *)
LEMMA MakeIntentKeeps ==
    ASSUME RecordInv, NEW x \in Http, h[x].pc = "gateway", NEW s \in IntentStatus, MakeIntent(x, s)
    PROVE  /\ LedgerOK' /\ Grows
           /\ Len(ledger') \in Charge /\ Len(ledger') \in DOMAIN ledger'
           /\ ledger'[Len(ledger')] = [res |-> h[x].res, key |-> h[x].key, status |-> s, refunded |-> 0]
           /\ \A e \in webhooks' : HookInv(e)'
<1>1. /\ LedgerOK' /\ Len(ledger') = Len(ledger) + 1 /\ Len(ledger') \in Charge
    BY MakeIntentType DEF RecordInv, LedgerOK
<1> DEFINE new == [res |-> h[x].res, key |-> h[x].key, status |-> s, refunded |-> 0]
<1>2. ledger \in Seq(Intent) /\ ledger' \in Seq(Intent) /\ ledger' = Append(ledger, new)
    BY <1>1 DEF MakeIntent, RecordInv, TypeOK, LedgerOK
<1>3. new \in Intent
    BY HandlerKinds, AssumptionsHold DEF Assumptions, RecordInv, ChargeHandler, ChargePc, Intent
<1>4. /\ \A c \in DOMAIN ledger : c \in DOMAIN ledger' /\ ledger'[c] = ledger[c]
      /\ Len(ledger') \in DOMAIN ledger' /\ ledger'[Len(ledger')] = new
    BY <1>1, <1>2, <1>3
<1>5. Grows
    BY <1>4 DEF Grows, Paid
<1>6. ASSUME NEW e \in webhooks' PROVE HookInv(e)'
    <2>1. CASE e \in webhooks
        BY <2>1, <1>4 DEF HookInv, Paid, RecordInv
    <2>2. CASE e \notin webhooks
        <3>1. s = "succeeded" /\ e.charge = Len(ledger')
            BY <1>6, <2>2 DEF MakeIntent, Tell
        <3> QED BY <3>1, <1>4 DEF HookInv, Paid
    <2> QED BY <2>1, <2>2
<1> QED BY <1>1, <1>4, <1>5, <1>6

(* Money that goes back changes nothing but the sum that is left.          *)
LEMMA PayBackKeeps ==
    ASSUME RecordInv, NEW x \in Http, h[x].pc = "refunding", PayBack(x)
    PROVE  /\ LedgerOK' /\ Grows
           /\ Payable(x) \in 0..Price
           /\ h[x].charge \in DOMAIN ledger /\ Paid(h[x].charge)
           /\ \A e \in webhooks' : HookInv(e)'
<1> DEFINE c == h[x].charge
<1>1. h[x] \in RefundHandler
    BY HandlerKinds DEF RecordInv, RefundPc
<1>2. c \in DOMAIN ledger
    BY <1>1 DEF RecordInv, HandlerInv, RowInv, Entry, RefundPc, RefundHandler
<1>3. ledger \in Seq(Intent) /\ Len(ledger) <= MaxCharges
    BY DEF RecordInv, TypeOK
<1>4. ledger[c] \in Intent
    BY <1>2, <1>3
<1>5. Price \in Nat /\ ledger[c].refunded \in 0..Price
    BY <1>4, AssumptionsHold DEF Intent, Assumptions
<1>6. Payable(x) \in 1..(Price - ledger[c].refunded)
    BY DEF PayBack, Left
<1>7. Payable(x) \in 0..Price /\ ledger[c].refunded + Payable(x) \in 0..Price
    BY <1>5, <1>6
<1> DEFINE paid == [ledger[c] EXCEPT !.refunded = @ + Payable(x)]
<1>8. ledger' = [ledger EXCEPT ![c] = paid] /\ webhooks' = webhooks
    BY DEF PayBack
<1>9. paid \in Intent /\ paid.res = ledger[c].res /\ paid.key = ledger[c].key /\ paid.status = ledger[c].status
    BY <1>4, <1>7 DEF Intent
<1>10. ledger' \in Seq(Intent) /\ Len(ledger') = Len(ledger) /\ DOMAIN ledger' = DOMAIN ledger
    <2> HIDE DEF c, paid
    <2>1. Len(ledger) \in Nat
        BY <1>3
    <2> QED BY <1>2, <1>3, <1>8, <1>9, <2>1
<1>11. \A d \in DOMAIN ledger : ledger'[d] = IF d = c THEN paid ELSE ledger[d]
    <2> HIDE DEF c, paid
    <2> QED BY <1>8
<1>12. Grows
    <2> HIDE DEF c, paid
    <2> QED BY <1>9, <1>10, <1>11 DEF Grows, Paid
<1>13. \A e \in webhooks' : HookInv(e)'
    BY <1>8, <1>10, <1>12 DEF HookInv, Grows, Paid, RecordInv
<1>14. LedgerOK'
    BY <1>3, <1>8, <1>10 DEF LedgerOK, RecordInv, TypeOK
<1>15. Paid(c)
    BY DEF PayBack, Paid
<1> QED BY <1>2, <1>7, <1>12, <1>13, <1>14, <1>15

(* What the gateway does by itself.                                        *)
LEMMA SettleKeeps ==
    ASSUME RecordInv, NEW c \in 1..Len(ledger), GatewaySettles(c)
    PROVE  LedgerOK' /\ Grows /\ \A e \in webhooks' : HookInv(e)'
<1>1. ledger \in Seq(Intent) /\ Len(ledger) <= MaxCharges /\ Len(ledger) \in Nat /\ MaxCharges \in Nat
    BY AssumptionsHold DEF RecordInv, TypeOK, Assumptions
<1>2. c \in DOMAIN ledger /\ ledger[c] \in Intent /\ c \in Charge
    BY <1>1 DEF Charge
<1>3. webhooks' \subseteq [charge : Charge, type : {"succeeded", "payment_failed"}]
    BY <1>2 DEF GatewaySettles, Tell, RecordInv, TypeOK
<1>4. CASE UNCHANGED ledger /\ webhooks' = webhooks \cup {Tell(c, "payment_failed")}
    BY <1>1, <1>2, <1>3, <1>4 DEF LedgerOK, Grows, Paid, HookInv, Tell, RecordInv
<1>5. CASE /\ ledger' = [ledger EXCEPT ![c].status = "succeeded"]
           /\ webhooks' = webhooks \cup {Tell(c, "succeeded")}
    <2> DEFINE paid == [ledger[c] EXCEPT !.status = "succeeded"]
    <2>1. paid \in Intent /\ paid.res = ledger[c].res /\ paid.key = ledger[c].key /\ paid.status = "succeeded"
        BY <1>2 DEF Intent, IntentStatus
    <2>2. ledger' = [ledger EXCEPT ![c] = paid]
        BY <1>5
    <2> HIDE DEF paid
    <2>3. ledger' \in Seq(Intent) /\ Len(ledger') = Len(ledger) /\ DOMAIN ledger' = DOMAIN ledger
        BY <1>1, <1>2, <2>1, <2>2
    <2>4. \A d \in DOMAIN ledger : ledger'[d] = IF d = c THEN paid ELSE ledger[d]
        BY <2>2
    <2>5. Grows
        BY <2>1, <2>3, <2>4 DEF Grows, Paid
    <2>6. \A e \in webhooks' : HookInv(e)'
        BY <1>2, <1>5, <2>1, <2>3, <2>4 DEF HookInv, Paid, Tell, RecordInv
    <2> QED BY <1>1, <1>3, <2>3, <2>5, <2>6 DEF LedgerOK
<1> QED BY <1>4, <1>5 DEF GatewaySettles

(* Rows are never replaced, and what they say was paid back only grows.    *)
RowKeeps ==
    \A r \in Res : row[r] # NoRow =>
        /\ row'[r] # NoRow
        /\ row'[r].charge = row[r].charge /\ row'[r].key = row[r].key
        /\ row'[r].refunded >= row[r].refunded

RowsOK == row \in [Res -> Payment \cup {NoRow}]

(* What a step does to each part, if the whole stays right.                *)
LedgerStep == LedgerOK' /\ Grows /\ \A e \in webhooks' : HookInv(e)'
RowStep == RowsOK' /\ RowKeeps /\ \A r \in Res : RowInv(r)'
HandlerStep == h' \in [Http -> HandlerState] /\ \A x \in Http : HandlerInv(x)'
RestOK ==
    /\ page \in [Page -> BusyPage \cup {OpenPage}]
    /\ submits \in 0..MaxSubmits
    /\ idem \subseteq Key
    /\ receipts \subseteq Res \X (Key \cup {0})
    /\ failures \in 0..MaxFailures

Effects == Moved /\ Decided /\ LedgerStep /\ RowStep /\ HandlerStep /\ RestOK'

LEMMA EffectsKeep == RecordInv /\ Effects => RecordInv'
<1> SUFFICES ASSUME RecordInv, Effects PROVE RecordInv'
    OBVIOUS
<1>1. LifecycleOK' /\ BreakerOK'
    BY LifecycleKeeps, BreakerKeeps DEF Effects, RecordInv
<1>2. TypeOK'
    BY <1>1 DEF Effects, LedgerStep, LedgerOK, RowStep, RowsOK, HandlerStep, RestOK, TypeOK, BusyPage, BreakerOK
<1> QED BY <1>1, <1>2 DEF Effects, LedgerStep, RowStep, HandlerStep, RecordInv

LEMMA RestIsTyped == RecordInv => RestOK
BY DEF RecordInv, TypeOK, RestOK, BusyPage

LEMMA QuietLedger == RecordInv /\ UNCHANGED gatewayVars => LedgerStep
BY DEF RecordInv, TypeOK, gatewayVars, LedgerStep, LedgerOK, Grows, HookInv, Paid

LEMMA QuietRows == RecordInv /\ Grows /\ UNCHANGED row => RowStep
<1> SUFFICES ASSUME RecordInv, Grows, UNCHANGED row PROVE RowStep
    OBVIOUS
<1>1. RowsOK'
    BY DEF RecordInv, TypeOK, RowsOK
<1>2. ASSUME NEW r \in Res PROVE RowInv(r)'
    BY DEF RecordInv, RowInv, Grows, Entry, Paid
<1>3. ASSUME NEW r \in Res, row[r] # NoRow PROVE row'[r].refunded >= row[r].refunded
    <2>1. row[r].refunded \in Nat /\ row'[r].refunded = row[r].refunded
        BY <1>3 DEF RecordInv, TypeOK, Payment
    <2> QED BY <2>1
<1> QED BY <1>1, <1>2, <1>3 DEF RowStep, RowKeeps

(* A handler that does nothing new, ends or is not at the gateway yet has  *)
(* nothing to lose.                                                        *)
Harmless(x) ==
    h'[x] = h[x] \/ h'[x].pc \in {"idle", "get", "set", "gateway"}

LEMMA HarmlessKeeps ==
    ASSUME RecordInv, Grows, RowKeeps, NEW x \in Http, Harmless(x)
    PROVE  HandlerInv(x)'
<1>1. CASE h'[x].pc \in {"idle", "get", "set", "gateway"}
    BY <1>1 DEF HandlerInv, RefundPc
<1>2. CASE h'[x] = h[x]
    <2>1. h[x].pc = "store" => h[x] \in ChargeHandler
        BY HandlerKinds DEF RecordInv, ChargePc
    <2>2. h[x].pc \in RefundPc => h[x] \in RefundHandler
        BY HandlerKinds DEF RecordInv
    <2>3. h[x].pc = "store" => /\ Entry(h[x].charge, h[x].res, h[x].key)'
                               /\ h[x].intent = "succeeded" => Paid(h[x].charge)'
        BY <1>2 DEF RecordInv, HandlerInv, Entry, Grows, Paid
    <2>4. h[x].pc \in RefundPc => row'[h[x].res] # NoRow /\ row'[h[x].res].charge = h[x].charge
        BY <2>2 DEF RecordInv, HandlerInv, RowKeeps, RefundHandler
    <2>5. h[x].pc = "record" => Paid(h[x].charge)'
        <3>1. h[x].pc = "record" => h[x].charge \in DOMAIN ledger
            BY <2>2 DEF RecordInv, HandlerInv, RowInv, Entry, RefundPc, RefundHandler
        <3> QED BY <1>2, <3>1 DEF RecordInv, HandlerInv, Grows, Paid
    <2> QED BY <1>2, <2>3, <2>4, <2>5 DEF HandlerInv, Entry, Paid
<1> QED BY <1>1, <1>2 DEF Harmless

LEMMA QuietHandlers ==
    ASSUME RecordInv, Grows, RowKeeps, h' \in [Http -> HandlerState], \A x \in Http : Harmless(x)
    PROVE  HandlerStep
BY HarmlessKeeps DEF HandlerStep

-----------------------------------------------------------------------------
(* Each operation does to its part what it should.                         *)

(* One row changes, to a payment that is no less than it was before.       *)
LEMMA OneRow ==
    ASSUME RecordInv, UNCHANGED ledger, NEW r \in Res, NEW new \in Payment,
           row' = [row EXCEPT ![r] = new],
           row[r] # NoRow =>
               new.charge = row[r].charge /\ new.key = row[r].key /\ new.refunded >= row[r].refunded,
           Entry(new.charge, r, new.key), new.status \in PaidStatus => Paid(new.charge)
    PROVE  RowStep
<1>1. row \in [Res -> Payment \cup {NoRow}]
    BY DEF RecordInv, TypeOK
<1>2. RowsOK'
    BY <1>1 DEF RowsOK
<1>3. new # NoRow
    BY AssumptionsHold DEF Assumptions, Payment, NoRow, Charge
<1>4. ASSUME NEW q \in Res, row[q] # NoRow
      PROVE  row'[q] # NoRow /\ row'[q].charge = row[q].charge /\ row'[q].key = row[q].key
             /\ row'[q].refunded >= row[q].refunded
    <2>1. CASE q = r
        BY <1>1, <1>3, <1>4, <2>1
    <2>2. CASE q # r
        <3>1. row'[q] = row[q] /\ row[q].refunded \in Nat
            BY <1>1, <1>4, <2>2 DEF Payment
        <3> QED BY <1>4, <3>1
    <2> QED BY <2>1, <2>2
<1>5. ASSUME NEW q \in Res PROVE RowInv(q)'
    <2>1. CASE q = r
        BY <1>1, <2>1 DEF RowInv, Entry, Paid
    <2>2. CASE q # r
        BY <1>1, <2>2 DEF RecordInv, RowInv, Entry, Paid
    <2> QED BY <2>1, <2>2
<1> QED BY <1>2, <1>4, <1>5 DEF RowStep, RowKeeps

LEMMA StoreRow ==
    ASSUME RecordInv, UNCHANGED ledger, NEW x \in Http, h[x].pc = "store", RowIsUnique(x),
           row' = [row EXCEPT ![h[x].res] = NewRow(x)]
    PROVE  RowStep
<1>1. h[x] \in ChargeHandler /\ HandlerInv(x)
    BY HandlerKinds DEF RecordInv, ChargePc
<1>2. Entry(h[x].charge, h[x].res, h[x].key)
    BY <1>1 DEF HandlerInv
<1>3. h[x].charge \in Charge
    <2>1. ledger \in Seq(Intent) /\ Len(ledger) <= MaxCharges /\ MaxCharges \in Nat
        BY AssumptionsHold DEF Assumptions, RecordInv, TypeOK
    <2>2. h[x].charge \in 1..Len(ledger)
        BY <1>2, <2>1 DEF Entry
    <2> QED BY <2>1, <2>2 DEF Charge
<1>4. NewRow(x) \in Payment
    BY <1>1, <1>3 DEF NewRow, Payment, PaymentStatus, ChargeHandler
<1>5. NewRow(x).status \in PaidStatus => Paid(NewRow(x).charge)
    BY <1>1 DEF NewRow, PaidStatus, HandlerInv
<1>6. NewRow(x).charge = h[x].charge /\ NewRow(x).key = h[x].key
    BY DEF NewRow
<1>7. h[x].res \in Res /\ row[h[x].res] = NoRow
    BY <1>1 DEF ChargeHandler, RowIsUnique
<1> DEFINE new == NewRow(x)
<1> HIDE DEF new
<1>8. row' = [row EXCEPT ![h[x].res] = new]
    BY DEF new
<1>9. /\ new \in Payment /\ Entry(new.charge, h[x].res, new.key)
      /\ new.status \in PaidStatus => Paid(new.charge)
    BY <1>2, <1>4, <1>5, <1>6 DEF new
<1> QED BY <1>7, <1>8, <1>9, OneRow

LEMMA RecordRow ==
    ASSUME RecordInv, UNCHANGED ledger, NEW x \in Http, h[x].pc = "record", row' = Recorded(x)
    PROVE  RowStep
<1> DEFINE r == h[x].res
           new == [row[r] EXCEPT !.status = RefundedStatus(x), !.refunded = @ + h[x].back]
<1>1. h[x] \in RefundHandler /\ HandlerInv(x)
    BY HandlerKinds DEF RecordInv, RefundPc
<1>2. r \in Res /\ row[r] # NoRow /\ row[r].charge = h[x].charge /\ Paid(h[x].charge)
    BY <1>1 DEF HandlerInv, RefundPc, RefundHandler
<1>3. row[r] \in Payment
    BY <1>2 DEF RecordInv, TypeOK
<1>4. h[x].back \in Nat /\ row[r].refunded \in Nat
    BY <1>1, <1>3, AssumptionsHold DEF Assumptions, RefundHandler, Payment
<1>5. row' = [row EXCEPT ![r] = new]
    BY DEF Recorded
<1>6. row[r].refunded + h[x].back \in Nat /\ row[r].refunded + h[x].back >= row[r].refunded
    BY <1>4
<1>7. RefundedStatus(x) \in PaymentStatus
    BY DEF RefundedStatus, PaymentStatus
<1>8. /\ new \in Payment /\ new.charge = row[r].charge /\ new.key = row[r].key
      /\ new.refunded = row[r].refunded + h[x].back
    BY <1>3, <1>6, <1>7 DEF Payment
<1>9. Entry(new.charge, r, new.key) /\ Paid(new.charge)
    BY <1>2, <1>8 DEF RecordInv, RowInv
<1> HIDE DEF r, new
<1> QED BY <1>2, <1>5, <1>6, <1>8, <1>9, OneRow

(* A webhook says of its own intent what the gateway knows.                *)
LEMMA WebhookRow ==
    ASSUME RecordInv, NEW e \in webhooks, HandleWebhook(e)
    PROVE  RowStep
<1>1. row \in [Res -> Payment \cup {NoRow}] /\ e.charge \in Charge /\ UNCHANGED ledger
    BY DEF RecordInv, TypeOK, HandleWebhook, gatewayVars
<1> DEFINE said == IF e.type = "succeeded" THEN "SUCCEEDED" ELSE "FAILED"
<1>2. ASSUME NEW r \in Res
      PROVE  /\ row'[r] \in Payment \cup {NoRow}
             /\ row[r] # NoRow => /\ row'[r] # NoRow
                                  /\ row'[r].charge = row[r].charge /\ row'[r].key = row[r].key
                                  /\ row'[r].refunded >= row[r].refunded
             /\ RowInv(r)'
    <2>1. CASE row[r].charge = e.charge
        <3>1. row[r] # NoRow
            BY <1>1, <2>1, AssumptionsHold DEF Assumptions, NoRow, Charge
        <3>2. row[r] \in Payment /\ said \in PaymentStatus
            BY <1>1, <3>1 DEF PaymentStatus
        <3>3. row'[r] = [row[r] EXCEPT !.status = said]
            BY <2>1 DEF HandleWebhook
        <3>4. /\ row'[r] \in Payment /\ row'[r].status = said /\ row'[r].charge = row[r].charge
              /\ row'[r].key = row[r].key /\ row'[r].refunded = row[r].refunded
            <4> HIDE DEF said
            <4> QED BY <3>2, <3>3 DEF Payment
        <3>5. row'[r] # NoRow
            BY <3>4, AssumptionsHold DEF Assumptions, Payment, NoRow, Charge
        <3>6. row'[r].refunded >= row[r].refunded
            <4>1. row[r].refunded \in Nat
                BY <3>2 DEF Payment
            <4> QED BY <3>4, <4>1
        <3>7. said = "SUCCEEDED" => Paid(row[r].charge)
            BY <2>1 DEF RecordInv, HookInv
        <3>8. RowInv(r)'
            BY <1>1, <3>1, <3>4, <3>7 DEF RecordInv, RowInv, Entry, Paid, PaidStatus
        <3> QED BY <3>4, <3>5, <3>6, <3>8
    <2>2. CASE row[r].charge # e.charge
        <3>1. row'[r] = row[r]
            BY <2>2 DEF HandleWebhook
        <3>2. row[r] # NoRow => row[r].refunded \in Nat
            BY <1>1 DEF Payment
        <3>3. RowInv(r)'
            BY <1>1, <3>1 DEF RecordInv, RowInv, Entry, Paid
        <3> QED BY <1>1, <3>1, <3>2, <3>3
    <2> QED BY <2>1, <2>2
<1>3. RowsOK'
    BY <1>2 DEF RowsOK, HandleWebhook
<1> QED BY <1>2, <1>3 DEF RowStep, RowKeeps

LEMMA QuietData ==
    RecordInv /\ UNCHANGED <<row, gatewayVars>> => LedgerStep /\ RowStep /\ Grows /\ RowKeeps
<1>1. RecordInv /\ UNCHANGED <<row, gatewayVars>> => LedgerStep /\ Grows
    BY QuietLedger DEF LedgerStep
<1>2. RecordInv /\ UNCHANGED <<row, gatewayVars>> => RowStep /\ RowKeeps
    BY <1>1, QuietRows DEF RowStep
<1> QED BY <1>1, <1>2

LEMMA EndEffects ==
    ASSUME RecordInv, Grows, RowKeeps, NEW x \in Http, End(x)
    PROVE  HandlerStep
<1>1. h \in [Http -> HandlerState] /\ IdleHandler \in HandlerState
    BY DEF RecordInv, TypeOK, HandlerState
<1>2. h' \in [Http -> HandlerState]
    BY <1>1 DEF End
<1>3. \A y \in Http : Harmless(y)
    BY <1>1 DEF End, Harmless, IdleHandler
<1> QED BY <1>2, <1>3, QuietHandlers

LEMMA AnswerEffects ==
    ASSUME RecordInv, Grows, RowKeeps, NEW x \in Http, NEW paid \in BOOLEAN,
           Answer(x, paid), h[x].pc \in ChargePc \/ ~paid
    PROVE  /\ HandlerStep
           /\ page' \in [Page -> BusyPage \cup {OpenPage}]
           /\ receipts' \subseteq Res \X (Key \cup {0})
BY AnswerType, EndEffects DEF RecordInv, Answer

LEMMA RejectEffects ==
    ASSUME RecordInv, Grows, RowKeeps, NEW x \in Http, Reject(x)
    PROVE  /\ HandlerStep
           /\ page' \in [Page -> BusyPage \cup {OpenPage}]
           /\ receipts' \subseteq Res \X (Key \cup {0})
BY AnswerEffects DEF Reject

LEMMA AcceptEffects ==
    ASSUME RecordInv, Grows, RowKeeps, NEW x \in Http, NEW r \in Res, NEW k \in Key, Accept(x, r, k)
    PROVE  HandlerStep
<1> DEFINE new == [IdleHandler EXCEPT !.pc = "get", !.op = "charge", !.res = r, !.key = k]
<1>1. new.pc = "get"
    BY DEF IdleHandler
<1>2. new \in HandlerState
    BY DEF IdleHandler, HandlerState, GuardPc
<1>3. h \in [Http -> HandlerState] /\ h' = [h EXCEPT ![x] = new]
    BY DEF RecordInv, TypeOK, Accept
<1> HIDE DEF new
<1>4. h' \in [Http -> HandlerState] /\ \A y \in Http : Harmless(y)
    BY <1>1, <1>2, <1>3 DEF Harmless
<1> QED BY <1>4, QuietHandlers

LEMMA GotoEffects ==
    ASSUME RecordInv, Grows, RowKeeps, NEW x \in Http, h[x].pc \in {"get", "set"},
           NEW pc \in {"set", "gateway"}, Goto(x, pc)
    PROVE  HandlerStep
<1> DEFINE new == [h[x] EXCEPT !.pc = pc]
<1>1. h[x] \in GuardHandler
    BY HandlerKinds DEF RecordInv, GuardPc
<1>2. new.pc = pc /\ new \in HandlerState
    BY <1>1 DEF GuardHandler, HandlerState, ChargePc, GuardPc
<1>3. h \in [Http -> HandlerState] /\ h' = [h EXCEPT ![x] = new]
    BY DEF RecordInv, TypeOK, Goto
<1> HIDE DEF new
<1>4. new \in HandlerState
    BY <1>2
<1>5. h' \in [Http -> HandlerState] /\ \A y \in Http : Harmless(y)
    BY <1>2, <1>3, <1>4 DEF Harmless
<1> QED BY <1>5, QuietHandlers

-----------------------------------------------------------------------------
(* The steps one by one.                                                   *)

LEMMA FailKeeps == RecordInv /\ Fail => failures' \in 0..MaxFailures
BY AssumptionsHold DEF Assumptions, RecordInv, TypeOK, Fail

LEMMA BookingEffects == RecordInv /\ Booking => Effects
<1> SUFFICES ASSUME RecordInv, Booking PROVE Effects
    OBVIOUS
<1>1. LedgerStep /\ RowStep /\ Grows /\ RowKeeps
    BY QuietData DEF Booking
<1>2. HandlerStep
    BY <1>1, QuietHandlers DEF Booking, Harmless, RecordInv, TypeOK
<1>3. RestOK'
    BY RestIsTyped DEF Booking, RestOK, pageVars
<1>4. Moved /\ Decided
    BY DEF Booking, Moved, Decided
<1> QED BY <1>1, <1>2, <1>3, <1>4 DEF Effects

LEMMA SubmitEffects ==
    ASSUME RecordInv, NEW p \in Page, NEW r \in Res, NEW x \in Http, Submit(p, r, x)
    PROVE  Effects
<1>1. LedgerStep /\ RowStep /\ Grows /\ RowKeeps
    BY QuietData DEF Submit
<1>2. submits' \in Key /\ submits' \in 0..MaxSubmits
    BY AssumptionsHold DEF Assumptions, Submit, RecordInv, TypeOK, Key
<1>3. HandlerStep
    BY <1>1, <1>2, AcceptEffects DEF Submit
<1>4. RestOK'
    <2>1. [pc |-> "charging", res |-> r, key |-> submits'] \in BusyPage
        BY <1>2 DEF BusyPage
    <2> QED BY <1>2, <2>1, RestIsTyped DEF Submit, RestOK
<1>5. Moved /\ Decided
    BY DEF Submit, Moved, Decided
<1> QED BY <1>1, <1>3, <1>4, <1>5 DEF Effects

LEMMA ResendEffects ==
    ASSUME RecordInv, NEW p \in Page, NEW x \in Http, Resend(p, x)
    PROVE  Effects
<1>1. LedgerStep /\ RowStep /\ Grows /\ RowKeeps
    BY QuietData DEF Resend
<1>2. page[p] \in BusyPage
    BY PageKinds DEF Resend, RecordInv
<1>3. HandlerStep
    BY <1>1, <1>2, AcceptEffects DEF Resend, BusyPage
<1>4. RestOK'
    BY RestIsTyped DEF Resend, RestOK, pageVars
<1>5. Moved /\ Decided
    BY DEF Resend, Moved, Decided
<1> QED BY <1>1, <1>3, <1>4, <1>5 DEF Effects

LEMMA KeylessHandler ==
    ASSUME RecordInv, NEW x \in Http, NEW r \in Res, ChargeWithoutKey(x, r)
    PROVE  /\ h'[x].pc = "gateway" /\ h'[x].key = 0 /\ h'[x] \in HandlerState
           /\ h' \in [Http -> HandlerState]
           /\ \A y \in Http \ {x} : h'[y] = h[y]
<1> DEFINE new == [IdleHandler EXCEPT !.pc = "gateway", !.op = "charge", !.res = r]
<1>1. new.pc = "gateway" /\ new.key = 0
    BY DEF IdleHandler
<1>2. new \in HandlerState
    BY DEF IdleHandler, HandlerState, ChargePc, GuardPc
<1>3. h \in [Http -> HandlerState] /\ h' = [h EXCEPT ![x] = new]
    BY DEF RecordInv, TypeOK, ChargeWithoutKey
<1> HIDE DEF new
<1> QED BY <1>1, <1>2, <1>3

LEMMA KeylessEffects ==
    ASSUME RecordInv, NEW x \in Http, NEW r \in Res, ChargeWithoutKey(x, r)
    PROVE  Effects
<1>1. LedgerStep /\ RowStep /\ Grows /\ RowKeeps
    BY QuietData DEF ChargeWithoutKey
<1>2. HandlerStep
    BY <1>1, KeylessHandler, QuietHandlers DEF Harmless
<1>3. RestOK'
    BY RestIsTyped DEF ChargeWithoutKey, RestOK, pageVars
<1>4. Moved /\ Decided
    BY DEF ChargeWithoutKey, Moved, Decided
<1> QED BY <1>1, <1>2, <1>3, <1>4 DEF Effects

LEMMA RefundEffects ==
    ASSUME RecordInv, NEW x \in Http, NEW r \in Res, NEW a \in RefundAmounts, Refund(x, r, a)
    PROVE  Effects
<1>1. LedgerStep /\ RowStep /\ Grows /\ RowKeeps
    BY QuietData DEF Refund
<1> DEFINE new == [IdleHandler EXCEPT !.pc = "refunding", !.op = "refund", !.res = r,
                                      !.charge = row[r].charge, !.amount = a]
<1>2. row[r] \in Payment /\ 0 \in 0..Price
    BY AssumptionsHold DEF Assumptions, Refund, RecordInv, TypeOK
<1>3. row[r].charge \in Charge
    BY <1>2 DEF Payment
<1>4. new \in RefundHandler /\ new.pc = "refunding" /\ new.res = r /\ new.charge = row[r].charge
    BY <1>2, <1>3 DEF IdleHandler, RefundHandler, RefundPc
<1>5. h \in [Http -> HandlerState] /\ h' = [h EXCEPT ![x] = new] /\ row[r] # NoRow /\ row' = row
    BY DEF Refund, RecordInv, TypeOK
<1> HIDE DEF new
<1>6. new \in HandlerState
    BY <1>4 DEF RefundHandler, HandlerState
<1>7. h' \in [Http -> HandlerState]
    BY <1>5, <1>6
<1>8. ASSUME NEW y \in Http PROVE HandlerInv(y)'
    <2>1. CASE y = x
        BY <2>1, <1>4, <1>5 DEF HandlerInv
    <2>2. CASE y # x
        BY <2>2, <1>1, <1>5, HarmlessKeeps DEF Harmless
    <2> QED BY <2>1, <2>2
<1>9. RestOK'
    BY RestIsTyped DEF Refund, RestOK, pageVars
<1>10. Moved /\ Decided
    BY DEF Refund, Moved, Decided
<1> QED BY <1>1, <1>7, <1>8, <1>9, <1>10 DEF Effects, HandlerStep

LEMMA GuardEffects ==
    ASSUME RecordInv, NEW x \in Http, GuardRefuses(x) \/ GuardPasses(x) \/ GuardStores(x)
    PROVE  Effects
<1>1. LedgerStep /\ RowStep /\ Grows /\ RowKeeps
    BY QuietData DEF GuardRefuses, GuardPasses, GuardStores
<1>2. CASE GuardRefuses(x)
    <2>1. HandlerStep /\ page' \in [Page -> BusyPage \cup {OpenPage}] /\ receipts' \subseteq Res \X (Key \cup {0})
        BY <1>1, <1>2, RejectEffects DEF GuardRefuses
    <2>2. RestOK'
        BY <1>2, <2>1, RestIsTyped DEF GuardRefuses, RestOK
    <2>3. Moved /\ Decided
        BY <1>2 DEF GuardRefuses, Moved, Decided
    <2> QED BY <1>1, <2>1, <2>2, <2>3 DEF Effects
<1>3. CASE GuardPasses(x)
    <2>1. HandlerStep
        BY <1>1, <1>3, GotoEffects DEF GuardPasses
    <2>2. RestOK'
        BY <1>3, RestIsTyped DEF GuardPasses, RestOK, pageVars
    <2>3. Moved /\ Decided
        BY <1>3 DEF GuardPasses, Moved, Decided
    <2> QED BY <1>1, <2>1, <2>2, <2>3 DEF Effects
<1>4. CASE GuardStores(x)
    <2>1. h[x] \in GuardHandler
        BY <1>4, HandlerKinds DEF GuardStores, RecordInv, GuardPc
    <2>2. CASE Breaker!Enter /\ Goto(x, "gateway") /\ UNCHANGED <<page, receipts>>
        <3>1. HandlerStep
            BY <1>1, <1>4, <2>2, GotoEffects DEF GuardStores
        <3>2. RestOK'
            BY <1>4, <2>1, <2>2, RestIsTyped DEF GuardStores, RestOK, GuardHandler
        <3>3. Moved /\ Decided
            BY <1>4, <2>2 DEF GuardStores, Moved, Decided
        <3> QED BY <1>1, <3>1, <3>2, <3>3 DEF Effects
    <2>3. CASE Breaker!Refuses /\ Reject(x) /\ UNCHANGED breakerVars
        <3>1. HandlerStep /\ page' \in [Page -> BusyPage \cup {OpenPage}] /\ receipts' \subseteq Res \X (Key \cup {0})
            BY <1>1, <2>3, RejectEffects
        <3>2. RestOK'
            BY <1>4, <2>1, <3>1, RestIsTyped DEF GuardStores, RestOK, GuardHandler
        <3>3. Moved /\ Decided
            BY <1>4, <2>3 DEF GuardStores, Moved, Decided
        <3> QED BY <1>1, <3>1, <3>2, <3>3 DEF Effects
    <2> QED BY <1>4, <2>2, <2>3 DEF GuardStores, Enter
<1> QED BY <1>2, <1>3, <1>4

(* The intent that a handler goes on to store is in the ledger.            *)
LEMMA IntentMadeEffects ==
    ASSUME RecordInv, NEW x \in Http, IntentMade(x)
    PROVE  Effects
<1>1. PICK s \in IntentStatus :
        MakeIntent(x, s) /\ h' = [h EXCEPT ![x].pc = "store", ![x].charge = Len(ledger'), ![x].intent = s]
    BY DEF IntentMade
<1>2. h[x] \in ChargeHandler /\ h \in [Http -> HandlerState] /\ h[x].pc = "gateway"
    BY HandlerKinds DEF IntentMade, RecordInv, TypeOK, ChargePc
<1>3. /\ LedgerStep /\ Grows
      /\ Len(ledger') \in Charge /\ Len(ledger') \in DOMAIN ledger'
      /\ ledger'[Len(ledger')] = [res |-> h[x].res, key |-> h[x].key, status |-> s, refunded |-> 0]
    BY <1>1, <1>2, MakeIntentKeeps DEF LedgerStep
<1>4. RowStep /\ RowKeeps
    BY <1>3, QuietRows DEF IntentMade, RowStep
<1> DEFINE new == [h[x] EXCEPT !.pc = "store", !.charge = Len(ledger'), !.intent = s]
<1>5. /\ new \in ChargeHandler /\ new.pc = "store" /\ new.charge = Len(ledger') /\ new.intent = s
      /\ new.res = h[x].res /\ new.key = h[x].key
    BY <1>2, <1>3 DEF ChargeHandler, ChargePc
<1>6. h' = [h EXCEPT ![x] = new]
    BY <1>1
<1> HIDE DEF new
<1>7. new \in HandlerState
    BY <1>5 DEF ChargeHandler, HandlerState, ChargePc, GuardPc
<1>8. h' \in [Http -> HandlerState]
    BY <1>2, <1>6, <1>7
<1>9. ASSUME NEW y \in Http PROVE HandlerInv(y)'
    <2>1. CASE y = x
        BY <2>1, <1>2, <1>3, <1>5, <1>6 DEF HandlerInv, Entry, Paid, RefundPc
    <2>2. CASE y # x
        BY <2>2, <1>2, <1>3, <1>4, <1>6, HarmlessKeeps DEF Harmless
    <2> QED BY <2>1, <2>2
<1>10. RestOK'
    BY RestIsTyped DEF IntentMade, RestOK, pageVars
<1>11. Moved /\ Decided
    BY DEF IntentMade, Moved, Decided
<1> QED BY <1>3, <1>4, <1>8, <1>9, <1>10, <1>11 DEF Effects, HandlerStep

LEMMA GatewayThrowsEffects ==
    ASSUME RecordInv, NEW x \in Http, GatewayThrows(x)
    PROVE  Effects
<1>1. LedgerStep /\ Grows
    <2>1. CASE UNCHANGED gatewayVars
        BY <2>1, QuietLedger DEF LedgerStep
    <2>2. CASE \E s \in IntentStatus : MakeIntent(x, s)
        BY <2>2, MakeIntentKeeps DEF LedgerStep, GatewayThrows
    <2> QED BY <2>1, <2>2 DEF GatewayThrows
<1>2. RowStep /\ RowKeeps
    BY <1>1, QuietRows DEF GatewayThrows, RowStep
<1>3. HandlerStep /\ page' \in [Page -> BusyPage \cup {OpenPage}] /\ receipts' \subseteq Res \X (Key \cup {0})
    BY <1>1, <1>2, RejectEffects DEF GatewayThrows
<1>4. RestOK'
    BY <1>3, RestIsTyped, FailKeeps DEF GatewayThrows, RestOK
<1>5. Moved /\ Decided
    BY DEF GatewayThrows, Moved, Decided
<1> QED BY <1>1, <1>2, <1>3, <1>4, <1>5 DEF Effects

LEMMA StoreEffects ==
    ASSUME RecordInv, NEW x \in Http, Store(x) \/ StoreRefused(x)
    PROVE  Effects
<1>1. LedgerStep /\ Grows
    BY QuietLedger DEF Store, StoreRefused, LedgerStep
<1>2. RowStep /\ RowKeeps
    <2>1. CASE Store(x)
        BY <2>1, StoreRow DEF Store, gatewayVars, RowStep
    <2>2. CASE StoreRefused(x)
        BY <1>1, <2>2, QuietRows DEF StoreRefused, RowStep
    <2> QED BY <2>1, <2>2
<1>3. HandlerStep /\ page' \in [Page -> BusyPage \cup {OpenPage}] /\ receipts' \subseteq Res \X (Key \cup {0})
    <2>1. CASE Store(x)
        BY <1>1, <1>2, <2>1, AnswerEffects DEF Store, ChargePc
    <2>2. CASE StoreRefused(x)
        BY <1>1, <1>2, <2>2, RejectEffects DEF StoreRefused
    <2> QED BY <2>1, <2>2
<1>4. RestOK'
    BY <1>3, RestIsTyped DEF Store, StoreRefused, RestOK
<1>5. Moved /\ Decided
    BY DEF Store, StoreRefused, Moved, Decided
<1> QED BY <1>1, <1>2, <1>3, <1>4, <1>5 DEF Effects

LEMMA GatewayRefundsEffects ==
    ASSUME RecordInv, NEW x \in Http, GatewayRefunds(x)
    PROVE  Effects
<1>1. h[x] \in RefundHandler /\ h \in [Http -> HandlerState] /\ h[x].pc = "refunding" /\ HandlerInv(x)
    BY HandlerKinds DEF GatewayRefunds, RecordInv, TypeOK, RefundPc
<1>2. LedgerStep /\ Grows /\ Payable(x) \in 0..Price /\ h[x].charge \in DOMAIN ledger /\ Paid(h[x].charge)
    BY PayBackKeeps DEF GatewayRefunds, LedgerStep
<1>3. RowStep /\ RowKeeps
    BY <1>2, QuietRows DEF GatewayRefunds, RowStep
<1> DEFINE new == [h[x] EXCEPT !.pc = "record", !.back = Payable(x)]
<1>4. /\ new \in RefundHandler /\ new.pc = "record"
      /\ new.res = h[x].res /\ new.charge = h[x].charge
    BY <1>1, <1>2 DEF RefundHandler, RefundPc
<1>5. h' = [h EXCEPT ![x] = new]
    BY DEF GatewayRefunds
<1> HIDE DEF new
<1>6. new \in HandlerState
    BY <1>4 DEF RefundHandler, HandlerState
<1>7. h' \in [Http -> HandlerState]
    BY <1>1, <1>5, <1>6
<1>8. ASSUME NEW y \in Http PROVE HandlerInv(y)'
    <2>1. CASE y = x
        <3>1. h'[x] = new /\ row' = row
            BY <1>1, <1>5 DEF GatewayRefunds
        <3>2. Paid(h[x].charge)'
            <4>1. ledger'[h[x].charge].status = "succeeded"
                BY <1>2 DEF Grows, Paid
            <4>2. h'[x].charge = h[x].charge
                BY <1>4, <3>1
            <4> QED BY <4>1, <4>2 DEF Paid
        <3> QED BY <2>1, <1>1, <1>4, <3>1, <3>2 DEF HandlerInv, RefundPc
    <2>2. CASE y # x
        BY <2>2, <1>1, <1>2, <1>3, <1>5, HarmlessKeeps DEF Harmless
    <2> QED BY <2>1, <2>2
<1>9. RestOK'
    BY RestIsTyped DEF GatewayRefunds, RestOK, pageVars
<1>10. Moved /\ Decided
    BY DEF GatewayRefunds, Moved, Decided
<1> QED BY <1>2, <1>3, <1>7, <1>8, <1>9, <1>10 DEF Effects, HandlerStep

LEMMA RefundEndsEffects ==
    ASSUME RecordInv, NEW x \in Http, GatewayDeclines(x) \/ RefundAnswerLost(x) \/ RecordRefund(x)
    PROVE  Effects
<1>1. LedgerStep /\ Grows
    <2>1. CASE UNCHANGED gatewayVars
        BY <2>1, QuietLedger DEF LedgerStep
    <2>2. CASE RefundAnswerLost(x)
        BY <2>2, PayBackKeeps DEF RefundAnswerLost, LedgerStep
    <2> QED BY <2>1, <2>2 DEF GatewayDeclines, RecordRefund
<1>2. RowStep /\ RowKeeps
    <2>1. CASE UNCHANGED row
        BY <1>1, <2>1, QuietRows DEF RowStep
    <2>2. CASE RecordRefund(x)
        BY <2>2, RecordRow DEF RecordRefund, RowStep, gatewayVars
    <2> QED BY <2>1, <2>2 DEF GatewayDeclines, RefundAnswerLost
<1>3. HandlerStep
    BY <1>1, <1>2, EndEffects DEF GatewayDeclines, RefundAnswerLost, RecordRefund
<1>4. RestOK'
    BY RestIsTyped, FailKeeps DEF GatewayDeclines, RefundAnswerLost, RecordRefund, RestOK, pageVars
<1>5. Moved /\ Decided
    BY DEF GatewayDeclines, RefundAnswerLost, RecordRefund, Moved, Decided
<1> QED BY <1>1, <1>2, <1>3, <1>4, <1>5 DEF Effects

LEMMA PageEffects ==
    ASSUME RecordInv, NEW p \in Page, PageConfirms(p) \/ PageFails(p)
    PROVE  Effects
<1>1. LedgerStep /\ RowStep /\ Grows /\ RowKeeps
    BY QuietData DEF PageConfirms, PageFails
<1>2. HandlerStep
    BY <1>1, QuietHandlers DEF PageConfirms, PageFails, Harmless, RecordInv, TypeOK
<1>3. page[p] \in BusyPage
    BY PageKinds DEF PageConfirms, PageFails, RecordInv
<1>4. page \in [Page -> BusyPage \cup {OpenPage}]
    BY RestIsTyped DEF RestOK
<1>5. page' \in [Page -> BusyPage \cup {OpenPage}]
    <2> DEFINE gone == [page[p] EXCEPT !.pc = "left"]
    <2>1. gone \in BusyPage
        BY <1>3 DEF BusyPage
    <2>2. page' = [page EXCEPT ![p] = gone] \/ page' = [page EXCEPT ![p] = OpenPage]
        BY DEF PageConfirms, PageFails
    <2> HIDE DEF gone
    <2> QED BY <1>4, <2>1, <2>2
<1>6. RestOK'
    BY <1>5, RestIsTyped, FailKeeps DEF PageConfirms, PageFails, RestOK
<1>7. Moved
    BY <1>3 DEF PageConfirms, PageFails, Moved, BusyPage
<1>8. Decided
    BY DEF PageConfirms, PageFails, Decided
<1> QED BY <1>1, <1>2, <1>6, <1>7, <1>8 DEF Effects

LEMMA GatewayEffects ==
    ASSUME RecordInv,
           (\E c \in 1..Len(ledger) : GatewaySettles(c)) \/ (\E e \in webhooks : HandleWebhook(e))
    PROVE  Effects
<1>1. LedgerStep /\ Grows
    <2>1. CASE \E c \in 1..Len(ledger) : GatewaySettles(c)
        BY <2>1, SettleKeeps DEF LedgerStep
    <2>2. CASE \E e \in webhooks : HandleWebhook(e)
        BY <2>2, QuietLedger DEF HandleWebhook, LedgerStep
    <2> QED BY <2>1, <2>2
<1>2. RowStep /\ RowKeeps
    <2>1. CASE \E c \in 1..Len(ledger) : GatewaySettles(c)
        BY <1>1, <2>1, QuietRows DEF GatewaySettles, RowStep
    <2>2. CASE \E e \in webhooks : HandleWebhook(e)
        BY <2>2, WebhookRow DEF RowStep
    <2> QED BY <2>1, <2>2
<1>3. HandlerStep
    BY <1>1, <1>2, QuietHandlers DEF GatewaySettles, HandleWebhook, Harmless, RecordInv, TypeOK
<1>4. RestOK'
    BY RestIsTyped DEF GatewaySettles, HandleWebhook, RestOK, pageVars
<1>5. Moved /\ Decided
    BY DEF GatewaySettles, HandleWebhook, Moved, Decided
<1> QED BY <1>1, <1>2, <1>3, <1>4, <1>5 DEF Effects

LEMMA CallFailsEffects ==
    ASSUME RecordInv, NEW x \in Http, CallFails(x)
    PROVE  Effects
<1>1. LedgerStep /\ Grows
    BY QuietLedger DEF CallFails, LedgerStep
<1>2. RowStep /\ RowKeeps
    <2>1. CASE UNCHANGED row
        BY <1>1, <2>1, QuietRows DEF RowStep
    <2>2. CASE h[x].pc = "store" /\ RowIsUnique(x) /\ row' = [row EXCEPT ![h[x].res] = NewRow(x)]
        BY <2>2, StoreRow DEF CallFails, RowStep, gatewayVars
    <2>3. CASE h[x].pc = "record" /\ row' = Recorded(x)
        BY <2>3, RecordRow DEF CallFails, RowStep, gatewayVars
    <2> QED BY <2>1, <2>2, <2>3 DEF CallFails
<1>3. HandlerStep /\ page' \in [Page -> BusyPage \cup {OpenPage}] /\ receipts' \subseteq Res \X (Key \cup {0})
    BY <1>1, <1>2, RejectEffects DEF CallFails
<1>4. h[x].pc = "set" => h[x].key \in Key
    BY HandlerKinds DEF RecordInv, GuardPc, GuardHandler
<1>5. RestOK'
    BY <1>3, <1>4, RestIsTyped, FailKeeps DEF CallFails, RestOK
<1>6. Moved /\ Decided
    BY DEF CallFails, Moved, Decided
<1> QED BY <1>1, <1>2, <1>3, <1>5, <1>6 DEF Effects

LEMMA ProcessEffects ==
    ASSUME RecordInv, Crash \/ CooldownPasses
    PROVE  Effects
<1>1. LedgerStep /\ RowStep /\ Grows /\ RowKeeps
    BY QuietData DEF Crash, CooldownPasses
<1>2. HandlerStep
    <2>1. h' \in [Http -> HandlerState]
        BY DEF Crash, CooldownPasses, RecordInv, TypeOK, HandlerState
    <2>2. \A x \in Http : Harmless(x)
        BY DEF Crash, CooldownPasses, Harmless, IdleHandler
    <2> QED BY <1>1, <2>1, <2>2, QuietHandlers
<1>3. RestOK'
    BY RestIsTyped, FailKeeps DEF Crash, CooldownPasses, RestOK, pageVars
<1>4. Moved /\ Decided
    BY DEF Crash, CooldownPasses, Moved, Decided
<1> QED BY <1>1, <1>2, <1>3, <1>4 DEF Effects

LEMMA StutterEffects == RecordInv /\ UNCHANGED vars => Effects
<1> SUFFICES ASSUME RecordInv, UNCHANGED vars PROVE Effects
    OBVIOUS
<1> USE DEF vars
<1>1. LedgerStep /\ RowStep /\ Grows /\ RowKeeps
    BY QuietData
<1>2. HandlerStep
    BY <1>1, QuietHandlers DEF Harmless, RecordInv, TypeOK
<1>3. RestOK'
    BY RestIsTyped DEF RestOK, pageVars
<1> QED BY <1>1, <1>2, <1>3 DEF Effects, Moved, Decided

LEMMA StepEffects == RecordInv /\ [Next]_vars => Effects
<1> SUFFICES ASSUME RecordInv, [Next]_vars PROVE Effects
    OBVIOUS
<1>1. CASE Booking
    BY <1>1, BookingEffects
<1>2. ASSUME NEW x \in Http, Request(x) PROVE Effects
    BY <1>2, ResendEffects, SubmitEffects, KeylessEffects, RefundEffects DEF Request
<1>3. ASSUME NEW x \in Http, Serve(x) PROVE Effects
    BY <1>3, GuardEffects, IntentMadeEffects, StoreEffects, GatewayRefundsEffects, RefundEndsEffects
       DEF Serve
<1>4. CASE Failure
    BY <1>4, PageEffects, GatewayThrowsEffects, RefundEndsEffects, CallFailsEffects, ProcessEffects
       DEF Failure
<1> QED BY <1>1, <1>2, <1>3, <1>4, PageEffects, GatewayEffects, ProcessEffects, StutterEffects DEF Next

-----------------------------------------------------------------------------
(* The inductive invariant: the tables, the handlers and the webhooks      *)
(* agree with the ledger of the gateway (payments.service.ts).             *)
THEOREM RecordsCorrect == Spec => []RecordInv
<1>1. RecordInv /\ [Next]_vars => RecordInv'
    BY StepEffects, EffectsKeep
<1> QED BY RecordsStart, <1>1, PTL DEF Spec

(* Every variable keeps its type.                                          *)
THEOREM PaymentTypes == Spec => []TypeOK
<1>1. RecordInv => TypeOK
    BY DEF RecordInv
<1> QED BY <1>1, RecordsCorrect, PTL

(* Whatever order the results of overlapping calls come in, the breaker    *)
(* is closed exactly while fewer than FailureThreshold calls have failed   *)
(* in a row (circuit-breaker.ts: onSuccess, onFailure).                    *)
THEOREM BreakerCounts == Spec => []ClosedMeansFewFailures
<1>1. RecordInv => ClosedMeansFewFailures
    BY DEF RecordInv, BreakerOK, ClosedMeansFewFailures
<1> QED BY <1>1, RecordsCorrect, PTL

(* What the table calls received or paid back was received (charge,        *)
(* refund, handleWebhook).                                                 *)
THEOREM PaidIsCharged == Spec => []PaidMeansCharged
<1>1. RecordInv => PaidMeansCharged
    BY DEF RecordInv, RowInv, PaidMeansCharged, PaidStatus, Paid, NoRow
<1> QED BY <1>1, RecordsCorrect, PTL

(* No payment is replaced and no refund is forgotten, by any step          *)
(* (payments.create, the increment of refund, updateMany).                 *)
THEOREM RecordsNeverShrink == Spec => RecordsOnlyGrow
<1>1. RecordInv /\ [Next]_vars =>
        [\A r \in Res : row[r] # NoRow =>
            /\ row'[r].charge = row[r].charge /\ row'[r].key = row[r].key
            /\ row'[r].refunded >= row[r].refunded]_vars
    BY StepEffects DEF Effects, RowStep, RowKeeps
<1> QED BY <1>1, RecordsCorrect, PTL DEF Spec, RecordsOnlyGrow

-----------------------------------------------------------------------------
(* Whose key is whose: a key stands for one reservation, on the page that  *)
(* drew it, in the handlers that serve it and at the gateway.              *)

PageClaims == {<<page[p].key, page[p].res>> : p \in {q \in Page : page[q].pc # "open"}}
HandlerClaims == {<<h[x].key, h[x].res>> : x \in {y \in Http : h[y].pc \in ChargePc /\ h[y].key # 0}}
LedgerClaims == {<<ledger[c].key, ledger[c].res>> : c \in {d \in DOMAIN ledger : ledger[d].key # 0}}
Claims == PageClaims \cup HandlerClaims \cup LedgerClaims

ClaimInv ==
    /\ \A a \in Claims : a[1] \in 1..submits
    /\ \A a, b \in Claims : a[1] = b[1] => a[2] = b[2]
    /\ idem \subseteq 1..submits

(* What a step must leave alone so that no claim is new.                   *)
PageKeeps(p) ==
    page'[p].pc # "open" =>
        page[p].pc # "open" /\ page'[p].key = page[p].key /\ page'[p].res = page[p].res
HandlerKeeps(x) ==
    h'[x].pc \in ChargePc /\ h'[x].key # 0 =>
        h[x].pc \in ChargePc /\ h'[x].key = h[x].key /\ h'[x].res = h[x].res
LedgerFrom ==
    \A c \in DOMAIN ledger' : ledger'[c].key # 0 =>
        \/ c \in DOMAIN ledger /\ ledger'[c].key = ledger[c].key /\ ledger'[c].res = ledger[c].res
        \/ \E x \in Http : /\ h[x].pc \in ChargePc
                           /\ ledger'[c].key = h[x].key /\ ledger'[c].res = h[x].res
IdemFrom ==
    \A k \in idem' : k \in idem \/ \E x \in Http : h[x].pc \in ChargePc /\ h[x].key = k /\ k # 0

ClaimsKept ==
    /\ \A p \in Page : PageKeeps(p)
    /\ \A x \in Http : HandlerKeeps(x)
    /\ LedgerFrom /\ IdemFrom
    /\ submits' = submits

LEMMA KeptClaims == ClaimsKept => Claims' \subseteq Claims
<1> SUFFICES ASSUME ClaimsKept PROVE Claims' \subseteq Claims
    OBVIOUS
<1>1. PageClaims' \subseteq Claims
    <2>1. ASSUME NEW p \in Page, page'[p].pc # "open" PROVE <<page'[p].key, page'[p].res>> \in PageClaims
        BY <2>1 DEF ClaimsKept, PageKeeps, PageClaims
    <2> QED BY <2>1 DEF PageClaims, Claims
<1>2. HandlerClaims' \subseteq Claims
    <2>1. ASSUME NEW x \in Http, h'[x].pc \in ChargePc, h'[x].key # 0 PROVE <<h'[x].key, h'[x].res>> \in HandlerClaims
        BY <2>1 DEF ClaimsKept, HandlerKeeps, HandlerClaims
    <2> QED BY <2>1 DEF HandlerClaims, Claims
<1>3. LedgerClaims' \subseteq Claims
    <2>1. ASSUME NEW c \in DOMAIN ledger', ledger'[c].key # 0
          PROVE  <<ledger'[c].key, ledger'[c].res>> \in LedgerClaims \cup HandlerClaims
        BY <2>1 DEF ClaimsKept, LedgerFrom, LedgerClaims, HandlerClaims
    <2> QED BY <2>1 DEF LedgerClaims, Claims
<1> QED BY <1>1, <1>2, <1>3 DEF Claims

LEMMA ClaimsStay == ClaimInv /\ ClaimsKept => ClaimInv'
<1> SUFFICES ASSUME ClaimInv, ClaimsKept PROVE ClaimInv'
    OBVIOUS
<1>1. Claims' \subseteq Claims /\ submits' = submits
    BY KeptClaims DEF ClaimsKept
<1>2. ASSUME NEW k \in idem' PROVE k \in 1..submits
    <2>1. CASE k \in idem
        BY <2>1 DEF ClaimInv
    <2>2. CASE k \notin idem
        <3>1. PICK x \in Http : h[x].pc \in ChargePc /\ h[x].key = k /\ k # 0
            BY <2>2 DEF ClaimsKept, IdemFrom
        <3>2. <<k, h[x].res>> \in Claims
            BY <3>1 DEF Claims, HandlerClaims
        <3> QED BY <3>2 DEF ClaimInv
    <2> QED BY <2>1, <2>2
<1> QED BY <1>1, <1>2 DEF ClaimInv

LEMMA AnswerKeepsClaims ==
    ASSUME NEW x \in Http, NEW paid, Answer(x, paid), RecordInv
    PROVE  (\A p \in Page : PageKeeps(p)) /\ (\A y \in Http : HandlerKeeps(y))
<1>1. ASSUME NEW p \in Page PROVE PageKeeps(p)
    <2>1. page'[p] = IF ~Waits(p, x) THEN page[p]
                     ELSE IF paid THEN [page[p] EXCEPT !.pc = "confirming"] ELSE OpenPage
        BY DEF Answer
    <2>2. Waits(p, x) => page[p].pc = "charging" /\ page[p] \in BusyPage
        BY PageKinds DEF Waits, RecordInv
    <2>3. OpenPage.pc = "open"
        BY DEF OpenPage
    <2>4. CASE page'[p] = page[p] \/ page'[p] = OpenPage
        BY <2>3, <2>4 DEF PageKeeps
    <2>5. CASE Waits(p, x) /\ page'[p] = [page[p] EXCEPT !.pc = "confirming"]
        BY <2>2, <2>5 DEF PageKeeps, BusyPage
    <2> QED BY <2>1, <2>4, <2>5
<1>2. ASSUME NEW y \in Http PROVE HandlerKeeps(y)
    BY DEF Answer, End, IdleHandler, ChargePc, HandlerKeeps, RecordInv, TypeOK
<1> QED BY <1>1, <1>2

LEMMA EndKeepsClaims ==
    ASSUME NEW x \in Http, End(x), RecordInv
    PROVE  \A y \in Http : HandlerKeeps(y)
BY DEF End, IdleHandler, ChargePc, HandlerKeeps, RecordInv, TypeOK

LEMMA GotoKeepsClaims ==
    ASSUME NEW x \in Http, h[x].pc \in ChargePc, NEW pc, Goto(x, pc), RecordInv
    PROVE  \A y \in Http : HandlerKeeps(y)
<1>1. h[x] \in ChargeHandler /\ h \in [Http -> HandlerState]
    BY HandlerKinds DEF RecordInv, TypeOK
<1> DEFINE new == [h[x] EXCEPT !.pc = pc]
<1>2. h' = [h EXCEPT ![x] = new]
    BY DEF Goto
<1>3. new.key = h[x].key /\ new.res = h[x].res
    BY <1>1 DEF ChargeHandler
<1> HIDE DEF new
<1> QED BY <1>1, <1>2, <1>3 DEF HandlerKeeps

LEMMA MakeIntentClaims ==
    ASSUME RecordInv, NEW x \in Http, h[x].pc = "gateway", NEW s \in IntentStatus, MakeIntent(x, s)
    PROVE  LedgerFrom
<1> DEFINE new == [res |-> h[x].res, key |-> h[x].key, status |-> s, refunded |-> 0]
<1>1. ledger \in Seq(Intent) /\ ledger' = Append(ledger, new)
    BY DEF MakeIntent, RecordInv, TypeOK
<1>2. new \in Intent
    BY HandlerKinds, AssumptionsHold DEF Assumptions, RecordInv, ChargeHandler, ChargePc, Intent
<1>3. new.key = h[x].key /\ new.res = h[x].res
    OBVIOUS
<1> HIDE DEF new
<1>4. \A c \in DOMAIN ledger' : (c \in DOMAIN ledger /\ ledger'[c] = ledger[c]) \/ ledger'[c] = new
    BY <1>1, <1>2
<1> QED BY <1>3, <1>4 DEF LedgerFrom, ChargePc

LEMMA PayBackClaims ==
    ASSUME RecordInv, NEW x \in Http, PayBack(x)
    PROVE  LedgerFrom
<1> DEFINE c == h[x].charge
           paid == [ledger[c] EXCEPT !.refunded = @ + Payable(x)]
<1>1. ledger' = [ledger EXCEPT ![c] = paid]
    BY DEF PayBack
<1>2. ledger \in Seq(Intent)
    BY DEF RecordInv, TypeOK
<1>3. c \in DOMAIN ledger => ledger[c] \in Intent
    BY <1>2
<1>4. c \in DOMAIN ledger => paid.key = ledger[c].key /\ paid.res = ledger[c].res
    BY <1>3 DEF Intent
<1> HIDE DEF c, paid
<1>5. DOMAIN ledger' = DOMAIN ledger /\ \A d \in DOMAIN ledger : ledger'[d] = IF d = c THEN paid ELSE ledger[d]
    BY <1>1
<1> QED BY <1>4, <1>5 DEF LedgerFrom

LEMMA QuietPages == UNCHANGED page => \A p \in Page : PageKeeps(p)
BY DEF PageKeeps
LEMMA QuietControl == UNCHANGED h => \A x \in Http : HandlerKeeps(x)
BY DEF HandlerKeeps
LEMMA QuietLedgerClaims == UNCHANGED ledger => LedgerFrom
BY DEF LedgerFrom
LEMMA QuietIdem == UNCHANGED idem => IdemFrom
BY DEF IdemFrom

LEMMA ServeClaims ==
    ASSUME RecordInv, NEW x \in Http, Serve(x)
    PROVE  ClaimsKept
<1>1. CASE GuardRefuses(x)
    BY <1>1, AnswerKeepsClaims, QuietLedgerClaims, QuietIdem DEF GuardRefuses, Reject, gatewayVars, ClaimsKept
<1>2. CASE GuardPasses(x)
    BY <1>2, GotoKeepsClaims, QuietPages, QuietLedgerClaims, QuietIdem
       DEF GuardPasses, gatewayVars, pageVars, ClaimsKept, ChargePc
<1>3. CASE GuardStores(x)
    <2>1. IdemFrom
        <3>1. h[x].key # 0
            BY <1>3, HandlerKinds DEF GuardStores, RecordInv, GuardHandler, GuardPc, Key
        <3> QED BY <1>3, <3>1 DEF GuardStores, IdemFrom, ChargePc
    <2>2. CASE Goto(x, "gateway") /\ UNCHANGED page
        BY <1>3, <2>1, <2>2, GotoKeepsClaims, QuietPages, QuietLedgerClaims
           DEF GuardStores, gatewayVars, ClaimsKept, ChargePc
    <2>3. CASE Reject(x)
        BY <1>3, <2>1, <2>3, AnswerKeepsClaims, QuietLedgerClaims
           DEF GuardStores, Reject, gatewayVars, ClaimsKept
    <2> QED BY <1>3, <2>2, <2>3 DEF GuardStores, Enter
<1>4. CASE IntentMade(x)
    <2>1. PICK s \in IntentStatus :
            MakeIntent(x, s) /\ h' = [h EXCEPT ![x].pc = "store", ![x].charge = Len(ledger'), ![x].intent = s]
        BY <1>4 DEF IntentMade
    <2>2. h[x].pc = "gateway" /\ h[x] \in ChargeHandler /\ h \in [Http -> HandlerState]
        BY <1>4, HandlerKinds DEF IntentMade, RecordInv, TypeOK, ChargePc
    <2> DEFINE new == [h[x] EXCEPT !.pc = "store", !.charge = Len(ledger'), !.intent = s]
    <2>3. h' = [h EXCEPT ![x] = new]
        BY <2>1
    <2>4. new.key = h[x].key /\ new.res = h[x].res
        BY <2>2 DEF ChargeHandler
    <2> HIDE DEF new
    <2>5. \A y \in Http : HandlerKeeps(y)
        BY <2>2, <2>3, <2>4 DEF HandlerKeeps, ChargePc
    <2>6. LedgerFrom
        BY <2>1, <2>2, MakeIntentClaims
    <2> QED BY <1>4, <2>5, <2>6, QuietPages, QuietIdem DEF IntentMade, pageVars, ClaimsKept
<1>5. CASE Store(x) \/ StoreRefused(x)
    <2>1. PICK paid : Answer(x, paid)
        BY <1>5 DEF Store, StoreRefused, Reject
    <2> QED BY <1>5, <2>1, AnswerKeepsClaims, QuietLedgerClaims, QuietIdem
            DEF Store, StoreRefused, gatewayVars, ClaimsKept
<1>6. CASE GatewayRefunds(x)
    <2>1. LedgerFrom
        BY <1>6, PayBackClaims DEF GatewayRefunds
    <2>2. \A y \in Http : HandlerKeeps(y)
        BY <1>6 DEF GatewayRefunds, HandlerKeeps, ChargePc, RecordInv, TypeOK
    <2> QED BY <1>6, <2>1, <2>2, QuietPages, QuietIdem DEF GatewayRefunds, pageVars, ClaimsKept
<1>7. CASE GatewayDeclines(x) \/ RecordRefund(x)
    BY <1>7, EndKeepsClaims, QuietPages, QuietLedgerClaims, QuietIdem
       DEF GatewayDeclines, RecordRefund, gatewayVars, pageVars, ClaimsKept
<1> QED BY <1>1, <1>2, <1>3, <1>4, <1>5, <1>6, <1>7 DEF Serve

LEMMA FailureClaims == RecordInv /\ Failure => ClaimsKept
<1> SUFFICES ASSUME RecordInv, Failure PROVE ClaimsKept
    OBVIOUS
<1>1. ASSUME NEW p \in Page, PageFails(p) PROVE ClaimsKept
    <2>1. \A q \in Page : PageKeeps(q)
        BY <1>1 DEF PageFails, PageKeeps, OpenPage, RecordInv, TypeOK
    <2> QED BY <1>1, <2>1, QuietControl, QuietLedgerClaims, QuietIdem DEF PageFails, gatewayVars, ClaimsKept
<1>2. ASSUME NEW x \in Http, GatewayThrows(x) PROVE ClaimsKept
    <2>1. LedgerFrom
        BY <1>2, MakeIntentClaims, QuietLedgerClaims DEF GatewayThrows, gatewayVars
    <2> QED BY <1>2, <2>1, AnswerKeepsClaims, QuietIdem DEF GatewayThrows, Reject, ClaimsKept
<1>3. ASSUME NEW x \in Http, RefundAnswerLost(x) PROVE ClaimsKept
    BY <1>3, EndKeepsClaims, PayBackClaims, QuietPages, QuietIdem DEF RefundAnswerLost, pageVars, ClaimsKept
<1>4. ASSUME NEW x \in Http, CallFails(x) PROVE ClaimsKept
    <2>1. IdemFrom
        <3>1. h[x].pc = "set" => h[x].key # 0
            BY HandlerKinds DEF RecordInv, GuardHandler, GuardPc, Key
        <3> QED BY <1>4, <3>1 DEF CallFails, IdemFrom, ChargePc
    <2> QED BY <1>4, <2>1, AnswerKeepsClaims, QuietLedgerClaims DEF CallFails, Reject, gatewayVars, ClaimsKept
<1>5. CASE Crash
    <2>1. (\A p \in Page : PageKeeps(p)) /\ (\A x \in Http : HandlerKeeps(x))
        BY <1>5 DEF Crash, PageKeeps, HandlerKeeps, OpenPage, IdleHandler, ChargePc
    <2> QED BY <1>5, <2>1, QuietLedgerClaims, QuietIdem DEF Crash, gatewayVars, ClaimsKept
<1> QED BY <1>1, <1>2, <1>3, <1>4, <1>5 DEF Failure

LEMMA ConfirmClaims ==
    ASSUME RecordInv, NEW p \in Page, PageConfirms(p)
    PROVE  ClaimsKept
<1>1. page[p] \in BusyPage /\ page \in [Page -> BusyPage \cup {OpenPage}]
    BY PageKinds, RestIsTyped DEF PageConfirms, RecordInv, RestOK
<1> DEFINE gone == [page[p] EXCEPT !.pc = "left"]
<1>2. gone.key = page[p].key /\ gone.res = page[p].res
    BY <1>1 DEF BusyPage
<1>3. page' = [page EXCEPT ![p] = gone] \/ page' = [page EXCEPT ![p] = OpenPage]
    BY DEF PageConfirms
<1> HIDE DEF gone
<1>4. \A q \in Page : PageKeeps(q)
    BY <1>1, <1>2, <1>3 DEF PageKeeps, PageConfirms, OpenPage
<1> QED BY <1>4, QuietControl, QuietLedgerClaims, QuietIdem DEF PageConfirms, gatewayVars, ClaimsKept

LEMMA OtherClaims ==
    ASSUME RecordInv,
           \/ Booking \/ CooldownPasses \/ UNCHANGED vars
           \/ \E c \in 1..Len(ledger) : GatewaySettles(c)
           \/ \E e \in webhooks : HandleWebhook(e)
    PROVE  ClaimsKept
<1>1. CASE Booking \/ CooldownPasses \/ UNCHANGED vars \/ \E e \in webhooks : HandleWebhook(e)
    BY <1>1, QuietPages, QuietControl, QuietLedgerClaims, QuietIdem
       DEF Booking, CooldownPasses, HandleWebhook, vars, gatewayVars, pageVars, ClaimsKept
<1>2. ASSUME NEW c \in 1..Len(ledger), GatewaySettles(c) PROVE ClaimsKept
    <2> DEFINE paid == [ledger[c] EXCEPT !.status = "succeeded"]
    <2>1. ledger \in Seq(Intent) /\ ledger[c] \in Intent
        BY DEF RecordInv, TypeOK
    <2>2. paid.key = ledger[c].key /\ paid.res = ledger[c].res
        BY <2>1 DEF Intent
    <2>3. ledger' = [ledger EXCEPT ![c] = paid] \/ UNCHANGED ledger
        BY <1>2 DEF GatewaySettles
    <2> HIDE DEF paid
    <2>4. LedgerFrom
        BY <2>2, <2>3 DEF LedgerFrom
    <2> QED BY <1>2, <2>4, QuietPages, QuietControl, QuietIdem DEF GatewaySettles, pageVars, ClaimsKept
<1> QED BY <1>1, <1>2

LEMMA RefundClaims ==
    ASSUME RecordInv, NEW x \in Http, NEW r \in Res, NEW a \in RefundAmounts, Refund(x, r, a)
    PROVE  ClaimsKept
<1>1. \A y \in Http : HandlerKeeps(y)
    BY DEF Refund, HandlerKeeps, ChargePc, IdleHandler, RecordInv, TypeOK
<1> QED BY <1>1, QuietPages, QuietLedgerClaims, QuietIdem DEF Refund, gatewayVars, pageVars, ClaimsKept

LEMMA KeylessClaims ==
    ASSUME RecordInv, NEW x \in Http, NEW r \in Res, ChargeWithoutKey(x, r)
    PROVE  ClaimsKept
<1>1. \A y \in Http : HandlerKeeps(y)
    BY KeylessHandler DEF HandlerKeeps
<1> QED BY <1>1, QuietPages, QuietLedgerClaims, QuietIdem DEF ChargeWithoutKey, gatewayVars, pageVars, ClaimsKept

(* Every step but a submission and its repetition keeps the claims.        *)
LEMMA StepClaims ==
    ASSUME RecordInv, [Next]_vars
    PROVE  \/ ClaimsKept
           \/ \E p \in Page, x \in Http : Resend(p, x) \/ \E r \in Res : Submit(p, r, x)
BY ServeClaims, FailureClaims, ConfirmClaims, OtherClaims, KeylessClaims, RefundClaims DEF Next, Request

LEMMA AcceptedHandler ==
    ASSUME RecordInv, NEW x \in Http, NEW r \in Res, NEW k \in Key, Accept(x, r, k)
    PROVE  /\ h'[x].pc = "get" /\ h'[x].key = k /\ h'[x].res = r
           /\ \A y \in Http \ {x} : h'[y] = h[y]
BY DEF Accept, IdleHandler, RecordInv, TypeOK

LEMMA SubmitKeepsClaims ==
    ASSUME RecordInv, ClaimInv, NEW p \in Page, NEW r \in Res, NEW x \in Http, Submit(p, r, x)
    PROVE  ClaimInv'
<1>1. submits' = submits + 1 /\ submits \in Nat /\ submits' \in Key
    BY AssumptionsHold DEF Submit, RecordInv, TypeOK, Assumptions, Key
<1> DEFINE new == <<submits', r>>
<1>2. PageClaims' \subseteq Claims \cup {new}
    <2>1. ASSUME NEW q \in Page, page'[q].pc # "open" PROVE <<page'[q].key, page'[q].res>> \in Claims \cup {new}
        <3>1. CASE q = p
            BY <3>1 DEF Submit, RecordInv, TypeOK
        <3>2. CASE q # p
            BY <3>2, <2>1 DEF Submit, RecordInv, TypeOK, Claims, PageClaims
        <3> QED BY <3>1, <3>2
    <2> QED BY <2>1 DEF PageClaims
<1>3. HandlerClaims' \subseteq Claims \cup {new}
    <2>1. ASSUME NEW y \in Http, h'[y].pc \in ChargePc, h'[y].key # 0
          PROVE  <<h'[y].key, h'[y].res>> \in Claims \cup {new}
        <3>1. CASE y = x
            BY <3>1, <1>1, AcceptedHandler DEF Submit
        <3>2. CASE y # x
            BY <3>2, <2>1, <1>1, AcceptedHandler DEF Submit, Claims, HandlerClaims
        <3> QED BY <3>1, <3>2
    <2> QED BY <2>1 DEF HandlerClaims
<1>4. LedgerClaims' \subseteq Claims
    BY DEF Submit, gatewayVars, LedgerClaims, Claims
<1>5. Claims' \subseteq Claims \cup {new}
    BY <1>2, <1>3, <1>4 DEF Claims
<1>6. \A a \in Claims : a[1] \in 1..submits' /\ a[1] # submits'
    BY <1>1 DEF ClaimInv
<1>7. new[1] = submits' /\ new[2] = r /\ submits' \in 1..submits'
    BY <1>1
<1>8. idem' \subseteq 1..submits'
    BY <1>1 DEF ClaimInv, Submit
<1> HIDE DEF new
<1> QED BY <1>5, <1>6, <1>7, <1>8 DEF ClaimInv

LEMMA ResendKeepsClaims ==
    ASSUME RecordInv, ClaimInv, NEW p \in Page, NEW x \in Http, Resend(p, x)
    PROVE  ClaimInv'
<1>1. page[p] \in BusyPage
    BY PageKinds DEF Resend, RecordInv
<1>2. <<page[p].key, page[p].res>> \in Claims
    BY DEF Resend, Claims, PageClaims
<1>3. PageClaims' \subseteq Claims /\ LedgerClaims' \subseteq Claims
    BY DEF Resend, pageVars, gatewayVars, Claims, PageClaims, LedgerClaims
<1>4. HandlerClaims' \subseteq Claims
    <2>1. ASSUME NEW y \in Http, h'[y].pc \in ChargePc, h'[y].key # 0
          PROVE  <<h'[y].key, h'[y].res>> \in Claims
        <3>1. CASE y = x
            BY <3>1, <1>1, <1>2, AcceptedHandler DEF Resend, BusyPage
        <3>2. CASE y # x
            BY <3>2, <2>1, <1>1, AcceptedHandler DEF Resend, BusyPage, Claims, HandlerClaims
        <3> QED BY <3>1, <3>2
    <2> QED BY <2>1 DEF HandlerClaims
<1> QED BY <1>3, <1>4 DEF ClaimInv, Claims, Resend, pageVars

LEMMA ClaimStep == RecordInv /\ ClaimInv /\ [Next]_vars => ClaimInv'
BY StepClaims, ClaimsStay, SubmitKeepsClaims, ResendKeepsClaims

-----------------------------------------------------------------------------
(* Receipts, and what pages do with them.                                  *)

ReceiptInv ==
    \A r \in Res, k \in Key \cup {0} : <<r, k>> \in receipts =>
        row[r] # NoRow /\ row[r].key = k /\ Paid(row[r].charge)

(* A receipt is given by Store alone.                                      *)
Receipted(x) ==
    /\ h[x].pc = "store" /\ h[x].intent = "succeeded"
    /\ RowIsUnique(x) /\ row' = [row EXCEPT ![h[x].res] = NewRow(x)]
    /\ Answer(x, TRUE)
    /\ receipts' = receipts \cup {<<h[x].res, h[x].key>>}

LEMMA ReceiptChange ==
    ASSUME RecordInv, [Next]_vars
    PROVE  UNCHANGED receipts \/ \E x \in Http : Receipted(x)
<1>1. CASE Booking \/ CooldownPasses \/ UNCHANGED vars
    BY <1>1 DEF Booking, CooldownPasses, vars
<1>2. ASSUME NEW x \in Http, Request(x) PROVE UNCHANGED receipts
    BY <1>2 DEF Request, Resend, Submit, ChargeWithoutKey, Refund
<1>3. ASSUME NEW x \in Http, Serve(x) PROVE UNCHANGED receipts \/ Receipted(x)
    <2>1. CASE Store(x)
        <3>1. CASE h[x].intent = "succeeded"
            BY <2>1, <3>1 DEF Store, Answer, Receipt, Receipted
        <3>2. CASE h[x].intent # "succeeded"
            BY <2>1, <3>2 DEF Store, Answer, Receipt
        <3> QED BY <3>1, <3>2
    <2>2. CASE ~Store(x)
        BY <1>3, <2>2 DEF Serve, GuardRefuses, GuardPasses, GuardStores, Enter, Reject, Answer, Receipt,
            IntentMade, StoreRefused, GatewayRefunds, GatewayDeclines, RecordRefund
    <2> QED BY <2>1, <2>2
<1>4. ASSUME NEW p \in Page, PageConfirms(p) PROVE UNCHANGED receipts
    BY <1>4 DEF PageConfirms
<1>5. CASE (\E c \in 1..Len(ledger) : GatewaySettles(c)) \/ \E e \in webhooks : HandleWebhook(e)
    BY <1>5 DEF GatewaySettles, HandleWebhook
<1>6. CASE Failure
    BY <1>6 DEF Failure, PageFails, GatewayThrows, RefundAnswerLost, CallFails, Crash, Reject, Answer, Receipt
<1> QED BY <1>1, <1>2, <1>3, <1>4, <1>5, <1>6 DEF Next

LEMMA ReceiptStep == RecordInv /\ ReceiptInv /\ [Next]_vars => ReceiptInv'
<1> SUFFICES ASSUME RecordInv, ReceiptInv, [Next]_vars PROVE ReceiptInv'
    OBVIOUS
<1>1. RowKeeps /\ Grows
    BY StepEffects DEF Effects, RowStep, LedgerStep
<1>2. ASSUME NEW r \in Res, NEW k \in Key \cup {0}, <<r, k>> \in receipts
      PROVE  row'[r] # NoRow /\ row'[r].key = k /\ Paid(row[r].charge)'
    <2>1. row[r] # NoRow /\ row[r].key = k /\ Paid(row[r].charge)
        BY <1>2 DEF ReceiptInv
    <2>2. row[r].charge \in DOMAIN ledger
        BY <2>1 DEF RecordInv, RowInv, Entry
    <2> QED BY <1>1, <2>1, <2>2 DEF RowKeeps, Grows, Paid
<1>3. ASSUME NEW x \in Http, Receipted(x)
      PROVE  /\ row'[h[x].res] # NoRow /\ row'[h[x].res].key = h[x].key
             /\ ledger'[row'[h[x].res].charge].status = "succeeded"
    <2>1. h[x] \in ChargeHandler /\ HandlerInv(x)
        BY <1>3, HandlerKinds DEF Receipted, RecordInv, ChargePc
    <2>2. h[x].res \in Res
        BY <2>1 DEF ChargeHandler
    <2>3. row \in [Res -> Payment \cup {NoRow}]
        BY DEF RecordInv, TypeOK
    <2>4. row'[h[x].res] = NewRow(x)
        BY <1>3, <2>2, <2>3 DEF Receipted
    <2>5. NewRow(x).key = h[x].key /\ NewRow(x).charge = h[x].charge
        BY DEF NewRow
    <2>6. h[x].charge \in DOMAIN ledger /\ Paid(h[x].charge)
        BY <1>3, <2>1 DEF HandlerInv, Entry, Receipted
    <2>7. ledger'[h[x].charge].status = "succeeded"
        BY <1>1, <2>6 DEF Grows, Paid
    <2>8. NewRow(x) # NoRow
        <3>1. ledger \in Seq(Intent)
            BY DEF RecordInv, TypeOK
        <3>2. h[x].charge # 0
            BY <2>6, <3>1
        <3> QED BY <2>5, <3>2 DEF NoRow
    <2> QED BY <2>4, <2>5, <2>7, <2>8
<1>4. ASSUME NEW r \in Res, NEW k \in Key \cup {0}, <<r, k>> \in receipts', <<r, k>> \notin receipts
      PROVE  row'[r] # NoRow /\ row'[r].key = k /\ Paid(row[r].charge)'
    <2>1. PICK x \in Http : Receipted(x)
        BY <1>4, ReceiptChange
    <2>2. r = h[x].res /\ k = h[x].key
        BY <1>4, <2>1 DEF Receipted
    <2> QED BY <1>3, <2>1, <2>2 DEF Paid
<1> QED BY <1>2, <1>4 DEF ReceiptInv

-----------------------------------------------------------------------------
(* A page that confirms has its receipt.                                   *)

HasReceipt(p) == page[p].pc = "confirming" => <<page[p].res, page[p].key>> \in receipts
ConfirmInv == (\A p \in Page : HasReceipt(p)) /\ ConfirmedIsPaid

(* A page comes to confirm only when its charge is answered as paid.       *)
LEMMA PageChange ==
    ASSUME RecordInv, [Next]_vars, NEW p \in Page, page'[p].pc = "confirming", page'[p] # page[p]
    PROVE  \E x \in Http : Waits(p, x) /\ Receipted(x) /\ page'[p] = [page[p] EXCEPT !.pc = "confirming"]
<1>1. ASSUME NEW x \in Http, Reject(x) PROVE FALSE
    BY <1>1 DEF Reject, Answer, OpenPage
<1>2. CASE Booking \/ CooldownPasses \/ UNCHANGED vars
    BY <1>2 DEF Booking, CooldownPasses, vars, pageVars
<1>3. ASSUME NEW x \in Http, Request(x) PROVE FALSE
    <2>1. ASSUME NEW q \in Page, NEW r \in Res, Submit(q, r, x) PROVE FALSE
        <3>1. page' = [page EXCEPT ![q] = [pc |-> "charging", res |-> r, key |-> submits']]
            BY <2>1 DEF Submit
        <3>2. page \in [Page -> BusyPage \cup {OpenPage}]
            BY RestIsTyped DEF RestOK
        <3> QED BY <3>1, <3>2
    <2> QED BY <1>3, <2>1 DEF Request, Resend, ChargeWithoutKey, Refund, pageVars
<1>4. ASSUME NEW x \in Http, Serve(x)
      PROVE  Waits(p, x) /\ Receipted(x) /\ page'[p] = [page[p] EXCEPT !.pc = "confirming"]
    <2>1. CASE Store(x)
        <3>1. Answer(x, h[x].intent = "succeeded")
            BY <2>1 DEF Store
        <3>2. Waits(p, x) /\ h[x].intent = "succeeded" /\ page'[p] = [page[p] EXCEPT !.pc = "confirming"]
            BY <3>1 DEF Answer, OpenPage
        <3> QED BY <2>1, <3>2 DEF Store, Answer, Receipt, Receipted
    <2>2. CASE ~Store(x)
        BY <1>1, <1>4, <2>2 DEF Serve, GuardRefuses, GuardPasses, GuardStores, Enter, IntentMade,
            StoreRefused, GatewayRefunds, GatewayDeclines, RecordRefund, pageVars
    <2> QED BY <2>1, <2>2
<1>5. ASSUME NEW q \in Page, PageConfirms(q) \/ PageFails(q) PROVE FALSE
    <2>1. page \in [Page -> BusyPage \cup {OpenPage}] /\ (q = p => page[q] \in BusyPage)
        BY <1>5, PageKinds, RestIsTyped DEF RecordInv, RestOK, PageConfirms, PageFails
    <2>2. page'[p] = [page[p] EXCEPT !.pc = "left"] \/ page'[p] = OpenPage \/ page'[p] = page[p]
        BY <1>5, <2>1 DEF PageConfirms, PageFails
    <2>3. q # p => page'[p] = page[p]
        BY <1>5, <2>1 DEF PageConfirms, PageFails
    <2> QED BY <2>1, <2>2, <2>3 DEF OpenPage, BusyPage
<1>6. CASE (\E c \in 1..Len(ledger) : GatewaySettles(c)) \/ \E e \in webhooks : HandleWebhook(e)
    BY <1>6 DEF GatewaySettles, HandleWebhook, pageVars
<1>7. CASE Failure
    BY <1>1, <1>5, <1>7 DEF Failure, GatewayThrows, RefundAnswerLost, CallFails, Crash, OpenPage, pageVars
<1> QED BY <1>2, <1>3, <1>4, <1>5, <1>6, <1>7 DEF Next

(* A reservation becomes confirmed only by a page that was confirming.     *)
LEMMA ConfirmChange ==
    ASSUME RecordInv, [Next]_vars, NEW r \in Res, Lifecycle!WasConfirmed(r)', ~Lifecycle!WasConfirmed(r)
    PROVE  \E p \in Page : page[p].pc = "confirming" /\ page[p].res = r
<1> USE DEF Lifecycle!Move, Lifecycle!WasConfirmed, RecordInv, LifecycleOK
<1>1. ASSUME NEW q \in Res,
             Lifecycle!Create(q) \/ Lifecycle!Expire(q) \/ Lifecycle!CancelHold(q) \/ Lifecycle!CancelPaid(q)
      PROVE  FALSE
    BY <1>1 DEF Lifecycle!Create, Lifecycle!Expire, Lifecycle!CancelHold, Lifecycle!CancelPaid
<1>2. ASSUME NEW q \in Res, Lifecycle!Confirm(q) PROVE q = r
    BY <1>2 DEF Lifecycle!Confirm
<1>3. ASSUME UNCHANGED reservationVars PROVE FALSE
    BY <1>3 DEF reservationVars
<1>4. ASSUME NEW p \in Page, PageConfirms(p) \/ PageFails(p)
      PROVE  page[p].pc = "confirming" /\ page[p].res = r
    <2>1. page[p] \in BusyPage
        BY <1>4, PageKinds DEF PageConfirms, PageFails
    <2> QED BY <1>2, <1>3, <1>4, <2>1 DEF PageConfirms, PageFails, BusyPage
<1>5. ~Booking
    BY <1>1 DEF Booking
<1> HIDE DEF Lifecycle!Move, Lifecycle!WasConfirmed, RecordInv, LifecycleOK
<1>6. ASSUME NEW x \in Http, Request(x) \/ Serve(x) PROVE FALSE
    BY <1>3, <1>6 DEF Request, Resend, Submit, ChargeWithoutKey, Refund, Serve, GuardRefuses, GuardPasses, GuardStores,
        IntentMade, Store, StoreRefused, GatewayRefunds, GatewayDeclines, RecordRefund
<1>7. ASSUME NEW x \in Http, GatewayThrows(x) \/ RefundAnswerLost(x) \/ CallFails(x) PROVE FALSE
    BY <1>3, <1>7 DEF GatewayThrows, RefundAnswerLost, CallFails
<1>8. ~Crash /\ ~CooldownPasses /\ ~UNCHANGED vars
    BY <1>3 DEF Crash, CooldownPasses, vars
<1>9. ~(\E c \in 1..Len(ledger) : GatewaySettles(c)) /\ ~(\E e \in webhooks : HandleWebhook(e))
    BY <1>3 DEF GatewaySettles, HandleWebhook
<1> QED BY <1>4, <1>5, <1>6, <1>7, <1>8, <1>9 DEF Next, Failure

LEMMA ConfirmStep == RecordInv /\ ClaimInv /\ ConfirmInv /\ [Next]_vars => ConfirmInv'
<1> SUFFICES ASSUME RecordInv, ClaimInv, ConfirmInv, [Next]_vars PROVE ConfirmInv'
    OBVIOUS
<1>1. receipts \subseteq receipts'
    BY ReceiptChange DEF Receipted
<1>2. ASSUME NEW p \in Page PROVE HasReceipt(p)'
    <2>1. CASE page'[p] = page[p]
        BY <1>1, <2>1 DEF ConfirmInv, HasReceipt
    <2>2. CASE page'[p].pc = "confirming" /\ page'[p] # page[p]
        <3>1. PICK x \in Http : /\ Waits(p, x) /\ Receipted(x)
                                /\ page'[p] = [page[p] EXCEPT !.pc = "confirming"]
            BY <2>2, PageChange
        <3>2. page[p] \in BusyPage
            BY <3>1, PageKinds DEF Waits, RecordInv
        <3>3. page'[p].res = page[p].res /\ page'[p].key = page[p].key
            BY <3>1, <3>2 DEF BusyPage
        <3>4. <<page[p].key, page[p].res>> \in Claims /\ <<h[x].key, h[x].res>> \in Claims
            BY <3>1, <3>2 DEF Waits, Receipted, Claims, PageClaims, HandlerClaims, ChargePc, BusyPage, Key
        <3>5. page[p].key = h[x].key /\ page[p].res = h[x].res
            BY <3>1, <3>4 DEF ClaimInv, Waits
        <3> QED BY <3>1, <3>3, <3>5 DEF HasReceipt, Receipted
    <2> QED BY <2>1, <2>2 DEF HasReceipt
<1>3. ASSUME NEW r \in Res, Lifecycle!WasConfirmed(r)' PROVE \E k \in Key : <<r, k>> \in receipts'
    <2>1. CASE Lifecycle!WasConfirmed(r)
        BY <1>1, <2>1 DEF ConfirmInv, ConfirmedIsPaid
    <2>2. CASE ~Lifecycle!WasConfirmed(r)
        <3>1. PICK p \in Page : page[p].pc = "confirming" /\ page[p].res = r
            BY <1>3, <2>2, ConfirmChange
        <3>2. <<r, page[p].key>> \in receipts
            BY <3>1 DEF ConfirmInv, HasReceipt
        <3>3. page[p].key \in Key
            BY <3>1, PageKinds DEF RecordInv, BusyPage
        <3> QED BY <1>1, <3>2, <3>3
    <2> QED BY <2>1, <2>2
<1> QED BY <1>2, <1>3 DEF ConfirmInv, ConfirmedIsPaid

-----------------------------------------------------------------------------
(* The guard.  Whoever is at the gateway with a key has stored it.         *)
SpentInv == \A x \in Http : h[x].pc = "gateway" /\ h[x].key # 0 => h[x].key \in idem

KeysSame == DOMAIN ledger' = DOMAIN ledger /\ \A c \in DOMAIN ledger : ledger'[c].key = ledger[c].key

(* A handler tries with a key only if it did so before or did not find the *)
(* key, and goes to the gateway only once it is stored.                    *)
HandlerTries(x) ==
    h'[x].pc \in {"set", "gateway"} /\ h'[x].key # 0 =>
        /\ h'[x].key = h[x].key
        /\ h[x].pc \in {"set", "gateway"} \/ (h[x].pc = "get" /\ h[x].key \notin idem)
        /\ h'[x].pc = "gateway" => h[x].pc = "gateway" \/ h[x].key \in idem'

(* One intent is made, under the key of a handler that leaves the gateway. *)
MadeBy(x) ==
    /\ h[x].pc = "gateway" /\ h'[x].pc \notin {"set", "gateway"}
    /\ \A k \in Key : k # h[x].key => Made(k)' = Made(k)

GuardStep ==
    /\ idem \subseteq idem'
    /\ \A x \in Http : HandlerTries(x)
    /\ KeysSame \/ \E x \in Http : MadeBy(x)

LEMMA KeysSameMade == KeysSame => \A k \in Key : Made(k)' = Made(k)
BY DEF KeysSame, Made

LEMMA QuietTries == ASSUME NEW x \in Http, h'[x] = h[x] PROVE HandlerTries(x)
BY DEF HandlerTries

LEMMA QuietKeys == UNCHANGED ledger => KeysSame
BY DEF KeysSame

LEMMA PayBackKeys == ASSUME RecordInv, NEW x \in Http, h[x].pc = "refunding", PayBack(x) PROVE KeysSame
<1>1. Grows
    BY PayBackKeeps
<1>2. DOMAIN ledger' = DOMAIN ledger
    BY DEF PayBack
<1> QED BY <1>1, <1>2 DEF Grows, KeysSame

LEMMA MakesOne ==
    ASSUME RecordInv, NEW x \in Http, h[x].pc = "gateway", NEW s \in IntentStatus, MakeIntent(x, s),
           NEW k \in Key, k # h[x].key
    PROVE  Made(k)' = Made(k)
<1> DEFINE new == [res |-> h[x].res, key |-> h[x].key, status |-> s, refunded |-> 0]
<1>1. ledger \in Seq(Intent) /\ ledger' = Append(ledger, new)
    BY DEF MakeIntent, RecordInv, TypeOK
<1>2. new.key = h[x].key
    OBVIOUS
<1> HIDE DEF new
<1>3. /\ \A c \in DOMAIN ledger : c \in DOMAIN ledger' /\ ledger'[c] = ledger[c]
      /\ \A c \in DOMAIN ledger' : c \in DOMAIN ledger \/ ledger'[c] = new
    BY <1>1
<1> QED BY <1>2, <1>3 DEF Made

LEMMA EndTries ==
    ASSUME RecordInv, NEW x \in Http, End(x)
    PROVE  h'[x].pc = "idle" /\ \A y \in Http : HandlerTries(y)
<1>1. h'[x] = IdleHandler /\ \A y \in Http \ {x} : h'[y] = h[y]
    BY DEF End, RecordInv, TypeOK
<1> QED BY <1>1 DEF HandlerTries, IdleHandler

LEMMA AnswerTries ==
    ASSUME RecordInv, NEW x \in Http, NEW paid, Answer(x, paid)
    PROVE  h'[x].pc = "idle" /\ \A y \in Http : HandlerTries(y)
BY EndTries DEF Answer

LEMMA RequestGuard ==
    ASSUME RecordInv, NEW x \in Http, Request(x)
    PROVE  GuardStep
<1>1. UNCHANGED <<idem, ledger>> /\ h \in [Http -> HandlerState]
    BY DEF Request, Resend, Submit, ChargeWithoutKey, Refund, gatewayVars, RecordInv, TypeOK
<1>2. PICK new : /\ h' = [h EXCEPT ![x] = new]
                 /\ new.pc \in {"get", "refunding"} \/ new.key = 0
    <2>1. ASSUME NEW r, NEW k, Accept(x, r, k)
          PROVE  \E new : h' = [h EXCEPT ![x] = new] /\ new.pc = "get"
        <3> DEFINE new == [IdleHandler EXCEPT !.pc = "get", !.op = "charge", !.res = r, !.key = k]
        <3>1. h' = [h EXCEPT ![x] = new] /\ new.pc = "get"
            BY <2>1 DEF Accept, IdleHandler
        <3> QED BY <3>1
    <2>2. ASSUME NEW r \in Res, ChargeWithoutKey(x, r)
          PROVE  \E new : h' = [h EXCEPT ![x] = new] /\ new.key = 0
        <3> DEFINE new == [IdleHandler EXCEPT !.pc = "gateway", !.op = "charge", !.res = r]
        <3>1. h' = [h EXCEPT ![x] = new] /\ new.key = 0
            BY <2>2 DEF ChargeWithoutKey, IdleHandler
        <3> QED BY <3>1
    <2>3. ASSUME NEW r \in Res, NEW a \in RefundAmounts, Refund(x, r, a)
          PROVE  \E new : h' = [h EXCEPT ![x] = new] /\ new.pc = "refunding"
        <3> DEFINE new == [IdleHandler EXCEPT !.pc = "refunding", !.op = "refund", !.res = r,
                                              !.charge = row[r].charge, !.amount = a]
        <3>1. h' = [h EXCEPT ![x] = new] /\ new.pc = "refunding"
            BY <2>3 DEF Refund, IdleHandler
        <3> QED BY <3>1
    <2> QED BY <2>1, <2>2, <2>3 DEF Request, Resend, Submit
<1>3. ASSUME NEW y \in Http PROVE HandlerTries(y)
    <2>1. CASE y = x
        BY <1>1, <1>2, <2>1 DEF HandlerTries
    <2>2. CASE y # x
        BY <1>1, <1>2, <2>2 DEF HandlerTries
    <2> QED BY <2>1, <2>2
<1> QED BY <1>1, <1>3, QuietKeys DEF GuardStep

LEMMA ServeGuard ==
    ASSUME RecordInv, NEW x \in Http, Serve(x)
    PROVE  GuardStep
<1>1. CASE GuardRefuses(x) \/ Store(x) \/ StoreRefused(x)
    <2>1. PICK paid : Answer(x, paid)
        BY <1>1 DEF GuardRefuses, Store, StoreRefused, Reject
    <2> QED BY <1>1, <2>1, AnswerTries, QuietKeys DEF GuardRefuses, Store, StoreRefused, gatewayVars, GuardStep
<1>2. CASE GuardPasses(x)
    <2>1. h[x] \in ChargeHandler /\ h \in [Http -> HandlerState] /\ h[x].pc = "get" /\ h[x].key \notin idem
        BY <1>2, HandlerKinds DEF GuardPasses, RecordInv, TypeOK, ChargePc
    <2> DEFINE new == [h[x] EXCEPT !.pc = "set"]
    <2>2. new.pc = "set" /\ new.key = h[x].key /\ h' = [h EXCEPT ![x] = new]
        BY <1>2, <2>1 DEF ChargeHandler, GuardPasses, Goto
    <2> HIDE DEF new
    <2>3. \A y \in Http : HandlerTries(y)
        BY <2>1, <2>2 DEF HandlerTries
    <2> QED BY <1>2, <2>3, QuietKeys DEF GuardPasses, gatewayVars, GuardStep
<1>3. CASE GuardStores(x)
    <2>1. idem' = idem \cup {h[x].key} /\ UNCHANGED ledger /\ h[x].pc = "set"
        BY <1>3 DEF GuardStores, gatewayVars
    <2>2. CASE Goto(x, "gateway")
        <3>1. h[x] \in ChargeHandler /\ h \in [Http -> HandlerState]
            BY <2>1, HandlerKinds DEF RecordInv, TypeOK, ChargePc
        <3> DEFINE new == [h[x] EXCEPT !.pc = "gateway"]
        <3>2. new.pc = "gateway" /\ new.key = h[x].key /\ h' = [h EXCEPT ![x] = new]
            BY <2>2, <3>1 DEF ChargeHandler, Goto
        <3> HIDE DEF new
        <3>3. \A y \in Http : HandlerTries(y)
            BY <2>1, <3>1, <3>2 DEF HandlerTries
        <3> QED BY <2>1, <3>3, QuietKeys DEF GuardStep
    <2>3. CASE Reject(x)
        BY <2>1, <2>3, AnswerTries, QuietKeys DEF Reject, GuardStep
    <2> QED BY <1>3, <2>2, <2>3 DEF GuardStores, Enter
<1>4. CASE IntentMade(x)
    <2>1. PICK s \in IntentStatus :
            MakeIntent(x, s) /\ h' = [h EXCEPT ![x].pc = "store", ![x].charge = Len(ledger'), ![x].intent = s]
        BY <1>4 DEF IntentMade
    <2>2. h[x].pc = "gateway" /\ h[x] \in ChargeHandler /\ h \in [Http -> HandlerState]
        BY <1>4, HandlerKinds DEF IntentMade, RecordInv, TypeOK, ChargePc
    <2> DEFINE new == [h[x] EXCEPT !.pc = "store", !.charge = Len(ledger'), !.intent = s]
    <2>3. h' = [h EXCEPT ![x] = new]
        BY <2>1
    <2>4. new.pc = "store"
        BY <2>2 DEF ChargeHandler
    <2> HIDE DEF new
    <2>5. h'[x].pc = "store" /\ \A y \in Http : HandlerTries(y)
        BY <2>2, <2>3, <2>4 DEF HandlerTries
    <2>6. MadeBy(x)
        BY <2>1, <2>2, <2>5, MakesOne DEF MadeBy
    <2> QED BY <1>4, <2>5, <2>6 DEF IntentMade, GuardStep
<1>5. CASE GatewayRefunds(x)
    <2>1. KeysSame
        BY <1>5, PayBackKeys DEF GatewayRefunds
    <2>2. h[x] \in RefundHandler /\ h \in [Http -> HandlerState]
        BY <1>5, HandlerKinds DEF GatewayRefunds, RecordInv, TypeOK, RefundPc
    <2> DEFINE new == [h[x] EXCEPT !.pc = "record", !.back = Payable(x)]
    <2>3. h' = [h EXCEPT ![x] = new]
        BY <1>5 DEF GatewayRefunds
    <2>4. new.pc = "record"
        BY <2>2 DEF RefundHandler
    <2> HIDE DEF new
    <2>5. \A y \in Http : HandlerTries(y)
        BY <2>2, <2>3, <2>4 DEF HandlerTries
    <2> QED BY <1>5, <2>1, <2>5 DEF GatewayRefunds, GuardStep
<1>6. CASE GatewayDeclines(x) \/ RecordRefund(x)
    BY <1>6, EndTries, QuietKeys DEF GatewayDeclines, RecordRefund, gatewayVars, GuardStep
<1> QED BY <1>1, <1>2, <1>3, <1>4, <1>5, <1>6 DEF Serve

LEMMA FailureGuard == RecordInv /\ Failure => GuardStep
<1> SUFFICES ASSUME RecordInv, Failure PROVE GuardStep
    OBVIOUS
<1>1. ASSUME NEW p \in Page, PageFails(p) PROVE GuardStep
    BY <1>1, QuietTries, QuietKeys DEF PageFails, gatewayVars, GuardStep
<1>2. ASSUME NEW x \in Http, GatewayThrows(x) PROVE GuardStep
    <2>1. h'[x].pc = "idle" /\ (\A y \in Http : HandlerTries(y)) /\ UNCHANGED idem /\ h[x].pc = "gateway"
        BY <1>2, AnswerTries DEF GatewayThrows, Reject
    <2>2. CASE UNCHANGED gatewayVars
        BY <2>1, <2>2, QuietKeys DEF gatewayVars, GuardStep
    <2>3. ASSUME NEW s \in IntentStatus, MakeIntent(x, s) PROVE MadeBy(x)
        BY <2>1, <2>3, MakesOne DEF MadeBy
    <2> QED BY <1>2, <2>1, <2>2, <2>3 DEF GatewayThrows, GuardStep
<1>3. ASSUME NEW x \in Http, RefundAnswerLost(x) PROVE GuardStep
    BY <1>3, EndTries, PayBackKeys DEF RefundAnswerLost, GuardStep
<1>4. ASSUME NEW x \in Http, CallFails(x) PROVE GuardStep
    BY <1>4, AnswerTries, QuietKeys DEF CallFails, Reject, gatewayVars, GuardStep
<1>5. CASE Crash
    BY <1>5, QuietKeys DEF Crash, gatewayVars, GuardStep, HandlerTries, IdleHandler
<1> QED BY <1>1, <1>2, <1>3, <1>4, <1>5 DEF Failure

LEMMA OtherGuard ==
    ASSUME RecordInv,
           \/ Booking \/ CooldownPasses \/ UNCHANGED vars
           \/ \E p \in Page : PageConfirms(p)
           \/ \E c \in 1..Len(ledger) : GatewaySettles(c)
           \/ \E e \in webhooks : HandleWebhook(e)
    PROVE  GuardStep
<1>1. UNCHANGED <<h, idem>>
    BY DEF Booking, CooldownPasses, PageConfirms, GatewaySettles, HandleWebhook, vars
<1>2. KeysSame
    <2>1. ASSUME NEW c \in 1..Len(ledger), GatewaySettles(c) PROVE KeysSame
        <3>1. Grows
            BY <2>1, SettleKeeps
        <3>2. DOMAIN ledger' = DOMAIN ledger
            BY <2>1 DEF GatewaySettles
        <3> QED BY <3>1, <3>2 DEF Grows, KeysSame
    <2> QED BY <2>1, QuietKeys DEF Booking, CooldownPasses, PageConfirms, HandleWebhook, vars, gatewayVars
<1> QED BY <1>1, <1>2, QuietTries DEF GuardStep

LEMMA GuardSteps == RecordInv /\ [Next]_vars => GuardStep
BY ServeGuard, FailureGuard, RequestGuard, OtherGuard DEF Next

-----------------------------------------------------------------------------
(* No intent is lost while nothing fails.                                  *)

LEMMA StoringChange ==
    ASSUME RecordInv, [Next]_vars, NEW x \in Http, h[x].pc = "store"
    PROVE  h'[x] = h[x] \/ Store(x) \/ StoreRefused(x) \/ Failure
<1>1. h \in [Http -> HandlerState]
    BY DEF RecordInv, TypeOK
<1>2. ASSUME NEW y \in Http, Request(y) PROVE h'[x] = h[x]
    BY <1>1, <1>2 DEF Request, Resend, Submit, ChargeWithoutKey, Refund, Accept
<1>3. ASSUME NEW y \in Http, Serve(y), y # x PROVE h'[x] = h[x]
    BY <1>1, <1>3 DEF Serve, GuardRefuses, GuardPasses, GuardStores, Enter, Reject, Answer, End, Goto,
        IntentMade, Store, StoreRefused, GatewayRefunds, GatewayDeclines, RecordRefund
<1>4. ASSUME Serve(x) PROVE Store(x) \/ StoreRefused(x)
    BY <1>4 DEF Serve, GuardRefuses, GuardPasses, GuardStores, IntentMade, GatewayRefunds, GatewayDeclines,
        RecordRefund
<1> QED BY <1>2, <1>3, <1>4 DEF Next, Booking, PageConfirms, GatewaySettles, HandleWebhook, CooldownPasses, vars

LEMMA NewIntent ==
    ASSUME RecordInv, [Next]_vars, NEW c \in DOMAIN ledger', c \notin DOMAIN ledger
    PROVE  (\E x \in Http : h'[x].pc = "store" /\ h'[x].charge = c) \/ Failure
<1>1. ASSUME UNCHANGED ledger PROVE FALSE
    BY <1>1
<1>2. ASSUME NEW x \in Http, IntentMade(x) PROVE h'[x].pc = "store" /\ h'[x].charge = c
    <2>1. PICK s \in IntentStatus :
            MakeIntent(x, s) /\ h' = [h EXCEPT ![x].pc = "store", ![x].charge = Len(ledger'), ![x].intent = s]
        BY <1>2 DEF IntentMade
    <2>2. h[x] \in ChargeHandler /\ h \in [Http -> HandlerState]
        BY <1>2, HandlerKinds DEF IntentMade, RecordInv, TypeOK, ChargePc
    <2> DEFINE new == [h[x] EXCEPT !.pc = "store", !.charge = Len(ledger'), !.intent = s]
    <2>3. h' = [h EXCEPT ![x] = new]
        BY <2>1
    <2>4. new.pc = "store" /\ new.charge = Len(ledger')
        BY <2>2 DEF ChargeHandler
    <2> HIDE DEF new
    <2>5. h'[x].pc = "store" /\ h'[x].charge = Len(ledger')
        BY <2>2, <2>3, <2>4
    <2> DEFINE made == [res |-> h[x].res, key |-> h[x].key, status |-> s, refunded |-> 0]
    <2>6. ledger \in Seq(Intent) /\ ledger' = Append(ledger, made)
        BY <2>1 DEF MakeIntent, RecordInv, TypeOK
    <2>7. c = Len(ledger')
        BY <2>6
    <2> QED BY <2>5, <2>7
<1>3. ASSUME NEW x \in Http, Serve(x) PROVE IntentMade(x)
    <2>1. ASSUME GatewayRefunds(x) PROVE FALSE
        BY <2>1 DEF GatewayRefunds, PayBack
    <2> QED BY <1>1, <1>3, <2>1 DEF Serve, GuardRefuses, GuardPasses, GuardStores, Store, StoreRefused,
            GatewayDeclines, RecordRefund, gatewayVars
<1>4. ASSUME NEW x \in Http, Request(x) PROVE FALSE
    BY <1>1, <1>4 DEF Request, Resend, Submit, ChargeWithoutKey, Refund, gatewayVars
<1>5. ASSUME NEW d \in 1..Len(ledger), GatewaySettles(d) PROVE FALSE
    BY <1>5 DEF GatewaySettles
<1>6. ~Booking /\ ~CooldownPasses /\ ~UNCHANGED vars /\ ~(\E e \in webhooks : HandleWebhook(e))
      /\ ~(\E p \in Page : PageConfirms(p))
    BY <1>1 DEF Booking, CooldownPasses, vars, HandleWebhook, PageConfirms, gatewayVars
<1> QED BY <1>2, <1>3, <1>4, <1>5, <1>6 DEF Next

LEMMA FailureCounts ==
    RecordInv /\ [Next]_vars => /\ failures \in Nat /\ failures' \in Nat
                                /\ failures > 0 => failures' > 0
                                /\ Failure => failures' > 0
<1> SUFFICES ASSUME RecordInv, [Next]_vars
             PROVE  /\ failures \in Nat /\ failures' \in Nat
                    /\ failures > 0 => failures' > 0
                    /\ Failure => failures' > 0
    OBVIOUS
<1>1. failures \in Nat /\ failures' \in Nat
    <2>1. RestOK /\ RestOK'
        BY RestIsTyped, StepEffects DEF Effects
    <2> QED BY <2>1, AssumptionsHold DEF RestOK, Assumptions
<1>2. Failure => failures' = failures + 1
    BY DEF Failure, PageFails, GatewayThrows, RefundAnswerLost, CallFails, Crash, Fail
<1>3. ~Failure => failures' = failures
    BY DEF Next, Request, Serve, Booking, Resend, Submit, ChargeWithoutKey, Refund, PageConfirms, GuardRefuses, GuardPasses,
        GuardStores, IntentMade, Store, StoreRefused, GatewayRefunds, GatewayDeclines, RecordRefund,
        GatewaySettles, HandleWebhook, CooldownPasses, vars
<1> QED BY <1>1, <1>2, <1>3

(* A row is refused only because the reservation has one already: another  *)
(* reservation has another key.                                            *)
LEMMA RefusedByOwnRow ==
    ASSUME RecordInv, ClaimInv, NEW x \in Http, StoreRefused(x)
    PROVE  row[h[x].res] # NoRow
<1>1. h[x] \in ChargeHandler
    BY HandlerKinds DEF StoreRefused, RecordInv, ChargePc
<1>2. ASSUME NEW r \in Res, row[r].key = h[x].key, h[x].key # 0 PROVE r = h[x].res /\ row[r] # NoRow
    <2>1. row[r] # NoRow
        BY <1>1, <1>2 DEF NoRow, ChargeHandler, Key
    <2>2. row[r].charge \in DOMAIN ledger /\ ledger[row[r].charge].res = r /\ ledger[row[r].charge].key = h[x].key
        BY <1>2, <2>1 DEF RecordInv, RowInv, Entry
    <2>3. <<h[x].key, r>> \in Claims
        BY <1>2, <2>2 DEF Claims, LedgerClaims
    <2>4. <<h[x].key, h[x].res>> \in Claims
        BY <1>2 DEF Claims, HandlerClaims, StoreRefused, ChargePc
    <2> QED BY <2>1, <2>3, <2>4 DEF ClaimInv
<1> QED BY <1>1, <1>2 DEF StoreRefused, RowIsUnique

LEMMA IntentStep == RecordInv /\ ClaimInv /\ NoLostIntent /\ [Next]_vars => NoLostIntent'
<1> SUFFICES ASSUME RecordInv, ClaimInv, NoLostIntent, [Next]_vars, ~(failures' > 0),
                    NEW c \in DOMAIN ledger'
             PROVE  \/ row'[ledger'[c].res].charge = c
                    \/ \E x \in Http : h'[x].pc = "store" /\ h'[x].charge = c
                    \/ row'[ledger'[c].res] # NoRow
    BY DEF NoLostIntent
<1>1. ~Failure /\ ~(failures > 0)
    BY FailureCounts
<1>2. RowKeeps /\ Grows
    BY StepEffects DEF Effects, RowStep, LedgerStep
<1>3. CASE c \notin DOMAIN ledger
    BY <1>1, <1>3, NewIntent
<1>4. CASE c \in DOMAIN ledger
    <2>1. ledger'[c].res = ledger[c].res /\ ledger[c].res \in Res
        <3>1. ledger \in Seq(Intent)
            BY DEF RecordInv, TypeOK
        <3>2. ledger[c] \in Intent
            BY <1>4, <3>1
        <3> QED BY <1>2, <1>4, <3>2 DEF Grows, Intent
    <2>2. CASE row[ledger[c].res] # NoRow
        BY <1>2, <2>1, <2>2 DEF RowKeeps
    <2>3. CASE row[ledger[c].res].charge = c
        <3>1. c # 0
            <4>1. ledger \in Seq(Intent)
                BY DEF RecordInv, TypeOK
            <4> QED BY <1>4, <4>1
        <3>2. row[ledger[c].res] # NoRow
            BY <2>3, <3>1 DEF NoRow
        <3> QED BY <2>2, <3>2
    <2>4. ASSUME NEW x \in Http, h[x].pc = "store", h[x].charge = c
          PROVE  h'[x] = h[x] \/ row'[ledger'[c].res] # NoRow
        <3>1. h[x].res = ledger[c].res
            BY <2>4 DEF RecordInv, HandlerInv, Entry
        <3>2. CASE Store(x)
            <4>1. row' = [row EXCEPT ![h[x].res] = NewRow(x)] /\ row \in [Res -> Payment \cup {NoRow}]
                BY <3>2 DEF Store, RecordInv, TypeOK
            <4>2. NewRow(x).charge = c /\ ledger \in Seq(Intent)
                BY <2>4 DEF NewRow, RecordInv, TypeOK
            <4>3. NewRow(x) # NoRow
                BY <1>4, <4>2 DEF NoRow
            <4> QED BY <2>1, <3>1, <4>1, <4>3
        <3>3. CASE StoreRefused(x)
            BY <1>2, <2>1, <3>1, <3>3, RefusedByOwnRow DEF RowKeeps
        <3> QED BY <1>1, <2>4, <3>2, <3>3, StoringChange
    <2> QED BY <1>1, <1>4, <2>2, <2>3, <2>4 DEF NoLostIntent
<1> QED BY <1>3, <1>4

-----------------------------------------------------------------------------
(* All that is needed to know which charge belongs to whom.                *)
PaymentInv == RecordInv /\ ClaimInv /\ ReceiptInv /\ ConfirmInv /\ NoLostIntent

LEMMA PaymentsStart == Init => PaymentInv
<1> SUFFICES ASSUME Init PROVE PaymentInv
    OBVIOUS
<1>1. RecordInv
    BY RecordsStart
<1>2. /\ page = [p \in Page |-> OpenPage] /\ h = [x \in Http |-> IdleHandler] /\ ledger = <<>>
      /\ idem = {} /\ receipts = {} /\ OpenPage.pc = "open" /\ IdleHandler.pc = "idle"
    BY DEF Init, OpenPage, IdleHandler
<1>3. Claims = {}
    BY <1>2 DEF Claims, PageClaims, HandlerClaims, LedgerClaims, ChargePc
<1>4. ClaimInv
    BY <1>2, <1>3 DEF ClaimInv
<1>5. ReceiptInv /\ NoLostIntent
    BY <1>2 DEF ReceiptInv, NoLostIntent
<1>6. ConfirmInv
    BY <1>2 DEF ConfirmInv, HasReceipt, ConfirmedIsPaid, Init, Lifecycle!Init, Lifecycle!WasConfirmed
<1> QED BY <1>1, <1>4, <1>5, <1>6 DEF PaymentInv

LEMMA PaymentStep == PaymentInv /\ [Next]_vars => PaymentInv'
BY StepEffects, EffectsKeep, ClaimStep, ReceiptStep, ConfirmStep, IntentStep DEF PaymentInv

(* The inductive invariant: besides the records, a key has one owner, a    *)
(* page that confirms has its receipt and no intent is lost.               *)
THEOREM PaymentsCorrect == Spec => []PaymentInv
BY PaymentsStart, PaymentStep, PTL DEF Spec

(* Whoever was told 201 is in the table, and the money is there (charge).  *)
THEOREM ReceiptsCorrect == Spec => []ReceiptsAreBacked
<1>1. PaymentInv => ReceiptsAreBacked
    BY DEF PaymentInv, RecordInv, RowInv, Entry, Paid, ReceiptInv, ReceiptsAreBacked
<1> QED BY <1>1, PaymentsCorrect, PTL

(* The payment page confirms nothing that was not paid (PaymentPage.tsx).  *)
THEOREM ConfirmationsArePaid == Spec => []ConfirmedIsPaid
<1>1. PaymentInv => ConfirmedIsPaid
    BY DEF PaymentInv, ConfirmInv
<1> QED BY <1>1, PaymentsCorrect, PTL

(* An intent without a row is being stored, or is one too many, or         *)
(* something failed (charge).                                              *)
THEOREM NoIntentIsLost == Spec => []NoLostIntent
<1>1. PaymentInv => NoLostIntent
    BY DEF PaymentInv
<1> QED BY <1>1, PaymentsCorrect, PTL

(* Whatever fails, is repeated or comes without a key: money is taken      *)
(* under a key only once it is stored, by a request that looked for it     *)
(* before, and every such request takes it once (idempotencyGuard).        *)
THEOREM KeysAreSpent == Spec => StoredKeysAreSpent
<1>1. Init => SpentInv
    BY DEF Init, SpentInv, IdleHandler
<1>2. RecordInv /\ SpentInv /\ [Next]_vars => SpentInv'
    BY GuardSteps DEF GuardStep, HandlerTries, SpentInv
<1>3. RecordInv /\ SpentInv /\ [Next]_vars =>
        [\A k \in Key :
            /\ Made(k)' # Made(k) => k \in idem /\ Trying(k)' # Trying(k)
            /\ k \in idem => k \in idem' /\ Trying(k)' \subseteq Trying(k)]_vars
    <2> SUFFICES ASSUME RecordInv, SpentInv, [Next]_vars, NEW k \in Key
                 PROVE  /\ Made(k)' # Made(k) => k \in idem /\ Trying(k)' # Trying(k)
                        /\ k \in idem => k \in idem' /\ Trying(k)' \subseteq Trying(k)
        OBVIOUS
    <2>1. GuardStep /\ k # 0
        BY GuardSteps DEF Key
    <2>2. ASSUME Made(k)' # Made(k) PROVE k \in idem /\ Trying(k)' # Trying(k)
        <3>1. PICK x \in Http : MadeBy(x)
            BY <2>1, <2>2, KeysSameMade DEF GuardStep
        <3>2. h[x].key = k
            BY <2>2, <3>1 DEF MadeBy
        <3>3. x \in Trying(k) /\ x \notin Trying(k)'
            BY <3>1, <3>2 DEF MadeBy, Trying
        <3> QED BY <2>1, <3>1, <3>2, <3>3 DEF MadeBy, SpentInv
    <2>3. ASSUME k \in idem PROVE k \in idem' /\ Trying(k)' \subseteq Trying(k)
        <3>1. ASSUME NEW x \in Http, h'[x].key = k, h'[x].pc \in {"set", "gateway"}
              PROVE  h[x].key = k /\ h[x].pc \in {"set", "gateway"}
            BY <2>1, <2>3, <3>1 DEF GuardStep, HandlerTries
        <3> QED BY <2>1, <2>3, <3>1 DEF GuardStep, Trying
    <2> QED BY <2>2, <2>3
<1> QED BY <1>1, <1>2, <1>3, RecordsCorrect, PTL DEF Spec, StoredKeysAreSpent

-----------------------------------------------------------------------------
(* Refunds.  Of each intent it is said what its row has of the money that  *)
(* went back, and what handlers have still to record.                      *)

Due(x, c) == IF h[x].pc = "record" /\ h[x].charge = c THEN h[x].back ELSE 0
Booked(c) == IF row[ledger[c].res].charge = c THEN row[ledger[c].res].refunded ELSE 0

RefundInv ==
    \A c \in DOMAIN ledger :
        /\ Booked(c) + Unrecorded(c) <= ledger[c].refunded
        /\ failures = 0 => Booked(c) + Unrecorded(c) = ledger[c].refunded

LEMMA DueType == RecordInv => \A x \in Http : \A c : Due(x, c) \in Nat
<1> SUFFICES ASSUME RecordInv, NEW x \in Http, h[x].pc = "record" PROVE h[x].back \in Nat
    BY DEF Due
<1>1. h[x] \in RefundHandler
    BY HandlerKinds DEF RecordInv, RefundPc
<1> QED BY <1>1, AssumptionsHold DEF RefundHandler, Assumptions

LEMMA UnrecordedType == ASSUME RecordInv, NEW c PROVE Unrecorded(c) \in Nat
<1>1. [x \in Http |-> Due(x, c)] \in [Http -> Nat]
    BY DueType
<1>2. Unrecorded(c) = SumFunction([x \in Http |-> Due(x, c)])
    BY DEF Unrecorded, Due
<1> QED BY <1>1, <1>2, SumType, HttpAssumption

LEMMA BookedType ==
    ASSUME RecordInv, NEW c \in DOMAIN ledger
    PROVE  Booked(c) \in Nat /\ ledger[c].refunded \in Nat /\ ledger[c].res \in Res
<1>1. ledger \in Seq(Intent) /\ Price \in Nat
    BY AssumptionsHold DEF RecordInv, TypeOK, Assumptions
<1>2. ledger[c] \in Intent
    BY <1>1
<1>3. ledger[c].refunded \in Nat /\ ledger[c].res \in Res
    BY <1>1, <1>2 DEF Intent
<1>4. row[ledger[c].res] \in Payment \cup {NoRow}
    BY <1>3 DEF RecordInv, TypeOK
<1>5. row[ledger[c].res].refunded \in Nat
    BY <1>4 DEF Payment, NoRow
<1> QED BY <1>3, <1>5 DEF Booked

(* When the handler x alone moves.                                         *)
LEMMA OneDue ==
    ASSUME RecordInv, RecordInv', NEW x \in Http, \A y \in Http \ {x} : h'[y] = h[y], NEW c
    PROVE  Unrecorded(c)' + Due(x, c) = Unrecorded(c) + Due(x, c)'
<1> DEFINE f == [y \in Http |-> Due(y, c)]
<1>1. PICK g : g = [y \in Http |-> Due(y, c)']
    OBVIOUS
<1>2. f \in [Http -> Nat] /\ g \in [Http -> Nat]
    <2>1. \A y \in Http : Due(y, c) \in Nat
        BY DueType
    <2>2. ASSUME NEW y \in Http PROVE Due(y, c)' \in Nat
        <3>1. h'[y] \in HandlerState /\ Price \in Nat
            BY AssumptionsHold DEF RecordInv, TypeOK, Assumptions
        <3>2. h'[y].pc = "record" => h'[y].back \in 0..Price
            BY <3>1 DEF HandlerState, ChargePc, IdleHandler
        <3> QED BY <3>1, <3>2 DEF Due
    <2> QED BY <1>1, <2>1, <2>2
<1>3. \A y \in Http \ {x} : f[y] = g[y]
    BY <1>1 DEF Due
<1>4. Unrecorded(c) = SumFunction(f) /\ Unrecorded(c)' = SumFunction(g)
    BY <1>1 DEF Unrecorded, Due
<1>5. f[x] = Due(x, c) /\ g[x] = Due(x, c)'
    BY <1>1
<1> HIDE DEF f
<1>6. SumFunction(g) + f[x] = SumFunction(f) + g[x]
    BY <1>2, <1>3, SumChanges, HttpAssumption
<1> QED BY <1>4, <1>5, <1>6

LEMMA SameDues ==
    ASSUME NEW c, \A x \in Http : Due(x, c)' = Due(x, c)
    PROVE  Unrecorded(c)' = Unrecorded(c)
<1>1. [x \in Http |-> Due(x, c)'] = [x \in Http |-> Due(x, c)]
    OBVIOUS
<1>2. Unrecorded(c)' = SumFunction([x \in Http |-> Due(x, c)'])
    BY DEF Unrecorded, Due
<1>3. Unrecorded(c) = SumFunction([x \in Http |-> Due(x, c)])
    BY DEF Unrecorded, Due
<1> QED BY <1>1, <1>2, <1>3

LEMMA NothingDue ==
    ASSUME NEW c, \A x \in Http : Due(x, c)' = 0
    PROVE  Unrecorded(c)' = 0
<1> DEFINE zero == [x \in Http |-> 0]
<1>1. Unrecorded(c)' = SumFunction([x \in Http |-> Due(x, c)'])
    BY DEF Unrecorded, Due
<1>2. [x \in Http |-> Due(x, c)'] = zero
    OBVIOUS
<1>3. zero \in [Http -> Nat] /\ \A x \in Http : zero[x] = 0
    OBVIOUS
<1> HIDE DEF zero
<1>4. SumFunction(zero) = 0
    BY <1>3, SumOfNothing, HttpAssumption
<1> QED BY <1>1, <1>2, <1>4

(* A step that neither pays back nor records.                              *)
DuesRest == \A x \in Http : h'[x] = h[x] \/ (h'[x].pc # "record" /\ h[x].pc # "record")
LedgerRests ==
    DOMAIN ledger' = DOMAIN ledger /\ \A c \in DOMAIN ledger : ledger'[c].refunded = ledger[c].refunded
BookedRest == \A c \in DOMAIN ledger : Booked(c)' = Booked(c)
FailuresStay == failures' = 0 => failures = 0

LEMMA RefundsRest ==
    ASSUME RefundInv, DuesRest, LedgerRests, BookedRest, FailuresStay
    PROVE  RefundInv'
<1> SUFFICES ASSUME NEW c \in DOMAIN ledger
             PROVE  /\ Booked(c)' + Unrecorded(c)' <= ledger'[c].refunded
                    /\ failures' = 0 => Booked(c)' + Unrecorded(c)' = ledger'[c].refunded
    BY DEF RefundInv, LedgerRests
<1>1. \A x \in Http : Due(x, c)' = Due(x, c)
    BY DEF DuesRest, Due
<1>2. Unrecorded(c)' = Unrecorded(c) /\ Booked(c)' = Booked(c) /\ ledger'[c].refunded = ledger[c].refunded
    BY <1>1, SameDues DEF BookedRest, LedgerRests
<1> QED BY <1>2 DEF RefundInv, FailuresStay

LEMMA RowsRest ==
    ASSUME RecordInv, Grows,
           \A r \in Res : row'[r].charge = row[r].charge /\ row'[r].refunded = row[r].refunded
    PROVE  BookedRest
<1> SUFFICES ASSUME NEW c \in DOMAIN ledger PROVE Booked(c)' = Booked(c)
    BY DEF BookedRest
<1>1. ledger'[c].res = ledger[c].res /\ ledger[c].res \in Res
    BY BookedType DEF Grows
<1> QED BY <1>1 DEF Booked

(* A new row says of no intent that money went back.                       *)
LEMMA StoreRests ==
    ASSUME RecordInv, NEW x \in Http, h[x].pc = "store", RowIsUnique(x),
           row' = [row EXCEPT ![h[x].res] = NewRow(x)], UNCHANGED ledger
    PROVE  BookedRest
<1> SUFFICES ASSUME NEW c \in DOMAIN ledger PROVE Booked(c)' = Booked(c)
    BY DEF BookedRest
<1>1. c # 0 /\ row \in [Res -> Payment \cup {NoRow}] /\ ledger[c].res \in Res
    BY BookedType DEF RecordInv, TypeOK
<1>2. CASE ledger[c].res = h[x].res
    <2>1. row'[ledger[c].res].refunded = 0
        BY <1>1, <1>2 DEF NewRow
    <2>2. Booked(c) = 0
        BY <1>1, <1>2 DEF RowIsUnique, NoRow, Booked
    <2> QED BY <2>1, <2>2 DEF Booked
<1>3. CASE ledger[c].res # h[x].res
    BY <1>1, <1>3 DEF Booked
<1> QED BY <1>2, <1>3

(* A new intent has nothing booked and nothing due.                        *)
LEMMA IntentRefunds ==
    ASSUME RecordInv, RecordInv', RefundInv, Grows, NEW x \in Http, h[x].pc = "gateway",
           NEW s \in IntentStatus, MakeIntent(x, s),
           UNCHANGED row, DuesRest, FailuresStay
    PROVE  RefundInv'
<1> DEFINE new == [res |-> h[x].res, key |-> h[x].key, status |-> s, refunded |-> 0]
<1>1. ledger \in Seq(Intent) /\ ledger' = Append(ledger, new)
    BY DEF MakeIntent, RecordInv, TypeOK
<1>2. /\ DOMAIN ledger' = DOMAIN ledger \cup {Len(ledger) + 1} /\ Len(ledger) + 1 \notin DOMAIN ledger
      /\ \A c \in DOMAIN ledger : ledger'[c] = ledger[c]
      /\ ledger'[Len(ledger) + 1] = new /\ Len(ledger) + 1 # 0
    BY <1>1
<1>3. BookedRest
    BY RowsRest
<1>4. ASSUME NEW c \in DOMAIN ledger
      PROVE  /\ Booked(c)' + Unrecorded(c)' <= ledger'[c].refunded
             /\ failures' = 0 => Booked(c)' + Unrecorded(c)' = ledger'[c].refunded
    <2>1. \A y \in Http : Due(y, c)' = Due(y, c)
        BY DEF DuesRest, Due
    <2>2. Unrecorded(c)' = Unrecorded(c) /\ Booked(c)' = Booked(c) /\ ledger'[c].refunded = ledger[c].refunded
        BY <1>2, <1>3, <2>1, SameDues DEF BookedRest
    <2> QED BY <2>2 DEF RefundInv, FailuresStay
<1>5. ASSUME NEW c, c = Len(ledger) + 1
      PROVE  Booked(c)' = 0 /\ Unrecorded(c)' = 0 /\ ledger'[c].refunded = 0
    <2>1. ledger'[c].refunded = 0 /\ ledger'[c].res = h[x].res
        BY <1>2, <1>5
    <2>2. ASSUME NEW r \in Res PROVE row[r].charge # c
        <3>1. row[r] # NoRow => row[r].charge \in DOMAIN ledger
            BY DEF RecordInv, RowInv, Entry
        <3> QED BY <1>2, <1>5, <3>1 DEF NoRow
    <2>3. h[x] \in ChargeHandler
        BY HandlerKinds DEF RecordInv, ChargePc
    <2>4. ledger'[c].res \in Res
        BY <2>1, <2>3 DEF ChargeHandler
    <2>5. Booked(c)' = 0
        BY <2>2, <2>4 DEF Booked
    <2>6. ASSUME NEW y \in Http PROVE Due(y, c)' = 0
        <3>1. h'[y].pc = "record" => h'[y] = h[y] /\ h[y].pc = "record"
            BY DEF DuesRest
        <3>2. h[y].pc = "record" => row[h[y].res].charge = h[y].charge /\ h[y].res \in Res
            <4>1. h[y].pc = "record" => h[y] \in RefundHandler
                BY HandlerKinds DEF RecordInv, RefundPc
            <4> QED BY <4>1 DEF RecordInv, HandlerInv, RefundPc, RefundHandler
        <3> QED BY <3>1, <3>2, <2>2 DEF Due
    <2>7. Unrecorded(c)' = 0
        BY <2>6, NothingDue
    <2> QED BY <2>1, <2>5, <2>7
<1> SUFFICES ASSUME NEW c \in DOMAIN ledger'
             PROVE  /\ Booked(c)' + Unrecorded(c)' <= ledger'[c].refunded
                    /\ failures' = 0 => Booked(c)' + Unrecorded(c)' = ledger'[c].refunded
    BY DEF RefundInv
<1>6. CASE c \in DOMAIN ledger
    BY <1>4, <1>6
<1>7. CASE c = Len(ledger) + 1
    BY <1>5, <1>7
<1> QED BY <1>2, <1>6, <1>7

RefundTypes ==
    \A c \in DOMAIN ledger :
        /\ Booked(c) \in Nat /\ Unrecorded(c) \in Nat /\ ledger[c].refunded \in Nat
        /\ \A x \in Http : Due(x, c) \in Nat

LEMMA RefundsAreTyped == RecordInv => RefundTypes
BY DueType, UnrecordedType, BookedType DEF RefundTypes

(* When one handler moves, what its step books and what it owes change by  *)
(* as much as the gateway's sum, or a failure accounts for the rest.       *)
LEMMA Balances ==
    ASSUME RecordInv, RecordInv', RefundInv, NEW x \in Http, \A y \in Http \ {x} : h'[y] = h[y],
           DOMAIN ledger' = DOMAIN ledger, FailuresStay,
           \A c \in DOMAIN ledger :
               /\ Booked(c)' + Due(x, c)' + ledger[c].refunded <= Booked(c) + Due(x, c) + ledger'[c].refunded
               /\ failures' = 0 =>
                     Booked(c)' + Due(x, c)' + ledger[c].refunded = Booked(c) + Due(x, c) + ledger'[c].refunded
    PROVE  RefundInv'
<1> SUFFICES ASSUME NEW c \in DOMAIN ledger
             PROVE  /\ Booked(c)' + Unrecorded(c)' <= ledger'[c].refunded
                    /\ failures' = 0 => Booked(c)' + Unrecorded(c)' = ledger'[c].refunded
    BY DEF RefundInv
<1>1. Unrecorded(c)' + Due(x, c) = Unrecorded(c) + Due(x, c)'
    BY OneDue
<1>2. Booked(c) \in Nat /\ ledger[c].refunded \in Nat /\ Due(x, c) \in Nat /\ Unrecorded(c) \in Nat
    BY RefundsAreTyped DEF RefundTypes
<1>3. Booked(c)' \in Nat /\ ledger'[c].refunded \in Nat /\ Due(x, c)' \in Nat /\ Unrecorded(c)' \in Nat
    <2>1. RefundTypes'
        BY RefundsAreTyped, PTL
    <2> QED BY <2>1 DEF RefundTypes
<1> QED BY <1>1, <1>2, <1>3 DEF RefundInv, FailuresStay

LEMMA QuietRefunds ==
    ASSUME RecordInv, RefundInv, DuesRest, FailuresStay, UNCHANGED <<row, ledger>>
    PROVE  RefundInv'
<1>1. LedgerRests /\ BookedRest
    BY DEF LedgerRests, BookedRest, Booked
<1> QED BY <1>1, RefundsRest

(* A handler moves without paying back or recording anything.              *)
LEMMA EndRests ==
    ASSUME RecordInv, NEW x \in Http, End(x), h[x].pc # "record"
    PROVE  DuesRest
BY DEF RecordInv, TypeOK, End, IdleHandler, DuesRest

LEMMA AcceptRests ==
    ASSUME RecordInv, NEW x \in Http, NEW r, NEW k, Accept(x, r, k), h[x].pc = "idle"
    PROVE  DuesRest
<1> DEFINE new == [IdleHandler EXCEPT !.pc = "get", !.op = "charge", !.res = r, !.key = k]
<1>1. new.pc = "get"
    BY DEF IdleHandler
<1>2. h' = [h EXCEPT ![x] = new] /\ h \in [Http -> HandlerState]
    BY DEF Accept, RecordInv, TypeOK
<1> HIDE DEF new
<1> QED BY <1>1, <1>2 DEF DuesRest

LEMMA GotoRests ==
    ASSUME RecordInv, NEW x \in Http, NEW pc \in {"set", "gateway"}, Goto(x, pc), h[x].pc # "record"
    PROVE  DuesRest
<1> DEFINE new == [h[x] EXCEPT !.pc = pc]
<1>1. h \in [Http -> HandlerState] /\ h' = [h EXCEPT ![x] = new]
    BY DEF RecordInv, TypeOK, Goto
<1>2. new.pc = pc
    BY <1>1 DEF HandlerState, IdleHandler
<1> HIDE DEF new
<1> QED BY <1>1, <1>2 DEF DuesRest

LEMMA RequestRefunds ==
    ASSUME RecordInv, RefundInv, NEW x \in Http, Request(x)
    PROVE  RefundInv'
<1>1. DuesRest
    <2>1. ASSUME NEW p \in Page, Resend(p, x) PROVE DuesRest
        BY <2>1, AcceptRests DEF Resend
    <2>2. ASSUME NEW p \in Page, NEW r \in Res, Submit(p, r, x) PROVE DuesRest
        BY <2>2, AcceptRests DEF Submit
    <2>3. ASSUME NEW r \in Res, NEW a \in RefundAmounts, Refund(x, r, a) PROVE DuesRest
        <3> DEFINE new == [IdleHandler EXCEPT !.pc = "refunding", !.op = "refund", !.res = r,
                                              !.charge = row[r].charge, !.amount = a]
        <3>1. new.pc = "refunding"
            BY DEF IdleHandler
        <3>2. h' = [h EXCEPT ![x] = new] /\ h \in [Http -> HandlerState] /\ h[x].pc = "idle"
            BY <2>3 DEF Refund, RecordInv, TypeOK
        <3> HIDE DEF new
        <3> QED BY <3>1, <3>2 DEF DuesRest
    <2>4. ASSUME NEW r \in Res, ChargeWithoutKey(x, r) PROVE DuesRest
        BY <2>4, KeylessHandler DEF ChargeWithoutKey, DuesRest
    <2> QED BY <2>1, <2>2, <2>3, <2>4 DEF Request
<1>2. row' = row /\ UNCHANGED gatewayVars /\ failures' = failures
    <2>1. ASSUME NEW p \in Page, Resend(p, x) PROVE row' = row /\ UNCHANGED gatewayVars /\ failures' = failures
        BY <2>1 DEF Resend
    <2>2. ASSUME NEW p \in Page, NEW r \in Res, Submit(p, r, x)
          PROVE  row' = row /\ UNCHANGED gatewayVars /\ failures' = failures
        BY <2>2 DEF Submit
    <2>3. ASSUME NEW r \in Res, NEW a \in RefundAmounts, Refund(x, r, a)
          PROVE  row' = row /\ UNCHANGED gatewayVars /\ failures' = failures
        BY <2>3 DEF Refund
    <2>4. ASSUME NEW r \in Res, ChargeWithoutKey(x, r)
          PROVE  row' = row /\ UNCHANGED gatewayVars /\ failures' = failures
        BY <2>4 DEF ChargeWithoutKey
    <2> QED BY <2>1, <2>2, <2>3, <2>4 DEF Request
<1> QED BY <1>1, <1>2, QuietRefunds DEF FailuresStay, gatewayVars

LEMMA ChargeRefunds ==
    ASSUME RecordInv, RecordInv', RefundInv, Effects, NEW x \in Http,
           \/ GuardRefuses(x) \/ GuardPasses(x) \/ GuardStores(x)
           \/ IntentMade(x) \/ Store(x) \/ StoreRefused(x)
    PROVE  RefundInv'
<1>1. FailuresStay
    BY DEF FailuresStay, GuardRefuses, GuardPasses, GuardStores, IntentMade, Store, StoreRefused
<1>2. DuesRest
    <2>1. CASE GuardRefuses(x) \/ Store(x) \/ StoreRefused(x)
        BY <2>1, EndRests DEF GuardRefuses, Store, StoreRefused, Reject, Answer
    <2>2. CASE GuardPasses(x)
        BY <2>2, GotoRests DEF GuardPasses
    <2>3. CASE GuardStores(x)
        BY <2>3, GotoRests, EndRests DEF GuardStores, Enter, Reject, Answer
    <2>4. CASE IntentMade(x)
        <3>1. PICK new : /\ new.pc = "store"
                         /\ h' = [h EXCEPT ![x] = new]
            <4>1. PICK s \in IntentStatus :
                    h' = [h EXCEPT ![x].pc = "store", ![x].charge = Len(ledger'), ![x].intent = s]
                BY <2>4 DEF IntentMade
            <4> DEFINE new == [h[x] EXCEPT !.pc = "store", !.charge = Len(ledger'), !.intent = s]
            <4>2. h[x] \in ChargeHandler
                BY <2>4, HandlerKinds DEF IntentMade, RecordInv, ChargePc
            <4>3. new.pc = "store"
                BY <4>2 DEF ChargeHandler
            <4>4. h' = [h EXCEPT ![x] = new]
                BY <4>1
            <4> HIDE DEF new
            <4> QED BY <4>3, <4>4
        <3>2. h[x].pc = "gateway"
            BY <2>4 DEF IntentMade
        <3>3. h \in [Http -> HandlerState]
            BY DEF RecordInv, TypeOK
        <3> QED BY <3>1, <3>2, <3>3 DEF DuesRest
    <2> QED BY <2>1, <2>2, <2>3, <2>4
<1>3. CASE GuardRefuses(x) \/ GuardPasses(x) \/ GuardStores(x) \/ StoreRefused(x)
    BY <1>1, <1>2, <1>3, QuietRefunds DEF GuardRefuses, GuardPasses, GuardStores, StoreRefused, gatewayVars
<1>4. CASE Store(x)
    <2>1. BookedRest /\ LedgerRests
        BY <1>4, StoreRests DEF Store, gatewayVars, LedgerRests
    <2> QED BY <1>1, <1>2, <2>1, RefundsRest
<1>5. CASE IntentMade(x)
    <2>1. Grows /\ h[x].pc = "gateway" /\ UNCHANGED row
        BY <1>5 DEF IntentMade, Effects, LedgerStep
    <2>2. PICK s \in IntentStatus : MakeIntent(x, s)
        BY <1>5 DEF IntentMade
    <2> QED BY <1>1, <1>2, <2>1, <2>2, IntentRefunds
<1> QED BY <1>3, <1>4, <1>5

(* What the gateway pays back is added to its own sum.                     *)
LEMMA PaidBack ==
    ASSUME RecordInv, NEW x \in Http, h[x].pc = "refunding", PayBack(x)
    PROVE  /\ h[x].charge \in DOMAIN ledger /\ DOMAIN ledger' = DOMAIN ledger
           /\ Payable(x) \in Nat
           /\ ledger'[h[x].charge].refunded = ledger[h[x].charge].refunded + Payable(x)
           /\ \A c \in DOMAIN ledger :
                 /\ ledger'[c].res = ledger[c].res
                 /\ c # h[x].charge => ledger'[c] = ledger[c]
<1>1. h[x].charge \in DOMAIN ledger /\ Payable(x) \in 0..Price /\ Price \in Nat
    BY PayBackKeeps, AssumptionsHold DEF Assumptions
<1> DEFINE c == h[x].charge
           paid == [ledger[c] EXCEPT !.refunded = @ + Payable(x)]
<1>2. ledger \in Seq(Intent) /\ ledger' = [ledger EXCEPT ![c] = paid]
    BY DEF RecordInv, TypeOK, PayBack
<1>3. ledger[c] \in Intent
    BY <1>1, <1>2
<1>4. paid.refunded = ledger[c].refunded + Payable(x) /\ paid.res = ledger[c].res
    BY <1>3 DEF Intent
<1> HIDE DEF c, paid
<1>5. /\ DOMAIN ledger' = DOMAIN ledger
      /\ c \in DOMAIN ledger => ledger'[c] = paid
      /\ \A d \in DOMAIN ledger : d # c => ledger'[d] = ledger[d]
    BY <1>2
<1>6. c = h[x].charge
    BY DEF c
<1> QED BY <1>1, <1>4, <1>5, <1>6

LEMMA PayBackRefunds ==
    ASSUME RecordInv, RecordInv', RefundInv, NEW x \in Http, GatewayRefunds(x)
    PROVE  RefundInv'
<1>1. /\ h[x].pc = "refunding" /\ PayBack(x) /\ row' = row /\ failures' = failures
      /\ h' = [h EXCEPT ![x].pc = "record", ![x].back = Payable(x)]
    BY DEF GatewayRefunds
<1>2. h \in [Http -> HandlerState] /\ h[x] \in RefundHandler
    BY <1>1, HandlerKinds DEF RecordInv, TypeOK, RefundPc
<1>3. h'[x].pc = "record" /\ h'[x].back = Payable(x) /\ h'[x].charge = h[x].charge
    <2> DEFINE new == [h[x] EXCEPT !.pc = "record", !.back = Payable(x)]
    <2>1. new.pc = "record" /\ new.back = Payable(x) /\ new.charge = h[x].charge
        BY <1>2 DEF RefundHandler
    <2>2. h' = [h EXCEPT ![x] = new]
        BY <1>1
    <2> HIDE DEF new
    <2> QED BY <1>2, <2>1, <2>2
<1>4. \A y \in Http \ {x} : h'[y] = h[y]
    BY <1>1, <1>2
<1>5. /\ DOMAIN ledger' = DOMAIN ledger /\ Payable(x) \in Nat
      /\ ledger'[h[x].charge].refunded = ledger[h[x].charge].refunded + Payable(x)
      /\ \A c \in DOMAIN ledger :
            /\ ledger'[c].res = ledger[c].res
            /\ c # h[x].charge => ledger'[c] = ledger[c]
    BY <1>1, PaidBack
<1>6. ASSUME NEW c \in DOMAIN ledger
      PROVE  Booked(c)' + Due(x, c)' + ledger[c].refunded = Booked(c) + Due(x, c) + ledger'[c].refunded
    <2>1. Booked(c)' = Booked(c) /\ Booked(c) \in Nat /\ ledger[c].refunded \in Nat
        BY <1>1, <1>5, BookedType DEF Booked
    <2>2. Due(x, c) = 0 /\ Due(x, c)' = IF c = h[x].charge THEN Payable(x) ELSE 0
        BY <1>1, <1>3 DEF Due
    <2>3. ledger'[c].refunded = ledger[c].refunded + (IF c = h[x].charge THEN Payable(x) ELSE 0)
        BY <1>5, <2>1
    <2> QED BY <1>5, <2>1, <2>2, <2>3
<1>7. \A c \in DOMAIN ledger :
          /\ Booked(c)' + Due(x, c)' + ledger[c].refunded <= Booked(c) + Due(x, c) + ledger'[c].refunded
          /\ failures' = 0 =>
                Booked(c)' + Due(x, c)' + ledger[c].refunded = Booked(c) + Due(x, c) + ledger'[c].refunded
    <2> SUFFICES ASSUME NEW c \in DOMAIN ledger
                 PROVE  Booked(c)' + Due(x, c)' + ledger[c].refunded <= Booked(c) + Due(x, c) + ledger'[c].refunded
        BY <1>6
    <2>1. Booked(c)' \in Nat /\ Due(x, c)' \in Nat /\ ledger[c].refunded \in Nat
        <3>1. RefundTypes'
            BY RefundsAreTyped, PTL
        <3> QED BY <1>5, <3>1, BookedType DEF RefundTypes
    <2> QED BY <1>6, <2>1
<1> QED BY <1>1, <1>4, <1>5, <1>7, Balances DEF FailuresStay

(* Money that went back without an answer is accounted for by the failure. *)
LEMMA LostRefunds ==
    ASSUME RecordInv, RecordInv', RefundInv, failures' > 0, NEW x \in Http, RefundAnswerLost(x)
    PROVE  RefundInv'
<1>1. h[x].pc = "refunding" /\ PayBack(x) /\ row' = row /\ End(x)
    BY DEF RefundAnswerLost
<1>2. /\ DOMAIN ledger' = DOMAIN ledger /\ Payable(x) \in Nat
      /\ ledger'[h[x].charge].refunded = ledger[h[x].charge].refunded + Payable(x)
      /\ \A c \in DOMAIN ledger :
            /\ ledger'[c].res = ledger[c].res
            /\ c # h[x].charge => ledger'[c] = ledger[c]
    BY <1>1, PaidBack
<1>3. h \in [Http -> HandlerState]
    BY DEF RecordInv, TypeOK
<1>4. h'[x] = IdleHandler /\ \A y \in Http \ {x} : h'[y] = h[y]
    BY <1>1, <1>3 DEF End
<1>5. ASSUME NEW c \in DOMAIN ledger
      PROVE  Booked(c)' + Due(x, c)' + ledger[c].refunded <= Booked(c) + Due(x, c) + ledger'[c].refunded
    <2>1. Booked(c)' = Booked(c) /\ Booked(c) \in Nat /\ ledger[c].refunded \in Nat
        BY <1>1, <1>2, BookedType DEF Booked
    <2>2. Due(x, c) = 0 /\ Due(x, c)' = 0
        BY <1>1, <1>4 DEF Due, IdleHandler
    <2>3. ledger'[c].refunded = ledger[c].refunded + (IF c = h[x].charge THEN Payable(x) ELSE 0)
        BY <1>2, <2>1
    <2> QED BY <1>2, <2>1, <2>2, <2>3
<1>6. FailuresStay /\ failures' # 0
    BY DEF FailuresStay
<1> QED BY <1>2, <1>4, <1>5, <1>6, Balances

(* What is recorded is no longer due.                                      *)
LEMMA RecordRefunds ==
    ASSUME RecordInv, RecordInv', RefundInv, FailuresStay, NEW x \in Http, h[x].pc = "record",
           row' = Recorded(x), End(x), UNCHANGED ledger
    PROVE  RefundInv'
<1>1. h[x] \in RefundHandler /\ h \in [Http -> HandlerState] /\ row \in [Res -> Payment \cup {NoRow}]
    BY HandlerKinds DEF RecordInv, TypeOK, RefundPc
<1>2. h[x].res \in Res /\ h[x].back \in Nat /\ row[h[x].res] # NoRow /\ row[h[x].res].charge = h[x].charge
    BY <1>1, AssumptionsHold DEF RecordInv, HandlerInv, RefundPc, RefundHandler, Assumptions
<1>3. row[h[x].res] \in Payment /\ ledger[h[x].charge].res = h[x].res
    BY <1>1, <1>2 DEF RecordInv, RowInv, Entry
<1>4. /\ row'[h[x].res].charge = h[x].charge /\ row'[h[x].res].refunded = row[h[x].res].refunded + h[x].back
      /\ \A r \in Res : r # h[x].res => row'[r] = row[r]
    <2> DEFINE new == [row[h[x].res] EXCEPT !.status = RefundedStatus(x), !.refunded = @ + h[x].back]
    <2>1. row' = [row EXCEPT ![h[x].res] = new]
        BY DEF Recorded
    <2>2. new.charge = h[x].charge /\ new.refunded = row[h[x].res].refunded + h[x].back
        BY <1>2, <1>3 DEF Payment
    <2> HIDE DEF new
    <2> QED BY <1>1, <1>2, <2>1, <2>2
<1>5. h'[x] = IdleHandler /\ \A y \in Http \ {x} : h'[y] = h[y]
    BY <1>1 DEF End
<1>6. ASSUME NEW c \in DOMAIN ledger
      PROVE  /\ Booked(c)' + Due(x, c)' + ledger[c].refunded = Booked(c) + Due(x, c) + ledger'[c].refunded
             /\ Booked(c) + Due(x, c) + ledger'[c].refunded \in Nat
    <2>1. Booked(c) \in Nat /\ ledger[c].refunded \in Nat /\ ledger[c].res \in Res
        BY BookedType
    <2>2. Due(x, c)' = 0 /\ Due(x, c) = IF c = h[x].charge THEN h[x].back ELSE 0
        BY <1>5 DEF Due, IdleHandler
    <2>3. CASE c = h[x].charge
        <3>1. Booked(c) = row[h[x].res].refunded /\ Booked(c)' = row'[h[x].res].refunded
            BY <1>2, <1>3, <1>4, <2>3 DEF Booked
        <3>2. Booked(c)' = Booked(c) + h[x].back
            BY <1>4, <3>1
        <3> QED BY <1>2, <2>1, <2>2, <2>3, <3>2
    <2>4. CASE c # h[x].charge
        <3>1. Booked(c)' = Booked(c)
            <4>1. CASE ledger[c].res = h[x].res
                BY <1>2, <1>4, <2>4, <4>1 DEF Booked
            <4>2. CASE ledger[c].res # h[x].res
                BY <1>4, <2>1, <4>2 DEF Booked
            <4> QED BY <4>1, <4>2
        <3> QED BY <2>1, <2>2, <2>4, <3>1
    <2> QED BY <2>3, <2>4
<1>7. ASSUME NEW c \in DOMAIN ledger
      PROVE  Booked(c)' + Due(x, c)' + ledger[c].refunded <= Booked(c) + Due(x, c) + ledger'[c].refunded
    BY <1>6
<1> QED BY <1>5, <1>6, <1>7, Balances

LEMMA FailureRefunds ==
    ASSUME RecordInv, RecordInv', RefundInv, Effects, failures' > 0, Failure
    PROVE  RefundInv'
<1>1. FailuresStay /\ failures' # 0
    BY DEF FailuresStay
<1>2. ASSUME NEW p \in Page, PageFails(p) PROVE RefundInv'
    BY <1>1, <1>2, QuietRefunds DEF PageFails, DuesRest, gatewayVars
<1>3. ASSUME NEW x \in Http, GatewayThrows(x) PROVE RefundInv'
    <2>1. DuesRest /\ row' = row /\ Grows /\ h[x].pc = "gateway"
        BY <1>3, EndRests DEF GatewayThrows, Reject, Answer, Effects, LedgerStep
    <2>2. CASE UNCHANGED gatewayVars
        BY <1>1, <2>1, <2>2, QuietRefunds DEF gatewayVars
    <2>3. ASSUME NEW s \in IntentStatus, MakeIntent(x, s) PROVE RefundInv'
        BY <1>1, <2>1, <2>3, IntentRefunds
    <2> QED BY <1>3, <2>2, <2>3 DEF GatewayThrows
<1>4. ASSUME NEW x \in Http, RefundAnswerLost(x) PROVE RefundInv'
    BY <1>4, LostRefunds
<1>5. ASSUME NEW x \in Http, CallFails(x) PROVE RefundInv'
    <2>1. End(x) /\ UNCHANGED ledger
        BY <1>5 DEF CallFails, Reject, Answer, gatewayVars
    <2>2. CASE h[x].pc = "record" /\ row' = Recorded(x)
        BY <1>1, <2>1, <2>2, RecordRefunds
    <2>3. CASE h[x].pc = "record" /\ UNCHANGED row
        <3>1. h[x] \in RefundHandler /\ h \in [Http -> HandlerState]
            BY <2>3, HandlerKinds DEF RecordInv, TypeOK, RefundPc
        <3>2. h'[x] = IdleHandler /\ \A y \in Http \ {x} : h'[y] = h[y]
            BY <2>1, <3>1 DEF End
        <3>3. ASSUME NEW c \in DOMAIN ledger
              PROVE  Booked(c)' + Due(x, c)' + ledger[c].refunded <= Booked(c) + Due(x, c) + ledger'[c].refunded
            <4>1. Booked(c)' = Booked(c) /\ Booked(c) \in Nat /\ ledger[c].refunded \in Nat
                BY <2>1, <2>3, BookedType DEF Booked
            <4>2. Due(x, c)' = 0 /\ Due(x, c) \in Nat
                BY <3>2, DueType DEF Due, IdleHandler
            <4> QED BY <2>1, <4>1, <4>2
        <3> QED BY <1>1, <2>1, <3>2, <3>3, Balances
    <2>4. CASE h[x].pc # "record"
        <3>1. DuesRest
            BY <2>1, <2>4, EndRests
        <3>2. LedgerRests
            BY <2>1 DEF LedgerRests
        <3>3. BookedRest
            <4>1. CASE UNCHANGED row
                BY <2>1, <4>1 DEF BookedRest, Booked
            <4>2. CASE h[x].pc = "store" /\ RowIsUnique(x) /\ row' = [row EXCEPT ![h[x].res] = NewRow(x)]
                BY <2>1, <4>2, StoreRests
            <4> QED BY <1>5, <2>4, <4>1, <4>2 DEF CallFails
        <3> QED BY <1>1, <3>1, <3>2, <3>3, RefundsRest
    <2> QED BY <1>5, <2>2, <2>3, <2>4 DEF CallFails
<1>6. CASE Crash
    <2>1. \A c : \A y \in Http : Due(y, c)' = 0
        BY <1>6 DEF Crash, Due, IdleHandler
    <2> SUFFICES ASSUME NEW c \in DOMAIN ledger PROVE Booked(c)' + Unrecorded(c)' <= ledger'[c].refunded
        BY <1>1, <1>6 DEF RefundInv, Crash, gatewayVars
    <2>2. Unrecorded(c)' = 0
        BY <2>1, NothingDue
    <2>3. Booked(c)' = Booked(c) /\ ledger' = ledger
        BY <1>6 DEF Crash, Booked, gatewayVars
    <2>4. Booked(c) \in Nat /\ Unrecorded(c) \in Nat /\ ledger[c].refunded \in Nat
        BY RefundsAreTyped DEF RefundTypes
    <2> QED BY <2>2, <2>3, <2>4 DEF RefundInv
<1> QED BY <1>2, <1>3, <1>4, <1>5, <1>6 DEF Failure

LEMMA WorldRefunds ==
    ASSUME RecordInv, RefundInv, Effects,
           \/ Booking \/ CooldownPasses \/ UNCHANGED vars
           \/ \E p \in Page : PageConfirms(p)
           \/ \E c \in 1..Len(ledger) : GatewaySettles(c)
           \/ \E e \in webhooks : HandleWebhook(e)
    PROVE  RefundInv'
<1>1. DuesRest /\ FailuresStay
    BY DEF Booking, CooldownPasses, vars, PageConfirms, GatewaySettles, HandleWebhook, DuesRest, FailuresStay
<1>2. CASE Booking \/ CooldownPasses \/ UNCHANGED vars \/ \E p \in Page : PageConfirms(p)
    <2>1. UNCHANGED <<row, ledger>>
        BY <1>2 DEF Booking, CooldownPasses, vars, PageConfirms, gatewayVars
    <2> QED BY <1>1, <2>1, QuietRefunds
<1>3. ASSUME NEW c \in 1..Len(ledger), GatewaySettles(c) PROVE RefundInv'
    <2>1. LedgerRests
        <3>1. CASE UNCHANGED ledger
            BY <3>1 DEF LedgerRests
        <3>2. CASE ledger' = [ledger EXCEPT ![c].status = "succeeded"]
            <4> DEFINE paid == [ledger[c] EXCEPT !.status = "succeeded"]
            <4>1. ledger \in Seq(Intent) /\ ledger[c] \in Intent
                BY DEF RecordInv, TypeOK
            <4>2. paid.refunded = ledger[c].refunded
                BY <4>1 DEF Intent
            <4>3. ledger' = [ledger EXCEPT ![c] = paid]
                BY <3>2
            <4> HIDE DEF paid
            <4> QED BY <4>1, <4>2, <4>3 DEF LedgerRests
        <3> QED BY <1>3, <3>1, <3>2 DEF GatewaySettles
    <2>2. BookedRest
        BY <1>3, RowsRest DEF GatewaySettles, Effects, LedgerStep
    <2> QED BY <1>1, <2>1, <2>2, RefundsRest
<1>4. ASSUME NEW e \in webhooks, HandleWebhook(e) PROVE RefundInv'
    <2>1. LedgerRests /\ Grows
        BY <1>4 DEF LedgerRests, HandleWebhook, gatewayVars, Effects, LedgerStep
    <2>2. ASSUME NEW r \in Res PROVE row'[r].charge = row[r].charge /\ row'[r].refunded = row[r].refunded
        <3>1. row[r] \in Payment \cup {NoRow}
            BY DEF RecordInv, TypeOK
        <3> DEFINE said == IF e.type = "succeeded" THEN "SUCCEEDED" ELSE "FAILED"
        <3>2. row'[r] = row[r] \/ row'[r] = [row[r] EXCEPT !.status = said]
            BY <1>4 DEF HandleWebhook
        <3> HIDE DEF said
        <3> QED BY <3>1, <3>2 DEF Payment, NoRow
    <2>3. BookedRest
        BY <2>1, <2>2, RowsRest
    <2> QED BY <1>1, <2>1, <2>3, RefundsRest
<1> QED BY <1>2, <1>3, <1>4

LEMMA RefundStep == RecordInv /\ RefundInv /\ [Next]_vars => RefundInv'
<1> SUFFICES ASSUME RecordInv, RefundInv, [Next]_vars PROVE RefundInv'
    OBVIOUS
<1>1. Effects /\ RecordInv' /\ failures \in Nat /\ (Failure => failures' > 0)
    BY StepEffects, EffectsKeep, FailureCounts
<1>2. ASSUME NEW x \in Http, Request(x) PROVE RefundInv'
    BY <1>2, RequestRefunds
<1>3. ASSUME NEW x \in Http, Serve(x) PROVE RefundInv'
    <2>1. CASE \/ GuardRefuses(x) \/ GuardPasses(x) \/ GuardStores(x)
               \/ IntentMade(x) \/ Store(x) \/ StoreRefused(x)
        BY <1>1, <2>1, ChargeRefunds
    <2>2. CASE GatewayRefunds(x)
        BY <1>1, <2>2, PayBackRefunds
    <2>3. CASE GatewayDeclines(x)
        <3>1. DuesRest
            BY <2>3, EndRests DEF GatewayDeclines
        <3> QED BY <2>3, <3>1, QuietRefunds DEF GatewayDeclines, gatewayVars, FailuresStay
    <2>4. CASE RecordRefund(x)
        BY <1>1, <2>4, RecordRefunds DEF RecordRefund, gatewayVars, FailuresStay
    <2> QED BY <1>3, <2>1, <2>2, <2>3, <2>4 DEF Serve
<1>4. CASE Failure
    BY <1>1, <1>4, FailureRefunds
<1>5. CASE \/ Booking \/ CooldownPasses \/ UNCHANGED vars
           \/ \E p \in Page : PageConfirms(p)
           \/ \E c \in 1..Len(ledger) : GatewaySettles(c)
           \/ \E e \in webhooks : HandleWebhook(e)
    BY <1>1, <1>5, WorldRefunds
<1> QED BY <1>2, <1>3, <1>4, <1>5 DEF Next

(* However many refunds of one payment overlap, in whatever order they are *)
(* recorded: the table and the handlers together never say that more went  *)
(* back than the gateway paid back, and without a failure they say exactly *)
(* as much (refund: the increment of refundedAmountInCents).               *)
THEOREM RefundsAreNotLost == Spec => []RefundsAddUp
<1>1. Init => RefundInv
    BY DEF Init, RefundInv
<1>2. RecordInv /\ RefundInv => RefundsAddUp
    <2> SUFFICES ASSUME RecordInv, RefundInv, NEW r \in Res, row[r] # NoRow
                 PROVE  /\ row[r].refunded + Unrecorded(row[r].charge) <= ledger[row[r].charge].refunded
                        /\ failures = 0 =>
                              row[r].refunded + Unrecorded(row[r].charge) = ledger[row[r].charge].refunded
        BY DEF RefundsAddUp
    <2>1. row[r].charge \in DOMAIN ledger /\ ledger[row[r].charge].res = r
        BY DEF RecordInv, RowInv, Entry
    <2>2. Booked(row[r].charge) = row[r].refunded
        BY <2>1 DEF Booked
    <2> QED BY <2>1, <2>2 DEF RefundInv
<1> QED BY <1>1, <1>2, RefundStep, RecordsCorrect, PTL DEF Spec
=============================================================================
