---------------------------- MODULE GatewayCalls ----------------------------
(***************************************************************************)
(* The calls of one process that go through its circuit breaker (execute   *)
(* in circuit-breaker.ts, around the gateway calls of charge and refund).  *)
(* Payments shows what such calls do to the money; here only the order in  *)
(* which they begin and end counts, so that there is room for a threshold  *)
(* above one and for several failures.                                     *)
(***************************************************************************)
EXTENDS Naturals

CONSTANTS
    Caller,             \* requests that may be in a gateway call at a time
    FailureThreshold,   \* failures that open the breaker
    MaxCallFailures     \* bound on calls that are rejected

ASSUME ThresholdAssumption == FailureThreshold \in Nat \ {0}
ASSUME CallFailuresAssumption == MaxCallFailures \in Nat

VARIABLES
    circuit, failureCount, cooledDown,  \* the breaker
    calling,                            \* those whose call has not ended
    callFailures                        \* calls that were rejected so far

gatewayVars == <<circuit, failureCount, cooledDown, calling, callFailures>>

Breaker == INSTANCE CircuitBreaker

GatewayTypeOK ==
    /\ Breaker!TypeOK
    /\ calling \subseteq Caller
    /\ callFailures \in 0..MaxCallFailures

GatewayInit ==
    /\ Breaker!Init
    /\ calling = {}
    /\ callFailures = 0

-----------------------------------------------------------------------------
(* A caller that is refused changes nothing.                               *)
BeginCall(x) ==
    /\ x \notin calling
    /\ Breaker!Enter
    /\ calling' = calling \cup {x}
    /\ UNCHANGED callFailures

(* The result counts for the breaker as it is now, not as it was when the  *)
(* call began.                                                             *)
CallSucceeds(x) ==
    /\ x \in calling
    /\ Breaker!OnSuccess
    /\ calling' = calling \ {x}
    /\ UNCHANGED callFailures

CallRejects(x) ==
    /\ x \in calling
    /\ callFailures < MaxCallFailures
    /\ callFailures' = callFailures + 1
    /\ Breaker!OnFailure
    /\ calling' = calling \ {x}

CooldownEnds == Breaker!CooldownPasses /\ UNCHANGED <<calling, callFailures>>

ProcessRestarts == Breaker!Restart /\ calling' = {} /\ UNCHANGED callFailures

EndCall(x) == CallSucceeds(x) \/ CallRejects(x)

GatewayNext ==
    \/ \E x \in Caller : BeginCall(x) \/ EndCall(x)
    \/ CooldownEnds
    \/ ProcessRestarts

GatewaySpec == GatewayInit /\ [][GatewayNext]_gatewayVars

-----------------------------------------------------------------------------
(* Properties.                                                             *)

(* The breaker is closed exactly while fewer than the threshold of calls   *)
(* have failed since the last one that succeeded, in whatever order calls  *)
(* that overlap end and whatever state they began in (onSuccess,           *)
(* onFailure).  Whom it lets pass while it is half open is another matter: *)
(* everybody.                                                              *)
ClosedMeansFewFailures == Breaker!ClosedMeansFewFailures

(* The breaker is never half open for ever: the calls that were let        *)
(* through decide, whichever of them answers first.                        *)
HalfOpenEnds == []<>(circuit # "HALF_OPEN")
=============================================================================
