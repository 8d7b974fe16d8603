--------------------------- MODULE CircuitBreaker ---------------------------
(***************************************************************************)
(* The circuit breaker in front of the payment gateway                     *)
(* (circuit-breaker.ts).  One object per server process; calls overlap, so *)
(* that a call may end in another state than it began in.                  *)
(***************************************************************************)
EXTENDS Naturals

CONSTANT FailureThreshold     \* at least 1, which Payments assumes

VARIABLES
    circuit,            \* state
    failureCount,
    cooledDown          \* have cooldownMs passed since lastFailureTime?

breakerVars == <<circuit, failureCount, cooledDown>>

CircuitState == {"CLOSED", "OPEN", "HALF_OPEN"}

Init ==
    /\ circuit = "CLOSED"
    /\ failureCount = 0
    /\ cooledDown = TRUE

Refuses == circuit = "OPEN" /\ ~cooledDown

(* execute, up to the call: nothing limits how many callers pass.          *)
Enter ==
    /\ ~Refuses
    /\ circuit' = IF circuit = "OPEN" THEN "HALF_OPEN" ELSE circuit
    /\ UNCHANGED <<failureCount, cooledDown>>

(* Variant: the count survives a success, as if failures need not follow   *)
(* one another.                                                            *)
KeepCount ==
    /\ circuit' = "CLOSED"
    /\ UNCHANGED <<failureCount, cooledDown>>

(* Variant: a success resets the count only. *)
StayOpen == failureCount' = 0 /\ UNCHANGED <<circuit, cooledDown>>

OnSuccess ==
    /\ failureCount' = 0
    /\ circuit' = "CLOSED"
    /\ UNCHANGED cooledDown

OnFailure ==
    /\ failureCount' = failureCount + 1
    /\ cooledDown' = FALSE
    /\ circuit' = IF failureCount' >= FailureThreshold \/ circuit = "HALF_OPEN"
                  THEN "OPEN" ELSE circuit

(* Date.now() - lastFailureTime grows past cooldownMs.                     *)
CooldownPasses ==
    /\ ~cooledDown
    /\ cooledDown' = TRUE
    /\ UNCHANGED <<circuit, failureCount>>

(* The object is made anew with the process; reset() does the same.        *)
Restart == circuit' = "CLOSED" /\ failureCount' = 0 /\ cooledDown' = TRUE

Next == Enter \/ OnSuccess \/ OnFailure \/ CooldownPasses \/ Restart

Spec == Init /\ [][Next]_breakerVars

-----------------------------------------------------------------------------
TypeOK ==
    /\ circuit \in CircuitState
    /\ failureCount \in Nat
    /\ cooledDown \in BOOLEAN

(* The breaker is closed exactly while fewer than FailureThreshold calls   *)
(* have failed since the last success, although late answers of calls that *)
(* began in another state move it too (onSuccess, onFailure).  It says     *)
(* nothing of who passes while it is half open: every caller does.         *)
ClosedMeansFewFailures == circuit = "CLOSED" <=> failureCount < FailureThreshold
=============================================================================
