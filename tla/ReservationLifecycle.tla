------------------------ MODULE ReservationLifecycle ------------------------
(***************************************************************************)
(* What the reservation entity promises about every reservation, whoever   *)
(* uses it at the same time (reservation.entity.ts): the transitions it    *)
(* lists, one version per transition, and events that tell the truth and   *)
(* are told at most once.  The module Booking implements this.             *)
(***************************************************************************)
EXTENDS Naturals

CONSTANT Res                        \* the reservation identifiers

VARIABLES
    status,                         \* "NONE" until the reservation is made
    version,                        \* 0 until then, and 1 once it is made
    told                            \* how often each event was published

vars == <<status, version, told>>

Event == {"reservation.confirmed", "notification.send",
          "reservation.cancelled", "reservation.cancelled (refund)"}

Init ==
    /\ status = [r \in Res |-> "NONE"]
    /\ version = [r \in Res |-> 0]
    /\ told = [r \in Res |-> [e \in Event |-> 0]]

(* One reservation moves from one status to another, by one version.       *)
Move(r, from, to) ==
    /\ status[r] = from
    /\ status' = [status EXCEPT ![r] = to]
    /\ version' = [version EXCEPT ![r] = @ + 1]
    /\ UNCHANGED told

Create(r)      == Move(r, "NONE", "PENDING")
Confirm(r)     == Move(r, "PENDING", "CONFIRMED")
Expire(r)      == Move(r, "PENDING", "EXPIRED")
CancelHold(r)  == Move(r, "PENDING", "CANCELLED")
CancelPaid(r)  == Move(r, "CONFIRMED", "CANCELLED")

(* The history behind the current status.  The third version of a          *)
(* reservation is a cancellation after a confirmation.                     *)
WasConfirmed(r) == status[r] = "CONFIRMED" \/ (status[r] = "CANCELLED" /\ version[r] = 3)

MayTell(r, e) ==
    CASE e = "reservation.confirmed" -> WasConfirmed(r)
      [] e = "notification.send"     -> WasConfirmed(r) /\ told[r]["reservation.confirmed"] = 1
      [] e = "reservation.cancelled" -> status[r] = "CANCELLED" /\ version[r] = 2
      [] e = "reservation.cancelled (refund)" -> status[r] = "CANCELLED" /\ version[r] = 3

Tell(r, e) ==
    /\ told[r][e] = 0
    /\ MayTell(r, e)
    /\ told' = [told EXCEPT ![r][e] = 1]
    /\ UNCHANGED <<status, version>>

Next ==
    \E r \in Res :
        \/ Create(r) \/ Confirm(r) \/ Expire(r) \/ CancelHold(r) \/ CancelPaid(r)
        \/ \E e \in Event : Tell(r, e)

Spec == Init /\ [][Next]_vars
=============================================================================
