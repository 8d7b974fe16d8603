------------------------------ MODULE Checkout ------------------------------
(***************************************************************************)
(* A customer on the way to the payment: choosing seats, the hold, and the *)
(* checkout page, which shows a copy of the reservation that it fetches    *)
(* again and again (EventDetailPage.tsx, SeatMap.tsx, CheckoutPage.tsx,    *)
(* useCountdown.ts).  Of the server only the status of the reservation is  *)
(* modelled, which moves by other hands too, and of one reservation: the   *)
(* hold of other seats after it would be another one.                      *)
(***************************************************************************)
EXTENDS Naturals, FiniteSets

CONSTANTS
    Spot,               \* seats on the map
    MaxPicked,          \* maxSeats of SeatMap
    Fetch,              \* GET requests for the reservation under way
    MaxLost             \* bound on rejected calls

ASSUME CheckoutAssumption == MaxLost \in Nat

VARIABLES
    picked,             \* the selection, which is gone with its page
    view,               \* the page that is shown
    holding,            \* the hold mutation
    booked,             \* reservations.status
    timeUp,             \* has expiresAt passed?
    copy,               \* what the query cache knows of the reservation
    fetch,              \* the requests for it, each with its one retry
    wanted,             \* those whose answer the query still wants: the last one
    errorShown,         \* has the last request failed?  The page then says: not found
    cancelling,         \* the cancel mutation
    lost

checkoutVars == <<picked, view, holding, booked, timeUp, copy, fetch, wanted, errorShown, cancelling, lost>>

-----------------------------------------------------------------------------
BookedStatus == {"NONE", "PENDING", "CONFIRMED", "EXPIRED", "CANCELLED"}

CheckoutTypeOK ==
    /\ picked \subseteq Spot
    /\ view \in {"event", "checkout", "payment"}
    /\ holding \in {"none", "sent", "held", "refused"}
    /\ booked \in BookedStatus /\ copy \in BookedStatus
    /\ timeUp \in BOOLEAN /\ errorShown \in BOOLEAN
    /\ fetch \in [Fetch -> {"none", "sent", "failed"} \cup BookedStatus]
    /\ wanted \subseteq Fetch /\ Cardinality(wanted) <= 1
    /\ cancelling \in {"none", "sent", "done", "refused"}
    /\ lost \in 0..MaxLost

CheckoutInit ==
    /\ picked = {}
    /\ view = "event"
    /\ holding = "none"
    /\ booked = "NONE"
    /\ timeUp = FALSE
    /\ copy = "NONE"
    /\ fetch = [f \in Fetch |-> "none"]
    /\ wanted = {}
    /\ errorShown = FALSE
    /\ cancelling = "none"
    /\ lost = 0

Lose == lost < MaxLost /\ lost' = lost + 1

-----------------------------------------------------------------------------
(* The event page.  The map is not locked while the hold is under way.     *)

MayPick(s) == s \in picked \/ Cardinality(picked) < MaxPicked

Toggle(s) ==
    /\ view = "event" /\ MayPick(s)
    /\ picked' = IF s \in picked THEN picked \ {s} ELSE picked \cup {s}
    /\ UNCHANGED <<view, holding, booked, timeUp, copy, fetch, wanted, errorShown, cancelling, lost>>

(* The bar with the button is there for a selection, and waits for a hold. *)
MayContinue == picked # {} /\ holding = "none"

Continue ==
    /\ view = "event" /\ MayContinue
    /\ holding' = "sent"
    /\ UNCHANGED <<picked, view, booked, timeUp, copy, fetch, wanted, errorShown, cancelling, lost>>

(* POST /hold, which makes the reservation or refuses; its answer may be   *)
(* lost, and then the browser never learns of the reservation.             *)
ServeHold ==
    /\ holding = "sent"
    /\ \/ booked = "NONE" /\ booked' = "PENDING" /\ holding' = "held" /\ UNCHANGED lost
       \/ booked = "NONE" /\ booked' = "PENDING" /\ holding' = "refused" /\ Lose
       \/ holding' = "refused" /\ UNCHANGED <<booked, lost>>
    /\ UNCHANGED <<picked, view, timeUp, copy, fetch, wanted, errorShown, cancelling>>

HoldAnswered ==
    /\ holding \in {"held", "refused"}
    /\ view' = IF holding = "held" THEN "checkout" ELSE view
    /\ picked' = IF holding = "held" THEN {} ELSE picked
    /\ holding' = "none"
    /\ UNCHANGED <<booked, timeUp, copy, fetch, wanted, errorShown, cancelling, lost>>

-----------------------------------------------------------------------------
(* The query ['reservation', id]: one request at a time, except that a     *)
(* refetch drops the one under way and sends another.                      *)

Ask(f) ==
    /\ fetch[f] = "none"
    /\ fetch' = [fetch EXCEPT ![f] = "sent"]
    /\ wanted' = {f}
    /\ UNCHANGED <<picked, view, holding, booked, timeUp, copy, errorShown, cancelling, lost>>

(* On mount when the copy is missing or 30 seconds old, on the checkout    *)
(* page also every 30 seconds.  Seconds are not counted.                   *)
Poll(f) == view # "event" /\ wanted = {} /\ Ask(f)

(* The countdown and the buttons are there for a pending copy only.        *)
ShowsHold == view = "checkout" /\ copy = "PENDING" /\ ~errorShown

(* The countdown of a pending copy is at zero: refetch, every second.      *)
CountdownOver(f) == ShowsHold /\ timeUp /\ Ask(f)

ServeFetch(f) ==
    /\ fetch[f] = "sent"
    /\ \/ fetch' = [fetch EXCEPT ![f] = booked] /\ UNCHANGED lost
       \/ fetch' = [fetch EXCEPT ![f] = "failed"] /\ Lose
    /\ UNCHANGED <<picked, view, holding, booked, timeUp, copy, wanted, errorShown, cancelling>>

(* Variant: a request that was replaced still answers.                     *)
AnyCopy(f) == IF fetch[f] # "failed" THEN fetch[f] ELSE copy

(* A failed request leaves the copy as it is, one that was replaced is not *)
(* listened to.                                                            *)
NewCopy(f) == IF f \in wanted /\ fetch[f] # "failed" THEN fetch[f] ELSE copy

FetchAnswered(f) ==
    /\ fetch[f] \notin {"none", "sent"}
    /\ copy' = NewCopy(f)
    /\ wanted' = wanted \ {f}
    /\ errorShown' = IF f \in wanted THEN fetch[f] = "failed" ELSE errorShown
    /\ fetch' = [fetch EXCEPT ![f] = "none"]
    /\ UNCHANGED <<picked, view, holding, booked, timeUp, cancelling, lost>>

-----------------------------------------------------------------------------
(* The buttons under a hold; they stay while a cancellation is under way.  *)

GoToPayment ==
    /\ ShowsHold
    /\ view' = "payment"
    /\ UNCHANGED <<picked, holding, booked, timeUp, copy, fetch, wanted, errorShown, cancelling, lost>>

Cancel ==
    /\ ShowsHold /\ cancelling = "none"
    /\ cancelling' = "sent"
    /\ UNCHANGED <<picked, view, holding, booked, timeUp, copy, fetch, wanted, errorShown, lost>>

(* DELETE /:id/hold, which cancels a paid reservation just as well.        *)
ServeCancel ==
    /\ cancelling = "sent"
    /\ \/ /\ booked \in {"PENDING", "CONFIRMED"}
          /\ booked' = "CANCELLED"
          /\ \/ cancelling' = "done" /\ UNCHANGED lost
             \/ cancelling' = "refused" /\ Lose
       \/ cancelling' = "refused" /\ UNCHANGED <<booked, lost>>
    /\ UNCHANGED <<picked, view, holding, timeUp, copy, fetch, wanted, errorShown>>

(* The copy stays in the cache as it is.                                   *)
CancelAnswered ==
    /\ cancelling \in {"done", "refused"}
    /\ view' = IF cancelling = "done" THEN "event" ELSE view
    /\ picked' = IF cancelling = "done" THEN {} ELSE picked
    /\ cancelling' = "none"
    /\ UNCHANGED <<holding, booked, timeUp, copy, fetch, wanted, errorShown, lost>>

(* Back, forward, or a link that was kept.                                 *)
Navigate(page) ==
    /\ copy # "NONE" /\ page # view
    /\ view' = page
    /\ picked' = {}
    /\ UNCHANGED <<holding, booked, timeUp, copy, fetch, wanted, errorShown, cancelling, lost>>

-----------------------------------------------------------------------------
(* The reservation by other hands, and the clock.                          *)
Moves == {<<"PENDING", "CONFIRMED">>, <<"PENDING", "EXPIRED">>, <<"PENDING", "CANCELLED">>,
          <<"CONFIRMED", "CANCELLED">>}

Move ==
    /\ \E s \in BookedStatus : <<booked, s>> \in Moves /\ booked' = s
    /\ UNCHANGED <<picked, view, holding, timeUp, copy, fetch, wanted, errorShown, cancelling, lost>>

TimePasses ==
    /\ booked # "NONE" /\ ~timeUp
    /\ timeUp' = TRUE
    /\ UNCHANGED <<picked, view, holding, booked, copy, fetch, wanted, errorShown, cancelling, lost>>

-----------------------------------------------------------------------------
ServeCheckout ==
    \/ ServeHold \/ HoldAnswered \/ ServeCancel \/ CancelAnswered
    \/ \E f \in Fetch : ServeFetch(f) \/ FetchAnswered(f)

CheckoutNext ==
    \/ \E s \in Spot : Toggle(s)
    \/ Continue \/ GoToPayment \/ Cancel \/ Move \/ TimePasses
    \/ \E page \in {"event", "checkout", "payment"} : Navigate(page)
    \/ \E f \in Fetch : Poll(f) \/ CountdownOver(f)
    \/ ServeCheckout

CheckoutSpec == CheckoutInit /\ [][CheckoutNext]_checkoutVars

-----------------------------------------------------------------------------
(* Properties.                                                             *)

Later ==
    {<<"NONE", s>> : s \in BookedStatus} \cup Moves

(* What the customer is shown never goes back in time: once the page has   *)
(* said confirmed, expired or cancelled, no answer of an earlier request   *)
(* that comes late makes it offer the payment of a hold again, although    *)
(* the countdown sends a request every second and polling one more         *)
(* (CheckoutPage.tsx: query, handleExpired).                               *)
CopyNeverGoesBack == [][copy' = copy \/ <<copy, copy'>> \in Later]_checkoutVars
=============================================================================
