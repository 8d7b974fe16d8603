------------------------------ MODULE Services ------------------------------
(***************************************************************************)
(* The parts that share no state with booking, payments and tickets, or    *)
(* with each other: prices, event details, lists, sessions, the checkout   *)
(* page, the life of a process, and values.  Steps of two of them commute, *)
(* so that nothing is lost when a behaviour moves only one part; which one *)
(* is chosen at the start.  The breaker, which Payments uses too, is here  *)
(* with more callers and failures than fit beside the payments.            *)
(***************************************************************************)
EXTENDS Pricing, EventCache, Listing, Sessions, Checkout, Shutdown, GatewayCalls,
        ValueObjects

VARIABLE part
serviceVars ==
    <<part, pricingVars, eventVars, listingVars, sessionVars, checkoutVars, processVars, gatewayVars, sample>>

Init ==
    /\ part \in {"pricing", "event", "listing", "sessions", "checkout", "process", "gateway", "values"}
    /\ PricingInit /\ EventInit /\ ListingInit /\ SessionInit /\ CheckoutInit /\ ShutdownInit
    /\ GatewayInit
    /\ IF part = "values" THEN ValuesInit ELSE sample = NoSample
    /\ part # "pricing" => log = <<>>            \* one state is enough for a part that rests
    /\ part # "sessions" => ~registered

InPricing(A) ==
    /\ part = "pricing" /\ A
    /\ UNCHANGED <<part, sample, eventVars, listingVars, sessionVars, checkoutVars, processVars, gatewayVars>>
InEvent(A) ==
    /\ part = "event" /\ A
    /\ UNCHANGED <<part, sample, pricingVars, listingVars, sessionVars, checkoutVars, processVars, gatewayVars>>
InListing(A) ==
    /\ part = "listing" /\ A
    /\ UNCHANGED <<part, sample, pricingVars, eventVars, sessionVars, checkoutVars, processVars, gatewayVars>>
InSessions(A) ==
    /\ part = "sessions" /\ A
    /\ UNCHANGED <<part, sample, pricingVars, eventVars, listingVars, checkoutVars, processVars, gatewayVars>>
InCheckout(A) ==
    /\ part = "checkout" /\ A
    /\ UNCHANGED <<part, sample, pricingVars, eventVars, listingVars, sessionVars, processVars, gatewayVars>>
InProcess(A) ==
    /\ part = "process" /\ A
    /\ UNCHANGED <<part, sample, pricingVars, eventVars, listingVars, sessionVars, checkoutVars, gatewayVars>>
InGateway(A) ==
    /\ part = "gateway" /\ A
    /\ UNCHANGED <<part, sample, pricingVars, eventVars, listingVars, sessionVars, checkoutVars, processVars>>

Next ==
    \/ InPricing(PricingNext)
    \/ InEvent(EventNext)
    \/ InListing(ListingNext)
    \/ InSessions(SessionNext)
    \/ InCheckout(CheckoutNext)
    \/ InProcess(ShutdownNext)
    \/ InGateway(GatewayNext)

Spec == Init /\ [][Next]_serviceVars

(* Requests that were accepted are served, every call is answered or       *)
(* rejected in the end, Redis drops a key at its TTL.  Nobody has to send, *)
(* to change or to close anything.                                         *)
Fairness ==
    /\ WF_eventVars(InEvent(CopyExpires))
    /\ \A x \in Editor : WF_eventVars(InEvent(ServeEditor(x)))
    /\ \A j \in Job : WF_sessionVars(InSessions(Serve(j)))
    /\ \A x \in Caller : WF_gatewayVars(InGateway(EndCall(x)))

FairSpec == Spec /\ Fairness

(* Every variable keeps to the values that the code gives it.              *)
TypeOK ==
    /\ PricingTypeOK /\ EventTypeOK /\ ListingTypeOK
    /\ SessionTypeOK /\ CheckoutTypeOK /\ ShutdownTypeOK /\ GatewayTypeOK
=============================================================================
