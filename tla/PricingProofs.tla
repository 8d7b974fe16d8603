---------------------------- MODULE PricingProofs ----------------------------
(***************************************************************************)
(* What the prices keep to, for any number of handlers, amounts and        *)
(* failures.                                                               *)
(***************************************************************************)
EXTENDS Pricing, FoldLemmas

-----------------------------------------------------------------------------
(* Replaying a log.                                                        *)

LEMMA ZeroPriceType == ZeroPrice \in PriceOf /\ NoPrice \in PriceOf
BY DEF ZeroPrice, NoPrice, Price, PriceOf

LEMMA ApplyType == \A price \in PriceOf, event \in LoggedEvent : Apply(price, event) \in PriceOf
BY DEF Apply, Price, PriceOf, LoggedEvent, Change

LEMMA RowsAreFinite ==
    ASSUME NEW T, NEW events \in Seq(T)
    PROVE  IsFiniteSet(ToSet(events)) /\ ToSet(events) \subseteq T
<1>1. events \in Surjection(1..Len(events), ToSet(events))
    BY DEF Surjection, ToSet
<1>2. IsFiniteSet(1..Len(events))
    BY FS_Interval
<1> QED BY <1>1, <1>2, FS_Surjection DEF ToSet

LEMMA LatestIsThere ==
    ASSUME NEW rows, IsFiniteSet(rows), rows \subseteq LoggedEvent
    PROVE  \A S \in SUBSET rows : S # {} => Latest(S) \in S
<1> DEFINE K == {S \in SUBSET rows : S # {} => \E e \in S : \A f \in S : f.at <= e.at}
<1>1. {} \in K
    OBVIOUS
<1>2. ASSUME NEW S \in SUBSET rows, S # {}, \A x \in S : S \ {x} \in K PROVE S \in K
    <2>1. PICK x \in S : TRUE
        BY <1>2
    <2>2. \A e \in S : e.at \in Nat
        BY PricingAssumption DEF LoggedEvent
    <2>3. CASE S \ {x} = {}
        BY <2>1, <2>2, <2>3
    <2>4. CASE S \ {x} # {}
        <3>1. PICK e \in S \ {x} : \A f \in S \ {x} : f.at <= e.at
            BY <1>2, <2>1, <2>4
        <3>2. CASE x.at <= e.at
            BY <3>1, <3>2
        <3>3. CASE ~(x.at <= e.at)
            <4>1. \A f \in S : f.at <= x.at
                BY <2>1, <2>2, <3>1, <3>3
            <4> QED BY <2>1, <4>1
        <3> QED BY <3>2, <3>3
    <2> QED BY <2>3, <2>4
<1>3. SUBSET rows \subseteq K
    <2> HIDE DEF K
    <2> QED BY <1>1, <1>2, SubsetInduction, Zenon
<1> QED BY <1>3 DEF Latest

(* The replay applies the latest event to the replay of the others.        *)
LEMMA ReplayUnfolds ==
    ASSUME NEW events \in Seq(LoggedEvent)
    PROVE  \E f : /\ Replay(events) = f[ToSet(events)]
                  /\ f[{}] = ZeroPrice
                  /\ \A S \in SUBSET ToSet(events) : S # {} =>
                        Latest(S) \in S /\ f[S] = Apply(f[S \ {Latest(S)}], Latest(S))
<1> DEFINE rows == ToSet(events)
           step == [p \in rows \X PriceOf |-> Apply(p[2], p[1])]
           pick == [S \in SUBSET rows |-> Latest(S)]
           Body(f) == [S \in SUBSET rows |->
                          IF S = {} THEN ZeroPrice ELSE Apply(f[S \ {Latest(S)}], Latest(S))]
<1>1. IsFiniteSet(rows) /\ rows \subseteq LoggedEvent
    BY RowsAreFinite
<1>2. \A S \in SUBSET rows : S # {} => Latest(S) \in S
    BY <1>1, LatestIsThere
<1>3. step \in [rows \X PriceOf -> PriceOf] /\ Picks(pick, rows)
    BY <1>1, <1>2, ApplyType DEF Picks
<1>4. PICK f : IsFold(f, rows, PriceOf, ZeroPrice, step, pick)
    <2> HIDE DEF rows, step, pick
    <2> QED BY <1>1, <1>3, ZeroPriceType, SubsetRecursion
<1>5. /\ f \in [SUBSET rows -> PriceOf]
      /\ \A S \in SUBSET rows : f[S] = IF S = {} THEN ZeroPrice ELSE Apply(f[S \ {Latest(S)}], Latest(S))
    BY <1>2, <1>4 DEF IsFold
<1>6. f = Body(f)
    BY <1>5
<1>7. (CHOOSE g : g = Body(g)) = Body(CHOOSE g : g = Body(g))
    BY <1>6
<1>8. Replay(events) = (CHOOSE g : g = Body(g))[rows]
    BY DEF Replay, MapThenFoldSet
<1> DEFINE fold == CHOOSE g : g = Body(g)
<1>9. fold = Body(fold) /\ Replay(events) = fold[rows]
    BY <1>7, <1>8
<1>10. fold[{}] = ZeroPrice /\ \A S \in SUBSET rows : S # {} => fold[S] = Apply(fold[S \ {Latest(S)}], Latest(S))
    <2> HIDE DEF fold
    <2> QED BY <1>9
<1> QED
    <2> HIDE DEF fold
    <2> QED BY <1>2, <1>9, <1>10

LEMMA ReplayOfNothing == Replay(<<>>) = ZeroPrice
<1>1. ToSet(<<>>) = {}
    BY DEF ToSet
<1>2. <<>> \in Seq(LoggedEvent)
    OBVIOUS
<1> QED BY <1>1, <1>2, ReplayUnfolds

LEMMA ReplayType == ASSUME NEW events \in Seq(LoggedEvent) PROVE Replay(events) \in PriceOf
<1> DEFINE rows == ToSet(events)
<1>1. IsFiniteSet(rows) /\ rows \subseteq LoggedEvent
    BY RowsAreFinite
<1>2. PICK f : /\ Replay(events) = f[rows] /\ f[{}] = ZeroPrice
               /\ \A S \in SUBSET rows : S # {} =>
                     Latest(S) \in S /\ f[S] = Apply(f[S \ {Latest(S)}], Latest(S))
    BY ReplayUnfolds
<1> DEFINE K == {S \in SUBSET rows : f[S] \in PriceOf}
<1>3. {} \in K
    BY <1>2, ZeroPriceType
<1>4. ASSUME NEW S \in SUBSET rows, S # {}, \A x \in S : S \ {x} \in K PROVE S \in K
    <2>1. Latest(S) \in LoggedEvent /\ f[S \ {Latest(S)}] \in PriceOf
        BY <1>1, <1>2, <1>4
    <2>2. f[S] = Apply(f[S \ {Latest(S)}], Latest(S))
        BY <1>2, <1>4
    <2> QED BY <2>1, <2>2, ApplyType
<1>5. SUBSET rows \subseteq K
    <2> HIDE DEF K, rows
    <2> QED BY <1>1, <1>3, <1>4, SubsetInduction, Zenon
<1> QED BY <1>2, <1>5

-----------------------------------------------------------------------------
(* Types, and which local variables of a handler mean something where.     *)

Changes(x) == pricer[x].event # NoEvent

PricerControl ==
    \A x \in Pricer :
        /\ pricer[x].pc \in {"idle", "cache", "row"} => ~Changes(x)
        /\ pricer[x].pc = "append" => Changes(x)
        /\ Changes(x) => pricer[x].op # "READ"
        /\ ~Busy(x) => pricer[x].op = "READ"
        /\ pricer[x].op = "SURGE" => pricer[x].demand \in Demand
        /\ pricer[x].op = "SET" => Changes(x)

PriceShape == PricingTypeOK /\ PricerControl

Multipliers == {100, 120, 130, 156, 180, 216}

LEMMA MultiplierValues == \A demand \in Demand : Multiplier(demand) \in Multipliers
BY PricingAssumption DEF Multiplier, Multipliers

LEMMA PercentBound ==
    \A amount \in Nat : \A percent \in Multipliers :
        Percent(amount, percent) \in Nat /\ Percent(amount, percent) <= Percent(amount, 216)
BY DEF Percent, Multipliers

LEMMA EarlyBirdAmount ==
    \A amount \in Nat : amount - Percent(amount, 15) \in Nat /\ amount - Percent(amount, 15) <= amount
BY DEF Percent

LEMMA NewEvents ==
    ASSUME PriceShape, NEW x \in Pricer, stamps < MaxEvents, NEW price \in PriceOf
    PROVE  /\ pricer[x].op = "SURGE" => SurgeEvent(x, price) \in LoggedEvent
           /\ EarlyBirdEvent(price) \in LoggedEvent
<1>1. stamps + 1 \in 0..MaxEvents /\ price.base \in Nat /\ price.current \in Nat
    BY PricingAssumption DEF PriceShape, PricingTypeOK, PriceOf
<1>2. CASE pricer[x].op = "SURGE"
    <2>1. Multiplier(pricer[x].demand) \in Multipliers
        BY <1>2, MultiplierValues DEF PriceShape, PricerControl
    <2>2. Percent(price.base, Multiplier(pricer[x].demand)) \in Nat
        BY <1>1, <2>1, PercentBound
    <2> QED BY <1>1, <2>1, <2>2, EarlyBirdAmount DEF Multipliers, SurgeEvent, EarlyBirdEvent, PricingEvent, LoggedEvent, Change
<1> QED BY <1>1, <1>2, EarlyBirdAmount DEF EarlyBirdEvent, PricingEvent, LoggedEvent, Change

LEMMA PricingStarts == PricingInit => PriceShape
<1> SUFFICES ASSUME PricingInit PROVE PriceShape
    OBVIOUS
<1>1. log \in Seq(LoggedEvent)
    <2>1. CASE log = <<>>
        BY <2>1
    <2>2. CASE log # <<>>
        <3>1. PICK amount \in BasePrice : log = <<PricingEvent("SET", amount, 100, 0)>>
            BY <2>2 DEF PricingInit
        <3>2. PricingEvent("SET", amount, 100, 0) \in LoggedEvent
            BY PricingAssumption DEF PricingEvent, LoggedEvent, Change
        <3> QED BY <3>1, <3>2
    <2> QED BY <2>1, <2>2
<1>2. priceRow \in PriceOf
    BY <1>1, ReplayType, ZeroPriceType DEF PricingInit
<1>3. IdlePricer \in PricerState
    BY ZeroPriceType DEF IdlePricer, PricerState, Operation
<1> QED
    BY <1>1, <1>2, <1>3, ZeroPriceType, PricingAssumption
    DEF PricingInit, PriceShape, PricingTypeOK, PricerControl, IdlePricer, Changes, Busy

(* What a step of a handler that has begun may do to the local variables.  *)
LEMMA UseShape ==
    ASSUME PriceShape, NEW x \in Pricer, ~Changes(x), Busy(x), NEW price \in PriceOf, Use(x, price)
    PROVE  /\ stamps' \in 0..MaxEvents /\ clean' \in BOOLEAN
           /\ pricer' \in [Pricer -> PricerState] /\ PricerControl'
<1> USE DEF PriceShape, PricingTypeOK
<1>1. CASE EndPricer(x)
    BY <1>1, ZeroPriceType DEF EndPricer, IdlePricer, PricerState, Operation, PricerControl, Changes, Busy
<1>2. ASSUME NEW event \in LoggedEvent, Issue(x, event), pricer[x].op \in {"SURGE", "EARLY_BIRD"}
      PROVE  /\ stamps' \in 0..MaxEvents /\ clean' \in BOOLEAN
             /\ pricer' \in [Pricer -> PricerState] /\ PricerControl'
    <2>1. event # NoEvent
        BY DEF LoggedEvent, Change, NoEvent, PricingEvent
    <2>2. pricer' \in [Pricer -> PricerState]
        <3>1. [pricer[x] EXCEPT !.pc = "append", !.event = event] \in PricerState
            BY DEF PricerState
        <3>2. pricer' = [pricer EXCEPT ![x] = [pricer[x] EXCEPT !.pc = "append", !.event = event]]
            BY <1>2 DEF Issue
        <3> QED BY <3>1, <3>2
    <2>3. stamps' \in 0..MaxEvents
        BY <1>2, PricingAssumption DEF Issue
    <2> QED BY <1>2, <2>1, <2>2, <2>3 DEF Issue, PricerControl, Changes, Busy, PricerState
<1>3. CASE pricer[x].op = "SURGE" /\ Issue(x, SurgeEvent(x, price))
    BY <1>2, <1>3, NewEvents DEF Issue
<1>4. CASE pricer[x].op = "EARLY_BIRD" /\ Issue(x, EarlyBirdEvent(price))
    BY <1>2, <1>4, NewEvents DEF Issue
<1> QED BY <1>1, <1>3, <1>4 DEF Use

LEMMA BeginShape ==
    ASSUME PriceShape, NEW x \in Pricer, NEW op \in Operation, NEW demand \in Demand \cup {<<>>},
           NEW pc \in {"cache", "append"}, NEW event \in LoggedEvent \cup {NoEvent},
           Begin(x, op, demand, pc, event), stamps' \in 0..MaxEvents,
           op = "SURGE" => demand \in Demand,
           pc = "append" <=> op = "SET", pc = "append" <=> event # NoEvent
    PROVE  PriceShape'
<1> USE DEF PriceShape, PricingTypeOK
<1>1. pricer' \in [Pricer -> PricerState]
    <2> DEFINE new == [IdlePricer EXCEPT !.pc = pc, !.op = op, !.demand = demand, !.event = event,
                                         !.alone = Company(x) = {}]
    <2>1. (Company(x) = {}) \in BOOLEAN /\ \A y \in Pricer : (~Busy(y)) \in BOOLEAN
        OBVIOUS
    <2>2. new \in PricerState
        BY <2>1, ZeroPriceType DEF IdlePricer, PricerState
    <2>3. ASSUME NEW y \in Pricer PROVE [pricer[y] EXCEPT !.alone = ~Busy(y)] \in PricerState
        BY <2>1 DEF PricerState
    <2>4. pricer' = [y \in Pricer |-> IF y = x THEN new ELSE [pricer[y] EXCEPT !.alone = ~Busy(y)]]
        BY DEF Begin
    <2> HIDE DEF new
    <2> QED BY <2>2, <2>3, <2>4
<1>2. /\ pricer'[x].pc = pc /\ pricer'[x].op = op /\ pricer'[x].event = event
      /\ pricer'[x].demand = demand
    BY DEF Begin, IdlePricer
<1>3. \A y \in Pricer \ {x} :
          /\ pricer'[y].pc = pricer[y].pc /\ pricer'[y].op = pricer[y].op
          /\ pricer'[y].event = pricer[y].event /\ pricer'[y].demand = pricer[y].demand
    BY DEF Begin, PricerState
<1>4. PricerControl'
    BY <1>2, <1>3 DEF PricerControl, Changes, Busy
<1> QED BY <1>1, <1>4 DEF Begin

LEMMA PricingStep == PriceShape /\ [PricingNext]_pricingVars => PriceShape'
<1> SUFFICES ASSUME PriceShape, [PricingNext]_pricingVars PROVE PriceShape'
    OBVIOUS
<1> USE DEF PriceShape, PricingTypeOK
<1>1. ASSUME NEW x \in Pricer, NEW amount \in BasePrice, SetBasePrice(x, amount) PROVE PriceShape'
    <2>1. stamps' \in 0..MaxEvents
        BY <1>1, PricingAssumption DEF SetBasePrice
    <2>2. PricingEvent("SET", amount, 100, stamps') \in LoggedEvent \ {NoEvent}
        BY <2>1, PricingAssumption DEF PricingEvent, LoggedEvent, NoEvent, Change
    <2>3. Begin(x, "SET", <<>>, "append", PricingEvent("SET", amount, 100, stamps'))
        BY <1>1 DEF SetBasePrice
    <2> HIDE DEF PriceShape
    <2> QED BY <2>1, <2>2, <2>3, BeginShape DEF Operation, Change
<1>2. ASSUME NEW x \in Pricer, NEW demand \in Demand, ApplySurge(x, demand) PROVE PriceShape'
    BY <1>2, BeginShape DEF ApplySurge, Operation, Change
<1>3. ASSUME NEW x \in Pricer, ApplyEarlyBird(x) \/ GetSectionPrice(x) PROVE PriceShape'
    BY <1>3, BeginShape DEF ApplyEarlyBird, GetSectionPrice, Operation, Change
<1>4. ASSUME NEW x \in Pricer, ReadCache(x) PROVE PriceShape'
    <2>1. CASE Use(x, priceCache)
        <3>1. ~Changes(x) /\ Busy(x)
            BY <1>4 DEF ReadCache, PricerControl, Busy
        <3> QED BY <1>4, <2>1, <3>1, UseShape DEF ReadCache
    <2>2. CASE pricer' = [pricer EXCEPT ![x].pc = "row"] /\ UNCHANGED <<stamps, clean>>
        BY <1>4, <2>2 DEF ReadCache, PricerState, PricerControl, Changes, Busy
    <2> QED BY <1>4, <2>1, <2>2 DEF ReadCache
<1>5. ASSUME NEW x \in Pricer, ReadRow(x) \/ LoadLog(x) \/ UpsertPrice(x) PROVE PriceShape'
    <2>1. Replay(log) \in PriceOf /\ Projected(x) \in PriceOf
        BY ReplayType DEF Projected, PricerState
    <2>2. pricer' \in [Pricer -> PricerState] /\ priceRow' \in PriceOf
        BY <1>5, <2>1 DEF ReadRow, LoadLog, UpsertPrice, PricerState
    <2> QED BY <1>5, <2>2 DEF ReadRow, LoadLog, UpsertPrice, PricerControl, Changes, Busy, PricerState
<1>6. ASSUME NEW x \in Pricer, AppendEvent(x) PROVE PriceShape'
    <2>1. pricer[x].event \in LoggedEvent
        BY <1>6 DEF AppendEvent, PricerState, PricerControl, Changes
    <2> QED BY <1>6, <2>1 DEF AppendEvent, PricerState, PricerControl, Changes, Busy
<1>7. ASSUME NEW x \in Pricer, SetCache(x) PROVE PriceShape'
    <2>1. pricer[x].price \in PriceOf /\ Busy(x) /\ priceCache' \in PriceOf
        BY <1>7 DEF SetCache, PricerState, Busy, Copied
    <2>2. CASE ~Changes(x)
        BY <1>7, <2>1, <2>2, UseShape DEF SetCache, Changes
    <2>3. CASE Changes(x)
        <3>1. EndPricer(x) /\ UNCHANGED <<log, priceRow, priceFailures>>
            BY <1>7, <2>3 DEF SetCache, Changes
        <3>2. pricer' \in [Pricer -> PricerState] /\ PricerControl' /\ clean' \in BOOLEAN
            BY <3>1, ZeroPriceType
            DEF EndPricer, IdlePricer, PricerState, Operation, PricerControl, Changes, Busy
        <3> QED BY <2>1, <3>1, <3>2 DEF EndPricer
    <2> QED BY <2>2, <2>3
<1>8. ASSUME NEW x \in Pricer, PricerFails(x) PROVE PriceShape'
    <2>1. pricer' \in [Pricer -> PricerState] /\ PricerControl'
        BY <1>8, ZeroPriceType DEF PricerFails, IdlePricer, PricerState, Operation, PricerControl, Changes, Busy
    <2>2. pricer[x].pc = "append" => pricer[x].event \in LoggedEvent
        BY DEF PricerState, PricerControl, Changes
    <2>3. log' \in Seq(LoggedEvent)
        BY <1>8, <2>2 DEF PricerFails
    <2>4. priceRow' \in PriceOf /\ priceCache' \in PriceOf
        BY <1>8 DEF PricerFails, Projected, Copied, PricerState
    <2>5. priceFailures' \in 0..MaxPriceFailures
        BY <1>8, PricingAssumption DEF PricerFails
    <2> QED BY <1>8, <2>1, <2>3, <2>4, <2>5 DEF PricerFails
<1>9. CASE PriceExpires
    BY <1>9, ZeroPriceType DEF PriceExpires, PricerControl, Changes, Busy
<1>10. CASE UNCHANGED pricingVars
    BY <1>10 DEF pricingVars, PricerControl, Changes, Busy
<1> QED BY <1>1, <1>2, <1>3, <1>4, <1>5, <1>6, <1>7, <1>8, <1>9, <1>10 DEF PricingNext

(* Types, and control, hold in every state.                                *)
THEOREM PricingTypes == PricingSpec => []PriceShape
BY PricingStarts, PricingStep, PTL DEF PricingSpec

-----------------------------------------------------------------------------
(* What is about to be stored was true when it was computed.               *)

TrueInv ==
    /\ PriceShape
    /\ PricesWereTrue
    /\ \A x \in Pricer : pricer[x].pc \in {"upsert", "set"} => WasTrue(pricer[x].price)

Said(events, price) == price = NoPrice \/ \E n \in 0..Len(events) : price = Replay(SubSeq(events, 1, n))

LEMMA SaidIsKept ==
    ASSUME NEW events \in Seq(LoggedEvent), NEW event \in LoggedEvent, NEW price, Said(events, price)
    PROVE  Said(Append(events, event), price)
<1>1. ASSUME NEW n \in 0..Len(events) PROVE SubSeq(Append(events, event), 1, n) = SubSeq(events, 1, n)
    OBVIOUS
<1>2. 0..Len(events) \subseteq 0..Len(Append(events, event))
    OBVIOUS
<1> HIDE DEF Replay
<1> QED BY <1>1, <1>2, Zenon DEF Said

LEMMA TrueStarts == PricingInit => TrueInv
<1> SUFFICES ASSUME PricingInit PROVE TrueInv
    OBVIOUS
<1>1. PriceShape
    BY PricingStarts
<1>2. log \in Seq(LoggedEvent)
    BY <1>1 DEF PriceShape, PricingTypeOK
<1>3. SubSeq(log, 1, Len(log)) = log /\ Len(log) \in 0..Len(log)
    BY <1>2
<1>4. WasTrue(priceRow) /\ WasTrue(priceCache)
    BY <1>3 DEF PricingInit, WasTrue
<1> QED BY <1>1, <1>4 DEF PricingInit, TrueInv, PricesWereTrue, IdlePricer

LEMMA TrueStep == TrueInv /\ [PricingNext]_pricingVars => TrueInv'
<1> SUFFICES ASSUME TrueInv, [PricingNext]_pricingVars PROVE TrueInv'
    OBVIOUS
<1>1. PriceShape'
    BY PricingStep DEF TrueInv
<1> DEFINE Kept == \A price : Said(log, price) => Said(log', price)
           Fresh(x) == pricer'[x].pc \in {"upsert", "set"} => Said(log', pricer'[x].price)
<1>2. /\ Said(log, priceRow) /\ Said(log, priceCache) /\ Said(log, NoPrice)
      /\ \A x \in Pricer : pricer[x].pc \in {"upsert", "set"} => Said(log, pricer[x].price)
    BY DEF TrueInv, PricesWereTrue, WasTrue, Said
<1>3. SUFFICES Said(log', priceRow') /\ Said(log', priceCache') /\ \A x \in Pricer : Fresh(x)
    BY <1>1 DEF TrueInv, PricesWereTrue, WasTrue, Said
<1>4. ASSUME NEW event, log' = Append(log, event), event \in LoggedEvent PROVE Kept
    BY <1>4, SaidIsKept DEF TrueInv, PriceShape, PricingTypeOK
<1> HIDE DEF Said
<1> USE DEF TrueInv, PriceShape, PricingTypeOK
<1>5. ASSUME NEW x \in Pricer, NEW op, NEW demand, NEW pc, NEW event,
             Begin(x, op, demand, pc, event), pc \in {"cache", "append"}
      PROVE  Said(log', priceRow') /\ Said(log', priceCache') /\ \A y \in Pricer : Fresh(y)
    BY <1>2, <1>5 DEF Begin, IdlePricer, PricerState
<1>6. ASSUME NEW x \in Pricer, NEW price, Use(x, price) PROVE \A y \in Pricer : pricer'[y] = pricer[y] \/ pricer'[y].pc \in {"idle", "append"}
    BY <1>6 DEF Use, EndPricer, Issue, IdlePricer, PricerState
<1>7. ASSUME NEW x \in Pricer,
             (\E amount \in BasePrice : SetBasePrice(x, amount)) \/ (\E demand \in Demand : ApplySurge(x, demand))
               \/ ApplyEarlyBird(x) \/ GetSectionPrice(x)
      PROVE  Said(log', priceRow') /\ Said(log', priceCache') /\ \A y \in Pricer : Fresh(y)
    BY <1>5, <1>7 DEF SetBasePrice, ApplySurge, ApplyEarlyBird, GetSectionPrice
<1>8. ASSUME NEW x \in Pricer, ReadCache(x)
      PROVE  Said(log', priceRow') /\ Said(log', priceCache') /\ \A y \in Pricer : Fresh(y)
    BY <1>2, <1>6, <1>8 DEF ReadCache, PricerState
<1>9. ASSUME NEW x \in Pricer, ReadRow(x) \/ UpsertPrice(x)
      PROVE  Said(log', priceRow') /\ Said(log', priceCache') /\ \A y \in Pricer : Fresh(y)
    <2>1. CASE ReadRow(x)
        BY <1>2, <2>1 DEF ReadRow, PricerState
    <2>2. CASE UpsertPrice(x)
        BY <1>2, <2>2 DEF UpsertPrice, Projected, PricerState
    <2> QED BY <1>9, <2>1, <2>2
<1>10. ASSUME NEW x \in Pricer, LoadLog(x)
       PROVE  Said(log', priceRow') /\ Said(log', priceCache') /\ \A y \in Pricer : Fresh(y)
    <2>1. SubSeq(log, 1, Len(log)) = log /\ Len(log) \in 0..Len(log)
        OBVIOUS
    <2>2. Said(log, Replay(log))
        BY <2>1 DEF Said
    <2> QED BY <1>2, <1>10, <2>2 DEF LoadLog, PricerState
<1>11. ASSUME NEW x \in Pricer, AppendEvent(x)
       PROVE  Said(log', priceRow') /\ Said(log', priceCache') /\ \A y \in Pricer : Fresh(y)
    <2>1. pricer[x].event \in LoggedEvent
        BY <1>11 DEF AppendEvent, PricerState, PricerControl, Changes
    <2>2. Kept
        BY <1>4, <1>11, <2>1 DEF AppendEvent
    <2> QED BY <1>2, <1>11, <2>2 DEF AppendEvent, PricerState
<1>12. ASSUME NEW x \in Pricer, SetCache(x)
       PROVE  Said(log', priceRow') /\ Said(log', priceCache') /\ \A y \in Pricer : Fresh(y)
    <2>1. \A y \in Pricer : pricer'[y] = pricer[y] \/ pricer'[y].pc \in {"idle", "append"}
        BY <1>6, <1>12 DEF SetCache, EndPricer, IdlePricer
    <2> QED BY <1>2, <1>12, <2>1 DEF SetCache, Copied
<1>13. ASSUME NEW x \in Pricer, PricerFails(x)
       PROVE  Said(log', priceRow') /\ Said(log', priceCache') /\ \A y \in Pricer : Fresh(y)
    <2>1. pricer[x].pc = "append" => pricer[x].event \in LoggedEvent
        BY DEF PricerState, PricerControl, Changes
    <2>2. Kept
        BY <1>4, <1>13, <2>1 DEF PricerFails
    <2>3. \A y \in Pricer : pricer'[y] = pricer[y] \/ pricer'[y].pc = "idle"
        BY <1>13 DEF PricerFails, IdlePricer
    <2>4. Said(log', priceRow') /\ Said(log', priceCache')
        BY <1>2, <1>13, <2>2 DEF PricerFails, Projected, Copied
    <2> QED BY <1>2, <2>2, <2>3, <2>4
<1>14. CASE PriceExpires
    BY <1>2, <1>14 DEF PriceExpires
<1>15. CASE UNCHANGED pricingVars
    BY <1>2, <1>15 DEF pricingVars
<1> QED BY <1>7, <1>8, <1>9, <1>10, <1>11, <1>12, <1>13, <1>14, <1>15 DEF PricingNext

(* The row and its copy are always prices that the log really said.        *)
THEOREM PricesAlwaysWereTrue == PricingSpec => []PricesWereTrue
<1>1. TrueInv => PricesWereTrue
    BY DEF TrueInv
<1> QED BY TrueStarts, TrueStep, <1>1, PTL DEF PricingSpec

-----------------------------------------------------------------------------
(* A handler that runs alone carries what the log says; while the prices   *)
(* are clean so do all, or the one that has inserted its change runs alone.*)

UpToDate(x) ==
    /\ pricer[x].pc \in {"upsert", "set"} => pricer[x].price = Replay(log)
    /\ pricer[x].pc = "set" => priceRow = Replay(log)

Current ==
    /\ priceRow = Replay(log) \/ (priceRow = NoPrice /\ log = <<>>)
    /\ priceCache \in {NoPrice, priceRow}

Settled == \A x \in Pricer : Changes(x) => pricer[x].pc = "append"

CleanInv ==
    /\ \A x, y \in Pricer : x # y /\ Busy(x) /\ pricer[x].alone => ~Busy(y)
    /\ \A x \in Pricer : Changes(x) /\ pricer[x].alone => UpToDate(x)
    /\ clean => \A x \in Pricer : pricer[x].op # "READ" => pricer[x].alone
    /\ clean /\ Settled => Current /\ \A x \in Pricer : UpToDate(x)

LEMMA CleanStarts == PricingInit => CleanInv
BY DEF PricingInit, CleanInv, Busy, Changes, UpToDate, Current, IdlePricer

LEMMA CleanBegin ==
    ASSUME PriceShape, CleanInv, NEW x \in Pricer, NEW op, NEW demand, NEW pc \in {"cache", "append"}, NEW event,
           Begin(x, op, demand, pc, event)
    PROVE  CleanInv'
<1>1. /\ ~Busy(x) /\ ~Changes(x) /\ UNCHANGED <<log, priceRow, priceCache>>
      /\ pricer'[x].pc = pc /\ pricer'[x].op = op /\ pricer'[x].alone = (Company(x) = {})
    BY DEF Begin, IdlePricer, PriceShape, PricingTypeOK, PricerControl
<1>2. \A y \in Pricer \ {x} :
          /\ pricer'[y].pc = pricer[y].pc /\ pricer'[y].op = pricer[y].op
          /\ pricer'[y].event = pricer[y].event /\ pricer'[y].price = pricer[y].price
          /\ pricer'[y].alone = ~Busy(y)
    BY DEF Begin, PriceShape, PricingTypeOK, PricerState
<1>3. clean' => clean /\ \A y \in Company(x) : pricer[y].op = "READ" /\ op = "READ"
    BY DEF Begin
<1>4. \A y \in Pricer : ~Busy(y) => pricer[y].op = "READ" /\ ~Changes(y)
    BY DEF PriceShape, PricerControl, Busy
<1>5. (\A y, z \in Pricer : y # z /\ Busy(y) /\ pricer[y].alone => ~Busy(z))'
    <2> SUFFICES ASSUME NEW y \in Pricer, NEW z \in Pricer, y # z, Busy(y)', pricer'[y].alone PROVE ~Busy(z)'
        OBVIOUS
    <2>1. CASE y = x
        BY <1>1, <1>2, <2>1 DEF Busy, Company
    <2>2. CASE y # x
        BY <1>2, <2>2 DEF Busy
    <2> QED BY <2>1, <2>2
<1>6. (\A y \in Pricer : Changes(y) /\ pricer[y].alone => UpToDate(y))'
    BY <1>1, <1>2, <1>4 DEF Changes, UpToDate
<1>7. (clean => \A y \in Pricer : pricer[y].op # "READ" => pricer[y].alone)'
    BY <1>1, <1>2, <1>3, <1>4 DEF Company
<1>8. (clean /\ Settled => Current /\ \A y \in Pricer : UpToDate(y))'
    <2> SUFFICES ASSUME clean', Settled' PROVE Current' /\ \A y \in Pricer : UpToDate(y)'
        OBVIOUS
    <2>1. Settled
        BY <1>1, <1>2 DEF Settled, Changes
    <2>2. Current /\ \A y \in Pricer : UpToDate(y)
        BY <1>3, <2>1 DEF CleanInv
    <2> QED BY <1>1, <1>2, <2>2 DEF Current, UpToDate
<1> QED BY <1>5, <1>6, <1>7, <1>8 DEF CleanInv

(* A step that leaves the other handlers alone keeps who is alone.         *)
LEMMA AloneKeeps ==
    ASSUME CleanInv, NEW x \in Pricer, Busy(x), \A y \in Pricer \ {x} : pricer'[y] = pricer[y],
           pricer'[x].pc = "idle" \/ pricer'[x].alone = pricer[x].alone
    PROVE  /\ (\A y, z \in Pricer : y # z /\ Busy(y) /\ pricer[y].alone => ~Busy(z))'
           /\ \A y \in Pricer \ {x} : Busy(y) => ~pricer[y].alone
BY DEF CleanInv, Busy

(* What handlers do that have not issued a change.                         *)
LEMMA CleanUse ==
    ASSUME PriceShape, CleanInv, NEW x \in Pricer, Busy(x), ~Changes(x), NEW price, Use(x, price)
    PROVE  /\ clean' = clean
           /\ \A y \in Pricer \ {x} : pricer'[y] = pricer[y]
           /\ pricer'[x].pc \in {"idle", "append"}
           /\ pricer'[x].pc = "idle" => pricer'[x] = IdlePricer
           /\ pricer'[x].pc = "append" => pricer'[x].op = pricer[x].op /\ pricer'[x].alone = pricer[x].alone
<1> USE DEF PriceShape, PricingTypeOK
<1>1. CASE EndPricer(x)
    BY <1>1 DEF EndPricer, Changes, IdlePricer
<1>2. ASSUME NEW event, Issue(x, event)
      PROVE  /\ UNCHANGED clean /\ \A y \in Pricer \ {x} : pricer'[y] = pricer[y]
             /\ pricer'[x].pc = "append" /\ pricer'[x].op = pricer[x].op /\ pricer'[x].alone = pricer[x].alone
    BY <1>2 DEF Issue, PricerState
<1>3. CASE EndPricer(x) \/ Issue(x, SurgeEvent(x, price)) \/ Issue(x, EarlyBirdEvent(price))
    BY <1>1, <1>2, <1>3
<1> QED BY <1>3 DEF Use

(* A step of a handler that has issued no change, in clean prices: what it *)
(* stores is what the log says.                                            *)
LEMMA CleanGoesOn ==
    ASSUME CleanInv, PriceShape, NEW x \in Pricer, Busy(x), ~Changes(x),
           \A y \in Pricer \ {x} : pricer'[y] = pricer[y],
           UNCHANGED log, clean' => clean,
           \/ pricer'[x] = IdlePricer
           \/ /\ pricer'[x].op = pricer[x].op /\ pricer'[x].alone = pricer[x].alone
              /\ Changes(x)' => pricer'[x].pc = "append"
              /\ pricer'[x].pc = "upsert" => pricer'[x].price = Replay(log)
              /\ pricer'[x].pc = "set" =>
                    /\ pricer'[x].price = priceRow'
                    /\ (pricer[x].pc = "upsert" /\ priceRow' = pricer[x].price) \/ (priceRow' = priceRow /\ priceRow # NoPrice),
           \/ UNCHANGED <<priceRow, priceCache>>
           \/ pricer[x].pc = "upsert" /\ priceRow' = pricer[x].price /\ UNCHANGED priceCache
           \/ pricer[x].pc = "set" /\ priceCache' = pricer[x].price /\ UNCHANGED priceRow
    PROVE  CleanInv'
<1> DEFINE Rest(y) == Changes(y) /\ pricer[y].alone => UpToDate(y)
<1>1. /\ (\A y, z \in Pricer : y # z /\ Busy(y) /\ pricer[y].alone => ~Busy(z))'
      /\ \A y \in Pricer \ {x} : Busy(y) => ~pricer[y].alone
    <2>1. pricer'[x].pc = "idle" \/ pricer'[x].alone = pricer[x].alone
        BY DEF IdlePricer
    <2> QED BY <2>1, AloneKeeps
<1>2. \A y \in Pricer : Changes(y) => Busy(y)
    BY DEF PriceShape, PricerControl, Busy
<1>3. (\A y \in Pricer : Changes(y) /\ pricer[y].alone => UpToDate(y))'
    <2>1. \A y \in Pricer \ {x} : Changes(y)' => ~pricer'[y].alone
        BY <1>1, <1>2 DEF Changes
    <2>2. Changes(x)' => UpToDate(x)'
        BY DEF UpToDate, Changes, IdlePricer
    <2> QED BY <2>1, <2>2
<1>4. (clean => \A y \in Pricer : pricer[y].op # "READ" => pricer[y].alone)'
    BY DEF CleanInv, IdlePricer
<1>5. ASSUME clean', Settled' PROVE Current' /\ \A y \in Pricer : UpToDate(y)'
    <2>1. clean /\ Settled
        BY <1>5 DEF Settled, Changes
    <2>2. Current /\ \A y \in Pricer : UpToDate(y)
        BY <2>1 DEF CleanInv
    <2>3. Current' /\ (priceRow = Replay(log) => priceRow' = Replay(log))
        BY <2>2 DEF Current, UpToDate
    <2>4. pricer[x].pc = "upsert" /\ priceRow' = pricer[x].price => priceRow' = Replay(log)
        BY <2>2 DEF UpToDate
    <2>5. pricer'[x].pc = "set" => priceRow' = Replay(log)
        <3>1. CASE pricer[x].pc = "upsert" /\ priceRow' = pricer[x].price
            BY <2>4, <3>1
        <3>2. CASE priceRow' = priceRow /\ priceRow # NoPrice
            BY <2>2, <3>2 DEF Current
        <3> QED BY <3>1, <3>2 DEF IdlePricer
    <2>6. UpToDate(x)'
        BY <2>5 DEF UpToDate, IdlePricer
    <2> QED BY <2>2, <2>3, <2>6 DEF UpToDate
<1> QED BY <1>1, <1>3, <1>4, <1>5 DEF CleanInv

(* The same for one that has: prices are not settled before it is done, and *)
(* then they are when it ran alone.                                        *)
LEMMA CleanChange ==
    ASSUME CleanInv, PriceShape, NEW x \in Pricer, Changes(x),
           \A y \in Pricer \ {x} : pricer'[y] = pricer[y],
           \/ /\ pricer'[x] = IdlePricer /\ ~clean'
           \/ /\ pricer'[x] = IdlePricer /\ pricer[x].alone
              /\ UNCHANGED <<log, priceRow>> /\ priceCache' = priceRow /\ priceRow = Replay(log)
           \/ /\ pricer'[x].event = pricer[x].event /\ pricer'[x].alone = pricer[x].alone
              /\ pricer'[x].op = pricer[x].op /\ pricer'[x].pc # "append" /\ clean' = clean
              /\ pricer[x].alone => UpToDate(x)'
    PROVE  CleanInv'
<1>1. Busy(x) /\ \A y \in Pricer : Changes(y) => Busy(y)
    BY DEF PriceShape, PricerControl, Busy
<1>2. /\ (\A y, z \in Pricer : y # z /\ Busy(y) /\ pricer[y].alone => ~Busy(z))'
      /\ \A y \in Pricer \ {x} : Busy(y) => ~pricer[y].alone
    <2>1. pricer'[x].pc = "idle" \/ pricer'[x].alone = pricer[x].alone
        BY DEF IdlePricer
    <2> QED BY <1>1, <2>1, AloneKeeps
<1>3. (\A y \in Pricer : Changes(y) /\ pricer[y].alone => UpToDate(y))'
    <2>1. \A y \in Pricer \ {x} : Changes(y)' => ~pricer'[y].alone
        BY <1>1, <1>2 DEF Changes
    <2>2. pricer'[x] = IdlePricer => ~Changes(x)'
        BY DEF Changes, IdlePricer
    <2>3. Changes(x)' /\ pricer'[x].alone => UpToDate(x)'
        BY <2>2
    <2> QED BY <2>1, <2>3
<1>4. CASE pricer'[x] = IdlePricer /\ ~clean'
    BY <1>2, <1>3, <1>4 DEF CleanInv
<1>5. CASE /\ pricer'[x] = IdlePricer /\ pricer[x].alone
           /\ UNCHANGED <<log, priceRow>> /\ priceCache' = priceRow /\ priceRow = Replay(log)
    <2>1. \A y \in Pricer : ~Busy(y)'
        BY <1>1, <1>5 DEF CleanInv, Busy, IdlePricer
    <2>2. \A y \in Pricer : pricer'[y].op = "READ"
        BY <1>1, <1>5, <2>1 DEF PriceShape, PricerControl, Busy, IdlePricer
    <2>3. (Current /\ \A y \in Pricer : UpToDate(y))'
        BY <1>5, <2>1 DEF Current, UpToDate, Busy
    <2> QED BY <1>2, <1>3, <2>2, <2>3 DEF CleanInv
<1>6. CASE /\ pricer'[x].event = pricer[x].event /\ pricer'[x].alone = pricer[x].alone
           /\ pricer'[x].op = pricer[x].op /\ pricer'[x].pc # "append" /\ clean' = clean
    <2>1. ~Settled'
        BY <1>6 DEF Settled, Changes
    <2>2. (clean => \A y \in Pricer : pricer[y].op # "READ" => pricer[y].alone)'
        BY <1>6 DEF CleanInv
    <2> QED BY <1>2, <1>3, <2>1, <2>2 DEF CleanInv
<1> QED BY <1>4, <1>5, <1>6

LEMMA ChangeGoesOn ==
    ASSUME PriceShape, CleanInv, NEW x \in Pricer, Changes(x),
           AppendEvent(x) \/ LoadLog(x) \/ UpsertPrice(x) \/ SetCache(x) \/ PricerFails(x)
    PROVE  CleanInv'
<1> USE DEF PriceShape, PricingTypeOK
<1>1. CASE AppendEvent(x)
    BY <1>1, CleanChange DEF AppendEvent, UpToDate, PricerState
<1>2. CASE LoadLog(x)
    BY <1>2, CleanChange DEF LoadLog, UpToDate, PricerState
<1>3. CASE UpsertPrice(x)
    <2>1. pricer[x].alone => pricer[x].price = Replay(log)
        BY <1>3 DEF UpsertPrice, CleanInv, UpToDate
    <2> QED BY <1>3, <2>1, CleanChange DEF UpsertPrice, Projected, UpToDate, PricerState
<1>4. CASE SetCache(x)
    <2>1. pricer[x].alone => pricer[x].price = Replay(log) /\ priceRow = Replay(log)
        BY <1>4 DEF SetCache, CleanInv, UpToDate
    <2>2. pricer' = [pricer EXCEPT ![x] = IdlePricer] /\ UNCHANGED <<log, priceRow>> /\ priceCache' = pricer[x].price
        BY <1>4 DEF SetCache, EndPricer, Changes, Copied
    <2>3. ~pricer[x].alone => ~clean'
        BY <1>4 DEF SetCache, EndPricer, Changes, CleanInv, PricerControl
    <2> QED BY <2>1, <2>2, <2>3, CleanChange
<1>5. CASE PricerFails(x)
    <2>1. ~clean'
        BY <1>5 DEF PricerFails, PricerControl
    <2> QED BY <1>5, <2>1, CleanChange DEF PricerFails
<1> QED BY <1>1, <1>2, <1>3, <1>4, <1>5

LEMMA CleanStep == PriceShape /\ CleanInv /\ [PricingNext]_pricingVars => CleanInv'
<1> SUFFICES ASSUME PriceShape, CleanInv, [PricingNext]_pricingVars PROVE CleanInv'
    OBVIOUS
<1>1. ASSUME NEW x \in Pricer,
             (\E amount \in BasePrice : SetBasePrice(x, amount)) \/ (\E demand \in Demand : ApplySurge(x, demand))
               \/ ApplyEarlyBird(x) \/ GetSectionPrice(x)
      PROVE  CleanInv'
    BY <1>1, CleanBegin DEF SetBasePrice, ApplySurge, ApplyEarlyBird, GetSectionPrice
<1>2. ASSUME NEW x \in Pricer, Busy(x), ~Changes(x), ReadCache(x) PROVE CleanInv'
    <2>1. CASE Use(x, priceCache)
        <3>1. UNCHANGED <<log, priceRow, priceCache>>
            BY <1>2 DEF ReadCache
        <3> QED BY <1>2, <2>1, <3>1, CleanUse, CleanGoesOn
    <2>2. CASE pricer' = [pricer EXCEPT ![x].pc = "row"] /\ UNCHANGED <<stamps, clean>>
        BY <1>2, <2>2, CleanGoesOn DEF ReadCache, Changes, PriceShape, PricingTypeOK, PricerState
    <2> QED BY <1>2, <2>1, <2>2 DEF ReadCache
<1>3. ASSUME NEW x \in Pricer, Busy(x), ~Changes(x), ReadRow(x) \/ LoadLog(x) \/ UpsertPrice(x) PROVE CleanInv'
    BY <1>3, CleanGoesOn DEF ReadRow, LoadLog, UpsertPrice, Projected, Changes, PriceShape, PricingTypeOK, PricerState
<1>4. ASSUME NEW x \in Pricer, Busy(x), ~Changes(x), SetCache(x) PROVE CleanInv'
    <2>1. Use(x, pricer[x].price) /\ pricer[x].pc = "set" /\ priceCache' = pricer[x].price /\ UNCHANGED <<log, priceRow>>
        BY <1>4 DEF SetCache, Changes, Copied
    <2> QED BY <1>4, <2>1, CleanUse, CleanGoesOn
<1>5. ASSUME NEW x \in Pricer, Busy(x), ~Changes(x), PricerFails(x) PROVE CleanInv'
    <2>1. pricer[x].pc # "append"
        BY <1>5 DEF PriceShape, PricerControl
    <2> QED BY <1>5, <2>1, CleanGoesOn DEF PricerFails, Projected, Copied, PriceShape, PricingTypeOK
<1>6. ASSUME NEW x \in Pricer,
             ReadCache(x) \/ ReadRow(x) \/ AppendEvent(x) \/ LoadLog(x) \/ UpsertPrice(x) \/ SetCache(x) \/ PricerFails(x)
      PROVE  CleanInv'
    <2>1. Busy(x)
        BY <1>6 DEF ReadCache, ReadRow, AppendEvent, LoadLog, UpsertPrice, SetCache, PricerFails, Busy
    <2>2. /\ ReadCache(x) \/ ReadRow(x) => ~Changes(x)
          /\ AppendEvent(x) => Changes(x)
        BY DEF ReadCache, ReadRow, AppendEvent, PriceShape, PricerControl
    <2> QED BY <1>2, <1>3, <1>4, <1>5, <1>6, <2>1, <2>2, ChangeGoesOn
<1>7. CASE PriceExpires
    BY <1>7 DEF PriceExpires, CleanInv, Busy, Changes, UpToDate, Settled, Current
<1>8. CASE UNCHANGED pricingVars
    BY <1>8 DEF pricingVars, CleanInv, Busy, Changes, UpToDate, Settled, Current
<1> QED BY <1>1, <1>6, <1>7, <1>8 DEF PricingNext

(* After a change that ran alone, and until changes overlap or fail again, *)
(* the row and its copy are what the log says.                             *)
THEOREM CleanPricesStayCurrent == PricingSpec => []CleanPricesAreCurrent
<1>1. PriceShape /\ CleanInv => CleanPricesAreCurrent
    BY DEF CleanInv, CleanPricesAreCurrent, Settled, Current, PriceShape, PricerControl, Busy
<1>2. PricingInit => PriceShape /\ CleanInv
    BY PricingStarts, CleanStarts
<1>3. (PriceShape /\ CleanInv) /\ [PricingNext]_pricingVars => (PriceShape /\ CleanInv)'
    BY PricingStep, CleanStep
<1> QED BY <1>1, <1>2, <1>3, PTL DEF PricingSpec

-----------------------------------------------------------------------------
(* Every price goes back to a base price that is in the log: it is that    *)
(* price or 0, and what is charged is at most 2.16 times such a price.     *)

Bases(events) == {event.amount : event \in {e \in ToSet(events) : e.type = "SET"}}

Bounded(events, amount) == amount = 0 \/ \E base \in Bases(events) : amount <= Percent(base, 216)

Sound(events, price) ==
    price \in PriceOf /\ price.base \in Bases(events) \cup {0} /\ Bounded(events, price.current)

LEMMA BasesType == ASSUME NEW events \in Seq(LoggedEvent) PROVE Bases(events) \subseteq Nat
<1>1. ToSet(events) \subseteq LoggedEvent
    BY RowsAreFinite
<1>2. \A event \in LoggedEvent : event.amount \in Nat
    BY DEF LoggedEvent
<1> QED BY <1>1, <1>2 DEF Bases

LEMMA BasesStay ==
    ASSUME NEW events \in Seq(LoggedEvent), NEW event \in LoggedEvent
    PROVE  Bases(events) \subseteq Bases(Append(events, event))
<1>1. ToSet(events) \subseteq ToSet(Append(events, event))
    BY DEF ToSet
<1> QED BY <1>1 DEF Bases

LEMMA BaseIsBounded ==
    ASSUME NEW events \in Seq(LoggedEvent), NEW base \in Bases(events) \cup {0}, NEW percent \in Multipliers
    PROVE  Percent(base, percent) \in Nat /\ Bounded(events, Percent(base, percent)) /\ Bounded(events, base)
<1>1. base \in Nat
    BY BasesType
<1>2. Percent(base, percent) \in Nat /\ Percent(base, percent) <= Percent(base, 216)
    BY <1>1, PercentBound
<1>3. base <= Percent(base, 216) /\ (base = 0 => Percent(base, percent) = 0)
    BY <1>1 DEF Percent, Multipliers
<1> QED BY <1>2, <1>3 DEF Bounded

LEMMA LessIsBounded ==
    ASSUME NEW events \in Seq(LoggedEvent), NEW amount \in Nat, Bounded(events, amount),
           NEW less \in Nat, less <= amount
    PROVE  Bounded(events, less)
<1>1. 216 \in Multipliers
    BY DEF Multipliers
<1>2. \A base \in Bases(events) : Percent(base, 216) \in Nat
    BY <1>1, BasesType, PercentBound
<1> QED BY <1>2 DEF Bounded

(* So does the replay of a log in which every change does.                 *)
LEMMA ReplaySound ==
    ASSUME NEW events \in Seq(LoggedEvent),
           \A event \in ToSet(events) : event.type # "SET" => Bounded(events, event.amount)
    PROVE  Sound(events, Replay(events))
<1> DEFINE rows == ToSet(events)
<1>1. IsFiniteSet(rows) /\ rows \subseteq LoggedEvent
    BY RowsAreFinite
<1>2. PICK f : /\ Replay(events) = f[rows] /\ f[{}] = ZeroPrice
               /\ \A S \in SUBSET rows : S # {} =>
                     Latest(S) \in S /\ f[S] = Apply(f[S \ {Latest(S)}], Latest(S))
    BY ReplayUnfolds
<1> DEFINE K == {S \in SUBSET rows : Sound(events, f[S])}
<1>3. {} \in K
    BY <1>2, ZeroPriceType DEF Sound, Bounded, ZeroPrice, Price
<1>4. ASSUME NEW S \in SUBSET rows, S # {}, \A x \in S : S \ {x} \in K PROVE S \in K
    <2> DEFINE event == Latest(S)
               price == f[S \ {Latest(S)}]
    <2>1. event \in rows /\ Sound(events, price) /\ f[S] = Apply(price, event)
        BY <1>2, <1>4
    <2>2. event \in LoggedEvent /\ price \in PriceOf /\ Apply(price, event) \in PriceOf
        BY <1>1, <2>1, ApplyType DEF Sound
    <2> HIDE DEF event, price
    <2>3. CASE event.type = "SET"
        <3>1. event.amount \in Bases(events)
            BY <2>1, <2>3 DEF Bases
        <3>2. Bounded(events, event.amount)
            BY <3>1, BaseIsBounded DEF Multipliers
        <3> QED BY <2>1, <2>2, <2>3, <3>1, <3>2 DEF Sound, Apply, Price
    <2>4. CASE event.type # "SET"
        <3>1. Bounded(events, event.amount)
            BY <2>1, <2>4
        <3> QED BY <2>1, <2>2, <2>4, <3>1 DEF Sound, Apply, PriceOf, LoggedEvent, Change
    <2> QED BY <2>3, <2>4
<1>5. SUBSET rows \subseteq K
    <2> HIDE DEF K, rows
    <2> QED BY <1>1, <1>3, <1>4, SubsetInduction, Zenon
<1> QED BY <1>2, <1>5

(* Every price that is stored or carried is sound, and so is every change  *)
(* that is about to be inserted.                                           *)
SurgeInv ==
    /\ SurgesNeverCompound
    /\ Sound(log, priceRow) /\ Sound(log, priceCache)
    /\ \A x \in Pricer :
          /\ Sound(log, pricer[x].price)
          /\ pricer[x].event.type \in {"SURGE", "EARLY_BIRD"} => Bounded(log, pricer[x].event.amount)

LEMMA CompoundBounds ==
    ASSUME log \in Seq(LoggedEvent), SurgesNeverCompound
    PROVE  \A event \in ToSet(log) : event.type # "SET" => Bounded(log, event.amount)
<1> SUFFICES ASSUME NEW i \in DOMAIN log, log[i].type # "SET" PROVE Bounded(log, log[i].amount)
    BY DEF ToSet
<1>1. CASE log[i].amount = 0
    BY <1>1 DEF Bounded
<1>2. ASSUME NEW j \in 1..(i - 1), log[j].type = "SET", log[i].amount <= Percent(log[j].amount, 216)
      PROVE  Bounded(log, log[i].amount)
    <2>1. log[j] \in ToSet(log)
        BY DEF ToSet
    <2> QED BY <1>2, <2>1 DEF Bounded, Bases
<1> QED BY <1>1, <1>2 DEF SurgesNeverCompound

LEMMA AppendBounds ==
    ASSUME log \in Seq(LoggedEvent), SurgesNeverCompound, NEW event \in LoggedEvent,
           event.type # "SET" => Bounded(log, event.amount), log' = Append(log, event)
    PROVE  SurgesNeverCompound'
<1>1. Len(log) \in Nat /\ DOMAIN log = 1..Len(log) /\ DOMAIN log' = 1..(Len(log) + 1)
    OBVIOUS
<1>2. log'[Len(log) + 1] = event /\ \A i \in DOMAIN log : log'[i] = log[i]
    OBVIOUS
<1>3. ASSUME NEW i \in DOMAIN log, log[i].type # "SET", log[i].amount # 0
      PROVE  \E j \in 1..(i - 1) : log'[j].type = "SET" /\ log[i].amount <= Percent(log'[j].amount, 216)
    <2>1. PICK j \in 1..(i - 1) : log[j].type = "SET" /\ log[i].amount <= Percent(log[j].amount, 216)
        BY <1>3 DEF SurgesNeverCompound
    <2> QED BY <1>1, <1>2, <2>1
<1>4. ASSUME event.type # "SET", event.amount # 0
      PROVE  \E j \in 1..Len(log) : log'[j].type = "SET" /\ event.amount <= Percent(log'[j].amount, 216)
    <2>1. PICK base \in Bases(log) : event.amount <= Percent(base, 216)
        BY <1>4 DEF Bounded
    <2>2. PICK j \in DOMAIN log : log[j].type = "SET" /\ log[j].amount = base
        BY DEF Bases, ToSet
    <2> QED BY <1>1, <1>2, <2>1, <2>2
<1> QED BY <1>1, <1>2, <1>3, <1>4 DEF SurgesNeverCompound

LEMMA SurgeStarts == PricingInit => SurgeInv
<1> SUFFICES ASSUME PricingInit PROVE SurgeInv
    OBVIOUS
<1>1. PriceShape
    BY PricingStarts
<1>2. log \in Seq(LoggedEvent)
    BY <1>1 DEF PriceShape, PricingTypeOK
<1>3. SurgesNeverCompound
    BY DEF PricingInit, SurgesNeverCompound, PricingEvent
<1>4. Sound(log, NoPrice)
    BY ZeroPriceType DEF Sound, Bounded, NoPrice, Price
<1>5. Sound(log, priceRow)
    BY <1>2, <1>3, <1>4, CompoundBounds, ReplaySound DEF PricingInit
<1> QED BY <1>3, <1>4, <1>5 DEF PricingInit, SurgeInv, IdlePricer, NoEvent, PricingEvent

(* What a handler computes from a sound price is bounded.                  *)
LEMMA SurgeUse ==
    ASSUME PriceShape, SurgeInv, NEW x \in Pricer, NEW price, Sound(log, price), Use(x, price)
    PROVE  \A y \in Pricer :
              \/ pricer'[y] = pricer[y] \/ pricer'[y] = IdlePricer
              \/ /\ pricer'[y].price = pricer[y].price
                 /\ Bounded(log, pricer'[y].event.amount)
<1> USE DEF PriceShape, PricingTypeOK
<1>1. CASE EndPricer(x)
    BY <1>1 DEF EndPricer
<1>2. ASSUME NEW event, Issue(x, event), Bounded(log, event.amount)
      PROVE  \A y \in Pricer :
                \/ pricer'[y] = pricer[y]
                \/ /\ pricer'[y].price = pricer[y].price
                   /\ Bounded(log, pricer'[y].event.amount)
    BY <1>2 DEF Issue, PricerState
<1>3. CASE pricer[x].op = "SURGE" /\ Issue(x, SurgeEvent(x, price))
    <2>1. Multiplier(pricer[x].demand) \in Multipliers
        BY <1>3, MultiplierValues DEF PricerControl
    <2>2. Bounded(log, Percent(price.base, Multiplier(pricer[x].demand)))
        BY <2>1, BaseIsBounded DEF Sound
    <2>3. Bounded(log, SurgeEvent(x, price).amount)
        BY <2>2 DEF SurgeEvent, PricingEvent
    <2> QED BY <1>2, <1>3, <2>3
<1>4. CASE Issue(x, EarlyBirdEvent(price))
    <2>1. price.current \in Nat
        BY DEF Sound, PriceOf
    <2>2. Bounded(log, price.current - Percent(price.current, 15))
        BY <2>1, EarlyBirdAmount, LessIsBounded DEF Sound
    <2>3. Bounded(log, EarlyBirdEvent(price).amount)
        BY <2>2 DEF EarlyBirdEvent, PricingEvent
    <2> QED BY <1>2, <1>4, <2>3
<1> QED BY <1>1, <1>3, <1>4 DEF Use

LEMMA SurgeStep == PriceShape /\ SurgeInv /\ [PricingNext]_pricingVars => SurgeInv'
<1> SUFFICES ASSUME PriceShape, SurgeInv, [PricingNext]_pricingVars PROVE SurgeInv'
    OBVIOUS
<1> USE DEF PriceShape, PricingTypeOK
<1> DEFINE Kept(y) == /\ pricer'[y].price = pricer[y].price
                      /\ \/ pricer'[y].event = pricer[y].event
                         \/ pricer'[y].event.type \in {"SET", "NONE"}
                         \/ Bounded(log, pricer'[y].event.amount)
<1>1. Sound(log, NoPrice)
    BY ZeroPriceType DEF Sound, Bounded, NoPrice, Price
<1>2. IdlePricer.price = NoPrice /\ IdlePricer.event.type = "NONE"
    BY DEF IdlePricer, NoEvent, PricingEvent
(* Steps that leave the log as it is ... *)
<1>3. ASSUME UNCHANGED log, Sound(log, priceRow'), Sound(log, priceCache'),
             \A y \in Pricer : pricer'[y] = IdlePricer \/ Kept(y) \/
                (Sound(log, pricer'[y].price) /\ pricer'[y].event = pricer[y].event)
      PROVE  SurgeInv'
    <2>1. SurgesNeverCompound'
        BY <1>3 DEF SurgeInv, SurgesNeverCompound
    <2> QED BY <1>1, <1>2, <1>3, <2>1 DEF SurgeInv
(* ... and those that append a change that is bounded. *)
<1>4. ASSUME NEW x \in Pricer, pricer[x].pc = "append", log' = Append(log, pricer[x].event),
             UNCHANGED <<priceRow, priceCache>>,
             \A y \in Pricer : pricer'[y] = IdlePricer \/ (pricer'[y].price = pricer[y].price /\ pricer'[y].event = pricer[y].event)
      PROVE  SurgeInv'
    <2>1. pricer[x].event \in LoggedEvent
        BY <1>4 DEF PricerControl, PricerState, Changes
    <2>2. pricer[x].event.type # "SET" => Bounded(log, pricer[x].event.amount)
        BY <2>1 DEF SurgeInv, LoggedEvent, Change
    <2>3. SurgesNeverCompound'
        BY <1>4, <2>1, <2>2, AppendBounds DEF SurgeInv
    <2>4. Bases(log) \subseteq Bases(log')
        BY <1>4, <2>1, BasesStay
    <2>5. \A amount : Bounded(log, amount) => Bounded(log', amount)
        BY <2>4 DEF Bounded
    <2>6. \A price : Sound(log, price) => Sound(log', price)
        BY <2>4, <2>5 DEF Sound
    <2> QED BY <1>1, <1>2, <1>4, <2>3, <2>5, <2>6 DEF SurgeInv
<1>5. ASSUME NEW x \in Pricer, NEW op, NEW demand, NEW pc, NEW event,
             Begin(x, op, demand, pc, event), event.type \in {"SET", "NONE"}
      PROVE  SurgeInv'
    <2>1. \A y \in Pricer \ {x} : Kept(y)
        BY <1>5 DEF Begin, PricerState
    <2>2. pricer'[x].price = NoPrice /\ pricer'[x].event = event
        BY <1>5 DEF Begin, IdlePricer
    <2>3. SurgesNeverCompound'
        BY <1>5 DEF Begin, SurgeInv, SurgesNeverCompound
    <2> QED BY <1>1, <1>5, <2>1, <2>2, <2>3 DEF Begin, SurgeInv
<1>6. ASSUME NEW x \in Pricer,
             (\E amount \in BasePrice : SetBasePrice(x, amount)) \/ (\E demand \in Demand : ApplySurge(x, demand))
               \/ ApplyEarlyBird(x) \/ GetSectionPrice(x)
      PROVE  SurgeInv'
    <2>1. NoEvent.type = "NONE" /\ \A amount, at : PricingEvent("SET", amount, 100, at).type = "SET"
        BY DEF NoEvent, PricingEvent
    <2> QED BY <1>5, <1>6, <2>1 DEF SetBasePrice, ApplySurge, ApplyEarlyBird, GetSectionPrice
<1>7. ASSUME NEW x \in Pricer, ReadCache(x) PROVE SurgeInv'
    <2>1. CASE Use(x, priceCache)
        BY <1>3, <1>7, <2>1, SurgeUse DEF ReadCache, SurgeInv
    <2>2. CASE pricer' = [pricer EXCEPT ![x].pc = "row"]
        BY <1>3, <1>7, <2>2 DEF ReadCache, SurgeInv, PricerState
    <2> QED BY <1>7, <2>1, <2>2 DEF ReadCache
<1>8. ASSUME NEW x \in Pricer, ReadRow(x) \/ LoadLog(x) \/ UpsertPrice(x) PROVE SurgeInv'
    <2>1. Sound(log, Replay(log))
        BY CompoundBounds, ReplaySound DEF SurgeInv
    <2> QED BY <1>3, <1>8, <2>1 DEF ReadRow, LoadLog, UpsertPrice, Projected, SurgeInv, PricerState
<1>9. ASSUME NEW x \in Pricer, AppendEvent(x) PROVE SurgeInv'
    BY <1>4, <1>9 DEF AppendEvent, PricerState
<1>10. ASSUME NEW x \in Pricer, SetCache(x) PROVE SurgeInv'
    <2>1. Sound(log, pricer[x].price)
        BY DEF SurgeInv
    <2>2. CASE Use(x, pricer[x].price)
        BY <1>3, <1>10, <2>1, <2>2, SurgeUse DEF SetCache, Copied, SurgeInv
    <2>3. CASE EndPricer(x)
        BY <1>3, <1>10, <2>1, <2>3 DEF SetCache, EndPricer, Copied, SurgeInv
    <2> QED BY <1>10, <2>2, <2>3 DEF SetCache
<1>11. ASSUME NEW x \in Pricer, PricerFails(x) PROVE SurgeInv'
    <2>1. \A y \in Pricer : pricer'[y] = IdlePricer \/ pricer'[y] = pricer[y]
        BY <1>11 DEF PricerFails
    <2>2. CASE pricer[x].pc = "append" /\ log' = Append(log, pricer[x].event) /\ UNCHANGED <<priceRow, priceCache>>
        BY <1>4, <2>1, <2>2
    <2>3. CASE UNCHANGED log /\ Sound(log, priceRow') /\ Sound(log, priceCache')
        BY <1>3, <2>1, <2>3
    <2> QED BY <1>11, <2>2, <2>3 DEF PricerFails, Projected, Copied, SurgeInv
<1>12. CASE PriceExpires
    BY <1>1, <1>3, <1>12 DEF PriceExpires, SurgeInv
<1>13. CASE UNCHANGED pricingVars
    BY <1>3, <1>13 DEF pricingVars, SurgeInv
<1> QED BY <1>6, <1>7, <1>8, <1>9, <1>10, <1>11, <1>12, <1>13 DEF PricingNext

(* No change ever takes a price past 2.16 times a base price that was set  *)
(* before it.                                                              *)
THEOREM SurgesDoNotCompound == PricingSpec => []SurgesNeverCompound
<1>1. PriceShape /\ SurgeInv => SurgesNeverCompound
    BY DEF SurgeInv
<1>2. PricingInit => PriceShape /\ SurgeInv
    BY PricingStarts, SurgeStarts
<1>3. (PriceShape /\ SurgeInv) /\ [PricingNext]_pricingVars => (PriceShape /\ SurgeInv)'
    BY PricingStep, SurgeStep
<1> QED BY <1>1, <1>2, <1>3, PTL DEF PricingSpec
=============================================================================
