------------------------------ MODULE Pricing -------------------------------
(***************************************************************************)
(* The prices of one section of one event: an append-only log              *)
(* (pricing_events), its projection (current_prices) and a Redis copy of   *)
(* the projection (pricing.service.ts, current-price.projection.ts).       *)
(* Nothing is locked: a handler reads, computes, appends, replays the log  *)
(* and stores the result in five separate calls.                           *)
(***************************************************************************)
EXTENDS Naturals, Sequences, SequencesExt

CONSTANTS
    Pricer,             \* requests about prices that may overlap
    BasePrice,          \* prices that setBasePrice is given
    Demand,             \* <<how many seats are left, does the event start soon?>>
    MaxEvents,          \* bound on changes that are appended
    MaxPriceFailures    \* bound on rejected calls

ASSUME PricingAssumption ==
    /\ BasePrice \subseteq Nat
    /\ Demand \subseteq {"critical", "low", "plenty"} \X BOOLEAN
    /\ MaxEvents \in Nat /\ MaxPriceFailures \in Nat

VARIABLES
    log,                \* pricing_events, in the order of insertion
    stamps,             \* createdAt stamps drawn so far
    priceRow,           \* current_prices
    priceCache,         \* price:current:<event>:<section>
    pricer,             \* the handlers
    clean,              \* no write overlapped or failed since the last one that ran alone
    priceFailures

pricingVars == <<log, stamps, priceRow, priceCache, pricer, clean, priceFailures>>

-----------------------------------------------------------------------------
Change == {"SET", "SURGE", "EARLY_BIRD"}
Operation == Change \cup {"READ"}

(* A price is what a row of current_prices holds; multipliers are percents.*)
Price(base, current, multiplier) == [base |-> base, current |-> current, multiplier |-> multiplier]

NoPrice == Price(0, 0, 0)
ZeroPrice == Price(0, 0, 100)

(* An event carries the price it sets; a discount leaves the multiplier.   *)
PricingEvent(type, amount, multiplier, at) ==
    [type |-> type, amount |-> amount, multiplier |-> multiplier, at |-> at]

NoEvent == PricingEvent("NONE", 0, 0, 0)

IdlePricer == [pc |-> "idle", op |-> "READ", demand |-> <<>>, event |-> NoEvent,
               price |-> NoPrice, alone |-> TRUE]

PriceOf == [base : Nat, current : Nat, multiplier : Nat]
LoggedEvent == [type : Change, amount : Nat, multiplier : Nat, at : 0..MaxEvents]
PricerState ==
    [pc : {"idle", "cache", "row", "append", "load", "upsert", "set"}, op : Operation,
     demand : Demand \cup {<<>>}, event : LoggedEvent \cup {NoEvent}, price : PriceOf, alone : BOOLEAN]

PricingTypeOK ==
    /\ log \in Seq(LoggedEvent)
    /\ stamps \in 0..MaxEvents
    /\ priceRow \in PriceOf
    /\ priceCache \in PriceOf
    /\ pricer \in [Pricer -> PricerState]
    /\ clean \in BOOLEAN
    /\ priceFailures \in 0..MaxPriceFailures

Apply(price, event) ==
    CASE event.type = "SET" -> Price(event.amount, event.amount, 100)
      [] event.type = "SURGE" -> [price EXCEPT !.current = event.amount, !.multiplier = event.multiplier]
      [] event.type = "EARLY_BIRD" -> [price EXCEPT !.current = event.amount]

(* orderBy createdAt, which a writer draws before its row is inserted: the *)
(* latest event is applied to what the earlier ones come to.               *)
Latest(rows) == CHOOSE e \in rows : \A f \in rows : f.at <= e.at

Replay(events) ==
    MapThenFoldSet(LAMBDA event, price : Apply(price, event), ZeroPrice, LAMBDA event : event, Latest, ToSet(events))

Percent(amount, percent) == (amount * percent + 50) \div 100      \* Math.round

Multiplier(demand) ==
    LET seats == CASE demand[1] = "critical" -> 180 [] demand[1] = "low" -> 130 [] OTHER -> 100
    IN  IF demand[2] THEN (seats * 120) \div 100 ELSE seats

-----------------------------------------------------------------------------
(* A section without prices, or one that has a base price already.         *)
PricingInit ==
    /\ log \in {<<>>} \cup {<<PricingEvent("SET", amount, 100, 0)>> : amount \in BasePrice}
    /\ stamps = 0
    /\ priceRow = IF log = <<>> THEN NoPrice ELSE Replay(log)
    /\ priceCache = NoPrice
    /\ pricer = [x \in Pricer |-> IdlePricer]
    /\ clean = TRUE
    /\ priceFailures = 0

Busy(x) == pricer[x].pc # "idle"
Company(x) == {y \in Pricer \ {x} : Busy(y)}

Begin(x, op, demand, pc, event) ==
    LET new == [IdlePricer EXCEPT !.pc = pc, !.op = op, !.demand = demand, !.event = event,
                                  !.alone = Company(x) = {}]
    IN  /\ ~Busy(x)
        /\ pricer' = [y \in Pricer |-> IF y = x THEN new ELSE [pricer[y] EXCEPT !.alone = ~Busy(y)]]
        /\ clean' = (clean /\ \A y \in Company(x) : pricer[y].op = "READ" /\ op = "READ")
        /\ UNCHANGED <<log, priceRow, priceCache, priceFailures>>

SetBasePrice(x, amount) ==
    /\ stamps < MaxEvents
    /\ stamps' = stamps + 1
    /\ Begin(x, "SET", <<>>, "append", PricingEvent("SET", amount, 100, stamps'))

ApplySurge(x, demand) == Begin(x, "SURGE", demand, "cache", NoEvent) /\ UNCHANGED stamps

ApplyEarlyBird(x) == Begin(x, "EARLY_BIRD", <<>>, "cache", NoEvent) /\ UNCHANGED stamps

GetSectionPrice(x) == Begin(x, "READ", <<>>, "cache", NoEvent) /\ UNCHANGED stamps

(* A change that ran alone from its first to its last call puts everything *)
(* right that overlapping or failed ones before it left behind.            *)
EndPricer(x) ==
    /\ pricer' = [pricer EXCEPT ![x] = IdlePricer]
    /\ clean' = (clean \/ (pricer[x].event # NoEvent /\ pricer[x].alone))
    /\ UNCHANGED stamps

-----------------------------------------------------------------------------
(* What a handler does with the price that get returned: a read is done, a *)
(* change computes its event.                                              *)

(* Variant: a surge raises the price that is charged now. *)
SurgeOnTop(x, price) ==
    PricingEvent("SURGE", Percent(price.current, Multiplier(pricer[x].demand)), Multiplier(pricer[x].demand), stamps + 1)

SurgeEvent(x, price) ==
    PricingEvent("SURGE", Percent(price.base, Multiplier(pricer[x].demand)), Multiplier(pricer[x].demand), stamps + 1)

EarlyBirdEvent(price) ==
    PricingEvent("EARLY_BIRD", price.current - Percent(price.current, 15), 0, stamps + 1)

Issue(x, event) ==
    /\ stamps < MaxEvents
    /\ stamps' = stamps + 1
    /\ pricer' = [pricer EXCEPT ![x].pc = "append", ![x].event = event]
    /\ UNCHANGED clean

Use(x, price) ==
    \/ pricer[x].op = "READ" /\ EndPricer(x)
    \/ pricer[x].op = "SURGE" /\ Multiplier(pricer[x].demand) <= 100 /\ EndPricer(x)
    \/ pricer[x].op = "SURGE" /\ Multiplier(pricer[x].demand) > 100 /\ Issue(x, SurgeEvent(x, price))
    \/ pricer[x].op = "EARLY_BIRD" /\ Issue(x, EarlyBirdEvent(price))

(* currentPriceProjection.get: the cache, then the row, then a rebuild,    *)
(* which makes a row of zeros when the log is empty.                       *)
ReadCache(x) ==
    /\ pricer[x].pc = "cache"
    /\ IF priceCache # NoPrice THEN Use(x, priceCache)
       ELSE pricer' = [pricer EXCEPT ![x].pc = "row"] /\ UNCHANGED <<stamps, clean>>
    /\ UNCHANGED <<log, priceRow, priceCache, priceFailures>>

ReadRow(x) ==
    /\ pricer[x].pc = "row"
    /\ pricer' = IF priceRow = NoPrice THEN [pricer EXCEPT ![x].pc = "load"]
                 ELSE [pricer EXCEPT ![x].pc = "set", ![x].price = priceRow]
    /\ UNCHANGED <<log, stamps, priceRow, priceCache, clean, priceFailures>>

-----------------------------------------------------------------------------
(* The event is inserted, then rebuild: load, replay, store, copy.         *)

AppendEvent(x) ==
    /\ pricer[x].pc = "append"
    /\ log' = Append(log, pricer[x].event)
    /\ pricer' = [pricer EXCEPT ![x].pc = "load"]
    /\ UNCHANGED <<stamps, priceRow, priceCache, clean, priceFailures>>

LoadLog(x) ==
    /\ pricer[x].pc = "load"
    /\ pricer' = [pricer EXCEPT ![x].pc = "upsert", ![x].price = Replay(log)]
    /\ UNCHANGED <<log, stamps, priceRow, priceCache, clean, priceFailures>>

(* Variant: the new event is applied to the row, without a replay. *)
Incremental(x) ==
    IF pricer[x].event = NoEvent THEN pricer[x].price ELSE Apply(priceRow, pricer[x].event)

Projected(x) == pricer[x].price

UpsertPrice(x) ==
    /\ pricer[x].pc = "upsert"
    /\ priceRow' = Projected(x)
    /\ pricer' = [pricer EXCEPT ![x].pc = "set"]
    /\ UNCHANGED <<log, stamps, priceCache, clean, priceFailures>>

(* Variant: the row is rebuilt, its copy is left to expire. *)
CacheLeftAlone(x) == IF pricer[x].event = NoEvent THEN pricer[x].price ELSE priceCache

Copied(x) == pricer[x].price

SetCache(x) ==
    /\ pricer[x].pc = "set"
    /\ priceCache' = Copied(x)
    /\ IF pricer[x].event = NoEvent THEN Use(x, pricer[x].price) ELSE EndPricer(x)
    /\ UNCHANGED <<log, priceRow, priceFailures>>

(* CACHE_TTL.CURRENT_PRICE.                                                *)
PriceExpires ==
    /\ priceCache # NoPrice
    /\ priceCache' = NoPrice
    /\ UNCHANGED <<log, stamps, priceRow, pricer, clean, priceFailures>>

(* A call rejects, before or after it had its effect, or the process dies. *)
PricerFails(x) ==
    /\ Busy(x)
    /\ priceFailures < MaxPriceFailures
    /\ priceFailures' = priceFailures + 1
    /\ pricer' = [pricer EXCEPT ![x] = IdlePricer]
    /\ clean' = (clean /\ pricer[x].op = "READ")
    /\ \/ UNCHANGED <<log, priceRow, priceCache>>
       \/ pricer[x].pc = "append" /\ log' = Append(log, pricer[x].event) /\ UNCHANGED <<priceRow, priceCache>>
       \/ pricer[x].pc = "upsert" /\ priceRow' = Projected(x) /\ UNCHANGED <<log, priceCache>>
       \/ pricer[x].pc = "set" /\ priceCache' = Copied(x) /\ UNCHANGED <<log, priceRow>>
    /\ UNCHANGED stamps

-----------------------------------------------------------------------------
PricingNext ==
    \/ \E x \in Pricer :
          \/ \E amount \in BasePrice : SetBasePrice(x, amount)
          \/ \E demand \in Demand : ApplySurge(x, demand)
          \/ ApplyEarlyBird(x) \/ GetSectionPrice(x)
          \/ ReadCache(x) \/ ReadRow(x) \/ AppendEvent(x) \/ LoadLog(x) \/ UpsertPrice(x)
          \/ SetCache(x) \/ PricerFails(x)
    \/ PriceExpires

PricingSpec == PricingInit /\ [][PricingNext]_pricingVars

-----------------------------------------------------------------------------
(* Properties.                                                             *)

(* Whatever overlaps or fails, the row and its copy are prices that the    *)
(* log really said at some time: no mixture of two changes, and no change  *)
(* that was not inserted (rebuild).                                        *)
WasTrue(price) == price = NoPrice \/ \E n \in 0..Len(log) : price = Replay(SubSeq(log, 1, n))

PricesWereTrue == WasTrue(priceRow) /\ WasTrue(priceCache)

(* After a change that ran alone, the row and its copy are what the log    *)
(* says now, even if overlapping or failed changes had left them outdated, *)
(* and they stay so until changes overlap or fail again.                   *)
CleanPricesAreCurrent ==
    clean /\ (\A x \in Pricer : ~Busy(x)) =>
        /\ priceRow = Replay(log) \/ (priceRow = NoPrice /\ log = <<>>)
        /\ priceCache \in {NoPrice, priceRow}

(* Surges never build on one another: however changes overlap, whatever is *)
(* read from a copy that is outdated, and in whatever order rows arrive,   *)
(* no change takes a price past the largest multiplier, 1.8 x 1.2, of a    *)
(* base price set before it (applySurge multiplies the base price).        *)
SurgesNeverCompound ==
    \A i \in DOMAIN log : log[i].type # "SET" =>
        \/ log[i].amount = 0
        \/ \E j \in 1..(i - 1) : log[j].type = "SET" /\ log[i].amount <= Percent(log[j].amount, 216)
=============================================================================
