-------------------------------- MODULE Picker --------------------------------
(***************************************************************************)
(* The trading loop of src/src/picker.rs: the task PickerComms, which      *)
(* watches the arbs and asks for executions, and the task PickerExec,      *)
(* which executes them.  They run on different threads and share           *)
(*   - a bounded channel of execution requests (execution_tx / _rx),       *)
(*   - in_flight, the set of arbs with an execution, and                   *)
(*   - cooldown, a map from an arb to the instant of its failed execution, *)
(* each of the last two behind a lock that a task takes for one access at  *)
(* a time.  A step of this module is therefore one lock acquisition or one *)
(* channel operation, or a whole handler of PickerComms where it touches   *)
(* only what PickerExec never does (the book and the top of book).         *)
(*                                                                         *)
(* Abstracted: a close time is a class (Book!CloseClasses), a cooldown is  *)
(* fresh or expired, prices are cents, sizes are left to the executor's    *)
(* choice of outcome.  Elsewhere: what subscribing does to the WS feed     *)
(* (here an add_market_ticker succeeds or fails) and the channel to the    *)
(* server that DeleteRunningArbs and OrderSubmitted are sent to.           *)
(***************************************************************************)
EXTENDS Book, Sequences, FiniteSets

CONSTANTS
    KalshiMarkets,  \* the market keys of Kalshi; the others are Polymarket's
    AnchorSide,     \* which side of its market the anchor leg buys
    MatchSide,      \* which side of its market the match leg buys
    QueueCap,       \* capacity of the execution channel (1024 in app.rs)
    Optimistic,     \* EXEC_MODE = optimistic
    Quotes,         \* the [bid, ask] pairs explored, in cents
    MaxTs,          \* bound on the timestamps of the quotes
    Closes,         \* the close-time classes explored
    NoArb           \* not an arb

ASSUME PickerAssumption ==
    /\ KalshiMarkets \subseteq Markets
    /\ AnchorSide \in [Arbs -> {"left", "right"}]
    /\ MatchSide \in [Arbs -> {"left", "right"}]
    /\ QueueCap \in Nat \ {0}
    /\ Optimistic \in BOOLEAN
    /\ Quotes \subseteq [bid : 0..100, ask : 0..100]
    /\ MaxTs \in Nat
    /\ Closes \subseteq CloseClasses
    /\ NoArb \notin Arbs

VARIABLES
    tob,         \* top_of_book: market key -> latest quote
    subscribed,  \* the markets whose updates can be in the ws channel
    seeds,       \* comms: the markets find_arb still has to seed over HTTP
    todo,        \* comms: the arbs the price update still has to evaluate
    evalArb,     \* comms: the arb evaluate_arb is at work on
    evalAt,      \* comms: where evaluate_arb is
    execQ,       \* the channel of execution requests
    inFlight,    \* in_flight
    cooldown,    \* cooldown: arb -> has the duration elapsed?
    execArb,     \* exec: the arb of the request in hand
    execAt       \* exec: where handle_execution_request is

feedVars == <<registry, records, tob, subscribed>>
evalVars == <<seeds, todo, evalArb, evalAt>>
execVars == <<execArb, execAt>>
vars == <<feedVars, evalVars, execQ, inFlight, cooldown, execVars>>

-------------------------------------------------------------------------------
PolyMarkets == Markets \ KalshiMarkets

Timestamps == 1..MaxTs

TopOfBook == [ts : Timestamps, quote : Quotes]

EvalPoints == {"none", "cooldown", "expire", "guards", "mark"}

ExecPoints == {"recv", "metrics", "orders", "cool", "hedge", "release",
               "filled", "report", "refresh"}

(* The points at which the request in hand has not left in_flight yet.      *)
Unreleased == {"metrics", "orders", "cool", "hedge", "release", "filled"}

Working(c) == execArb = c /\ execAt \in Unreleased

Queued(c) == \E i \in 1..Len(execQ) : execQ[i] = c

Pending(c) == Queued(c) \/ Working(c)

Fresh(c) == c \in DOMAIN cooldown /\ cooldown[c] = "fresh"

(* PickerComms is at its select!, ready to take a message.                  *)
CommsIdle == seeds = <<>> /\ todo = {} /\ evalAt = "none"

Init ==
    /\ BookInit
    /\ tob = [m \in {} |-> {}]
    /\ subscribed = {}
    /\ seeds = <<>>
    /\ todo = {}
    /\ evalArb = NoArb
    /\ evalAt = "none"
    /\ execQ = <<>>
    /\ inFlight = {}
    /\ cooldown = [c \in {} |-> "fresh"]
    /\ execArb = NoArb
    /\ execAt = "recv"

-------------------------------------------------------------------------------
(* PickerComms: commands from the server                                    *)

(* Close times within the hour refuse an arb; times already past do not.    *)
ClosesSoon(watch) ==
    watch.anchor \in {"hour", "near"} \/ watch.match \in {"hour", "near"}

(* The watches the server can send.                                         *)
ServerWatches == [anchor : Closes, match : Closes]

(* Mistake: leave the quotes of the evicted keys behind.                    *)
UnwatchKeepQuotes(S) ==
    /\ UnregisterArbs(S)
    /\ UNCHANGED <<tob, subscribed, evalVars, execQ, inFlight, cooldown, execVars>>

(* unregister_arb for S, with the top of book of the evicted keys.          *)
Unwatch(S) ==
    /\ UnregisterArbs(S)
    /\ tob' = Drop(tob, Evicted(S))
    /\ UNCHANGED <<subscribed, evalVars, execQ, inFlight, cooldown, execVars>>

(* find_arb within an hour of close: the arb goes the way of delete_arb.    *)
RefuseArb(c, watch) ==
    /\ CommsIdle
    /\ ClosesSoon(watch)
    /\ Unwatch({c})

(* find_arb when only the legs added could be subscribed: the arb is        *)
(* dropped, the leg that succeeded stays subscribed.                        *)
DropArb(c, watch, added) ==
    /\ CommsIdle
    /\ ~ClosesSoon(watch)
    /\ added \in SUBSET Legs(c) \ {Legs(c)}
    /\ subscribed' = subscribed \cup added
    /\ UNCHANGED <<bookVars, tob, evalVars, execQ, inFlight, cooldown, execVars>>

(* find_arb with both legs subscribed: register the arb, then seed the top  *)
(* of book of the anchor and of the match over HTTP.                        *)
WatchArb(c, watch) ==
    /\ CommsIdle
    /\ ~ClosesSoon(watch)
    /\ RegisterArb(c, watch)
    /\ subscribed' = subscribed \cup Legs(c)
    /\ seeds' = <<AnchorOf[c], MatchOf[c]>>
    /\ UNCHANGED <<tob, todo, evalArb, evalAt, execQ, inFlight, cooldown, execVars>>

(* DeleteRunningArbs from the dashboard.                                    *)
DeleteArb(c) ==
    /\ CommsIdle
    /\ Unwatch({c})

-------------------------------------------------------------------------------
(* PickerComms: events from the platforms                                   *)

(* on_price_update: drop a quote that is not newer than the one in hand,    *)
(* else store it and set out to evaluate every arb that watches the market. *)
OnPriceUpdate(m, ts, quote) ==
    IF m \in DOMAIN tob /\ ts <= tob[m].ts
    THEN UNCHANGED <<tob, todo>>
    ELSE /\ tob' = Put(tob, m, [ts |-> ts, quote |-> quote])
         /\ todo' = Watchers(m)

(* BestBidAsk, or one change of a PriceChange: no look at the registry.     *)
PolyPrice(m, ts, quote) ==
    /\ CommsIdle
    /\ m \in PolyMarkets \cap subscribed
    /\ OnPriceUpdate(m, ts, quote)
    /\ UNCHANGED <<bookVars, subscribed, seeds, evalArb, evalAt, execQ, inFlight,
                   cooldown, execVars>>

(* A ticker update counts only for a key of the registry.                   *)
KalshiTicker(m, ts, quote) ==
    /\ CommsIdle
    /\ m \in KalshiMarkets \cap DOMAIN registry
    /\ OnPriceUpdate(m, ts, quote)
    /\ UNCHANGED <<bookVars, subscribed, seeds, evalArb, evalAt, execQ, inFlight,
                   cooldown, execVars>>

(* MarketResolved for one asset.                                            *)
PolyResolved(m) ==
    /\ CommsIdle
    /\ m \in PolyMarkets \cap DOMAIN registry
    /\ Unwatch(Watchers(m))

(* Lifecycle events "determined", "settled" and "deactivated".              *)
KalshiEnded(m) ==
    /\ CommsIdle
    /\ m \in KalshiMarkets \cap DOMAIN registry
    /\ Unwatch(Watchers(m))

(* Lifecycle event "close_date_updated", in the records of the watchers.    *)
CloseDateUpdated(m, class) ==
    /\ CommsIdle
    /\ m \in KalshiMarkets \cap DOMAIN registry
    /\ records' = [c \in DOMAIN records |->
                     IF c \in registry[m]
                     THEN [anchor |-> IF AnchorOf[c] = m THEN class ELSE records[c].anchor,
                           match |-> IF MatchOf[c] = m THEN class ELSE records[c].match]
                     ELSE records[c]]
    /\ UNCHANGED <<registry, tob, subscribed, evalVars, execQ, inFlight, cooldown,
                   execVars>>

(* seed_tob_from_http for the next leg of the arb in hand.                  *)
SeedTob(ts, quote) ==
    /\ seeds # <<>> /\ todo = {} /\ evalAt = "none"
    /\ seeds' = Tail(seeds)
    /\ OnPriceUpdate(Head(seeds), ts, quote)
    /\ UNCHANGED <<bookVars, subscribed, evalArb, evalAt, execQ, inFlight, cooldown,
                   execVars>>

(* The order book request failed, or the book had no price.                 *)
SeedFails ==
    /\ seeds # <<>> /\ todo = {} /\ evalAt = "none"
    /\ seeds' = Tail(seeds)
    /\ UNCHANGED <<feedVars, todo, evalArb, evalAt, execQ, inFlight, cooldown, execVars>>

-------------------------------------------------------------------------------
(* PickerComms: evaluate_arb, one step per access to the shared state.      *)

GoTo(point, c) == evalAt' = point /\ evalArb' = c

Leave == GoTo("none", NoArb)

(* Mistake: evaluate without a look at in_flight.                           *)
CheckNothing(c) ==
    /\ evalAt = "none" /\ c \in todo
    /\ todo' = todo \ {c}
    /\ GoTo("cooldown", c)
    /\ UNCHANGED <<feedVars, seeds, execQ, inFlight, cooldown, execVars>>

(* Mistake: wait for an arb in flight instead of skipping it.               *)
CheckAndWait(c) ==
    /\ evalAt = "none" /\ c \in todo /\ c \notin inFlight
    /\ todo' = todo \ {c}
    /\ GoTo("cooldown", c)
    /\ UNCHANGED <<feedVars, seeds, execQ, inFlight, cooldown, execVars>>

(* The arbs of the update are evaluated in the order of a hash set.         *)
CheckInFlight(c) ==
    /\ evalAt = "none" /\ c \in todo
    /\ todo' = todo \ {c}
    /\ IF c \in inFlight THEN Leave ELSE GoTo("cooldown", c)
    /\ UNCHANGED <<feedVars, seeds, execQ, inFlight, cooldown, execVars>>

(* Mistake: a cooldown does not keep an arb from being requested.           *)
CheckNoCooldown ==
    /\ evalAt = "cooldown"
    /\ GoTo("guards", evalArb)
    /\ UNCHANGED <<feedVars, seeds, todo, execQ, inFlight, cooldown, execVars>>

CheckCooldown ==
    /\ evalAt = "cooldown"
    /\ \/ Fresh(evalArb) /\ Leave
       \/ evalArb \in DOMAIN cooldown /\ ~Fresh(evalArb) /\ GoTo("expire", evalArb)
       \/ evalArb \notin DOMAIN cooldown /\ GoTo("guards", evalArb)
    /\ UNCHANGED <<feedVars, seeds, todo, execQ, inFlight, cooldown, execVars>>

(* Mistake: clear the map instead of removing one entry.                    *)
ExpireAllCooldowns ==
    /\ evalAt = "expire"
    /\ cooldown' = Drop(cooldown, Arbs)
    /\ GoTo("guards", evalArb)
    /\ UNCHANGED <<feedVars, seeds, todo, execQ, inFlight, execVars>>

(* The read lock was dropped before the write lock is taken.                *)
ExpireCooldown ==
    /\ evalAt = "expire"
    /\ cooldown' = Drop(cooldown, {evalArb})
    /\ GoTo("guards", evalArb)
    /\ UNCHANGED <<feedVars, seeds, todo, execQ, inFlight, execVars>>

(* What it costs to own a leg: the ask, or for the right side of a Kalshi   *)
(* market the complement of the bid.                                        *)
NeededAsk(m, side) ==
    IF m \in KalshiMarkets /\ side = "right"
    THEN 100 - tob[m].quote.bid
    ELSE tob[m].quote.ask

TotalCost(c) ==
    NeededAsk(AnchorOf[c], AnchorSide[c]) + NeededAsk(MatchOf[c], MatchSide[c])

Opportunity(c) ==
    /\ Registered(c)
    /\ records[c].anchor # "near" /\ records[c].match # "near"
    /\ Legs(c) \subseteq DOMAIN tob
    /\ TotalCost(c) > 0 /\ TotalCost(c) < 95

(* Mistake: mark the arb although the channel dropped its request.          *)
RequestAndMark ==
    /\ evalAt = "guards"
    /\ \/ /\ Opportunity(evalArb)
          /\ execQ' = IF Len(execQ) < QueueCap THEN Append(execQ, evalArb) ELSE execQ
          /\ GoTo("mark", evalArb)
       \/ ~Opportunity(evalArb) /\ Leave /\ UNCHANGED execQ
    /\ UNCHANGED <<feedVars, seeds, todo, inFlight, cooldown, execVars>>

(* try_send: a full channel drops the opportunity.                          *)
Request ==
    /\ evalAt = "guards"
    /\ IF Opportunity(evalArb) /\ Len(execQ) < QueueCap
       THEN execQ' = Append(execQ, evalArb) /\ GoTo("mark", evalArb)
       ELSE Leave /\ UNCHANGED execQ
    /\ UNCHANGED <<feedVars, seeds, todo, inFlight, cooldown, execVars>>

(* Mistake: send the request and never insert the arb.                      *)
MarkNothing ==
    /\ evalAt = "mark"
    /\ Leave
    /\ UNCHANGED <<feedVars, seeds, todo, execQ, inFlight, cooldown, execVars>>

(* The arb enters in_flight only after its request is in the channel.       *)
MarkInFlight ==
    /\ evalAt = "mark"
    /\ inFlight' = inFlight \cup {evalArb}
    /\ Leave
    /\ UNCHANGED <<feedVars, seeds, todo, execQ, cooldown, execVars>>

-------------------------------------------------------------------------------
(* PickerExec: one request at a time.                                       *)

ExecGoTo(point) == execAt' = point /\ UNCHANGED execArb

(* Mistake: release the arb when its request is taken, not when it is done. *)
TakeAndRelease ==
    /\ execAt = "recv" /\ execQ # <<>>
    /\ execArb' = Head(execQ)
    /\ execQ' = Tail(execQ)
    /\ execAt' = "metrics"
    /\ inFlight' = inFlight \ {Head(execQ)}
    /\ UNCHANGED <<feedVars, evalVars, cooldown>>

Take ==
    /\ execAt = "recv" /\ execQ # <<>>
    /\ execArb' = Head(execQ)
    /\ execQ' = Tail(execQ)
    /\ execAt' = "metrics"
    /\ UNCHANGED <<feedVars, evalVars, inFlight, cooldown>>

(* The prices, from the order books or in optimistic mode from the request, *)
(* then the size.  Over HTTP a book request may fail, the pair may cost a   *)
(* dollar or more (gone), or too near one (or nothing) to be worth it; in   *)
(* both modes the balance or the liquidity may be too small.                *)
Price ==
    /\ execAt = "metrics"
    /\ \/ ~Optimistic /\ ExecGoTo("cool")       \* gone at execution
       \/ ExecGoTo("release")                   \* failed, not worth it, too small
       \/ ExecGoTo("orders")
    /\ UNCHANGED <<feedVars, evalVars, execQ, inFlight, cooldown>>

(* Both fill-and-kill orders are placed; an order that errs counts as no    *)
(* fill.  Nothing filled, equal fills, or an excess on one leg.             *)
PlaceOrders ==
    /\ execAt = "orders"
    /\ \/ ExecGoTo("cool")
       \/ ExecGoTo("filled")
       \/ ExecGoTo("hedge")
    /\ UNCHANGED <<feedVars, evalVars, execQ, inFlight, cooldown>>

CoolDown ==
    /\ execAt = "cool"
    /\ cooldown' = Put(cooldown, execArb, "fresh")
    /\ ExecGoTo("release")
    /\ UNCHANGED <<feedVars, evalVars, execQ, inFlight>>

(* The hedge order and the reports are awaited before the release.          *)
Hedge ==
    /\ execAt = "hedge"
    /\ ExecGoTo("release")
    /\ UNCHANGED <<feedVars, evalVars, execQ, inFlight, cooldown>>

(* Equal fills leave in_flight before OrderSubmitted is sent.               *)
Release ==
    /\ execAt \in {"release", "filled"}
    /\ inFlight' = inFlight \ {execArb}
    /\ ExecGoTo(IF execAt = "filled" THEN "report" ELSE "refresh")
    /\ UNCHANGED <<feedVars, evalVars, execQ, cooldown>>

Report ==
    /\ execAt = "report"
    /\ ExecGoTo("refresh")
    /\ UNCHANGED <<feedVars, evalVars, execQ, inFlight, cooldown>>

(* Mistake: go back to the channel with the last request still in hand.     *)
RefreshKeepRequest ==
    /\ execAt = "refresh"
    /\ execAt' = "recv"
    /\ UNCHANGED <<feedVars, evalVars, execQ, inFlight, cooldown, execArb>>

RefreshBalances ==
    /\ execAt = "refresh"
    /\ execArb' = NoArb
    /\ execAt' = "recv"
    /\ UNCHANGED <<feedVars, evalVars, execQ, inFlight, cooldown>>

-------------------------------------------------------------------------------
(* Time                                                                     *)

CooldownElapses(c) ==
    /\ Fresh(c)
    /\ cooldown' = Put(cooldown, c, "expired")
    /\ UNCHANGED <<feedVars, evalVars, execQ, inFlight, execVars>>

Later == [far |-> "hour", hour |-> "near", near |-> "past"]

CloseComesNearer(c, leg) ==
    /\ Registered(c)
    /\ records[c][leg] # "past" /\ Later[records[c][leg]] \in Closes
    /\ records' = [records EXCEPT ![c][leg] = Later[@]]
    /\ UNCHANGED <<registry, tob, subscribed, evalVars, execQ, inFlight, cooldown,
                   execVars>>

-------------------------------------------------------------------------------
ServerCommand ==
    \E c \in Arbs :
        \/ DeleteArb(c)
        \/ \E watch \in ServerWatches :
              \/ RefuseArb(c, watch)
              \/ WatchArb(c, watch)
              \/ \E added \in SUBSET Legs(c) : DropArb(c, watch, added)

PlatformEvent ==
    \E m \in Markets :
        \/ PolyResolved(m)
        \/ KalshiEnded(m)
        \/ \E class \in Closes : CloseDateUpdated(m, class)
        \/ \E ts \in Timestamps, quote \in Quotes :
              PolyPrice(m, ts, quote) \/ KalshiTicker(m, ts, quote)

Seed == SeedFails \/ \E ts \in Timestamps, quote \in Quotes : SeedTob(ts, quote)

Evaluate ==
    \/ \E c \in todo : CheckInFlight(c)
    \/ CheckCooldown
    \/ ExpireCooldown
    \/ Request
    \/ MarkInFlight

Execute ==
    \/ Take
    \/ Price
    \/ PlaceOrders
    \/ CoolDown
    \/ Hedge
    \/ Release
    \/ Report
    \/ RefreshBalances

Clock ==
    \E c \in Arbs :
        CooldownElapses(c) \/ \E leg \in {"anchor", "match"} : CloseComesNearer(c, leg)

Next == ServerCommand \/ PlatformEvent \/ Seed \/ Evaluate \/ Execute \/ Clock

(* tokio polls a task that is ready, HTTP requests and the report to the    *)
(* server return, and a cooldown elapses.  Nothing is assumed of messages.  *)
Fairness ==
    /\ WF_vars(Seed)
    /\ WF_vars(Evaluate)
    /\ WF_vars(Execute)
    /\ \A c \in Arbs : WF_vars(CooldownElapses(c))

Spec == Init /\ [][Next]_vars /\ Fairness

-------------------------------------------------------------------------------
TypeOK ==
    /\ BookTypeOK
    /\ DOMAIN tob \subseteq Markets /\ tob \in [DOMAIN tob -> TopOfBook]
    /\ subscribed \subseteq Markets
    /\ seeds \in Seq(Markets)
    /\ todo \subseteq Arbs
    /\ evalAt \in EvalPoints
    /\ evalArb \in IF evalAt = "none" THEN {NoArb} ELSE Arbs
    /\ execQ \in Seq(Arbs)
    /\ inFlight \subseteq Arbs
    /\ DOMAIN cooldown \subseteq Arbs
    /\ cooldown \in [DOMAIN cooldown -> {"fresh", "expired"}]
    /\ execAt \in ExecPoints
    /\ execArb \in IF execAt = "recv" THEN {NoArb} ELSE Arbs

(* An arb never has two executions under way: its requests wait in the      *)
(* channel or are being executed, and there is at most one of them, however *)
(* the checks of evaluate_arb (picker.rs:890-958) interleave with the       *)
(* executor's release of in_flight and with re-registration of the arb.     *)
AtMostOnePending ==
    /\ \A i, j \in 1..Len(execQ) : execQ[i] = execQ[j] => i = j
    /\ \A c \in Arbs : ~(Queued(c) /\ Working(c))

(* An execution under way keeps its arb out of evaluation: the arb is in    *)
(* in_flight until the release, but for the moment between try_send         *)
(* (picker.rs:945) and the insert (958), when PickerComms itself is busy    *)
(* with that arb.                                                           *)
PendingIsMarked ==
    \A c \in Arbs :
        Pending(c) => c \in inFlight \/ (evalAt = "mark" /\ evalArb = c)

(* What evaluate_arb has checked still holds when it acts on it, although   *)
(* the executor runs between the two: past the look at in_flight            *)
(* (picker.rs:890) the arb has no execution under way, past the look at     *)
(* cooldown (897) it is not cooling, whoever wrote the map since.           *)
EvaluationStaysValid ==
    /\ evalAt \in {"cooldown", "expire", "guards"} => ~Pending(evalArb)
    /\ evalAt = "expire" => ~Fresh(evalArb)
    /\ evalAt = "guards" => evalArb \notin DOMAIN cooldown

(* A Kalshi quote is held only for a market some arb watches: an eviction   *)
(* takes the quote along, and a late ticker does not bring it back          *)
(* (picker.rs:581 and 694).                                                 *)
KalshiTobIsWatched == DOMAIN tob \cap KalshiMarkets \subseteq DOMAIN registry

(* While the cooldown of an arb runs, no execution is requested for it      *)
(* (README.md:89-90), though the cooldown is looked up before the request   *)
(* is sent and the executor writes it in between, for other arbs.           *)
NoRequestWhileCooling ==
    [][\A c \in Arbs : Queued(c)' /\ ~Queued(c) => ~Fresh(c)]_vars

(* Only time ends a cooldown: the removal of an expired entry, under a lock *)
(* taken after the look-up (picker.rs:901-902), never takes away one the    *)
(* executor has just written.                                               *)
FreshCooldownStays ==
    [][\A c \in Arbs : Fresh(c) => c \in DOMAIN cooldown']_vars

(* Picker implements ArbGate: an arb is pending while a request of it is in *)
(* the channel or in hand, else cooling while its cooldown runs.  Requests  *)
(* end although the executor takes one at a time, and cooldowns end.        *)
gatePhase ==
    [c \in Arbs |-> IF Pending(c) THEN "pending"
                    ELSE IF Fresh(c) THEN "cooling" ELSE "open"]

Gate == INSTANCE ArbGate WITH phase <- gatePhase

ImplementsGate == Gate!Spec

(* Its safety part, which the proofs are about.                             *)
ImplementsGateSafety == Gate!Safety

(* PickerComms always gets back to its select!, whatever it evaluates.      *)
CommsComesBack == []<>CommsIdle

(* Evaluation skips an arb that is in in_flight, or is about to be.         *)
Barred(c) == c \in inFlight \/ (evalAt = "mark" /\ evalArb = c)

BarredInVain(c) == Barred(c) /\ ~Pending(c)

(* An arb is left barred with no execution of it to come in one way only:   *)
(* the executor ends its execution while PickerComms is between try_send    *)
(* (picker.rs:945) and the insert (958).  A request that a full channel     *)
(* drops bars nothing, every other end of an execution takes the bar away,  *)
(* and so it stays if the arb is deleted, resolved, refused, or registered  *)
(* again while its execution is under way.                                  *)
OnlyTheRaceStrands ==
    [][\A c \in Arbs :
          BarredInVain(c)' /\ ~BarredInVain(c) =>
              Working(c) /\ evalAt = "mark" /\ evalArb = c]_vars

-------------------------------------------------------------------------------
(* README.md:88-89, "skip while an execution for the pair is in flight":    *)
(* an arb that evaluation skips as in flight has an execution in flight.    *)
(* It fails: the executor can take and release a request before the insert  *)
(* that follows try_send, and nothing ever removes the entry again.         *)
InFlightIsPending ==
    \A c \in inFlight : Pending(c)
===============================================================================
