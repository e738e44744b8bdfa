----------------------------- MODULE Picker_proofs -----------------------------
(***************************************************************************)
(* Theorems about Picker and its Book, for every set of arbs and markets,  *)
(* whatever legs they share, every capacity of the channel and both        *)
(* execution modes.                                                        *)
(***************************************************************************)
EXTENDS Picker, SequenceTheorems, TLAPS

-------------------------------------------------------------------------------
(* The two operations on the book keep its type and keep its two indexes    *)
(* in sync, for every set of arbs and markets, whatever legs they share.    *)

(* A market key of an arb is a market.                                      *)
LEMMA LegsAreMarkets == \A c \in Arbs : Legs(c) \subseteq Markets
BY LegAssumption DEF Legs

(* Inserting into a hash map, and removing keys from it, keeps its type.    *)
LEMMA PutKeepsType ==
    ASSUME NEW K, NEW V, NEW f, DOMAIN f \subseteq K, f \in [DOMAIN f -> V],
           NEW k \in K, NEW v \in V
    PROVE  /\ DOMAIN Put(f, k, v) \subseteq K
           /\ Put(f, k, v) \in [DOMAIN Put(f, k, v) -> V]
BY DEF Put

LEMMA DropKeepsType ==
    ASSUME NEW K, NEW V, NEW f, DOMAIN f \subseteq K, f \in [DOMAIN f -> V], NEW S
    PROVE  /\ DOMAIN Drop(f, S) \subseteq K
           /\ Drop(f, S) \in [DOMAIN Drop(f, S) -> V]
BY DEF Drop, Restrict

(* The empty book is well typed and in sync.                                *)
LEMMA InitBook == BookInit => BookTypeOK /\ IndexesInSync
BY DEF BookInit, BookTypeOK, IndexesInSync

(* register_arb (picker.rs:660) keeps the type of the book.                 *)
LEMMA RegisterKeepsType ==
    ASSUME NEW c \in Arbs, NEW watch \in Watch, BookTypeOK, RegisterArb(c, watch)
    PROVE  BookTypeOK'
<1>1. DOMAIN registry' = DOMAIN registry \cup Legs(c)
  BY DEF RegisterArb
<1>2. ASSUME NEW m \in DOMAIN registry'
      PROVE  registry'[m] \in SUBSET Arbs
  BY DEF RegisterArb, Watchers, BookTypeOK
<1>3. DOMAIN records' = DOMAIN records \cup {c}
  BY DEF RegisterArb, Put
<1>4. ASSUME NEW d \in DOMAIN records'
      PROVE  records'[d] \in Watch
  BY DEF RegisterArb, Put, BookTypeOK
<1>5. registry' = [m \in DOMAIN registry' |-> registry'[m]]
      /\ records' = [d \in DOMAIN records' |-> records'[d]]
  BY DEF RegisterArb, Put
<1>. QED
  BY <1>1, <1>2, <1>3, <1>4, <1>5, LegsAreMarkets DEF BookTypeOK

(* unregister_arb (picker.rs:680) keeps the type of the book.               *)
LEMMA UnregisterKeepsType ==
    ASSUME NEW S, BookTypeOK, UnregisterArbs(S)
    PROVE  BookTypeOK'
<1>1. DOMAIN registry' \subseteq DOMAIN registry
      /\ \A m \in DOMAIN registry' : registry'[m] \subseteq registry[m]
  BY DEF UnregisterArbs, WatchersLeft
<1>2. DOMAIN records' \subseteq DOMAIN records
      /\ \A d \in DOMAIN records' : records'[d] = records[d]
  BY DEF UnregisterArbs, Drop, Restrict
<1>3. registry' = [m \in DOMAIN registry' |-> registry'[m]]
      /\ records' = [d \in DOMAIN records' |-> records'[d]]
  BY DEF UnregisterArbs, Drop, Restrict
<1>. QED
  BY <1>1, <1>2, <1>3 DEF BookTypeOK

(* register_arb keeps the two indexes in sync, also when it overwrites the  *)
(* record of an arb that is registered already.                             *)
LEMMA RegisterKeepsSync ==
    ASSUME NEW c \in Arbs, NEW watch \in Watch, IndexesInSync, RegisterArb(c, watch)
    PROVE  IndexesInSync'
<1>1. DOMAIN records' = DOMAIN records \cup {c}
  BY DEF RegisterArb, Put
<1>2. DOMAIN registry' = DOMAIN registry \cup Legs(c)
  BY DEF RegisterArb
<1>3. ASSUME NEW m \in DOMAIN registry'
      PROVE  registry'[m] = {d \in DOMAIN records' : m \in Legs(d)}
  <2>1. Watchers(m) = {d \in DOMAIN records : m \in Legs(d)}
    BY DEF Watchers, IndexesInSync
  <2>2. registry'[m] = Watchers(m) \cup (IF m \in Legs(c) THEN {c} ELSE {})
    BY <1>2 DEF RegisterArb
  <2>. QED
    BY <1>1, <2>1, <2>2
<1>. QED
  BY <1>1, <1>2, <1>3 DEF IndexesInSync

(* unregister_arb keeps them in sync: a key is evicted exactly when no      *)
(* recorded arb is left on it.                                              *)
LEMMA UnregisterKeepsSync ==
    ASSUME NEW S, IndexesInSync, UnregisterArbs(S)
    PROVE  IndexesInSync'
<1>1. DOMAIN records' = DOMAIN records \ S
  BY DEF UnregisterArbs, Drop, Restrict
<1>2. ASSUME NEW m \in DOMAIN registry
      PROVE  WatchersLeft(m, S) = {d \in DOMAIN records' : m \in Legs(d)}
  BY <1>1 DEF WatchersLeft, IndexesInSync, Registered
<1>3. DOMAIN registry' = DOMAIN registry \ Evicted(S)
      /\ \A m \in DOMAIN registry' : registry'[m] = WatchersLeft(m, S)
  BY DEF UnregisterArbs
<1>4. ASSUME NEW m \in DOMAIN registry, m \notin Evicted(S)
      PROVE  WatchersLeft(m, S) # {}
  <2>1. PICK d \in DOMAIN records : m \in Legs(d)
    BY DEF IndexesInSync
  <2>2. CASE \E e \in S : Registered(e) /\ m \in Legs(e)
    BY <1>4, <2>2 DEF Evicted
  <2>3. CASE ~ \E e \in S : Registered(e) /\ m \in Legs(e)
    BY <2>1, <2>3, <1>1, <1>2 DEF Registered
  <2>. QED
    BY <2>2, <2>3
<1>5. DOMAIN registry' = UNION {Legs(d) : d \in DOMAIN records'}
  <2>1. ASSUME NEW m \in DOMAIN registry'
        PROVE  \E d \in DOMAIN records' : m \in Legs(d)
    BY <1>2, <1>3, <1>4
  <2>2. ASSUME NEW d \in DOMAIN records', NEW m \in Legs(d)
        PROVE  m \in DOMAIN registry'
    <3>1. m \in DOMAIN registry
      BY <1>1 DEF IndexesInSync
    <3>2. d \in WatchersLeft(m, S)
      BY <3>1, <1>2
    <3>. QED
      BY <3>1, <3>2, <1>3 DEF Evicted
  <2>. QED
    BY <2>1, <2>2
<1>. QED
  BY <1>2, <1>3, <1>5 DEF IndexesInSync

-------------------------------------------------------------------------------
(* unregister_arb and the eviction of its quotes keep the types.            *)
LEMMA UnwatchKeepsType ==
    ASSUME NEW S, TypeOK, Unwatch(S)
    PROVE  TypeOK'
<1>1. BookTypeOK'
  BY UnregisterKeepsType DEF Unwatch, TypeOK
<1>2. DOMAIN tob' \subseteq Markets /\ tob' \in [DOMAIN tob' -> TopOfBook]
  BY DropKeepsType DEF Unwatch, TypeOK
<1>. QED
  BY <1>1, <1>2 DEF Unwatch, TypeOK, evalVars, execVars

(* on_price_update keeps the types of the quotes and of the arbs to visit.  *)
LEMMA PriceUpdateKeepsType ==
    ASSUME TypeOK, NEW m \in Markets, NEW ts \in Timestamps, NEW quote \in Quotes,
           OnPriceUpdate(m, ts, quote)
    PROVE  /\ DOMAIN tob' \subseteq Markets /\ tob' \in [DOMAIN tob' -> TopOfBook]
           /\ todo' \subseteq Arbs
<1>1. CASE tob' = tob /\ todo' = todo
  BY <1>1 DEF TypeOK
<1>2. CASE tob' = Put(tob, m, [ts |-> ts, quote |-> quote]) /\ todo' = Watchers(m)
  <2>1. [ts |-> ts, quote |-> quote] \in TopOfBook
    BY DEF TopOfBook
  <2>2. Watchers(m) \subseteq Arbs
    BY DEF Watchers, TypeOK, BookTypeOK
  <2>. QED
    BY <1>2, <2>1, <2>2, PutKeepsType DEF TypeOK
<1>. QED
  BY <1>1, <1>2 DEF OnPriceUpdate

(* Writing a cooldown keeps the type of the map.                            *)
LEMMA CooldownKeepsType ==
    ASSUME TypeOK, NEW c \in Arbs, NEW v \in {"fresh", "expired"},
           cooldown' = Put(cooldown, c, v)
    PROVE  /\ DOMAIN cooldown' \subseteq Arbs
           /\ cooldown' \in [DOMAIN cooldown' -> {"fresh", "expired"}]
BY DEF Put, TypeOK

(* The commands of the server keep the types.                               *)
LEMMA ServerCommandKeepsType == TypeOK /\ ServerCommand => TypeOK'
<1> SUFFICES ASSUME TypeOK, NEW c \in Arbs,
                    \/ DeleteArb(c)
                    \/ \E watch \in ServerWatches :
                          \/ RefuseArb(c, watch)
                          \/ WatchArb(c, watch)
                          \/ \E added \in SUBSET Legs(c) : DropArb(c, watch, added)
             PROVE  TypeOK'
  BY DEF ServerCommand
<1>1. CASE DeleteArb(c)
  BY <1>1, UnwatchKeepsType DEF DeleteArb
<1>2. ASSUME NEW watch \in ServerWatches, RefuseArb(c, watch)
      PROVE  TypeOK'
  BY <1>2, UnwatchKeepsType DEF RefuseArb
<1>3. ASSUME NEW watch \in ServerWatches, WatchArb(c, watch)
      PROVE  TypeOK'
  <2>1. watch \in Watch
    BY PickerAssumption DEF ServerWatches, Watch
  <2>2. BookTypeOK'
    BY <1>3, <2>1, RegisterKeepsType DEF WatchArb, TypeOK
  <2>3. subscribed' \subseteq Markets
    BY <1>3, LegsAreMarkets DEF WatchArb, TypeOK
  <2>4. seeds' \in Seq(Markets)
    BY <1>3, LegAssumption DEF WatchArb
  <2>. QED
    BY <1>3, <2>2, <2>3, <2>4 DEF WatchArb, TypeOK, execVars
<1>4. ASSUME NEW watch \in ServerWatches, NEW added \in SUBSET Legs(c),
             DropArb(c, watch, added)
      PROVE  TypeOK'
  <2>1. subscribed' \subseteq Markets
    BY <1>4, LegsAreMarkets DEF DropArb, TypeOK
  <2>. QED
    BY <1>4, <2>1 DEF DropArb, TypeOK, BookTypeOK, bookVars, evalVars, execVars
<1>. QED
  BY <1>1, <1>2, <1>3, <1>4

(* The events of the platforms keep the types.                              *)
LEMMA PlatformEventKeepsType == TypeOK /\ PlatformEvent => TypeOK'
<1> SUFFICES ASSUME TypeOK, NEW m \in Markets,
                    \/ PolyResolved(m)
                    \/ KalshiEnded(m)
                    \/ \E class \in Closes : CloseDateUpdated(m, class)
                    \/ \E ts \in Timestamps, quote \in Quotes :
                          PolyPrice(m, ts, quote) \/ KalshiTicker(m, ts, quote)
             PROVE  TypeOK'
  BY DEF PlatformEvent
<1>1. CASE PolyResolved(m) \/ KalshiEnded(m)
  BY <1>1, UnwatchKeepsType DEF PolyResolved, KalshiEnded
<1>2. ASSUME NEW class \in Closes, CloseDateUpdated(m, class)
      PROVE  TypeOK'
  <2>1. class \in CloseClasses
    BY PickerAssumption
  <2>2. DOMAIN records' = DOMAIN records
        /\ records' = [c \in DOMAIN records' |-> records'[c]]
    BY <1>2 DEF CloseDateUpdated
  <2>3. ASSUME NEW c \in DOMAIN records'
        PROVE  records'[c] \in Watch
    BY <1>2, <2>1 DEF CloseDateUpdated, TypeOK, BookTypeOK, Watch
  <2>. QED
    BY <1>2, <2>2, <2>3 DEF CloseDateUpdated, TypeOK, BookTypeOK, evalVars, execVars
<1>3. ASSUME NEW ts \in Timestamps, NEW quote \in Quotes,
             PolyPrice(m, ts, quote) \/ KalshiTicker(m, ts, quote)
      PROVE  TypeOK'
  <2>1. OnPriceUpdate(m, ts, quote)
    BY <1>3 DEF PolyPrice, KalshiTicker
  <2>2. /\ DOMAIN tob' \subseteq Markets /\ tob' \in [DOMAIN tob' -> TopOfBook]
        /\ todo' \subseteq Arbs
    BY <2>1, PriceUpdateKeepsType
  <2>. QED
    BY <1>3, <2>2 DEF PolyPrice, KalshiTicker, TypeOK, BookTypeOK, bookVars, execVars
<1>. QED
  BY <1>1, <1>2, <1>3

(* Seeding keeps the types.                                                 *)
LEMMA SeedKeepsType == TypeOK /\ Seed => TypeOK'
<1> SUFFICES ASSUME TypeOK, Seed PROVE TypeOK'
  OBVIOUS
<1>1. CASE SeedFails
  BY <1>1 DEF SeedFails, TypeOK, BookTypeOK, feedVars, execVars
<1>2. ASSUME NEW ts \in Timestamps, NEW quote \in Quotes, SeedTob(ts, quote)
      PROVE  TypeOK'
  <2>1. Head(seeds) \in Markets /\ Tail(seeds) \in Seq(Markets)
    BY <1>2 DEF SeedTob, TypeOK
  <2>2. /\ DOMAIN tob' \subseteq Markets /\ tob' \in [DOMAIN tob' -> TopOfBook]
        /\ todo' \subseteq Arbs
    BY <1>2, <2>1, PriceUpdateKeepsType DEF SeedTob
  <2>. QED
    BY <1>2, <2>1, <2>2 DEF SeedTob, TypeOK, BookTypeOK, bookVars, execVars
<1>. QED
  BY <1>1, <1>2 DEF Seed

(* evaluate_arb keeps the types.                                            *)
LEMMA EvaluateKeepsType == TypeOK /\ Evaluate => TypeOK'
<1> SUFFICES ASSUME TypeOK, Evaluate PROVE TypeOK'
  OBVIOUS
<1> USE DEF TypeOK, BookTypeOK, EvalPoints, GoTo, Leave, feedVars, execVars
<1>1. ASSUME NEW c \in todo, CheckInFlight(c)
      PROVE  TypeOK'
  BY <1>1 DEF CheckInFlight
<1>2. CASE CheckCooldown
  BY <1>2 DEF CheckCooldown
<1>3. CASE ExpireCooldown
  BY <1>3, DropKeepsType DEF ExpireCooldown
<1>4. CASE Request
  <2>1. evalArb \in Arbs
    BY <1>4 DEF Request
  <2>2. CASE execQ' = Append(execQ, evalArb) /\ GoTo("mark", evalArb)
    BY <1>4, <2>1, <2>2 DEF Request
  <2>3. CASE Leave /\ UNCHANGED execQ
    BY <1>4, <2>3 DEF Request
  <2>. QED
    BY <1>4, <2>2, <2>3 DEF Request
<1>5. CASE MarkInFlight
  BY <1>5 DEF MarkInFlight
<1>. QED
  BY <1>1, <1>2, <1>3, <1>4, <1>5 DEF Evaluate

(* The executor keeps the types.                                            *)
LEMMA ExecuteKeepsType == TypeOK /\ Execute => TypeOK'
<1> SUFFICES ASSUME TypeOK, Execute PROVE TypeOK'
  OBVIOUS
<1> USE DEF TypeOK, BookTypeOK, ExecPoints, ExecGoTo, feedVars, evalVars
<1>1. CASE Take
  BY <1>1 DEF Take
<1>2. CASE Price \/ PlaceOrders \/ Hedge \/ Report \/ RefreshBalances
  BY <1>2 DEF Price, PlaceOrders, Hedge, Report, RefreshBalances
<1>3. CASE CoolDown
  <2>1. execArb \in Arbs
    BY <1>3 DEF CoolDown
  <2>2. DOMAIN cooldown' \subseteq Arbs
        /\ cooldown' \in [DOMAIN cooldown' -> {"fresh", "expired"}]
    BY <1>3, <2>1, CooldownKeepsType DEF CoolDown
  <2>. QED
    BY <1>3, <2>2 DEF CoolDown
<1>4. CASE Release
  BY <1>4 DEF Release
<1>. QED
  BY <1>1, <1>2, <1>3, <1>4 DEF Execute

(* The passing of time keeps the types.                                     *)
LEMMA ClockKeepsType == TypeOK /\ Clock => TypeOK'
<1> SUFFICES ASSUME TypeOK, Clock PROVE TypeOK'
  OBVIOUS
<1> USE DEF TypeOK, BookTypeOK, evalVars, execVars
<1>1. ASSUME NEW c \in Arbs, CooldownElapses(c)
      PROVE  TypeOK'
  <2>1. DOMAIN cooldown' \subseteq Arbs
        /\ cooldown' \in [DOMAIN cooldown' -> {"fresh", "expired"}]
    BY <1>1, CooldownKeepsType DEF CooldownElapses
  <2>. QED
    BY <1>1, <2>1 DEF CooldownElapses, feedVars
<1>2. ASSUME NEW c \in Arbs, NEW leg \in {"anchor", "match"}, CloseComesNearer(c, leg)
      PROVE  TypeOK'
  <2>1. c \in DOMAIN records /\ records[c] \in Watch
    BY <1>2 DEF CloseComesNearer, Registered
  <2>2. Later[records[c][leg]] \in CloseClasses
    BY <1>2, PickerAssumption DEF CloseComesNearer
  <2>3. [records[c] EXCEPT ![leg] = Later[@]] \in Watch
    BY <2>1, <2>2 DEF Watch
  <2>4. records' \in [DOMAIN records -> Watch]
    BY <1>2, <2>1, <2>3 DEF CloseComesNearer
  <2>. QED
    BY <1>2, <2>4 DEF CloseComesNearer
<1>. QED
  BY <1>1, <1>2 DEF Clock

(* The variables keep their types: hash maps map keys to values of their    *)
(* kind, and an arb is in hand exactly when its task is at work on one.     *)
THEOREM TypeCorrect == Spec => []TypeOK
<1>1. Init => TypeOK
  BY InitBook DEF Init, TypeOK, EvalPoints, ExecPoints
<1>2. TypeOK /\ [Next]_vars => TypeOK'
  <2> SUFFICES ASSUME TypeOK, [Next]_vars PROVE TypeOK'
    OBVIOUS
  <2>1. CASE Next
    BY <2>1, ServerCommandKeepsType, PlatformEventKeepsType, SeedKeepsType,
       EvaluateKeepsType, ExecuteKeepsType, ClockKeepsType DEF Next
  <2>2. CASE UNCHANGED vars
    BY <2>2 DEF vars, feedVars, evalVars, execVars, TypeOK, BookTypeOK
  <2>. QED
    BY <2>1, <2>2
<1>. QED
  BY <1>1, <1>2, PTL DEF Spec

-------------------------------------------------------------------------------
(* The book and the quotes.  KalshiTobIsWatched is not inductive alone:     *)
(* seed_tob_from_http stores a quote without a look at the registry, and it *)
(* is because PickerComms takes no other message until find_arb is done     *)
(* that the markets it seeds are still watched.                             *)
SeedsAreWatched == \A i \in 1..Len(seeds) : seeds[i] \in DOMAIN registry

BookInv == IndexesInSync /\ SeedsAreWatched /\ KalshiTobIsWatched

(* Steps that leave the keys of the book, the quotes and the seeds alone.   *)
LEMMA BookInvUntouched ==
    ASSUME BookInv, UNCHANGED <<registry, tob, seeds>>, DOMAIN records' = DOMAIN records
    PROVE  BookInv'
BY DEF BookInv, IndexesInSync, SeedsAreWatched, KalshiTobIsWatched

LEMMA UnwatchKeepsBookInv ==
    ASSUME NEW S, BookInv, CommsIdle, Unwatch(S)
    PROVE  BookInv'
<1>1. IndexesInSync'
  BY UnregisterKeepsSync DEF BookInv, Unwatch
<1>2. SeedsAreWatched'
  BY DEF CommsIdle, Unwatch, evalVars, SeedsAreWatched
<1>3. KalshiTobIsWatched'
  <2>1. DOMAIN tob' = DOMAIN tob \ Evicted(S)
    BY DEF Unwatch, Drop, Restrict
  <2>2. DOMAIN registry' = DOMAIN registry \ Evicted(S)
    BY DEF Unwatch, UnregisterArbs
  <2>. QED
    BY <2>1, <2>2 DEF BookInv, KalshiTobIsWatched
<1>. QED
  BY <1>1, <1>2, <1>3 DEF BookInv

LEMMA PriceUpdateKeepsKalshiTob ==
    ASSUME KalshiTobIsWatched, NEW m, m \in KalshiMarkets => m \in DOMAIN registry,
           NEW ts, NEW quote, OnPriceUpdate(m, ts, quote), UNCHANGED registry
    PROVE  KalshiTobIsWatched'
<1>1. DOMAIN tob' \subseteq DOMAIN tob \cup {m}
  BY DEF OnPriceUpdate, Put
<1>. QED
  BY <1>1 DEF KalshiTobIsWatched

LEMMA ServerCommandKeepsBookInv == TypeOK /\ BookInv /\ ServerCommand => BookInv'
<1> SUFFICES ASSUME TypeOK, BookInv, NEW c \in Arbs,
                    \/ DeleteArb(c)
                    \/ \E watch \in ServerWatches :
                          \/ RefuseArb(c, watch)
                          \/ WatchArb(c, watch)
                          \/ \E added \in SUBSET Legs(c) : DropArb(c, watch, added)
             PROVE  BookInv'
  BY DEF ServerCommand
<1>1. CASE DeleteArb(c)
  BY <1>1, UnwatchKeepsBookInv DEF DeleteArb
<1>2. ASSUME NEW watch \in ServerWatches, RefuseArb(c, watch)
      PROVE  BookInv'
  BY <1>2, UnwatchKeepsBookInv DEF RefuseArb
<1>3. ASSUME NEW watch \in ServerWatches, WatchArb(c, watch)
      PROVE  BookInv'
  <2>1. watch \in Watch
    BY PickerAssumption DEF ServerWatches, Watch
  <2>2. IndexesInSync'
    BY <1>3, <2>1, RegisterKeepsSync DEF WatchArb, BookInv
  <2>3. DOMAIN registry' = DOMAIN registry \cup Legs(c)
    BY <1>3 DEF WatchArb, RegisterArb
  <2>4. SeedsAreWatched'
    BY <1>3, <2>3 DEF WatchArb, SeedsAreWatched, Legs
  <2>5. KalshiTobIsWatched'
    BY <1>3, <2>3 DEF WatchArb, BookInv, KalshiTobIsWatched
  <2>. QED
    BY <2>2, <2>4, <2>5 DEF BookInv
<1>4. ASSUME NEW watch \in ServerWatches, NEW added \in SUBSET Legs(c),
             DropArb(c, watch, added)
      PROVE  BookInv'
  BY <1>4, BookInvUntouched DEF DropArb, bookVars, evalVars
<1>. QED
  BY <1>1, <1>2, <1>3, <1>4

LEMMA PlatformEventKeepsBookInv == TypeOK /\ BookInv /\ PlatformEvent => BookInv'
<1> SUFFICES ASSUME TypeOK, BookInv, NEW m \in Markets,
                    \/ PolyResolved(m)
                    \/ KalshiEnded(m)
                    \/ \E class \in Closes : CloseDateUpdated(m, class)
                    \/ \E ts \in Timestamps, quote \in Quotes :
                          PolyPrice(m, ts, quote) \/ KalshiTicker(m, ts, quote)
             PROVE  BookInv'
  BY DEF PlatformEvent
<1>1. CASE PolyResolved(m) \/ KalshiEnded(m)
  BY <1>1, UnwatchKeepsBookInv DEF PolyResolved, KalshiEnded
<1>2. ASSUME NEW class \in Closes, CloseDateUpdated(m, class)
      PROVE  BookInv'
  BY <1>2, BookInvUntouched DEF CloseDateUpdated, evalVars
<1>3. ASSUME NEW ts \in Timestamps, NEW quote \in Quotes,
             PolyPrice(m, ts, quote) \/ KalshiTicker(m, ts, quote)
      PROVE  BookInv'
  <2>1. UNCHANGED <<registry, records, seeds>> /\ OnPriceUpdate(m, ts, quote)
    BY <1>3 DEF PolyPrice, KalshiTicker, bookVars
  <2>2. m \in KalshiMarkets => m \in DOMAIN registry
    BY <1>3 DEF PolyPrice, KalshiTicker, PolyMarkets
  <2>3. KalshiTobIsWatched'
    BY <2>1, <2>2, PriceUpdateKeepsKalshiTob DEF BookInv
  <2>. QED
    BY <2>1, <2>3 DEF BookInv, IndexesInSync, SeedsAreWatched
<1>. QED
  BY <1>1, <1>2, <1>3

LEMMA SeedKeepsBookInv == TypeOK /\ BookInv /\ Seed => BookInv'
<1> SUFFICES ASSUME TypeOK, BookInv, Seed PROVE BookInv'
  OBVIOUS
<1>1. seeds # <<>> /\ seeds' = Tail(seeds) /\ UNCHANGED <<registry, records>>
  BY DEF Seed, SeedFails, SeedTob, feedVars, bookVars
<1>2. Head(seeds) \in DOMAIN registry /\ SeedsAreWatched'
  BY <1>1 DEF TypeOK, BookInv, SeedsAreWatched
<1>3. CASE SeedFails
  BY <1>3, <1>1, <1>2 DEF SeedFails, feedVars, BookInv, IndexesInSync, KalshiTobIsWatched
<1>4. ASSUME NEW ts \in Timestamps, NEW quote \in Quotes, SeedTob(ts, quote)
      PROVE  BookInv'
  <2>1. KalshiTobIsWatched'
    BY <1>1, <1>2, <1>4, PriceUpdateKeepsKalshiTob DEF SeedTob, BookInv
  <2>. QED
    BY <1>1, <1>2, <2>1 DEF BookInv, IndexesInSync
<1>. QED
  BY <1>3, <1>4 DEF Seed

LEMMA OthersKeepBookInv == BookInv /\ (Evaluate \/ Execute \/ Clock) => BookInv'
<1> SUFFICES ASSUME BookInv, Evaluate \/ Execute \/ Clock PROVE BookInv'
  OBVIOUS
<1>1. UNCHANGED <<registry, tob, seeds>>
  BY DEF Evaluate, CheckInFlight, CheckCooldown, ExpireCooldown, Request, MarkInFlight,
         Execute, Take, Price, PlaceOrders, CoolDown, Hedge, Release, Report,
         RefreshBalances, Clock, CooldownElapses, CloseComesNearer, feedVars, evalVars
<1>2. DOMAIN records' = DOMAIN records
  BY DEF Evaluate, CheckInFlight, CheckCooldown, ExpireCooldown, Request, MarkInFlight,
         Execute, Take, Price, PlaceOrders, CoolDown, Hedge, Release, Report,
         RefreshBalances, Clock, CooldownElapses, CloseComesNearer, feedVars, evalVars
<1>. QED
  BY <1>1, <1>2, BookInvUntouched

LEMMA BookInvariant == Spec => []BookInv
<1>1. Init => BookInv
  BY InitBook DEF Init, BookInv, SeedsAreWatched, KalshiTobIsWatched
<1>2. TypeOK /\ BookInv /\ [Next]_vars => BookInv'
  <2> SUFFICES ASSUME TypeOK, BookInv, [Next]_vars PROVE BookInv'
    OBVIOUS
  <2>1. CASE Next
    BY <2>1, ServerCommandKeepsBookInv, PlatformEventKeepsBookInv, SeedKeepsBookInv,
       OthersKeepBookInv DEF Next
  <2>2. CASE UNCHANGED vars
    BY <2>2, BookInvUntouched DEF vars, feedVars, evalVars
  <2>. QED
    BY <2>1, <2>2
<1>. QED
  BY <1>1, <1>2, TypeCorrect, PTL DEF Spec

(* The two indexes of the book are in sync at all times (picker.rs:29).     *)
THEOREM BookInSync == Spec => []IndexesInSync
BY BookInvariant, PTL DEF BookInv

(* No Kalshi quote outlives the watchers of its market.                     *)
THEOREM KalshiQuotesWatched == Spec => []KalshiTobIsWatched
BY BookInvariant, PTL DEF BookInv

-------------------------------------------------------------------------------
(* The executions.  Each of the three invariants needs the other two: what  *)
(* evaluate_arb has checked stays valid because only PickerComms requests   *)
(* executions and only the execution of an arb writes its cooldown; so a    *)
(* request is sent only for an arb with none; and the release of the one    *)
(* request of an arb leaves none that is not in in_flight.                  *)
ExecInv == AtMostOnePending /\ PendingIsMarked /\ EvaluationStaysValid

LEMMA ExecInvUntouched ==
    ASSUME ExecInv, UNCHANGED <<evalArb, evalAt, execQ, inFlight, cooldown, execVars>>
    PROVE  ExecInv'
BY DEF ExecInv, AtMostOnePending, PendingIsMarked, EvaluationStaysValid, Pending, Queued,
       Working, Fresh, execVars

LEMMA OthersKeepExecInv ==
    ExecInv /\ (ServerCommand \/ PlatformEvent \/ Seed) => ExecInv'
<1> SUFFICES ASSUME ExecInv, ServerCommand \/ PlatformEvent \/ Seed PROVE ExecInv'
  OBVIOUS
<1>1. CASE ServerCommand
  BY <1>1, ExecInvUntouched DEF ServerCommand, DeleteArb, RefuseArb, WatchArb, DropArb,
     Unwatch, evalVars
<1>2. CASE PlatformEvent
  BY <1>2, ExecInvUntouched DEF PlatformEvent, PolyResolved, KalshiEnded,
     CloseDateUpdated, PolyPrice, KalshiTicker, Unwatch, evalVars
<1>3. CASE Seed
  BY <1>3, ExecInvUntouched DEF Seed, SeedFails, SeedTob
<1>. QED
  BY <1>1, <1>2, <1>3

(* What is pending changes only with the channel and the request in hand.   *)
LEMMA PendingUntouched ==
    ASSUME NEW c, UNCHANGED <<execQ, execVars>>
    PROVE  /\ Queued(c)' <=> Queued(c)
           /\ Working(c)' <=> Working(c)
           /\ Pending(c)' <=> Pending(c)
BY DEF Pending, Queued, Working, execVars

(* evaluate_arb, step by step.                                              *)
LEMMA EvaluateKeepsExecInv == TypeOK /\ ExecInv /\ Evaluate => ExecInv'
<1> SUFFICES ASSUME TypeOK, ExecInv, Evaluate PROVE ExecInv'
  OBVIOUS
<1> USE DEF GoTo, Leave
<1>1. ASSUME NEW c \in todo, CheckInFlight(c)
      PROVE  ExecInv'
  <2>1. UNCHANGED <<execQ, inFlight, cooldown, execVars>> /\ evalAt = "none"
    BY <1>1 DEF CheckInFlight
  <2>2. AtMostOnePending' /\ PendingIsMarked'
    BY <2>1, PendingUntouched DEF ExecInv, AtMostOnePending, PendingIsMarked
  <2>3. c \in Arbs /\ (c \notin inFlight => ~Pending(c))
    BY <2>1 DEF TypeOK, ExecInv, PendingIsMarked
  <2>4. EvaluationStaysValid'
    BY <1>1, <2>1, <2>3, PendingUntouched DEF CheckInFlight, EvaluationStaysValid
  <2>. QED
    BY <2>2, <2>4 DEF ExecInv
<1>2. CASE CheckCooldown
  <2>1. UNCHANGED <<execQ, inFlight, cooldown, execVars>> /\ evalAt = "cooldown"
    BY <1>2 DEF CheckCooldown
  <2>2. AtMostOnePending' /\ PendingIsMarked'
    BY <2>1, PendingUntouched DEF ExecInv, AtMostOnePending, PendingIsMarked
  <2>3. EvaluationStaysValid'
    BY <1>2, <2>1, PendingUntouched DEF CheckCooldown, ExecInv, EvaluationStaysValid, Fresh
  <2>. QED
    BY <2>2, <2>3 DEF ExecInv
<1>3. CASE ExpireCooldown
  <2>1. UNCHANGED <<execQ, inFlight, execVars>> /\ evalAt = "expire"
        /\ evalAt' = "guards" /\ evalArb' = evalArb
    BY <1>3 DEF ExpireCooldown
  <2>2. AtMostOnePending' /\ PendingIsMarked'
    BY <2>1, PendingUntouched DEF ExecInv, AtMostOnePending, PendingIsMarked
  <2>3. evalArb \notin DOMAIN cooldown'
    BY <1>3 DEF ExpireCooldown, Drop, Restrict
  <2>4. EvaluationStaysValid'
    BY <2>1, <2>3, PendingUntouched DEF ExecInv, EvaluationStaysValid
  <2>. QED
    BY <2>2, <2>4 DEF ExecInv
<1>4. CASE Request
  <2>1. UNCHANGED <<inFlight, cooldown, execVars>> /\ evalAt = "guards"
    BY <1>4 DEF Request
  <2>2. CASE execQ' = Append(execQ, evalArb) /\ evalAt' = "mark" /\ evalArb' = evalArb
    <3>1. evalArb \in Arbs /\ execQ \in Seq(Arbs) /\ ~Pending(evalArb)
      BY <2>1 DEF TypeOK, ExecInv, EvaluationStaysValid
    <3>2. \A c \in Arbs : Queued(c)' <=> Queued(c) \/ c = evalArb
      BY <2>2, <3>1 DEF Queued
    <3>3. \A c \in Arbs : Working(c)' <=> Working(c)
      BY <2>1 DEF Working, execVars
    <3>4. \A i \in 1..Len(execQ) : execQ[i] # evalArb
      BY <3>1 DEF Pending, Queued
    <3>5. AtMostOnePending'
      <4>1. \A i, j \in 1..Len(execQ') : execQ'[i] = execQ'[j] => i = j
        BY <2>2, <3>1, <3>4 DEF ExecInv, AtMostOnePending
      <4>2. \A c \in Arbs : ~(Queued(c)' /\ Working(c)')
        BY <3>1, <3>2, <3>3 DEF ExecInv, AtMostOnePending, Pending
      <4>. QED
        BY <4>1, <4>2 DEF AtMostOnePending
    <3>6. PendingIsMarked'
      BY <2>1, <2>2, <3>2, <3>3 DEF ExecInv, PendingIsMarked, Pending
    <3>7. EvaluationStaysValid'
      BY <2>2 DEF EvaluationStaysValid
    <3>. QED
      BY <3>5, <3>6, <3>7 DEF ExecInv
  <2>3. CASE evalAt' = "none" /\ UNCHANGED execQ
    <3>1. AtMostOnePending' /\ PendingIsMarked'
      BY <2>1, <2>3, PendingUntouched DEF ExecInv, AtMostOnePending, PendingIsMarked
    <3>2. EvaluationStaysValid'
      BY <2>3 DEF EvaluationStaysValid
    <3>. QED
      BY <3>1, <3>2 DEF ExecInv
  <2>. QED
    BY <1>4, <2>2, <2>3 DEF Request
<1>5. CASE MarkInFlight
  <2>1. UNCHANGED <<execQ, cooldown, execVars>> /\ evalAt' = "none"
        /\ inFlight' = inFlight \cup {evalArb}
    BY <1>5 DEF MarkInFlight
  <2>2. AtMostOnePending' /\ PendingIsMarked'
    BY <2>1, PendingUntouched DEF ExecInv, AtMostOnePending, PendingIsMarked
  <2>3. EvaluationStaysValid'
    BY <2>1 DEF EvaluationStaysValid
  <2>. QED
    BY <2>2, <2>3 DEF ExecInv
<1>. QED
  BY <1>1, <1>2, <1>3, <1>4, <1>5 DEF Evaluate

(* The executor, step by step.                                              *)
LEMMA ExecuteKeepsExecInv == TypeOK /\ ExecInv /\ Execute => ExecInv'
<1> SUFFICES ASSUME TypeOK, ExecInv, Execute PROVE ExecInv'
  OBVIOUS
<1>1. UNCHANGED <<evalArb, evalAt>>
  BY DEF Execute, Take, Price, PlaceOrders, CoolDown, Hedge, Release, Report,
         RefreshBalances, evalVars
<1>2. CASE Take
  <2>1. /\ execAt = "recv" /\ execQ # <<>> /\ execQ \in Seq(Arbs)
        /\ execArb' = Head(execQ) /\ execQ' = Tail(execQ) /\ execAt' = "metrics"
        /\ UNCHANGED <<inFlight, cooldown>>
    BY <1>2 DEF Take, TypeOK
  <2>2. \A c \in Arbs : Working(c)' <=> c = Head(execQ)
    BY <2>1 DEF Working, Unreleased
  <2>3. \A c \in Arbs : Queued(c)' \/ c = Head(execQ) <=> Queued(c)
    <3>1. ASSUME NEW c \in Arbs, Queued(c)' PROVE Queued(c)
      <4>1. PICK i \in 1..Len(Tail(execQ)) : Tail(execQ)[i] = c
        BY <2>1, <3>1 DEF Queued
      <4>2. i + 1 \in 1..Len(execQ) /\ execQ[i + 1] = c
        BY <2>1, <4>1
      <4>. QED
        BY <4>2 DEF Queued
    <3>2. ASSUME NEW c \in Arbs, Queued(c) PROVE Queued(c)' \/ c = Head(execQ)
      <4>1. PICK i \in 1..Len(execQ) : execQ[i] = c
        BY <3>2 DEF Queued
      <4>2. CASE i = 1
        BY <2>1, <4>1, <4>2
      <4>3. CASE i # 1
        <5>1. i - 1 \in 1..Len(Tail(execQ)) /\ Tail(execQ)[i - 1] = c
          BY <2>1, <4>1, <4>3
        <5>. QED
          BY <2>1, <5>1 DEF Queued
      <4>. QED
        BY <4>2, <4>3
    <3>3. Queued(Head(execQ))
      BY <2>1 DEF Queued
    <3>. QED
      BY <3>1, <3>2, <3>3
  <2>4. AtMostOnePending'
    <3>1. \A i, j \in 1..Len(execQ) : execQ[i] = execQ[j] => i = j
      BY DEF ExecInv, AtMostOnePending
    <3>2. \A i, j \in 1..Len(execQ') : execQ'[i] = execQ'[j] => i = j
      BY <2>1, <3>1
    <3>3. \A i \in 1..Len(execQ') : execQ'[i] # Head(execQ)
      BY <2>1, <3>1
    <3>. QED
      BY <2>2, <3>2, <3>3 DEF AtMostOnePending, Queued
  <2>5. \A c \in Arbs : Pending(c)' => Pending(c)
    BY <2>2, <2>3 DEF Pending
  <2>6. PendingIsMarked'
    BY <1>1, <2>1, <2>5 DEF ExecInv, PendingIsMarked
  <2>7. EvaluationStaysValid'
    <3>1. evalAt # "none" => evalArb \in Arbs
      BY DEF TypeOK
    <3>. QED
      BY <1>1, <2>1, <2>5, <3>1 DEF ExecInv, EvaluationStaysValid, Fresh
  <2>. QED
    BY <2>4, <2>6, <2>7 DEF ExecInv
<1>3. CASE Price \/ PlaceOrders \/ Hedge \/ Report \/ RefreshBalances
  <2>1. UNCHANGED <<execQ, inFlight, cooldown>>
    BY <1>3 DEF Price, PlaceOrders, Hedge, Report, RefreshBalances
  <2>2. \A c \in Arbs : Working(c)' <=> Working(c)
    BY <1>3 DEF Price, PlaceOrders, Hedge, Report, RefreshBalances, ExecGoTo, Working,
       Unreleased
  <2>3. \A c \in Arbs : (Queued(c)' <=> Queued(c)) /\ (Pending(c)' <=> Pending(c))
    BY <2>1, <2>2 DEF Queued, Pending
  <2>4. evalAt # "none" => evalArb \in Arbs
    BY DEF TypeOK
  <2>5. AtMostOnePending' /\ PendingIsMarked'
    BY <1>1, <2>1, <2>2, <2>3 DEF ExecInv, AtMostOnePending, PendingIsMarked
  <2>6. EvaluationStaysValid'
    BY <1>1, <2>1, <2>3, <2>4 DEF ExecInv, EvaluationStaysValid, Fresh
  <2>. QED
    BY <2>5, <2>6 DEF ExecInv
<1>4. CASE CoolDown
  <2>1. /\ execAt = "cool" /\ execAt' = "release" /\ execArb' = execArb
        /\ cooldown' = Put(cooldown, execArb, "fresh")
        /\ UNCHANGED <<execQ, inFlight>>
    BY <1>4 DEF CoolDown, ExecGoTo
  <2>2. \A c \in Arbs : (Working(c)' <=> Working(c)) /\ (Queued(c)' <=> Queued(c))
                         /\ (Pending(c)' <=> Pending(c))
    BY <2>1 DEF Working, Unreleased, Queued, Pending
  <2>3. AtMostOnePending' /\ PendingIsMarked'
    BY <1>1, <2>1, <2>2 DEF ExecInv, AtMostOnePending, PendingIsMarked
  <2>4. evalAt # "none" => evalArb \in Arbs
    BY DEF TypeOK
  <2>5. evalAt \in {"cooldown", "expire", "guards"} => evalArb # execArb
    BY <2>1 DEF ExecInv, EvaluationStaysValid, Pending, Working, Unreleased
  <2>6. EvaluationStaysValid'
    BY <1>1, <2>1, <2>2, <2>4, <2>5 DEF ExecInv, EvaluationStaysValid, Fresh, Put
  <2>. QED
    BY <2>3, <2>6 DEF ExecInv
<1>5. CASE Release
  <2>1. /\ execAt \in {"release", "filled"} /\ execArb' = execArb
        /\ execAt' \in {"report", "refresh"}
        /\ inFlight' = inFlight \ {execArb}
        /\ UNCHANGED <<execQ, cooldown>>
    BY <1>5 DEF Release, ExecGoTo
  <2>2. \A c \in Arbs : ~Working(c)' /\ (Working(c) <=> c = execArb)
    BY <2>1 DEF Working, Unreleased
  <2>3. \A c \in Arbs : (Queued(c)' <=> Queued(c)) /\ (Pending(c)' => Pending(c) /\ c # execArb)
    BY <2>1, <2>2 DEF Queued, Pending, ExecInv, AtMostOnePending
  <2>4. AtMostOnePending'
    BY <2>1, <2>2 DEF ExecInv, AtMostOnePending
  <2>5. PendingIsMarked'
    BY <1>1, <2>1, <2>3 DEF ExecInv, PendingIsMarked
  <2>6. evalAt # "none" => evalArb \in Arbs
    BY DEF TypeOK
  <2>7. EvaluationStaysValid'
    BY <1>1, <2>1, <2>3, <2>6 DEF ExecInv, EvaluationStaysValid, Fresh
  <2>. QED
    BY <2>4, <2>5, <2>7 DEF ExecInv
<1>. QED
  BY <1>2, <1>3, <1>4, <1>5 DEF Execute

LEMMA ClockKeepsExecInv == TypeOK /\ ExecInv /\ Clock => ExecInv'
<1> SUFFICES ASSUME TypeOK, ExecInv, Clock PROVE ExecInv'
  OBVIOUS
<1>1. ASSUME NEW c \in Arbs, CooldownElapses(c)
      PROVE  ExecInv'
  <2>1. UNCHANGED <<evalArb, evalAt, execQ, inFlight, execVars>>
    BY <1>1 DEF CooldownElapses, evalVars
  <2>2. AtMostOnePending' /\ PendingIsMarked'
    BY <2>1, PendingUntouched DEF ExecInv, AtMostOnePending, PendingIsMarked
  <2>3. DOMAIN cooldown' = DOMAIN cooldown /\ \A d : Fresh(d)' => Fresh(d)
    BY <1>1 DEF CooldownElapses, Put, Fresh
  <2>4. EvaluationStaysValid'
    BY <2>1, <2>3, PendingUntouched DEF ExecInv, EvaluationStaysValid
  <2>. QED
    BY <2>2, <2>4 DEF ExecInv
<1>2. ASSUME NEW c \in Arbs, NEW leg \in {"anchor", "match"}, CloseComesNearer(c, leg)
      PROVE  ExecInv'
  BY <1>2, ExecInvUntouched DEF CloseComesNearer, evalVars
<1>. QED
  BY <1>1, <1>2 DEF Clock

LEMMA ExecInvariant == Spec => []ExecInv
<1>1. Init => ExecInv
  BY DEF Init, ExecInv, AtMostOnePending, PendingIsMarked, EvaluationStaysValid, Pending,
         Queued, Working, Unreleased
<1>2. TypeOK /\ ExecInv /\ [Next]_vars => ExecInv'
  <2> SUFFICES ASSUME TypeOK, ExecInv, [Next]_vars PROVE ExecInv'
    OBVIOUS
  <2>1. CASE Next
    BY <2>1, OthersKeepExecInv, EvaluateKeepsExecInv, ExecuteKeepsExecInv,
       ClockKeepsExecInv DEF Next
  <2>2. CASE UNCHANGED vars
    BY <2>2, ExecInvUntouched DEF vars, evalVars
  <2>. QED
    BY <2>1, <2>2
<1>. QED
  BY <1>1, <1>2, TypeCorrect, PTL DEF Spec

(* No arb ever has two executions requested or under way.                   *)
THEOREM OneExecutionPerArb == Spec => []AtMostOnePending
BY ExecInvariant, PTL DEF ExecInv

(* An execution under way keeps its arb out of evaluation.                  *)
THEOREM ExecutionIsMarked == Spec => []PendingIsMarked
BY ExecInvariant, PTL DEF ExecInv

(* The checks of evaluate_arb are still valid when it acts on them.         *)
THEOREM ChecksStayValid == Spec => []EvaluationStaysValid
BY ExecInvariant, PTL DEF ExecInv

-------------------------------------------------------------------------------
(* What a step may do to the pending and to the cooling arbs: nothing, or   *)
(* one of the three moves of ArbGate.                                       *)
GateStep ==
    \/ \A c \in Arbs : (Pending(c)' <=> Pending(c)) /\ (~Pending(c) => (Fresh(c)' <=> Fresh(c)))
    \/ \E c \in Arbs :
          /\ \A d \in Arbs \ {c} : (Pending(d)' <=> Pending(d)) /\ (Fresh(d)' <=> Fresh(d))
          /\ \/ ~Pending(c) /\ ~Fresh(c) /\ Pending(c)'
             \/ Pending(c) /\ ~Pending(c)'
             \/ ~Pending(c) /\ Fresh(c) /\ ~Pending(c)' /\ ~Fresh(c)'

LEMMA GateUntouched ==
    ASSUME UNCHANGED <<execQ, cooldown, execVars>>
    PROVE  GateStep
BY PendingUntouched DEF GateStep, Fresh

LEMMA EvaluateIsGateStep == TypeOK /\ ExecInv /\ Evaluate => GateStep
<1> SUFFICES ASSUME TypeOK, ExecInv, Evaluate PROVE GateStep
  OBVIOUS
<1>1. CASE (\E c \in todo : CheckInFlight(c)) \/ CheckCooldown \/ MarkInFlight
  BY <1>1, GateUntouched DEF CheckInFlight, CheckCooldown, MarkInFlight
<1>2. CASE ExpireCooldown
  <2>1. UNCHANGED <<execQ, execVars>> /\ ~Fresh(evalArb)
    BY <1>2 DEF ExpireCooldown, ExecInv, EvaluationStaysValid
  <2>2. \A c : Fresh(c)' <=> Fresh(c)
    BY <1>2, <2>1 DEF ExpireCooldown, Fresh, Drop, Restrict
  <2>. QED
    BY <2>1, <2>2, PendingUntouched DEF GateStep
<1>3. CASE Request
  <2>1. UNCHANGED <<cooldown, execVars>> /\ evalAt = "guards" /\ evalArb \in Arbs
        /\ execQ \in Seq(Arbs)
    BY <1>3 DEF Request, TypeOK
  <2>2. CASE execQ' = Append(execQ, evalArb)
    <3>1. ~Pending(evalArb) /\ ~Fresh(evalArb)
      BY <2>1 DEF ExecInv, EvaluationStaysValid, Fresh
    <3>2. \A c \in Arbs : Queued(c)' <=> Queued(c) \/ c = evalArb
      BY <2>1, <2>2 DEF Queued
    <3>3. \A c \in Arbs : Fresh(c)' <=> Fresh(c)
      BY <2>1 DEF Fresh
    <3>4. \A c \in Arbs : Working(c)' <=> Working(c)
      BY <2>1 DEF Working, execVars
    <3>. QED
      BY <2>1, <3>1, <3>2, <3>3, <3>4 DEF GateStep, Pending
  <2>3. CASE UNCHANGED execQ
    BY <2>1, <2>3, GateUntouched
  <2>. QED
    BY <1>3, <2>2, <2>3 DEF Request
<1>. QED
  BY <1>1, <1>2, <1>3 DEF Evaluate

LEMMA ExecuteIsGateStep == TypeOK /\ ExecInv /\ Execute => GateStep
<1> SUFFICES ASSUME TypeOK, ExecInv, Execute PROVE GateStep
  OBVIOUS
<1>1. CASE Take
  <2>1. /\ execAt = "recv" /\ execQ # <<>> /\ execQ \in Seq(Arbs)
        /\ execArb' = Head(execQ) /\ execQ' = Tail(execQ) /\ execAt' = "metrics"
        /\ UNCHANGED cooldown
    BY <1>1 DEF Take, TypeOK
  <2>2. \A c \in Arbs : (Working(c)' <=> c = Head(execQ)) /\ ~Working(c)
    BY <2>1 DEF Working, Unreleased
  <2>3. ASSUME NEW c \in Arbs, Queued(c)' PROVE Queued(c)
    <3>1. PICK i \in 1..Len(Tail(execQ)) : Tail(execQ)[i] = c
      BY <2>1, <2>3 DEF Queued
    <3>2. i + 1 \in 1..Len(execQ) /\ execQ[i + 1] = c
      BY <2>1, <3>1
    <3>. QED
      BY <3>2 DEF Queued
  <2>4. ASSUME NEW c \in Arbs, Queued(c) PROVE Queued(c)' \/ c = Head(execQ)
    <3>1. PICK i \in 1..Len(execQ) : execQ[i] = c
      BY <2>4 DEF Queued
    <3>2. CASE i = 1
      BY <2>1, <3>1, <3>2
    <3>3. CASE i # 1
      <4>1. i - 1 \in 1..Len(Tail(execQ)) /\ Tail(execQ)[i - 1] = c
        BY <2>1, <3>1, <3>3
      <4>. QED
        BY <2>1, <4>1 DEF Queued
    <3>. QED
      BY <3>2, <3>3
  <2>5. Queued(Head(execQ))
    BY <2>1 DEF Queued
  <2>6. \A c \in Arbs : Pending(c)' <=> Pending(c)
    BY <2>2, <2>3, <2>4, <2>5 DEF Pending
  <2>. QED
    BY <2>1, <2>6 DEF GateStep, Fresh
<1>2. CASE Price \/ PlaceOrders \/ Hedge \/ Report \/ RefreshBalances
  <2>1. UNCHANGED <<execQ, cooldown>>
    BY <1>2 DEF Price, PlaceOrders, Hedge, Report, RefreshBalances
  <2>2. \A c \in Arbs : Working(c)' <=> Working(c)
    BY <1>2 DEF Price, PlaceOrders, Hedge, Report, RefreshBalances, ExecGoTo, Working,
       Unreleased
  <2>. QED
    BY <2>1, <2>2 DEF GateStep, Pending, Queued, Fresh
<1>3. CASE CoolDown
  <2>1. /\ execAt = "cool" /\ execAt' = "release" /\ execArb' = execArb
        /\ cooldown' = Put(cooldown, execArb, "fresh") /\ UNCHANGED execQ
    BY <1>3 DEF CoolDown, ExecGoTo
  <2>2. \A c \in Arbs : Pending(c)' <=> Pending(c)
    BY <2>1 DEF Working, Unreleased, Queued, Pending
  <2>3. \A c \in Arbs : ~Pending(c) => c # execArb
    BY <2>1 DEF Working, Unreleased, Pending
  <2>4. \A c \in Arbs : c # execArb => (Fresh(c)' <=> Fresh(c))
    BY <2>1 DEF Fresh, Put
  <2>. QED
    BY <2>2, <2>3, <2>4 DEF GateStep
<1>4. CASE Release
  <2>1. /\ execAt \in {"release", "filled"} /\ execArb \in Arbs /\ execArb' = execArb
        /\ execAt' \in {"report", "refresh"} /\ UNCHANGED <<execQ, cooldown>>
    BY <1>4 DEF Release, ExecGoTo, TypeOK
  <2>2. \A c \in Arbs : ~Working(c)' /\ (Working(c) <=> c = execArb)
    BY <2>1 DEF Working, Unreleased
  <2>3. \A c \in Arbs : (Queued(c)' <=> Queued(c)) /\ (Fresh(c)' <=> Fresh(c))
    BY <2>1 DEF Queued, Fresh
  <2>4. Pending(execArb) /\ ~Pending(execArb)'
    BY <2>1, <2>2, <2>3 DEF Pending, ExecInv, AtMostOnePending
  <2>5. \A d \in Arbs \ {execArb} : Pending(d)' <=> Pending(d)
    BY <2>2, <2>3 DEF Pending
  <2>. QED
    BY <2>1, <2>3, <2>4, <2>5 DEF GateStep
<1>. QED
  BY <1>1, <1>2, <1>3, <1>4 DEF Execute

LEMMA ClockIsGateStep == TypeOK /\ Clock => GateStep
<1> SUFFICES ASSUME TypeOK, Clock PROVE GateStep
  OBVIOUS
<1>1. ASSUME NEW c \in Arbs, CooldownElapses(c)
      PROVE  GateStep
  <2>1. UNCHANGED <<execQ, execVars>> /\ Fresh(c) /\ ~Fresh(c)'
        /\ \A d \in Arbs \ {c} : Fresh(d)' <=> Fresh(d)
    BY <1>1 DEF CooldownElapses, Fresh, Put
  <2>2. \A d \in Arbs : Pending(d)' <=> Pending(d)
    BY <2>1, PendingUntouched
  <2>. QED
    BY <2>1, <2>2 DEF GateStep
<1>2. ASSUME NEW c \in Arbs, NEW leg \in {"anchor", "match"}, CloseComesNearer(c, leg)
      PROVE  GateStep
  BY <1>2, GateUntouched DEF CloseComesNearer
<1>. QED
  BY <1>1, <1>2 DEF Clock

LEMMA EveryStepIsGateStep == TypeOK /\ ExecInv /\ [Next]_vars => GateStep
<1> SUFFICES ASSUME TypeOK, ExecInv, [Next]_vars PROVE GateStep
  OBVIOUS
<1>1. CASE ServerCommand
  BY <1>1, GateUntouched DEF ServerCommand, DeleteArb, RefuseArb, WatchArb, DropArb, Unwatch
<1>2. CASE PlatformEvent
  BY <1>2, GateUntouched DEF PlatformEvent, PolyResolved, KalshiEnded,
     CloseDateUpdated, PolyPrice, KalshiTicker, Unwatch
<1>3. CASE Seed
  BY <1>3, GateUntouched DEF Seed, SeedFails, SeedTob
<1>4. CASE UNCHANGED vars
  BY <1>4, GateUntouched DEF vars
<1>. QED
  BY <1>1, <1>2, <1>3, <1>4, EvaluateIsGateStep, ExecuteIsGateStep, ClockIsGateStep DEF Next

(* in_flight, cooldown and the channel keep together what ArbGate promises: *)
(* every step of the two tasks is a request, an end, a thaw or a stutter.   *)
THEOREM PickerImplementsGate == Spec => ImplementsGateSafety
<1>1. Init => Gate!Init
  BY DEF Init, Gate!Init, gatePhase, Pending, Queued, Working, Unreleased, Fresh
<1>2. TypeOK /\ ExecInv /\ [Next]_vars => [Gate!Next]_gatePhase
  <2> SUFFICES ASSUME TypeOK, ExecInv, [Next]_vars PROVE [Gate!Next]_gatePhase
    OBVIOUS
  <2>1. GateStep
    BY EveryStepIsGateStep
  <2>2. CASE \A c \in Arbs : (Pending(c)' <=> Pending(c))
                             /\ (~Pending(c) => (Fresh(c)' <=> Fresh(c)))
    BY <2>2 DEF gatePhase
  <2>3. ASSUME NEW c \in Arbs,
               \A d \in Arbs \ {c} : (Pending(d)' <=> Pending(d)) /\ (Fresh(d)' <=> Fresh(d)),
               \/ ~Pending(c) /\ ~Fresh(c) /\ Pending(c)'
               \/ Pending(c) /\ ~Pending(c)'
               \/ ~Pending(c) /\ Fresh(c) /\ ~Pending(c)' /\ ~Fresh(c)'
        PROVE  Gate!Next
    <3>1. gatePhase' = [gatePhase EXCEPT ![c] = gatePhase'[c]]
      BY <2>3 DEF gatePhase
    <3>2. CASE ~Pending(c) /\ ~Fresh(c) /\ Pending(c)'
      <4>1. gatePhase[c] = "open" /\ gatePhase'[c] = "pending"
        BY <3>2 DEF gatePhase
      <4>. QED
        BY <3>1, <4>1 DEF Gate!Next, Gate!Request, Gate!Move
    <3>3. CASE Pending(c) /\ ~Pending(c)'
      <4>1. gatePhase[c] = "pending" /\ gatePhase'[c] \in {"open", "cooling"}
        BY <3>3 DEF gatePhase
      <4>. QED
        BY <3>1, <4>1 DEF Gate!Next, Gate!End, Gate!Move
    <3>4. CASE ~Pending(c) /\ Fresh(c) /\ ~Pending(c)' /\ ~Fresh(c)'
      <4>1. gatePhase[c] = "cooling" /\ gatePhase'[c] = "open"
        BY <3>4 DEF gatePhase
      <4>. QED
        BY <3>1, <4>1 DEF Gate!Next, Gate!Thaw, Gate!Move
    <3>. QED
      BY <2>3, <3>2, <3>3, <3>4
  <2>. QED
    BY <2>1, <2>2, <2>3 DEF GateStep
<1>. QED
  BY <1>1, <1>2, TypeCorrect, ExecInvariant, PTL DEF Spec, ImplementsGateSafety, Gate!Safety

(* A request of an arb that had none is one that evaluate_arb has just      *)
(* sent, having found the opportunity.                                      *)
LEMMA OnlyEvaluationRequests ==
    ASSUME TypeOK, Next, NEW c \in Arbs, Queued(c)', ~Queued(c)
    PROVE  c = evalArb /\ evalAt = "guards" /\ Opportunity(c)
<1>1. CASE Evaluate
  <2>1. execQ' # execQ
    BY DEF Queued
  <2>2. Request
    BY <1>1, <2>1 DEF Evaluate, CheckInFlight, CheckCooldown, ExpireCooldown, MarkInFlight
  <2>3. /\ evalAt = "guards" /\ evalArb \in Arbs /\ execQ' = Append(execQ, evalArb)
        /\ Opportunity(evalArb)
    BY <2>1, <2>2 DEF Request, TypeOK
  <2>4. c = evalArb
    BY <2>3 DEF Queued, TypeOK
  <2>. QED
    BY <2>3, <2>4
<1>2. CASE Take
  <2>1. execQ # <<>> /\ execQ' = Tail(execQ) /\ execQ \in Seq(Arbs)
    BY <1>2 DEF Take, TypeOK
  <2>2. PICK i \in 1..Len(Tail(execQ)) : Tail(execQ)[i] = c
    BY <2>1 DEF Queued
  <2>3. i + 1 \in 1..Len(execQ) /\ execQ[i + 1] = c
    BY <2>1, <2>2
  <2>. QED
    BY <2>3 DEF Queued
<1>3. CASE UNCHANGED execQ
  BY <1>3 DEF Queued
<1>4. CASE ~Evaluate /\ ~Take
  BY <1>3, <1>4 DEF Next, ServerCommand, DeleteArb, RefuseArb, WatchArb, DropArb, Unwatch,
     PlatformEvent, PolyResolved, KalshiEnded, CloseDateUpdated, PolyPrice, KalshiTicker,
     Seed, SeedFails, SeedTob, Execute, Price, PlaceOrders, CoolDown, Hedge, Release,
     Report, RefreshBalances, Clock, CooldownElapses, CloseComesNearer
<1>. QED
  BY <1>1, <1>2, <1>4

(* No execution is requested of an arb whose cooldown runs.                 *)
THEOREM CooldownRespected == Spec => NoRequestWhileCooling
<1>1. TypeOK /\ ExecInv /\ [Next]_vars =>
        [\A c \in Arbs : Queued(c)' /\ ~Queued(c) => ~Fresh(c)]_vars
  BY OnlyEvaluationRequests DEF ExecInv, EvaluationStaysValid, Fresh
<1>. QED
  BY <1>1, TypeCorrect, ExecInvariant, PTL DEF Spec, NoRequestWhileCooling

(* What is sent to the channel stays under way until the executor releases  *)
(* it: taking it from the channel puts it in hand.                          *)
LEMMA OnlyReleaseEnds ==
    ASSUME TypeOK, Next, NEW c \in Arbs, Pending(c), ~Pending(c)'
    PROVE  Release /\ Working(c)
<1>1. CASE Take
  <2>1. /\ execAt = "recv" /\ execQ \in Seq(Arbs) /\ execQ # <<>>
        /\ execArb' = Head(execQ) /\ execQ' = Tail(execQ) /\ execAt' = "metrics"
    BY <1>1 DEF Take, TypeOK
  <2>2. ~Working(c)
    BY <2>1 DEF Working, Unreleased
  <2>3. PICK i \in 1..Len(execQ) : execQ[i] = c
    BY <2>2 DEF Pending, Queued
  <2>4. CASE i = 1
    BY <2>1, <2>3, <2>4 DEF Pending, Working, Unreleased
  <2>5. CASE i # 1
    <3>1. i - 1 \in 1..Len(Tail(execQ)) /\ Tail(execQ)[i - 1] = c
      BY <2>1, <2>3, <2>5
    <3>. QED
      BY <2>1, <3>1 DEF Pending, Queued
  <2>. QED
    BY <2>4, <2>5
<1>2. CASE Request
  <2>1. \/ UNCHANGED execQ
        \/ execQ \in Seq(Arbs) /\ evalArb \in Arbs /\ execQ' = Append(execQ, evalArb)
    BY <1>2 DEF Request, TypeOK
  <2>2. Queued(c) => Queued(c)'
    BY <2>1 DEF Queued
  <2>3. Working(c) => Working(c)'
    BY <1>2 DEF Request, Working, execVars
  <2>. QED
    BY <2>2, <2>3 DEF Pending
<1>3. CASE Price \/ PlaceOrders \/ CoolDown \/ Hedge \/ Report \/ RefreshBalances
  <2>1. UNCHANGED execQ
    BY <1>3 DEF Price, PlaceOrders, CoolDown, Hedge, Report, RefreshBalances
  <2>2. Working(c) => Working(c)'
    BY <1>3 DEF Price, PlaceOrders, CoolDown, Hedge, Report, RefreshBalances, ExecGoTo,
       Working, Unreleased
  <2>. QED
    BY <2>1, <2>2 DEF Pending, Queued
<1>4. CASE Release
  <2>1. UNCHANGED execQ
    BY <1>4 DEF Release
  <2>. QED
    BY <1>4, <2>1 DEF Pending, Queued
<1>5. CASE UNCHANGED <<execQ, execVars>>
  BY <1>5 DEF Pending, Queued, Working, execVars
<1>6. CASE ~Execute /\ ~Request
  BY <1>5, <1>6 DEF Next, ServerCommand, DeleteArb, RefuseArb, WatchArb, DropArb, Unwatch,
     PlatformEvent, PolyResolved, KalshiEnded, CloseDateUpdated, PolyPrice, KalshiTicker,
     Seed, SeedFails, SeedTob, Evaluate, CheckInFlight, CheckCooldown, ExpireCooldown,
     MarkInFlight, Clock, CooldownElapses, CloseComesNearer
<1>. QED
  BY <1>1, <1>2, <1>3, <1>4, <1>6 DEF Execute

(* An arb comes to be barred only by a request of it that was sent.         *)
LEMMA OnlyRequestBars ==
    ASSUME TypeOK, Next, NEW c \in Arbs, Barred(c)', ~Barred(c)
    PROVE  Pending(c)'
<1>1. CASE Request
  <2>1. /\ execQ \in Seq(Arbs) /\ evalArb \in Arbs /\ evalAt' = "mark" /\ evalArb' = c
        /\ evalArb' = evalArb /\ execQ' = Append(execQ, evalArb)
    BY <1>1 DEF Request, GoTo, Leave, Barred, TypeOK
  <2>. QED
    BY <2>1 DEF Pending, Queued
<1>2. CASE MarkInFlight
  BY <1>2 DEF MarkInFlight, GoTo, Leave, Barred
<1>3. CASE CheckCooldown \/ ExpireCooldown \/ \E d \in todo : CheckInFlight(d)
  BY <1>3 DEF CheckCooldown, ExpireCooldown, CheckInFlight, GoTo, Leave, Barred
<1>4. CASE Execute
  BY <1>4 DEF Execute, Take, Price, PlaceOrders, CoolDown, Hedge, Release, Report,
     RefreshBalances, evalVars, Barred
<1>5. CASE UNCHANGED <<inFlight, evalAt, evalArb>>
  BY <1>5 DEF Barred
<1>6. CASE ~Execute /\ ~Evaluate
  BY <1>5, <1>6 DEF Next, ServerCommand, DeleteArb, RefuseArb, WatchArb, DropArb, Unwatch,
     PlatformEvent, PolyResolved, KalshiEnded, CloseDateUpdated, PolyPrice, KalshiTicker,
     Seed, SeedFails, SeedTob, Clock, CooldownElapses, CloseComesNearer, evalVars
<1>. QED
  BY <1>1, <1>2, <1>3, <1>4, <1>6 DEF Evaluate

(* Nothing leaves an arb in in_flight without an execution but the race of  *)
(* the executor with the insert that follows try_send.                      *)
THEOREM StrandedOnlyByTheRace == Spec => OnlyTheRaceStrands
<1>1. ASSUME TypeOK, Next, NEW c \in Arbs, BarredInVain(c)', ~BarredInVain(c)
      PROVE  Working(c) /\ evalAt = "mark" /\ evalArb = c
  <2>1. Barred(c)' /\ ~Pending(c)'
    BY <1>1 DEF BarredInVain
  <2>2. Barred(c)
    BY <1>1, <2>1, OnlyRequestBars
  <2>3. Pending(c)
    BY <1>1, <2>2 DEF BarredInVain
  <2>4. Release /\ Working(c)
    BY <1>1, <2>1, <2>3, OnlyReleaseEnds
  <2>5. c = execArb /\ inFlight' = inFlight \ {execArb} /\ UNCHANGED evalVars
    BY <2>4 DEF Release, Working
  <2>. QED
    BY <2>1, <2>4, <2>5 DEF Barred, evalVars
<1>2. UNCHANGED vars => \A c \in Arbs : BarredInVain(c)' <=> BarredInVain(c)
  BY DEF BarredInVain, Barred, Pending, Queued, Working, vars, evalVars, execVars
<1>3. TypeOK /\ [Next]_vars =>
        [\A c \in Arbs : BarredInVain(c)' /\ ~BarredInVain(c) =>
            Working(c) /\ evalAt = "mark" /\ evalArb = c]_vars
  BY <1>1, <1>2
<1>. QED
  BY <1>3, TypeCorrect, PTL DEF Spec, OnlyTheRaceStrands

(* The removal of an expired cooldown never takes a fresh one away.         *)
THEOREM FreshCooldownKept == Spec => FreshCooldownStays
<1>1. TypeOK /\ ExecInv /\ [Next]_vars =>
        [\A c \in Arbs : Fresh(c) => c \in DOMAIN cooldown']_vars
  <2> SUFFICES ASSUME TypeOK, ExecInv, Next, NEW c \in Arbs, Fresh(c)
               PROVE  c \in DOMAIN cooldown'
    OBVIOUS
  <2>1. CASE UNCHANGED cooldown
    BY <2>1 DEF Fresh
  <2>2. CASE ExpireCooldown
    BY <2>2 DEF ExpireCooldown, ExecInv, EvaluationStaysValid, Fresh, Drop, Restrict
  <2>3. CASE CoolDown \/ \E d \in Arbs : CooldownElapses(d)
    BY <2>3 DEF CoolDown, CooldownElapses, Fresh, Put
  <2>4. CASE ~ExpireCooldown /\ ~CoolDown /\ ~\E d \in Arbs : CooldownElapses(d)
    BY <2>1, <2>4 DEF Next, ServerCommand, DeleteArb, RefuseArb, WatchArb, DropArb, Unwatch,
       PlatformEvent, PolyResolved, KalshiEnded, CloseDateUpdated, PolyPrice, KalshiTicker,
       Seed, SeedFails, SeedTob, Evaluate, CheckInFlight, CheckCooldown, Request,
       MarkInFlight, Execute, Take, Price, PlaceOrders, Hedge, Release, Report,
       RefreshBalances, Clock, CloseComesNearer
  <2>. QED
    BY <2>2, <2>3, <2>4
<1>. QED
  BY <1>1, TypeCorrect, ExecInvariant, PTL DEF Spec, FreshCooldownStays
===============================================================================
