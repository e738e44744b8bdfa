--------------------------------- MODULE Book ---------------------------------
(***************************************************************************)
(* The book of the picker's comms task (src/src/picker.rs, `mod book`):    *)
(* two hash maps that index the same arb watches,                          *)
(*   registry : MarketKey -> set of correlation ids,                       *)
(*   records  : CorrelationId -> ArbWatch.                                 *)
(* A hash map is a function whose DOMAIN is the set of keys it holds, so   *)
(* that an empty watcher set and an evicted key are different states.      *)
(*                                                                         *)
(* The correlation id is a UUIDv5 of "anchor_token:match_token", so the    *)
(* two market keys of an arb are a function of its id: AnchorOf, MatchOf.  *)
(* Two arbs may share a market, and an arb may have both legs on one key   *)
(* (a Kalshi key is the ticker, whatever the side).                        *)
(*                                                                         *)
(* The module holds the operations on the book; the tasks that perform     *)
(* them are in the modules that extend it.                                 *)
(***************************************************************************)
EXTENDS Functions

CONSTANTS
    Arbs,       \* the correlation ids
    Markets,    \* the market keys, of both platforms
    AnchorOf,   \* the market key of the anchor leg of an arb
    MatchOf     \* the market key of the match leg of an arb

ASSUME LegAssumption ==
    /\ AnchorOf \in [Arbs -> Markets]
    /\ MatchOf \in [Arbs -> Markets]

VARIABLES
    registry,   \* market key -> the arbs that watch it
    records     \* arb -> its watch

bookVars == <<registry, records>>

-------------------------------------------------------------------------------
(* A hash map's insert and its remove of a set of keys. *)
Put(f, k, v) == [x \in DOMAIN f \cup {k} |-> IF x = k THEN v ELSE f[x]]

Drop(f, K) == Restrict(f, DOMAIN f \ K)

-------------------------------------------------------------------------------
(* How far the close time of a leg is: more than an hour ahead, within the  *)
(* hour, within ten minutes, or already passed.                             *)
CloseClasses == {"far", "hour", "near", "past"}

Watch == [anchor : CloseClasses, match : CloseClasses]

Legs(c) == {AnchorOf[c], MatchOf[c]}

Watchers(m) == IF m \in DOMAIN registry THEN registry[m] ELSE {}

Registered(c) == c \in DOMAIN records

BookInit ==
    /\ registry = [m \in {} |-> {}]
    /\ records = [c \in {} |-> {}]

(* Insert the arb in the watcher set of both legs, creating the sets that   *)
(* do not exist, and store or overwrite its record.                         *)
RegisterArb(c, watch) ==
    /\ registry' = [m \in DOMAIN registry \cup Legs(c) |->
                      Watchers(m) \cup (IF m \in Legs(c) THEN {c} ELSE {})]
    /\ records' = Put(records, c, watch)

(* The watchers of m that are left once the arbs S are taken off the two    *)
(* legs of their records; the keys whose set this empties are evicted.      *)
WatchersLeft(m, S) == registry[m] \ {c \in S : Registered(c) /\ m \in Legs(c)}

(* Mistake: evict the keys of a removed arb whoever else watches them.      *)
EvictedRegardless(S) ==
    {m \in DOMAIN registry : \E c \in S : Registered(c) /\ m \in Legs(c)}

Evicted(S) ==
    {m \in DOMAIN registry :
        /\ \E c \in S : Registered(c) /\ m \in Legs(c)
        /\ WatchersLeft(m, S) = {}}

(* unregister_arb for every arb of S; an arb without a record is skipped.   *)
UnregisterArbs(S) ==
    /\ registry' = [m \in DOMAIN registry \ Evicted(S) |-> WatchersLeft(m, S)]
    /\ records' = Drop(records, S)

-------------------------------------------------------------------------------
BookTypeOK ==
    /\ DOMAIN registry \subseteq Markets
    /\ registry \in [DOMAIN registry -> SUBSET Arbs]
    /\ DOMAIN records \subseteq Arbs
    /\ records \in [DOMAIN records -> Watch]

(* "Two indexes are kept in sync at all times" (picker.rs:29): a market key *)
(* is present exactly when some recorded arb has it as a leg, and its set   *)
(* is exactly the recorded arbs that have it as a leg.                      *)
IndexesInSync ==
    /\ DOMAIN registry = UNION {Legs(c) : c \in DOMAIN records}
    /\ \A m \in DOMAIN registry :
          registry[m] = {c \in DOMAIN records : m \in Legs(c)}
===============================================================================
