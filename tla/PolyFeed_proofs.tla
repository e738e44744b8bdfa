---------------------------- MODULE PolyFeed_proofs ----------------------------
(***************************************************************************)
(* Theorems about PolyFeed, for every set of assets and however often the  *)
(* connection ends: while no change overlaps another one, what is watched  *)
(* is live and what is tracked is subscribed, and the news of the markets  *)
(* come on every connection.                                               *)
(***************************************************************************)
EXTENDS PolyFeed, TLAPS

USE FeedAssumption

(* The steps of PickerComms keep the types.                                 *)
LEMMA AddKeepsType == TypeOK /\ Add => TypeOK'
BY DEF TypeOK, Add, AddSend, AddFails, AddInsert, AddKnown, AddStart, Register, MayAdd, Note,
       Subscribe, picker, wire, feed

(* So do those of the removals.                                             *)
LEMMA RemoveKeepsType == TypeOK /\ Remove => TypeOK'
<1> SUFFICES ASSUME TypeOK, NEW a \in Assets,
                    Evict(a) \/ DelFilter(a) \/ DelSend(a) \/ DelFails(a) \/ DelRemove(a)
             PROVE  TypeOK'
  BY DEF Remove
<1>1. \E at \in {"none", "filter", "send", "remove"} : removal' = [removal EXCEPT ![a] = at]
  BY DEF Evict, DelFilter, DelSend, DelFails, DelRemove
<1>2. removal' \in [Assets -> {"none", "filter", "send", "remove"}]
  BY <1>1 DEF TypeOK
<1>3. /\ watched' \subseteq watched /\ subscribed' \subseteq subscribed /\ live' \subseteq live
      /\ UNCHANGED <<addAt, adding, link, conns, news, feedAt, onClose, resubscribe>>
  BY DEF Evict, DelFilter, DelSend, DelFails, DelRemove, Unsubscribe, picker, wire, feed
<1>4. overlapped' \in BOOLEAN
  BY DEF TypeOK, Evict, Note, DelFilter, DelSend, DelFails, DelRemove
<1>. QED
  BY <1>2, <1>3, <1>4 DEF TypeOK

(* So do those of the feed, and the end of a connection.                    *)
LEMMA FeedKeepsType == TypeOK /\ (Reconnect \/ LinkEnds) => TypeOK'
<1> SUFFICES ASSUME TypeOK, Reconnect \/ LinkEnds PROVE TypeOK'
  OBVIOUS
<1>1. CASE Disconnect
  BY <1>1 DEF TypeOK, Disconnect, picker
<1>2. CASE Connect
  BY <1>2 DEF TypeOK, Connect, picker
<1>3. CASE ConnectFails
  BY <1>3 DEF TypeOK, ConnectFails, picker, wire
<1>4. CASE ReadAssets
  BY <1>4 DEF TypeOK, ReadAssets, picker, wire
<1>5. CASE Resubscribe
  <2>1. live' \subseteq Assets /\ news' \in BOOLEAN
    BY <1>5 DEF TypeOK, Resubscribe, Subscribe
  <2>2. /\ feedAt' = "run" /\ onClose' = FALSE /\ resubscribe' = {}
        /\ UNCHANGED <<watched, addAt, adding, subscribed, link, conns, removal, overlapped>>
    BY <1>5 DEF Resubscribe, picker
  <2>. QED
    BY <2>1, <2>2 DEF TypeOK
<1>6. CASE ResubscribeFails
  BY <1>6 DEF TypeOK, ResubscribeFails, picker, wire
<1>7. CASE LinkEnds
  <2>1. /\ conns' \in Nat /\ link' \in {"closing", "broken"} /\ live' = {} /\ news' = FALSE
        /\ overlapped' \in BOOLEAN
    BY <1>7 DEF TypeOK, LinkEnds, Note
  <2>2. UNCHANGED <<watched, addAt, adding, subscribed, feedAt, onClose, resubscribe, removal>>
    BY <1>7 DEF LinkEnds, picker, feed
  <2>. QED
    BY <2>1, <2>2 DEF TypeOK
<1>. QED
  BY <1>1, <1>2, <1>3, <1>4, <1>5, <1>6, <1>7 DEF Reconnect

(* So do the initial values.                                                *)
LEMMA InitHasType == Init => TypeOK
<1> SUFFICES ASSUME Init PROVE TypeOK
  OBVIOUS
<1>1. removal \in [Assets -> {"none", "filter", "send", "remove"}]
  BY DEF Init
<1>2. adding \in IF addAt = "idle" THEN {NoAsset} ELSE Assets
  BY DEF Init
<1>. QED
  BY <1>1, <1>2 DEF Init, TypeOK

LEMMA StepKeepsType == TypeOK /\ [Next]_vars => TypeOK'
<1>1. TypeOK /\ UNCHANGED vars => TypeOK'
  BY DEF TypeOK, vars, picker, wire, feed
<1>. QED
  BY <1>1, AddKeepsType, RemoveKeepsType, FeedKeepsType DEF Next

(* The variables have their types.                                          *)
THEOREM TypeCorrect == Spec => []TypeOK
BY InitHasType, StepKeepsType, PTL DEF Spec

-------------------------------------------------------------------------------
(* A change is under way only on a connection that stands.                  *)
ChangesOnStanding ==
    addAt # "idle" \/ (\E a \in Assets : removal[a] # "none") => link = "up" /\ feedAt = "run"

(* What is on its way into subscribed_assets, and out of it.                *)
Entering == IF addAt = "insert" THEN {adding} ELSE {}

Leaving == {a \in Assets : removal[a] = "remove"}

(* The server's list, next to the bot's.                                    *)
ListsAgree ==
    /\ link = "up" /\ feedAt = "run" => live = (subscribed \cup Entering) \ Leaving
    /\ link = "up" /\ feedAt \in {"read", "subscribe"} => live = {}
    /\ feedAt = "subscribe" => resubscribe = subscribed
    /\ feedAt = "connect" => link = "down" /\ live = {}

(* An asset is added or removed, not both, and is watched only if neither   *)
(* is left to do.                                                           *)
OneChange ==
    /\ addAt # "idle" => removal[adding] = "none"
    /\ \A a \in Assets : removal[a] # "none" => a \notin watched
    /\ \A a \in Assets : removal[a] \in {"send", "remove"} => a \in subscribed
    /\ watched \subseteq subscribed

CalmInv == TypeOK /\ ChangesOnStanding /\ ListsAgree /\ OneChange

(* They hold until something overlaps.                                      *)
FeedInv == TypeOK /\ (~overlapped => CalmInv)

(* Together they are what the two properties ask for.                       *)
LEMMA FeedInvImplies == FeedInv => WatchedIsLive /\ TrackedIsSubscribed
<1> SUFFICES ASSUME FeedInv, Quiet PROVE live = subscribed /\ watched \subseteq live
  BY DEF WatchedIsLive, TrackedIsSubscribed
<1>. CalmInv
  BY DEF FeedInv, Quiet
<1>1. Entering = {} /\ Leaving = {}
  BY DEF Quiet, Removing, Entering, Leaving
<1>2. live = subscribed
  BY <1>1 DEF CalmInv, ListsAgree, Quiet, Steady
<1>. QED
  BY <1>2 DEF CalmInv, OneChange

(* Nothing is forgotten about an overlap.                                   *)
LEMMA OverlapStays == TypeOK /\ [Next]_vars /\ ~overlapped' => ~overlapped
BY DEF TypeOK, Next, Add, Remove, Reconnect, AddSend, AddFails, AddInsert, AddKnown, AddStart,
       MayAdd, Note, Evict, DelFilter, DelSend, DelFails, DelRemove, Disconnect, Connect,
       ConnectFails, ReadAssets, Resubscribe, ResubscribeFails, LinkEnds, vars

LEMMA AddKeepsCalmInv == CalmInv /\ Add /\ ~overlapped' => CalmInv'
<1> SUFFICES ASSUME CalmInv, Add, ~overlapped' PROVE CalmInv'
  OBVIOUS
<1>1. TypeOK'
  BY AddKeepsType DEF CalmInv
<1>2. CASE AddSend
  <2>1. addAt = "send" /\ addAt' = "insert" /\ live' = live \cup {adding} /\ link = "up" /\ feedAt = "run"
    BY <1>2 DEF AddSend, Subscribe, CalmInv, ChangesOnStanding
  <2>2. UNCHANGED <<watched, adding, subscribed, link, conns, feedAt, onClose, resubscribe, removal>>
    BY <1>2 DEF AddSend, feed
  <2>3. adding \notin Leaving
    BY <2>1 DEF CalmInv, OneChange, Leaving
  <2>4. Entering = {} /\ Entering' = {adding} /\ Leaving' = Leaving
    BY <2>1, <2>2 DEF Entering, Leaving
  <2>5. ListsAgree'
    BY <2>1, <2>2, <2>3, <2>4 DEF CalmInv, ListsAgree
  <2>. QED
    BY <1>1, <2>1, <2>2, <2>5 DEF CalmInv, ChangesOnStanding, OneChange
<1>3. CASE AddFails
  BY <1>3 DEF AddFails, CalmInv, ChangesOnStanding
<1>4. CASE AddInsert
  <2>1. /\ addAt = "insert" /\ addAt' = "idle" /\ subscribed' = subscribed \cup {adding}
        /\ link = "up" /\ feedAt = "run"
        /\ watched' \subseteq watched \cup {adding}
    BY <1>4 DEF AddInsert, Register, CalmInv, ChangesOnStanding
  <2>2. UNCHANGED <<link, conns, live, feedAt, onClose, resubscribe, removal>>
    BY <1>4 DEF AddInsert, wire, feed
  <2>3. Entering = {adding} /\ Entering' = {} /\ Leaving' = Leaving
    BY <2>1, <2>2 DEF Entering, Leaving
  <2>4. ListsAgree'
    BY <2>1, <2>2, <2>3 DEF CalmInv, ListsAgree
  <2>5. OneChange'
    BY <2>1, <2>2 DEF CalmInv, OneChange
  <2>. QED
    BY <1>1, <2>1, <2>2, <2>4, <2>5 DEF CalmInv, ChangesOnStanding
<1>5. ASSUME NEW a \in Assets, AddKnown(a)
      PROVE  CalmInv'
  <2>1. /\ addAt = "idle" /\ a \in subscribed /\ removal[a] = "none"
        /\ watched' \subseteq watched \cup {a}
    BY <1>5 DEF AddKnown, MayAdd, Note, Removing, Register
  <2>2. UNCHANGED <<addAt, adding, subscribed, link, conns, live, feedAt, onClose, resubscribe, removal>>
    BY <1>5 DEF AddKnown, wire, feed
  <2>3. Entering' = Entering /\ Leaving' = Leaving
    BY <2>2 DEF Entering, Leaving
  <2>4. ListsAgree'
    BY <2>2, <2>3 DEF CalmInv, ListsAgree
  <2>. QED
    BY <1>1, <2>1, <2>2, <2>4 DEF CalmInv, ChangesOnStanding, OneChange
<1>6. ASSUME NEW a \in Assets, AddStart(a)
      PROVE  CalmInv'
  <2>1. /\ addAt = "idle" /\ addAt' = "send" /\ adding' = a /\ removal[a] = "none"
        /\ link = "up" /\ feedAt = "run"
    BY <1>6 DEF AddStart, MayAdd, Note, Steady, Removing
  <2>2. UNCHANGED <<watched, subscribed, link, conns, live, feedAt, onClose, resubscribe, removal>>
    BY <1>6 DEF AddStart, wire, feed
  <2>3. Entering = {} /\ Entering' = {} /\ Leaving' = Leaving
    BY <2>1, <2>2 DEF Entering, Leaving
  <2>4. ListsAgree'
    BY <2>2, <2>3 DEF CalmInv, ListsAgree
  <2>. QED
    BY <1>1, <2>1, <2>2, <2>4 DEF CalmInv, ChangesOnStanding, OneChange
<1>. QED
  BY <1>2, <1>3, <1>4, <1>5, <1>6 DEF Add

LEMMA RemoveKeepsCalmInv == CalmInv /\ Remove /\ ~overlapped' => CalmInv'
<1> SUFFICES ASSUME CalmInv, ~overlapped', NEW a \in Assets,
                    Evict(a) \/ DelFilter(a) \/ DelSend(a) \/ DelFails(a) \/ DelRemove(a)
             PROVE  CalmInv'
  BY DEF Remove
<1>1. TypeOK /\ TypeOK'
  BY RemoveKeepsType DEF CalmInv, Remove
<1>2. link = "up" /\ feedAt = "run"
  BY <1>1 DEF Evict, Note, Steady, DelFilter, DelSend, DelFails, DelRemove, CalmInv, ChangesOnStanding
<1>3. UNCHANGED <<addAt, adding, link, conns, feedAt, onClose, resubscribe>>
  BY DEF Evict, DelFilter, DelSend, DelFails, DelRemove, picker, wire, feed
<1>4. Entering' = Entering
  BY <1>3 DEF Entering
<1>5. CASE Evict(a)
  <2>1. /\ addAt = "idle" /\ removal[a] = "none" /\ watched' = watched \ {a}
        /\ removal' = [removal EXCEPT ![a] = "filter"]
        /\ UNCHANGED <<subscribed, live>>
    BY <1>5 DEF Evict, Removing, wire
  <2>2. Leaving' = Leaving
    BY <1>1, <2>1 DEF Leaving, TypeOK
  <2>. QED
    BY <1>1, <1>2, <1>3, <1>4, <2>1, <2>2 DEF CalmInv, ChangesOnStanding, ListsAgree, OneChange, TypeOK
<1>6. CASE DelFilter(a)
  <2>1. /\ removal[a] = "filter"
        /\ removal' = [removal EXCEPT ![a] = IF a \in subscribed THEN "send" ELSE "none"]
        /\ UNCHANGED <<watched, subscribed, live>>
    BY <1>6 DEF DelFilter, picker, wire
  <2>2. Leaving' = Leaving
    BY <1>1, <2>1 DEF Leaving, TypeOK
  <2>. QED
    BY <1>1, <1>2, <1>3, <1>4, <2>1, <2>2 DEF CalmInv, ChangesOnStanding, ListsAgree, OneChange, TypeOK
<1>7. CASE DelSend(a)
  <2>1. /\ removal[a] = "send" /\ live' = live \ {a}
        /\ removal' = [removal EXCEPT ![a] = "remove"]
        /\ UNCHANGED <<watched, subscribed>>
    BY <1>2, <1>7 DEF DelSend, Unsubscribe, picker
  <2>2. Leaving' = Leaving \cup {a}
    BY <1>1, <2>1 DEF Leaving, TypeOK
  <2>3. ListsAgree'
    BY <1>2, <1>3, <1>4, <2>1, <2>2 DEF CalmInv, ListsAgree
  <2>. QED
    BY <1>1, <1>2, <1>3, <2>1, <2>3 DEF CalmInv, ChangesOnStanding, OneChange, TypeOK
<1>8. CASE DelFails(a)
  BY <1>2, <1>8 DEF DelFails
<1>9. CASE DelRemove(a)
  <2>1. /\ removal[a] = "remove" /\ subscribed' = subscribed \ {a}
        /\ removal' = [removal EXCEPT ![a] = "none"]
        /\ UNCHANGED <<watched, live>>
    BY <1>9 DEF DelRemove, picker, wire
  <2>2. Leaving' = Leaving \ {a} /\ a \in Leaving
    BY <1>1, <2>1 DEF Leaving, TypeOK
  <2>3. a \notin Entering
    BY <2>1 DEF CalmInv, OneChange, Entering
  <2>4. ListsAgree'
    BY <1>2, <1>3, <1>4, <2>1, <2>2, <2>3 DEF CalmInv, ListsAgree
  <2>5. OneChange'
    BY <1>1, <1>3, <2>1 DEF CalmInv, OneChange, TypeOK
  <2>. QED
    BY <1>1, <1>2, <1>3, <2>4, <2>5 DEF CalmInv, ChangesOnStanding
<1>. QED
  BY <1>5, <1>6, <1>7, <1>8, <1>9

LEMMA FeedKeepsCalmInv == CalmInv /\ (Reconnect \/ LinkEnds) /\ ~overlapped' => CalmInv'
<1> SUFFICES ASSUME CalmInv, Reconnect \/ LinkEnds, ~overlapped' PROVE CalmInv'
  OBVIOUS
<1>1. TypeOK'
  BY FeedKeepsType DEF CalmInv
<1>2. UNCHANGED <<watched, addAt, adding, subscribed, removal>>
  BY DEF Reconnect, Disconnect, Connect, ConnectFails, ReadAssets, Resubscribe,
         ResubscribeFails, LinkEnds, picker
<1>3. Entering' = Entering /\ Leaving' = Leaving /\ OneChange'
  BY <1>2 DEF Entering, Leaving, CalmInv, OneChange
<1>4. addAt = "idle" /\ \A a \in Assets : removal[a] = "none"
  BY DEF Reconnect, Disconnect, Connect, ConnectFails, ReadAssets, Resubscribe,
         ResubscribeFails, LinkEnds, Note, Removing, CalmInv, ChangesOnStanding
<1>5. ChangesOnStanding'
  BY <1>2, <1>4 DEF ChangesOnStanding
<1>6. Entering = {} /\ Leaving = {}
  BY <1>4 DEF Entering, Leaving
<1>7. ListsAgree'
  <2>1. CASE Disconnect
    BY <2>1 DEF ListsAgree, Disconnect
  <2>5. CASE Connect
    <3>1. feedAt' = "read" /\ live' = {}
      BY <2>5 DEF CalmInv, ListsAgree, Connect
    <3>. QED
      BY <3>1 DEF ListsAgree
  <2>6. CASE ConnectFails
    BY <2>6 DEF ListsAgree, ConnectFails
  <2>7. CASE LinkEnds
    <3>1. link' # "up" /\ UNCHANGED <<feedAt, resubscribe>> /\ link = "up"
      BY <2>7 DEF LinkEnds, feed
    <3>. QED
      BY <1>2, <3>1 DEF CalmInv, ListsAgree
  <2>2. CASE ReadAssets
    BY <1>2, <1>3, <1>6, <2>2 DEF CalmInv, TypeOK, ListsAgree, ReadAssets, wire
  <2>3. CASE Resubscribe
    BY <1>2, <1>3, <1>6, <2>3 DEF CalmInv, TypeOK, ListsAgree, Resubscribe, Subscribe
  <2>4. CASE ResubscribeFails
    BY <1>2, <1>3, <1>6, <2>4 DEF CalmInv, TypeOK, ListsAgree, ResubscribeFails, wire
  <2>. QED
    BY <2>1, <2>2, <2>3, <2>4, <2>5, <2>6, <2>7 DEF Reconnect
<1>. QED
  BY <1>1, <1>3, <1>5, <1>7 DEF CalmInv

LEMMA FeedInvariant == Spec => []FeedInv
<1>1. Init => FeedInv
  <2> SUFFICES ASSUME Init PROVE CalmInv
    BY DEF CalmInv, FeedInv
  <2>1. addAt = "idle" /\ \A a \in Assets : removal[a] = "none"
    BY DEF Init
  <2>2. Entering = {} /\ Leaving = {}
    BY <2>1 DEF Entering, Leaving
  <2>3. ChangesOnStanding /\ ListsAgree /\ OneChange
    BY <2>1, <2>2 DEF Init, ChangesOnStanding, ListsAgree, OneChange
  <2>. QED
    BY <2>3, InitHasType DEF CalmInv
<1>2. FeedInv /\ [Next]_vars => FeedInv'
  <2> SUFFICES ASSUME FeedInv, [Next]_vars PROVE FeedInv'
    OBVIOUS
  <2>1. TypeOK'
    BY StepKeepsType DEF FeedInv
  <2>2. ASSUME ~overlapped' PROVE CalmInv'
    <3>1. CalmInv
      BY <2>2, OverlapStays DEF FeedInv
    <3>2. CASE UNCHANGED vars
      BY <3>1, <3>2 DEF CalmInv, TypeOK, ChangesOnStanding, ListsAgree, OneChange, Entering,
             Leaving, vars, picker, wire, feed
    <3>3. CASE Next
      BY <2>2, <3>1, <3>3, AddKeepsCalmInv, RemoveKeepsCalmInv, FeedKeepsCalmInv DEF Next
    <3>. QED
      BY <3>2, <3>3
  <2>. QED
    BY <2>1, <2>2 DEF FeedInv
<1>. QED
  BY <1>1, <1>2, PTL DEF Spec

(* As long as no change has overlapped another of its asset, or a           *)
(* reconnection, every asset that an arb watches is live whenever nothing   *)
(* is under way ...                                                         *)
THEOREM CalmFeedCorrect == Spec => []WatchedIsLive
BY FeedInvariant, FeedInvImplies, PTL

(* ... and the server's list is subscribed_assets.                          *)
THEOREM CalmFeedTracked == Spec => []TrackedIsSubscribed
BY FeedInvariant, FeedInvImplies, PTL

-------------------------------------------------------------------------------
(* On a connection without news the feed has found nothing to subscribe     *)
(* again, and at most the one add that was under way has been remembered.   *)
NewsInv ==
    link = "up" /\ feedAt = "run" /\ ~news =>
        \/ subscribed = {}
        \/ addAt # "insert" /\ \A a, b \in subscribed : a = b

LEMMA NewsInvariant == Spec => []NewsInv
<1>1. Init => NewsInv
  BY DEF Init, NewsInv
<1>2. NewsInv /\ [Next]_vars => NewsInv'
  <2> SUFFICES ASSUME NewsInv, [Next]_vars PROVE NewsInv'
    OBVIOUS
  <2>1. CASE Add
    BY <2>1 DEF NewsInv, Add, AddSend, AddFails, AddInsert, AddKnown, AddStart, Subscribe,
                wire, feed
  <2>2. CASE Remove
    BY <2>2 DEF NewsInv, Remove, Evict, DelFilter, DelSend, DelFails, DelRemove,
                Unsubscribe, picker, wire, feed
  <2>3. CASE Disconnect \/ Connect \/ ConnectFails \/ LinkEnds
    BY <2>3 DEF NewsInv, Disconnect, Connect, ConnectFails, LinkEnds
  <2>4. CASE ReadAssets \/ Resubscribe \/ ResubscribeFails
    BY <2>4 DEF NewsInv, ReadAssets, Resubscribe, ResubscribeFails, Subscribe, wire
  <2>5. CASE UNCHANGED vars
    BY <2>5 DEF NewsInv, vars, picker, wire, feed
  <2>. QED
    BY <2>1, <2>2, <2>3, <2>4, <2>5 DEF Next, Reconnect
<1>. QED
  BY <1>1, <1>2, PTL DEF Spec

(* Whatever overlaps, the news of markets arrives on a connection on which  *)
(* two assets are subscribed.                                               *)
THEOREM NewsOnEveryConnection == Spec => []NewsArrives
<1>1. NewsInv => NewsArrives
  BY DEF NewsInv, NewsArrives, Steady
<1>. QED
  BY <1>1, NewsInvariant, PTL
===============================================================================
