------------------------------- MODULE PolyFeed -------------------------------
(***************************************************************************)
(* The WebSocket feed of Polymarket (src/src/platforms/polymarket.rs) and  *)
(* the tasks of src/src/picker.rs that change what it is subscribed to: as *)
(* in KalshiFeed they are the loop of run_polymarket, the one              *)
(* add_market_ticker that PickerComms awaits in find_arb, and one          *)
(* del_market_ticker for every asset that loses its last watcher.  They    *)
(* share the set subscribed_assets; a step is one access to it or one      *)
(* command written to the connection.                                      *)
(*                                                                         *)
(* External are the server, which keeps the assets subscribed on a         *)
(* connection until it ends, and the client library, whose reconnect       *)
(* succeeds or fails.  A command written to a connection that is gone has  *)
(* no effect, and may or may not fail.                                     *)
(***************************************************************************)
EXTENDS Integers

CONSTANTS
    Assets,         \* the Polymarket asset ids
    MaxConns,       \* bound on how often the connection ends
    NoAsset

ASSUME FeedAssumption ==
    /\ MaxConns \in Nat
    /\ NoAsset \notin Assets

VARIABLES
    watched,        \* the assets in the registry of the book
    subscribed,     \* subscribed_assets
    link,           \* the connection, as it really is
    conns,          \* how often it has ended
    live,           \* the assets the server sends updates of
    news,           \* does it send new and resolved markets?
    feedAt,         \* the feed: where it is
    onClose,        \* the feed: reconnecting because of a Close frame?
    resubscribe,    \* the feed: the assets to subscribe again
    addAt,          \* PickerComms: where add_market_ticker is
    adding,         \* PickerComms: the asset it adds
    removal,        \* asset -> where its del_market_ticker is
    overlapped      \* did a change ever overlap another of the same asset, or
                    \* a reconnection? (a history variable)

picker == <<watched, addAt, adding>>
wire == <<link, conns, live, news>>
feed == <<feedAt, onClose, resubscribe>>
vars == <<picker, subscribed, wire, feed, removal, overlapped>>

-------------------------------------------------------------------------------
Init ==
    /\ watched = {} /\ subscribed = {}
    /\ link = "up" /\ conns = 0 /\ live = {} /\ news = TRUE
    /\ feedAt = "run" /\ onClose = FALSE /\ resubscribe = {}
    /\ addAt = "idle" /\ adding = NoAsset
    /\ removal = [a \in Assets |-> "none"]
    /\ overlapped = FALSE

(* Mistake: leave the custom features out.                                  *)
SubscribeNoNews(A) ==
    IF link = "up" THEN live' = live \cup A /\ UNCHANGED news ELSE UNCHANGED <<live, news>>

(* A command reaches the server, or is lost with the connection.  A market  *)
(* subscription with custom features brings the news of markets as well.    *)
Subscribe(A) ==
    IF link = "up" THEN live' = live \cup A /\ news' = TRUE ELSE UNCHANGED <<live, news>>

Unsubscribe(A) ==
    /\ live' = IF link = "up" THEN live \ A ELSE live
    /\ UNCHANGED news

Note(overlap) == overlapped' = (overlapped \/ overlap)

(* The connection is up, and not about to be replaced.                      *)
Steady == link = "up" /\ feedAt = "run"

Removing(a) == removal[a] # "none"

-------------------------------------------------------------------------------
(* PickerComms: add_market_ticker for one leg, inside find_arb; then the    *)
(* arb is registered, unless its other leg failed.                          *)
Register(a) == watched' \in {watched, watched \cup {a}}

MayAdd(a) ==
    /\ addAt = "idle"
    /\ Note(~Steady \/ Removing(a))

(* The asset is subscribed already: nothing is sent.                        *)
AddKnown(a) ==
    /\ MayAdd(a)
    /\ a \in subscribed
    /\ Register(a)
    /\ UNCHANGED <<addAt, adding, subscribed, wire, feed, removal>>

AddStart(a) ==
    /\ MayAdd(a)
    /\ a \notin subscribed
    /\ addAt' = "send" /\ adding' = a
    /\ UNCHANGED <<watched, subscribed, wire, feed, removal>>

AddSend ==
    /\ addAt = "send"
    /\ link # "down"
    /\ Subscribe({adding})
    /\ addAt' = "insert"
    /\ UNCHANGED <<watched, adding, subscribed, link, conns, feed, removal, overlapped>>

(* The leg counts as failed and the arb is dropped.                         *)
AddFails ==
    /\ addAt = "send" /\ link # "up"
    /\ addAt' = "idle" /\ adding' = NoAsset
    /\ UNCHANGED <<watched, subscribed, wire, feed, removal, overlapped>>

(* Mistake: register the arb and do not remember the asset.                 *)
AddForgets ==
    /\ addAt = "insert"
    /\ Register(adding)
    /\ addAt' = "idle" /\ adding' = NoAsset
    /\ UNCHANGED <<subscribed, wire, feed, removal, overlapped>>

AddInsert ==
    /\ addAt = "insert"
    /\ subscribed' = subscribed \cup {adding}
    /\ Register(adding)
    /\ addAt' = "idle" /\ adding' = NoAsset
    /\ UNCHANGED <<wire, feed, removal, overlapped>>

-------------------------------------------------------------------------------
(* unregister_arb evicts an asset, and the task it spawns.                  *)

(* At most one removal of an asset is under way: a bound of the model.      *)
Evict(a) ==
    /\ addAt = "idle"
    /\ a \in watched
    /\ ~Removing(a)
    /\ Note(~Steady)
    /\ watched' = watched \ {a}
    /\ removal' = [removal EXCEPT ![a] = "filter"]
    /\ UNCHANGED <<addAt, adding, subscribed, wire, feed>>

(* An asset that is not subscribed needs no command.                        *)
DelFilter(a) ==
    /\ removal[a] = "filter"
    /\ removal' = [removal EXCEPT ![a] = IF a \in subscribed THEN "send" ELSE "none"]
    /\ UNCHANGED <<picker, subscribed, wire, feed, overlapped>>

(* Mistake: unsubscribe from every asset.                                   *)
DelSendAll(a) ==
    /\ removal[a] = "send" /\ link # "down"
    /\ Unsubscribe(Assets)
    /\ removal' = [removal EXCEPT ![a] = "remove"]
    /\ UNCHANGED <<picker, subscribed, link, conns, feed, overlapped>>

DelSend(a) ==
    /\ removal[a] = "send" /\ link # "down"
    /\ Unsubscribe({a})
    /\ removal' = [removal EXCEPT ![a] = "remove"]
    /\ UNCHANGED <<picker, subscribed, link, conns, feed, overlapped>>

(* The error ends the task; the asset stays in subscribed_assets.           *)
DelFails(a) ==
    /\ removal[a] = "send" /\ link # "up"
    /\ removal' = [removal EXCEPT ![a] = "none"]
    /\ UNCHANGED <<picker, subscribed, wire, feed, overlapped>>

DelRemove(a) ==
    /\ removal[a] = "remove"
    /\ subscribed' = subscribed \ {a}
    /\ removal' = [removal EXCEPT ![a] = "none"]
    /\ UNCHANGED <<picker, wire, feed, overlapped>>

-------------------------------------------------------------------------------
(* The feed.                                                                *)

(* A Close frame, or the end of the stream, or a transport error: the       *)
(* library is asked for a new connection.                                   *)
Disconnect ==
    /\ feedAt = "run" /\ link # "up"
    /\ link' = "down" /\ live' = {} /\ news' = FALSE
    /\ feedAt' = "connect" /\ onClose' = (link = "closing")
    /\ UNCHANGED <<picker, subscribed, conns, resubscribe, removal, overlapped>>

Connect ==
    /\ feedAt = "connect"
    /\ link' = "up" /\ feedAt' = "read"
    /\ UNCHANGED <<picker, subscribed, conns, live, news, onClose, resubscribe, removal, overlapped>>

(* Mistake: log the error and go on with the loop.                          *)
ConnectFailsQuietly ==
    /\ feedAt = "connect"
    /\ feedAt' = "run" /\ onClose' = FALSE
    /\ UNCHANGED <<picker, subscribed, wire, resubscribe, removal, overlapped>>

(* PolymarketReconnectError, or the error itself, ends the task.            *)
ConnectFails ==
    /\ feedAt = "connect"
    /\ feedAt' = "dead" /\ onClose' = FALSE
    /\ UNCHANGED <<picker, subscribed, wire, resubscribe, removal, overlapped>>

(* Mistake: after a Close frame, leave it to the caller to subscribe.       *)
ReadAssetsUnlessClosed ==
    /\ feedAt = "read"
    /\ IF subscribed = {} \/ onClose
       THEN feedAt' = "run" /\ onClose' = FALSE /\ UNCHANGED resubscribe
       ELSE feedAt' = "subscribe" /\ resubscribe' = subscribed /\ UNCHANGED onClose
    /\ UNCHANGED <<picker, subscribed, wire, removal, overlapped>>

(* With nothing to subscribe the feed is back in its loop.                  *)
ReadAssets ==
    /\ feedAt = "read"
    /\ IF subscribed = {}
       THEN feedAt' = "run" /\ onClose' = FALSE /\ UNCHANGED resubscribe
       ELSE feedAt' = "subscribe" /\ resubscribe' = subscribed /\ UNCHANGED onClose
    /\ UNCHANGED <<picker, subscribed, wire, removal, overlapped>>

Resubscribe ==
    /\ feedAt = "subscribe"
    /\ Subscribe(resubscribe)
    /\ feedAt' = "run" /\ onClose' = FALSE /\ resubscribe' = {}
    /\ UNCHANGED <<picker, subscribed, link, conns, removal, overlapped>>

(* The error ends the task, but after a Close frame it is only logged.      *)
ResubscribeFails ==
    /\ feedAt = "subscribe" /\ link # "up"
    /\ feedAt' = IF onClose THEN "run" ELSE "dead"
    /\ onClose' = FALSE /\ resubscribe' = {}
    /\ UNCHANGED <<picker, subscribed, wire, removal, overlapped>>

(* The connection ends, with a Close frame or without.                      *)
LinkEnds ==
    /\ link = "up" /\ conns < MaxConns
    /\ Note(addAt # "idle" \/ \E a \in Assets : Removing(a))
    /\ link' \in {"closing", "broken"}
    /\ conns' = conns + 1
    /\ live' = {} /\ news' = FALSE
    /\ UNCHANGED <<picker, subscribed, feed, removal>>

-------------------------------------------------------------------------------
Add == AddSend \/ AddFails \/ AddInsert \/ \E a \in Assets : AddKnown(a) \/ AddStart(a)

Remove ==
    \E a \in Assets :
        Evict(a) \/ DelFilter(a) \/ DelSend(a) \/ DelFails(a) \/ DelRemove(a)

Reconnect ==
    \/ Disconnect
    \/ Connect
    \/ ConnectFails
    \/ ReadAssets
    \/ Resubscribe
    \/ ResubscribeFails

Next == Add \/ Remove \/ Reconnect \/ LinkEnds

(* tokio polls the feed when the stream has ended (the ping of every ten    *)
(* seconds makes sure that it does), and when the library has answered.     *)
Spec == Init /\ [][Next]_vars /\ WF_vars(Reconnect)

-------------------------------------------------------------------------------
TypeOK ==
    /\ watched \subseteq Assets /\ subscribed \subseteq Assets /\ live \subseteq Assets
    /\ link \in {"up", "closing", "broken", "down"}
    /\ conns \in Nat /\ news \in BOOLEAN
    /\ feedAt \in {"run", "connect", "read", "subscribe", "dead"}
    /\ onClose \in BOOLEAN
    /\ resubscribe \subseteq Assets
    /\ addAt \in {"idle", "send", "insert"}
    /\ adding \in IF addAt = "idle" THEN {NoAsset} ELSE Assets
    /\ removal \in [Assets -> {"none", "filter", "send", "remove"}]
    /\ overlapped \in BOOLEAN

(* Nothing is under way, the connection is up, and no change overlapped     *)
(* another of its asset or a reconnection.                                  *)
Quiet ==
    /\ ~overlapped
    /\ Steady /\ addAt = "idle" /\ \A a \in Assets : ~Removing(a)

(* Of an asset that an arb watches the server sends updates, once nothing   *)
(* is under way: "For every accepted pair the bot subscribes to both legs'  *)
(* live top-of-book" (README.md:73), and the removal of an asset is made    *)
(* "preserving live data for any other arb still on that market"            *)
(* (picker.rs:58).  An overlap may spoil it for good: a removal that has    *)
(* looked at subscribed_assets unsubscribes after find_arb has found the    *)
(* asset there (polymarket.rs:111 and 129), and an add whose command went   *)
(* to the connection that is gone comes after the copy (polymarket.rs:204). *)
WatchedIsLive == Quiet => watched \subseteq live

(* Whatever is subscribed on the connection is also in the list from which  *)
(* the next is set up (polymarket.rs:122 and 148), and the other way round. *)
TrackedIsSubscribed == Quiet => live = subscribed

(* A watched asset does not stay without updates: they come back with the   *)
(* next connection, the arb goes, or the task ends.                         *)
WatchedComesLive ==
    \A a \in Assets :
        a \in watched \ live ~>
            a \in live \/ a \notin watched \/ feedAt = "dead" \/ overlapped

(* Whatever overlaps, a connection that ends is replaced, or the task ends  *)
(* with an error (and main.rs then stops the bot), although a failure to    *)
(* subscribe again after a Close frame is only logged (polymarket.rs:224).  *)
ReconnectsOrEnds == link # "up" ~> link = "up" \/ feedAt = "dead"

(* "Markets are ingested from both platforms (HTTP backfill by tag at       *)
(* startup, then live WebSocket updates)" (README.md:55-56).                *)
(* run_polymarket subscribes to the news of markets once                    *)
(* (polymarket.rs:156-159); afterwards they come with a subscription of     *)
(* assets only, so that a connection whose feed found subscribed_assets     *)
(* empty (polymarket.rs:371) has none.  Whatever overlaps, they have come   *)
(* back by the second asset: only an add whose command went to the          *)
(* connection before, and which is remembered after the list was read, can  *)
(* be subscribed without them, and find_arb awaits one add at a time.       *)
NewsArrives == \A a, b \in subscribed : Steady /\ a # b => news
===============================================================================
