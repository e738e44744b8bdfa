------------------------------ MODULE KalshiFeed ------------------------------
(***************************************************************************)
(* The WebSocket feed of Kalshi (src/src/platforms/kalshi.rs) and the two  *)
(* kinds of tasks of src/src/picker.rs that change what it is subscribed   *)
(* to.  They run on different threads:                                     *)
(*   - the feed, the loop of run_kalshi, which reads the connection and    *)
(*     replaces it when it ends;                                           *)
(*   - PickerComms, which in find_arb awaits add_market_ticker and then    *)
(*     registers the arb;                                                  *)
(*   - one spawned task for every ticker that loses its last watcher,      *)
(*     which awaits del_market_ticker.                                     *)
(* They share the set subscribed_assets and two subscription ids, each     *)
(* behind a lock that is held for one access; a step is one such access or *)
(* one command written to the connection.                                  *)
(*                                                                         *)
(* External is the server: it numbers the subscriptions of a connection,   *)
(* answers each with its number, and forgets all when the connection goes. *)
(* A subscription to the ticker channel cannot be changed (kalshi.rs:32).  *)
(* A command written to a connection that is gone has no effect, and may   *)
(* or may not fail.                                                        *)
(***************************************************************************)
EXTENDS Integers, FiniteSets, Sequences

CONSTANTS
    Tickers,        \* the Kalshi markets
    MaxAttempts,    \* KALSHI_WS_MAX_RECONNECT_ATTEMPTS
    MaxConns,       \* bound on how often the connection ends
    MaxSubs,        \* bound on the subscriptions that the additions make of one
                    \* connection
    NoSid, NoTicker

ASSUME FeedAssumption ==
    /\ MaxAttempts \in Nat \ {0}
    /\ MaxConns \in Nat
    /\ MaxSubs \in Nat
    /\ NoSid \notin [conn : Nat, n : Nat]
    /\ NoTicker \notin Tickers

VARIABLES
    watched,        \* the tickers in the registry of the book
    subscribed,     \* subscribed_assets
    tickerSid,      \* ticker_sid
    orderbookSid,   \* orderbook_sid
    link,           \* the connection, as it really is
    conn,           \* how often it was replaced
    server,         \* the subscriptions of this connection, by number
    replies,        \* the SubscribedResponse messages not yet read
    feedAt,         \* the feed: where it is
    attempt,        \* the feed: the attempt to reconnect under way
    onClose,        \* the feed: reconnecting because of a Close frame?
    assets,         \* the feed: the tickers to subscribe again
    adding,         \* PickerComms: where add_market_ticker is
    removal,        \* ticker -> where its del_market_ticker is
    overtaken       \* the watched tickers of which the last arb was accepted
                    \* before a removal took them out (a history variable)

picker == <<watched, overtaken, adding>>
sids == <<tickerSid, orderbookSid>>
wire == <<link, conn, server, replies>>
feed == <<feedAt, attempt, onClose, assets>>
vars == <<picker, subscribed, sids, wire, feed, removal>>

-------------------------------------------------------------------------------
Channels == {"market_lifecycle_v2", "ticker", "orderbook_delta"}

Subscription == [channel : Channels, tickers : SUBSET Tickers]

Sid == [conn : Nat, n : Nat]

Idle == [at |-> "idle", ticker |-> NoTicker, sid |-> NoSid]

NoRemoval == [at |-> "none", sid |-> NoSid]

Subs(channel) == {n \in 1..Len(server) : server[n].channel = channel}

(* The id is of a subscription to the channel on this connection.           *)
Known(sid, channel) ==
    sid # NoSid /\ sid.conn = conn /\ sid.n \in Subs(channel)

(* The tickers whose updates reach the bot, which ignores orderbook_delta.  *)
Live == IF link = "up" THEN UNION {server[n].tickers : n \in Subs("ticker")} ELSE {}

(* run_kalshi has subscribed to both channels, with no market filter.       *)
Init ==
    /\ watched = {} /\ subscribed = {} /\ overtaken = {}
    /\ tickerSid = NoSid /\ orderbookSid = NoSid
    /\ link = "up" /\ conn = 0
    /\ server = <<[channel |-> "market_lifecycle_v2", tickers |-> Tickers],
                  [channel |-> "ticker", tickers |-> Tickers]>>
    /\ replies = <<1, 2>>
    /\ feedAt = "run" /\ attempt = 0 /\ onClose = FALSE /\ assets = {}
    /\ adding = Idle
    /\ removal = [t \in Tickers |-> NoRemoval]

-------------------------------------------------------------------------------
(* Commands to the server.                                                  *)

Subscribe(channel, T) ==
    IF link = "up"
    THEN /\ server' = Append(server, [channel |-> channel, tickers |-> T])
         /\ replies' = Append(replies, Len(server) + 1)
    ELSE UNCHANGED <<server, replies>>

(* add_markets and del_markets leave the tickers T in a subscription; one   *)
(* the server does not know is answered by an error, which is only logged.  *)
UpdateMarkets(sid, T) ==
    /\ server' = IF link = "up" /\ Known(sid, "orderbook_delta")
                 THEN [server EXCEPT ![sid.n].tickers = T]
                 ELSE server
    /\ UNCHANGED replies

-------------------------------------------------------------------------------
(* PickerComms: add_market_ticker for one leg, inside find_arb.             *)

(* A removal of the ticker is yet to take it out of subscribed_assets.      *)
Overtaken(t) == removal[t].at = "remove"

(* Then the arb is registered, unless its other leg failed.                 *)
Register(t) ==
    /\ watched' \in {watched, watched \cup {t}}
    /\ overtaken' = IF Overtaken(t) THEN overtaken \cup (watched' \cap {t})
                    ELSE overtaken \ {t}

(* The ticker is subscribed already: nothing is sent.                       *)
AddKnown(t) ==
    /\ adding.at = "idle"
    /\ t \in subscribed
    /\ Register(t)
    /\ UNCHANGED <<adding, subscribed, sids, wire, feed, removal>>

AddStart(t) ==
    /\ adding.at = "idle"
    /\ t \notin subscribed
    /\ orderbookSid = NoSid => Cardinality(Subs("orderbook_delta")) < MaxSubs
    /\ adding' = [at |-> "send", ticker |-> t, sid |-> orderbookSid]
    /\ UNCHANGED <<watched, overtaken, subscribed, sids, wire, feed, removal>>

(* `subscribe` if no id was known, else `add_markets`.                      *)
AddSend ==
    /\ adding.at = "send"
    /\ link # "down"
    /\ IF adding.sid = NoSid
       THEN Subscribe("orderbook_delta", {adding.ticker})
       ELSE UpdateMarkets(adding.sid, server[adding.sid.n].tickers \cup {adding.ticker})
    /\ adding' = [adding EXCEPT !.at = "insert"]
    /\ UNCHANGED <<watched, overtaken, subscribed, sids, link, conn, feed, removal>>

(* The leg counts as failed and the arb is dropped.                         *)
AddFails ==
    /\ adding.at = "send"
    /\ link # "up"
    /\ adding' = Idle
    /\ UNCHANGED <<watched, overtaken, subscribed, sids, wire, feed, removal>>

(* Mistake: register the arb and do not remember the ticker.                *)
AddForgets ==
    /\ adding.at = "insert"
    /\ Register(adding.ticker)
    /\ adding' = Idle
    /\ UNCHANGED <<subscribed, sids, wire, feed, removal>>

AddInsert ==
    /\ adding.at = "insert"
    /\ subscribed' = subscribed \cup {adding.ticker}
    /\ Register(adding.ticker)
    /\ adding' = Idle
    /\ UNCHANGED <<sids, wire, feed, removal>>

-------------------------------------------------------------------------------
(* unregister_arb evicts a ticker, and the task it spawns.                  *)

(* At most one removal of a ticker is under way: a bound of the model.      *)
Evict(t) ==
    /\ adding.at = "idle"
    /\ t \in watched
    /\ removal[t].at = "none"
    /\ watched' = watched \ {t} /\ overtaken' = overtaken \ {t}
    /\ removal' = [removal EXCEPT ![t].at = "remove"]
    /\ UNCHANGED <<adding, subscribed, sids, wire, feed>>

DelRemove(t) ==
    /\ removal[t].at = "remove"
    /\ subscribed' = subscribed \ {t}
    /\ removal' = [removal EXCEPT ![t].at = "sids"]
    /\ UNCHANGED <<picker, sids, wire, feed>>

(* The command for the ticker channel comes first, and does nothing: the    *)
(* server refuses it.  Only the id of orderbook_delta is kept here.         *)
DelReadSids(t) ==
    /\ removal[t].at = "sids"
    /\ removal' = [removal EXCEPT ![t] = [at |-> "orderbook", sid |-> orderbookSid]]
    /\ UNCHANGED <<picker, subscribed, sids, wire, feed>>

(* A failure of either command is only logged.                              *)
DelOrderbook(t) ==
    /\ removal[t].at = "orderbook"
    /\ UpdateMarkets(removal[t].sid, server[removal[t].sid.n].tickers \ {t})
    /\ removal' = [removal EXCEPT ![t] = NoRemoval]
    /\ UNCHANGED <<picker, subscribed, sids, link, conn, feed>>

-------------------------------------------------------------------------------
(* The feed.                                                                *)

(* The id of a subscription is kept unless one of the channel is held.      *)
Keep(sid, channel, held) ==
    IF held = NoSid /\ sid.n \in Subs(channel) THEN sid ELSE held

ReadReply ==
    /\ feedAt = "run" /\ replies # <<>>
    /\ LET sid == [conn |-> conn, n |-> Head(replies)]
       IN  /\ tickerSid' = Keep(sid, "ticker", tickerSid)
           /\ orderbookSid' = Keep(sid, "orderbook_delta", orderbookSid)
    /\ replies' = Tail(replies)
    /\ UNCHANGED <<picker, subscribed, link, conn, server, feed, removal>>

(* Mistake: keep the ids of the connection that is given up.                *)
DisconnectKeepSids ==
    /\ feedAt = "run" /\ link # "up"
    /\ link' = "down" /\ server' = <<>> /\ replies' = <<>>
    /\ assets' = subscribed
    /\ feedAt' = "backoff" /\ attempt' = 1 /\ onClose' = (link = "closing")
    /\ UNCHANGED <<picker, subscribed, sids, conn, removal>>

(* A Close frame, or the end of the stream, or a transport error:           *)
(* reconnect_ws up to its first back-off.                                   *)
Disconnect ==
    /\ feedAt = "run" /\ link # "up"
    /\ link' = "down" /\ server' = <<>> /\ replies' = <<>>
    /\ tickerSid' = NoSid /\ orderbookSid' = NoSid
    /\ assets' = subscribed
    /\ feedAt' = "backoff" /\ attempt' = 1 /\ onClose' = (link = "closing")
    /\ UNCHANGED <<picker, subscribed, conn, removal>>

Connect ==
    /\ feedAt = "backoff"
    /\ link' = "up" /\ conn' = conn + 1
    /\ feedAt' = "lifecycle"
    /\ UNCHANGED <<picker, subscribed, sids, server, replies, attempt, onClose,
                   assets, removal>>

(* reconnect_ws returns, and forgets its list.                              *)
Return(point) ==
    /\ feedAt' = point
    /\ attempt' = 0 /\ onClose' = FALSE /\ assets' = {}

(* Mistake: log the error whatever it was that ended the connection.        *)
GiveUpNever == Return("run")

(* An error of reconnect_ws ends the task, but for a Close frame, where it  *)
(* is only logged, and the loop goes on to read a stream that has ended.    *)
GiveUp == Return(IF onClose THEN "run" ELSE "dead")

(* Mistake: one attempt too many.                                           *)
ConnectFailsOnceMore ==
    /\ feedAt = "backoff"
    /\ IF attempt <= MaxAttempts
       THEN attempt' = attempt + 1 /\ UNCHANGED <<feedAt, onClose, assets>>
       ELSE GiveUp
    /\ UNCHANGED <<picker, subscribed, sids, wire, removal>>

ConnectFails ==
    /\ feedAt = "backoff"
    /\ IF attempt < MaxAttempts
       THEN attempt' = attempt + 1 /\ UNCHANGED <<feedAt, onClose, assets>>
       ELSE GiveUp
    /\ UNCHANGED <<picker, subscribed, sids, wire, removal>>

ResubscribeLifecycle ==
    /\ feedAt = "lifecycle"
    /\ Subscribe("market_lifecycle_v2", Tickers)
    /\ IF assets = {}
       THEN Return("run")
       ELSE feedAt' = "ticker" /\ UNCHANGED <<attempt, onClose, assets>>
    /\ UNCHANGED <<picker, subscribed, sids, link, conn, removal>>

LifecycleFails ==
    /\ feedAt = "lifecycle" /\ link # "up"
    /\ GiveUp
    /\ UNCHANGED <<picker, subscribed, sids, wire, removal>>

(* A failure of these two is only logged.                                   *)
ResubscribeTicker ==
    /\ feedAt = "ticker"
    /\ Subscribe("ticker", assets)
    /\ feedAt' = "orderbook"
    /\ UNCHANGED <<picker, subscribed, sids, link, conn, attempt, onClose, assets,
                   removal>>

ResubscribeOrderbook ==
    /\ feedAt = "orderbook"
    /\ Subscribe("orderbook_delta", assets)
    /\ Return("run")
    /\ UNCHANGED <<picker, subscribed, sids, link, conn, removal>>

(* The connection ends, with a Close frame or without.                      *)
LinkEnds ==
    /\ link = "up" /\ conn < MaxConns
    /\ link' \in {"closing", "broken"}
    /\ UNCHANGED <<picker, subscribed, sids, conn, server, replies, feed, removal>>

-------------------------------------------------------------------------------
Add == AddSend \/ AddFails \/ AddInsert \/ \E t \in Tickers : AddKnown(t) \/ AddStart(t)

Remove ==
    \E t \in Tickers :
        Evict(t) \/ DelRemove(t) \/ DelReadSids(t) \/ DelOrderbook(t)

Reconnect ==
    \/ Disconnect
    \/ Connect
    \/ ConnectFails
    \/ ResubscribeLifecycle
    \/ LifecycleFails
    \/ ResubscribeTicker
    \/ ResubscribeOrderbook

Next == Add \/ Remove \/ ReadReply \/ Reconnect \/ LinkEnds

(* tokio polls the feed when the stream has something for it or has ended,  *)
(* and when a back-off is over or a command written.                        *)
Spec == Init /\ [][Next]_vars /\ WF_vars(ReadReply) /\ WF_vars(Reconnect)

-------------------------------------------------------------------------------
TypeOK ==
    /\ watched \subseteq Tickers /\ subscribed \subseteq Tickers /\ overtaken \subseteq Tickers
    /\ tickerSid \in Sid \cup {NoSid} /\ orderbookSid \in Sid \cup {NoSid}
    /\ link \in {"up", "closing", "broken", "down"}
    /\ conn \in Nat
    /\ server \in Seq(Subscription)
    /\ replies \in Seq(Nat)
    /\ feedAt \in {"run", "backoff", "lifecycle", "ticker", "orderbook", "dead"}
    /\ attempt \in 0..MaxAttempts
    /\ onClose \in BOOLEAN
    /\ assets \subseteq Tickers
    /\ adding \in [at : {"idle", "send", "insert"}, ticker : Tickers \cup {NoTicker},
                   sid : Sid \cup {NoSid}]
    /\ adding.at # "idle" => adding.ticker \in Tickers
    /\ removal \in [Tickers -> [at : {"none", "remove", "sids", "orderbook"},
                                sid : Sid \cup {NoSid}]]

(* An id that is held names a subscription of its own channel on the        *)
(* connection in use, never one of a connection given up: no answer to an   *)
(* old subscribe is read after the reset (kalshi.rs:428-429), and none      *)
(* comes before the reset of the next.                                      *)
SidsAreCurrent ==
    /\ tickerSid # NoSid => Known(tickerSid, "ticker")
    /\ orderbookSid # NoSid => Known(orderbookSid, "orderbook_delta")

(* A watched ticker is missing from subscribed_assets, the list that a      *)
(* reconnection works from (kalshi.rs:431), only if it was accepted again   *)
(* between its eviction and the access with which the spawned removal takes *)
(* it out (kalshi.rs:150): an arb accepted at any other point of a removal, *)
(* or of a reconnection, has the ticker in the list (kalshi.rs:134-147), as *)
(* has one accepted again later.                                            *)
OnlyOvertakenAreLost == watched \ subscribed \subseteq overtaken

(* A connection that ends is replaced, or the task ends with an error (and  *)
(* main.rs then stops the bot), although a failure after a Close frame is   *)
(* only logged (kalshi.rs:232).                                             *)
ReconnectsOrEnds == link # "up" ~> link = "up" \/ feedAt = "dead"

-------------------------------------------------------------------------------
(* Nothing is under way, and the connection is up.                          *)
Quiet ==
    /\ feedAt = "run" /\ link = "up" /\ replies = <<>>
    /\ adding.at = "idle" /\ \A t \in Tickers : removal[t].at = "none"

(* kalshi.rs:33-34, "We subscribe with no market filter so all ticker       *)
(* updates flow in automatically": updates of every tracked ticker reach    *)
(* the bot.  It fails after a reconnection, which subscribes to the tickers *)
(* tracked then (or to none), and nothing widens that subscription.         *)
TrackedIsLive == Quiet => subscribed \subseteq Live
===============================================================================
