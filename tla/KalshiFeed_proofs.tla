--------------------------- MODULE KalshiFeed_proofs ---------------------------
(***************************************************************************)
(* Theorems about KalshiFeed, for every set of tickers, every number of    *)
(* attempts to reconnect, and however often the connection ends.           *)
(***************************************************************************)
EXTENDS KalshiFeed, SequenceTheorems, TLAPS

USE FeedAssumption

(* A subscribe leaves a list of subscriptions, and at most adds a reply.    *)
LEMMA SubscribeType ==
    ASSUME TypeOK, NEW channel \in Channels, NEW T \in SUBSET Tickers,
           Subscribe(channel, T)
    PROVE  server' \in Seq(Subscription) /\ replies' \in Seq(Nat)
<1>1. [channel |-> channel, tickers |-> T] \in Subscription
  BY DEF Subscription
<1>2. server \in Seq(Subscription) /\ replies \in Seq(Nat) /\ Len(server) + 1 \in Nat
  BY DEF TypeOK
<1>3. CASE link = "up"
  <2>1. /\ server' = Append(server, [channel |-> channel, tickers |-> T])
        /\ replies' = Append(replies, Len(server) + 1)
    BY <1>3 DEF Subscribe
  <2>2. server' \in Seq(Subscription)
    BY <1>1, <1>2, <2>1
  <2>3. replies' \in Seq(Nat)
    BY <1>2, <2>1
  <2>. QED
    BY <2>2, <2>3
<1>4. CASE link # "up"
  BY <1>2, <1>4 DEF Subscribe
<1>. QED
  BY <1>3, <1>4

(* An update keeps the number of subscriptions and their channels.          *)
LEMMA UpdateMarketsType ==
    ASSUME TypeOK, NEW sid, NEW T,
           Known(sid, "orderbook_delta") => T \in SUBSET Tickers,
           UpdateMarkets(sid, T)
    PROVE  /\ server' \in Seq(Subscription) /\ replies' = replies
           /\ Len(server') = Len(server)
           /\ \A n \in 1..Len(server) : server'[n].channel = server[n].channel
<1>1. server \in Seq(Subscription)
  BY DEF TypeOK
<1>2. CASE link = "up" /\ Known(sid, "orderbook_delta")
  <2>1. sid.n \in 1..Len(server) /\ T \in SUBSET Tickers
    BY <1>2 DEF Known, Subs
  <2>2. server[sid.n] \in Subscription
    BY <1>1, <2>1
  <2>3. [server[sid.n] EXCEPT !.tickers = T] \in Subscription
    BY <2>1, <2>2 DEF Subscription
  <2>4. server' = [server EXCEPT ![sid.n] = [server[sid.n] EXCEPT !.tickers = T]]
    BY <1>2 DEF UpdateMarkets
  <2>5. [server[sid.n] EXCEPT !.tickers = T].channel = server[sid.n].channel
    BY <2>2 DEF Subscription
  <2>6. server' \in Seq(Subscription) /\ Len(server') = Len(server)
    BY <1>1, <2>1, <2>3, <2>4
  <2>7. \A n \in 1..Len(server) : server'[n].channel = server[n].channel
    BY <1>1, <2>1, <2>4, <2>5
  <2>. QED
    BY <2>6, <2>7 DEF UpdateMarkets
<1>3. CASE ~(link = "up" /\ Known(sid, "orderbook_delta"))
  BY <1>1, <1>3 DEF UpdateMarkets
<1>. QED
  BY <1>2, <1>3

(* The tickers of a known subscription are tickers.                         *)
LEMMA KnownTickers ==
    ASSUME TypeOK, NEW sid, Known(sid, "orderbook_delta")
    PROVE  server[sid.n].tickers \subseteq Tickers
<1>1. sid.n \in 1..Len(server) /\ server \in Seq(Subscription)
  BY DEF Known, Subs, TypeOK
<1>2. server[sid.n] \in Subscription
  BY <1>1
<1>. QED
  BY <1>2 DEF Subscription

-------------------------------------------------------------------------------
(* TypeOK, in two parts: what PickerComms and the removals hold, and the    *)
(* rest.                                                                    *)
AddingType == [at : {"idle", "send", "insert"}, ticker : Tickers \cup {NoTicker},
               sid : Sid \cup {NoSid}]

RemovalType == [at : {"none", "remove", "sids", "orderbook"}, sid : Sid \cup {NoSid}]

LEMMA IdleHasType == Idle \in AddingType /\ Idle.at = "idle" /\ NoRemoval \in RemovalType
                     /\ NoRemoval.at = "none"
BY DEF Idle, AddingType, NoRemoval, RemovalType

(* The steps of PickerComms keep the types.                                 *)
LEMMA AddKeepsType == TypeOK /\ Add => TypeOK'
<1> SUFFICES ASSUME TypeOK, Add PROVE TypeOK'
  OBVIOUS
<1>a. adding \in AddingType /\ removal \in [Tickers -> RemovalType]
  BY DEF TypeOK, AddingType, RemovalType
<1>1. CASE AddSend
  <2>1. adding' = [adding EXCEPT !.at = "insert"] /\ adding.at = "send"
    BY <1>1 DEF AddSend
  <2>2. adding' \in AddingType /\ adding'.ticker = adding.ticker /\ adding.ticker \in Tickers
    BY <1>a, <2>1 DEF AddingType, TypeOK
  <2>3. server' \in Seq(Subscription) /\ replies' \in Seq(Nat)
    <3>1. CASE adding.sid = NoSid
      <4>1. Subscribe("orderbook_delta", {adding.ticker})
        BY <1>1, <3>1 DEF AddSend
      <4>. QED
        BY <2>2, <4>1, SubscribeType DEF Channels
    <3>2. CASE adding.sid # NoSid
      <4> DEFINE T == server[adding.sid.n].tickers \cup {adding.ticker}
      <4>1. UpdateMarkets(adding.sid, T)
        BY <1>1, <3>2 DEF AddSend
      <4>2. Known(adding.sid, "orderbook_delta") => T \in SUBSET Tickers
        BY <2>2, KnownTickers
      <4>3. replies \in Seq(Nat)
        BY DEF TypeOK
      <4> HIDE DEF T
      <4>. QED
        BY <4>1, <4>2, <4>3, UpdateMarketsType
    <3>. QED
      BY <3>1, <3>2
  <2>4. UNCHANGED <<watched, overtaken, subscribed, tickerSid, orderbookSid, link, conn, feedAt, attempt,
                    onClose, assets, removal>>
    BY <1>1 DEF AddSend, sids, feed
  <2>. QED
    BY <2>2, <2>3, <2>4 DEF TypeOK, AddingType
<1>2. CASE AddFails
  <2>1. UNCHANGED <<watched, overtaken, subscribed, sids, wire, feed, removal>> /\ adding' = Idle
    BY <1>2 DEF AddFails
  <2>. QED
    BY <2>1, IdleHasType DEF TypeOK, AddingType, sids, wire, feed
<1>3. CASE AddInsert
  <2>1. adding.ticker \in Tickers
    BY <1>3 DEF AddInsert, TypeOK
  <2>2. /\ UNCHANGED <<sids, wire, feed, removal>> /\ adding' = Idle
        /\ subscribed' \subseteq Tickers /\ watched' \subseteq Tickers /\ overtaken' \subseteq Tickers
    BY <1>3, <2>1 DEF AddInsert, Register, TypeOK
  <2>. QED
    BY <2>2, IdleHasType DEF TypeOK, AddingType, sids, wire, feed
<1>4. ASSUME NEW t \in Tickers, AddKnown(t) PROVE TypeOK'
  <2>1. /\ UNCHANGED <<adding, subscribed, sids, wire, feed, removal>>
        /\ watched' \subseteq Tickers /\ overtaken' \subseteq Tickers
    BY <1>4 DEF AddKnown, Register, TypeOK
  <2>. QED
    BY <2>1 DEF TypeOK, sids, wire, feed
<1>5. ASSUME NEW t \in Tickers, AddStart(t) PROVE TypeOK'
  <2>1. /\ UNCHANGED <<watched, overtaken, subscribed, sids, wire, feed, removal>>
        /\ adding' = [at |-> "send", ticker |-> t, sid |-> orderbookSid]
    BY <1>5 DEF AddStart
  <2>2. adding' \in AddingType /\ adding'.ticker \in Tickers
    BY <2>1 DEF AddingType, TypeOK
  <2>. QED
    BY <2>1, <2>2 DEF TypeOK, AddingType, sids, wire, feed
<1>. QED
  BY <1>1, <1>2, <1>3, <1>4, <1>5 DEF Add

(* So do those of the removals.                                             *)
LEMMA RemoveKeepsType == TypeOK /\ Remove => TypeOK'
<1> SUFFICES ASSUME TypeOK, NEW t \in Tickers,
                    Evict(t) \/ DelRemove(t) \/ DelReadSids(t) \/ DelOrderbook(t)
             PROVE  TypeOK'
  BY DEF Remove
<1>1. removal \in [Tickers -> RemovalType] /\ removal[t] \in RemovalType
  BY DEF TypeOK, RemovalType
<1>2. \E r \in RemovalType : removal' = [removal EXCEPT ![t] = r]
  <2>1. CASE DelReadSids(t)
    <3>1. [at |-> "orderbook", sid |-> orderbookSid] \in RemovalType
      BY DEF TypeOK, RemovalType
    <3>. QED
      BY <2>1, <3>1 DEF DelReadSids
  <2>2. CASE DelOrderbook(t)
    BY <2>2, IdleHasType DEF DelOrderbook
  <2>3. CASE Evict(t) \/ DelRemove(t)
    <3>1. PICK at \in {"remove", "sids"} : removal' = [removal EXCEPT ![t].at = at]
      BY <2>3 DEF Evict, DelRemove
    <3>2. [removal[t] EXCEPT !.at = at] \in RemovalType
      BY <1>1, <3>1 DEF RemovalType
    <3>. QED
      BY <3>1, <3>2
  <2>. QED
    BY <2>1, <2>2, <2>3
<1>3. removal' \in [Tickers -> RemovalType]
  BY <1>1, <1>2
<1>4. server' \in Seq(Subscription) /\ replies' = replies
  <2>1. CASE DelOrderbook(t)
    <3> DEFINE sid == removal[t].sid
               T == server[sid.n].tickers \ {t}
    <3>1. UpdateMarkets(sid, T)
      BY <2>1 DEF DelOrderbook
    <3>2. Known(sid, "orderbook_delta") => T \in SUBSET Tickers
      BY KnownTickers
    <3> HIDE DEF sid, T
    <3>. QED
      BY <3>1, <3>2, UpdateMarketsType
  <2>. QED
    BY <2>1 DEF Evict, DelRemove, DelReadSids, wire, TypeOK
<1>5. /\ watched' \subseteq watched /\ overtaken' \subseteq overtaken /\ subscribed' \subseteq subscribed
      /\ UNCHANGED <<adding, tickerSid, orderbookSid, link, conn, feedAt, attempt, onClose, assets>>
  BY DEF Evict, DelRemove, DelReadSids, DelOrderbook, picker, sids, wire, feed
<1>. QED
  BY <1>3, <1>4, <1>5 DEF TypeOK, RemovalType

(* The feed's steps that write nothing to the connection.                   *)
LEMMA FeedKeepsType ==
    TypeOK /\ (Disconnect \/ Connect \/ ConnectFails \/ LifecycleFails \/ LinkEnds) => TypeOK'
<1> SUFFICES ASSUME TypeOK,
                    Disconnect \/ Connect \/ ConnectFails \/ LifecycleFails \/ LinkEnds
             PROVE  TypeOK'
  OBVIOUS
<1>1. UNCHANGED <<watched, overtaken, subscribed, adding, removal>>
  BY DEF Disconnect, Connect, ConnectFails, LifecycleFails, LinkEnds, picker
<1>2. /\ tickerSid' \in {tickerSid, NoSid} /\ orderbookSid' \in {orderbookSid, NoSid}
      /\ link' \in {"up", "closing", "broken", "down"} /\ conn' \in Nat
  BY DEF Disconnect, Connect, ConnectFails, LifecycleFails, LinkEnds, sids, wire, TypeOK
<1>3. server' \in {server, <<>>} /\ replies' \in {replies, <<>>}
  BY DEF Disconnect, Connect, ConnectFails, LifecycleFails, LinkEnds, wire
<1>4. server' \in Seq(Subscription) /\ replies' \in Seq(Nat)
  <2>1. server \in Seq(Subscription) /\ replies \in Seq(Nat)
    BY DEF TypeOK
  <2>2. <<>> \in Seq(Subscription) /\ <<>> \in Seq(Nat)
    OBVIOUS
  <2>. QED
    BY <1>3, <2>1, <2>2
<1>5. /\ feedAt' \in {"run", "backoff", "lifecycle", "ticker", "orderbook", "dead"}
      /\ onClose' \in BOOLEAN /\ assets' \subseteq Tickers
  BY DEF Disconnect, Connect, ConnectFails, LifecycleFails, LinkEnds, GiveUp, Return, feed, TypeOK
<1>6. attempt' \in 0..MaxAttempts
  BY DEF Disconnect, Connect, ConnectFails, LifecycleFails, LinkEnds, GiveUp, Return, feed, TypeOK
<1>. QED
  BY <1>1, <1>2, <1>4, <1>5, <1>6 DEF TypeOK

(* Those that subscribe again.                                              *)
LEMMA ResubscribeKeepsType ==
    TypeOK /\ (ResubscribeLifecycle \/ ResubscribeTicker \/ ResubscribeOrderbook) => TypeOK'
<1> SUFFICES ASSUME TypeOK, ResubscribeLifecycle \/ ResubscribeTicker \/ ResubscribeOrderbook
             PROVE  TypeOK'
  OBVIOUS
<1>1. \E channel \in Channels, T \in SUBSET Tickers : Subscribe(channel, T)
  <2>1. assets \in SUBSET Tickers
    BY DEF TypeOK
  <2>2. {"market_lifecycle_v2", "ticker", "orderbook_delta"} \subseteq Channels
    BY DEF Channels
  <2>. QED
    BY <2>1, <2>2 DEF ResubscribeLifecycle, ResubscribeTicker, ResubscribeOrderbook
<1>2. server' \in Seq(Subscription) /\ replies' \in Seq(Nat)
  BY <1>1, SubscribeType
<1>3. /\ UNCHANGED <<watched, overtaken, subscribed, adding, removal, tickerSid, orderbookSid, link, conn>>
      /\ feedAt' \in {"run", "ticker", "orderbook"}
      /\ attempt' \in {attempt, 0} /\ onClose' \in {onClose, FALSE} /\ assets' \in {assets, {}}
  BY DEF ResubscribeLifecycle, ResubscribeTicker, ResubscribeOrderbook, Return, picker, sids
<1>4. attempt' \in 0..MaxAttempts
  BY <1>3 DEF TypeOK
<1>5. onClose' \in BOOLEAN
  BY <1>3 DEF TypeOK
<1>6. assets' \subseteq Tickers
  BY <1>3 DEF TypeOK
<1>7. feedAt' \in {"run", "backoff", "lifecycle", "ticker", "orderbook", "dead"}
  BY <1>3
<1>. QED
  BY <1>2, <1>3, <1>4, <1>5, <1>6, <1>7 DEF TypeOK

(* And the one that reads an answer.                                        *)
LEMMA ReadReplyKeepsType == TypeOK /\ ReadReply => TypeOK'
<1> SUFFICES ASSUME TypeOK, ReadReply PROVE TypeOK'
  OBVIOUS
<1> DEFINE sid == [conn |-> conn, n |-> Head(replies)]
<1>1. replies \in Seq(Nat) /\ replies # <<>>
  BY DEF TypeOK, ReadReply
<1>2. Head(replies) \in Nat /\ Tail(replies) \in Seq(Nat)
  BY <1>1
<1>3. sid \in Sid
  BY <1>2 DEF TypeOK, Sid
<1>4. tickerSid' \in {sid, tickerSid} /\ orderbookSid' \in {sid, orderbookSid}
  BY DEF ReadReply, Keep
<1>5. UNCHANGED <<picker, subscribed, link, conn, server, feed, removal>> /\ replies' = Tail(replies)
  BY DEF ReadReply
<1> HIDE DEF sid
<1>. QED
  BY <1>2, <1>3, <1>4, <1>5 DEF TypeOK, picker, feed

LEMMA InitHasType == Init => TypeOK
<1> SUFFICES ASSUME Init PROVE TypeOK
  OBVIOUS
<1>1. server \in Seq(Subscription) /\ replies \in Seq(Nat)
  BY DEF Init, Subscription, Channels
<1>2. adding \in AddingType /\ adding.at = "idle" /\ removal \in [Tickers -> RemovalType]
  BY IdleHasType DEF Init
<1>3. /\ watched \subseteq Tickers /\ overtaken \subseteq Tickers /\ subscribed \subseteq Tickers /\ assets \subseteq Tickers
      /\ attempt \in 0..MaxAttempts
  BY DEF Init
<1>. QED
  BY <1>1, <1>2, <1>3 DEF Init, TypeOK, AddingType, RemovalType

LEMMA NextKeepsType == TypeOK /\ [Next]_vars => TypeOK'
<1>1. TypeOK /\ UNCHANGED vars => TypeOK'
  BY DEF TypeOK, vars, picker, sids, wire, feed
<1>. QED
  BY <1>1, AddKeepsType, RemoveKeepsType, FeedKeepsType, ResubscribeKeepsType,
     ReadReplyKeepsType DEF Next, Reconnect

(* The variables have their types.                                          *)
THEOREM TypeCorrect == Spec => []TypeOK
BY InitHasType, NextKeepsType, PTL DEF Spec

-------------------------------------------------------------------------------
(* While a connection is awaited no id is held, so its number can change.   *)
SidsInv ==
    /\ TypeOK
    /\ SidsAreCurrent
    /\ feedAt = "backoff" => tickerSid = NoSid /\ orderbookSid = NoSid

(* A connection keeps its subscriptions when others are added or changed.   *)
KeepsSubs ==
    /\ conn' = conn /\ Len(server) <= Len(server')
    /\ \A n \in 1..Len(server) : server'[n].channel = server[n].channel

LEMMA KeepsSubsKeepsKnown ==
    ASSUME TypeOK, TypeOK', KeepsSubs, UNCHANGED sids, SidsAreCurrent
    PROVE  SidsAreCurrent'
<1>1. ASSUME NEW sid, NEW channel, sid # NoSid, sid.conn = conn, sid.n \in Subs(channel)
      PROVE  sid.conn = conn' /\ sid.n \in 1..Len(server') /\ server'[sid.n].channel = channel
  <2>1. sid.n \in 1..Len(server) /\ server[sid.n].channel = channel
    BY <1>1 DEF Subs
  <2>2. Len(server) \in Nat /\ Len(server') \in Nat
    BY DEF TypeOK
  <2>3. sid.n \in 1..Len(server')
    BY <2>1, <2>2 DEF KeepsSubs
  <2>. QED
    BY <1>1, <2>1, <2>3 DEF KeepsSubs
<1>. QED
  BY <1>1 DEF SidsAreCurrent, Known, Subs, sids

LEMMA SubscribeKeepsSubs ==
    ASSUME TypeOK, NEW channel, NEW T, Subscribe(channel, T), conn' = conn
    PROVE  KeepsSubs
<1>1. server \in Seq(Subscription)
  BY DEF TypeOK
<1>2. CASE link = "up"
  <2> DEFINE new == [channel |-> channel, tickers |-> T]
  <2>1. server' = Append(server, new)
    BY <1>2 DEF Subscribe
  <2> HIDE DEF new
  <2>2. /\ Len(server) \in Nat /\ Len(server') = Len(server) + 1
        /\ \A n \in 1..Len(server) : server'[n] = server[n]
    <3>1. server \in Seq(Subscription \cup {new}) /\ new \in Subscription \cup {new}
      BY <1>1
    <3>. QED
      BY <2>1, <3>1, AppendProperties
  <2>. QED
    BY <2>2 DEF KeepsSubs
<1>3. CASE link # "up"
  BY <1>1, <1>3 DEF Subscribe, KeepsSubs
<1>. QED
  BY <1>2, <1>3

LEMMA UpdateKeepsSubs ==
    ASSUME TypeOK, NEW sid, NEW T, UpdateMarkets(sid, T), conn' = conn
    PROVE  KeepsSubs
<1>1. server \in Seq(Subscription) /\ Len(server) \in Nat
  BY DEF TypeOK
<1>2. CASE link = "up" /\ Known(sid, "orderbook_delta")
  <2>1. sid.n \in 1..Len(server)
    BY <1>2 DEF Known, Subs
  <2>2. server' = [server EXCEPT ![sid.n] = [server[sid.n] EXCEPT !.tickers = T]]
    BY <1>2 DEF UpdateMarkets
  <2>3. Len(server') = Len(server)
    BY <1>1, <2>2
  <2>4. server[sid.n] \in Subscription
    BY <1>1, <2>1
  <2>5. [server[sid.n] EXCEPT !.tickers = T].channel = server[sid.n].channel
    BY <2>4 DEF Subscription
  <2>6. \A n \in 1..Len(server) : server'[n].channel = server[n].channel
    BY <1>1, <2>1, <2>2, <2>5
  <2>. QED
    BY <1>1, <2>3, <2>6 DEF KeepsSubs
<1>3. CASE ~(link = "up" /\ Known(sid, "orderbook_delta"))
  <2>1. server' = server
    BY <1>3 DEF UpdateMarkets
  <2>. QED
    BY <1>1, <2>1 DEF KeepsSubs
<1>. QED
  BY <1>2, <1>3

(* The steps that leave the ids alone.                                      *)
LEMMA OtherStepsKeepSids ==
    SidsInv /\ (Add \/ Remove \/ LinkEnds \/ ConnectFails \/ LifecycleFails
                \/ ResubscribeLifecycle \/ ResubscribeTicker \/ ResubscribeOrderbook)
    => SidsInv'
<1> SUFFICES ASSUME SidsInv,
                    Add \/ Remove \/ LinkEnds \/ ConnectFails \/ LifecycleFails
                    \/ ResubscribeLifecycle \/ ResubscribeTicker \/ ResubscribeOrderbook
             PROVE  SidsInv'
  OBVIOUS
<1>1. TypeOK /\ TypeOK'
  BY NextKeepsType DEF SidsInv, Next, Reconnect
<1>2. UNCHANGED sids /\ conn' = conn
  BY DEF Add, AddSend, AddFails, AddInsert, AddKnown, AddStart, Remove, Evict, DelRemove,
         DelReadSids, DelOrderbook, LinkEnds, ConnectFails, LifecycleFails,
         ResubscribeLifecycle, ResubscribeTicker, ResubscribeOrderbook, wire
<1>3. feedAt' = "backoff" => feedAt = "backoff"
  BY DEF Add, AddSend, AddFails, AddInsert, AddKnown, AddStart, Remove, Evict, DelRemove,
         DelReadSids, DelOrderbook, LinkEnds, ConnectFails, LifecycleFails,
         ResubscribeLifecycle, ResubscribeTicker, ResubscribeOrderbook, GiveUp, Return, feed
<1>4. KeepsSubs
  <2>1. CASE AddSend
    <3>1. CASE adding.sid = NoSid
      BY <1>1, <1>2, <2>1, <3>1, SubscribeKeepsSubs DEF AddSend
    <3>2. CASE adding.sid # NoSid
      BY <1>1, <1>2, <2>1, <3>2, UpdateKeepsSubs DEF AddSend
    <3>. QED
      BY <3>1, <3>2
  <2>2. ASSUME NEW t \in Tickers, DelOrderbook(t) PROVE KeepsSubs
    BY <1>1, <1>2, <2>2, UpdateKeepsSubs DEF DelOrderbook
  <2>3. CASE ResubscribeLifecycle \/ ResubscribeTicker \/ ResubscribeOrderbook
    BY <1>1, <1>2, <2>3, SubscribeKeepsSubs
    DEF ResubscribeLifecycle, ResubscribeTicker, ResubscribeOrderbook
  <2>4. server' = server => KeepsSubs
    <3>1. Len(server) \in Nat
      BY <1>1 DEF TypeOK
    <3>. QED
      BY <1>2, <3>1 DEF KeepsSubs
  <2>5. CASE \/ AddFails \/ AddInsert \/ LinkEnds \/ ConnectFails \/ LifecycleFails
             \/ \E t \in Tickers : AddKnown(t) \/ AddStart(t) \/ Evict(t) \/ DelRemove(t)
                                   \/ DelReadSids(t)
    BY <2>4, <2>5 DEF AddFails, AddInsert, AddKnown, AddStart, Evict, DelRemove, DelReadSids,
                      LinkEnds, ConnectFails, LifecycleFails, wire
  <2>. QED
    BY <2>1, <2>2, <2>3, <2>5 DEF Add, Remove
<1>. QED
  BY <1>1, <1>2, <1>3, <1>4, KeepsSubsKeepsKnown DEF SidsInv, sids

(* An id that is held is of a subscription of the connection in use.        *)
THEOREM SidsCurrent == Spec => []SidsAreCurrent
<1>1. Init => SidsInv
  BY InitHasType DEF Init, SidsInv, SidsAreCurrent
<1>2. SidsInv /\ [Next]_vars => SidsInv'
  <2> SUFFICES ASSUME SidsInv, [Next]_vars PROVE SidsInv'
    OBVIOUS
  <2>1. TypeOK /\ TypeOK'
    BY NextKeepsType DEF SidsInv
  <2>2. CASE ReadReply
    <3>1. /\ feedAt = "run" /\ UNCHANGED <<conn, server, feedAt>>
          /\ LET sid == [conn |-> conn, n |-> Head(replies)]
             IN  /\ tickerSid' = Keep(sid, "ticker", tickerSid)
                 /\ orderbookSid' = Keep(sid, "orderbook_delta", orderbookSid)
      BY <2>2 DEF ReadReply, feed
    <3>. QED
      BY <2>1, <3>1 DEF SidsInv, SidsAreCurrent, Known, Subs, Keep
  <2>3. CASE Disconnect
    BY <2>1, <2>3 DEF Disconnect, SidsInv, SidsAreCurrent
  <2>4. CASE Connect
    BY <2>1, <2>4 DEF Connect, SidsInv, SidsAreCurrent, sids
  <2>5. CASE UNCHANGED vars
    BY <2>1, <2>5 DEF vars, sids, wire, feed, SidsInv, SidsAreCurrent, Known, Subs
  <2>. QED
    BY <2>2, <2>3, <2>4, <2>5, OtherStepsKeepSids DEF Next, Reconnect
<1>3. SidsInv => SidsAreCurrent
  BY DEF SidsInv
<1>. QED
  BY <1>1, <1>2, <1>3, PTL DEF Spec

-------------------------------------------------------------------------------
(* Of a watched ticker whose removal is yet to come the last arb has been   *)
(* accepted since the eviction, which leaves the ticker unwatched.          *)
TrackedInv ==
    /\ TypeOK
    /\ OnlyOvertakenAreLost
    /\ \A t \in watched : Overtaken(t) => t \in overtaken

(* Whatever adds, removals and reconnections overlap, a watched ticker is   *)
(* in subscribed_assets unless it was accepted before a removal that was    *)
(* spawned earlier had taken it out.                                        *)
THEOREM LostByTheRace == Spec => []OnlyOvertakenAreLost
<1>1. Init => TrackedInv
  BY InitHasType DEF Init, TrackedInv, OnlyOvertakenAreLost
<1>2. TrackedInv /\ [Next]_vars => TrackedInv'
  <2> SUFFICES ASSUME TrackedInv, [Next]_vars PROVE TrackedInv'
    OBVIOUS
  <2>1. TypeOK /\ TypeOK'
    BY NextKeepsType DEF TrackedInv
  <2>a. removal \in [Tickers -> RemovalType]
    BY <2>1 DEF TypeOK, RemovalType
  <2>2. CASE AddSend \/ AddFails \/ \E t \in Tickers : AddStart(t)
    <3>1. UNCHANGED <<watched, overtaken, subscribed, removal>>
      BY <2>2 DEF AddSend, AddFails, AddStart
    <3>. QED
      BY <2>1, <3>1 DEF TrackedInv, OnlyOvertakenAreLost, Overtaken
  <2>3. ASSUME NEW t \in Tickers, Register(t), subscribed' = subscribed \cup {t},
               UNCHANGED removal
        PROVE  TrackedInv'
    <3>1. /\ watched' \subseteq watched \cup {t}
          /\ Overtaken(t) => overtaken' = overtaken \cup (watched' \cap {t})
          /\ ~Overtaken(t) => overtaken' = overtaken \ {t}
      BY <2>3 DEF Register
    <3>2. OnlyOvertakenAreLost'
      BY <2>3, <3>1 DEF TrackedInv, OnlyOvertakenAreLost
    <3>3. ASSUME NEW u \in watched', Overtaken(u)' PROVE u \in overtaken'
      BY <2>3, <3>1, <3>3 DEF TrackedInv, Overtaken
    <3>. QED
      BY <2>1, <3>2, <3>3 DEF TrackedInv
  <2>4. CASE AddInsert
    <3>1. adding.ticker \in Tickers
      BY <2>1, <2>4 DEF AddInsert, TypeOK
    <3>. QED
      BY <2>3, <2>4, <3>1 DEF AddInsert
  <2>5. ASSUME NEW t \in Tickers, AddKnown(t) PROVE TrackedInv'
    <3>1. subscribed' = subscribed \cup {t}
      BY <2>5 DEF AddKnown
    <3>. QED
      BY <2>3, <2>5, <3>1 DEF AddKnown
  <2>6. ASSUME NEW t \in Tickers, Evict(t) PROVE TrackedInv'
    <3>1. /\ watched' = watched \ {t} /\ overtaken' = overtaken \ {t} /\ UNCHANGED subscribed
          /\ \A u \in Tickers \ {t} : removal'[u] = removal[u]
      BY <2>a, <2>6 DEF Evict
    <3>2. watched' \subseteq Tickers
      BY <2>1 DEF TypeOK
    <3>. QED
      BY <2>1, <3>1, <3>2 DEF TrackedInv, OnlyOvertakenAreLost, Overtaken
  <2>7. ASSUME NEW t \in Tickers, DelRemove(t) \/ DelReadSids(t) \/ DelOrderbook(t)
        PROVE  TrackedInv'
    <3>1. /\ UNCHANGED <<watched, overtaken>>
          /\ subscribed' = subscribed \/ (Overtaken(t) /\ subscribed' = subscribed \ {t})
          /\ \A u \in Tickers \ {t} : removal'[u] = removal[u]
          /\ removal'[t].at # "remove"
      BY <2>a, <2>7, IdleHasType
      DEF DelRemove, DelReadSids, DelOrderbook, picker, Overtaken, RemovalType
    <3>2. watched \subseteq Tickers
      BY <2>1 DEF TypeOK
    <3>3. OnlyOvertakenAreLost'
      BY <3>1 DEF TrackedInv, OnlyOvertakenAreLost
    <3>4. \A u \in watched' : Overtaken(u)' => u \in overtaken'
      BY <3>1, <3>2 DEF TrackedInv, Overtaken
    <3>. QED
      BY <2>1, <3>3, <3>4 DEF TrackedInv
  <2>8. CASE ReadReply \/ Reconnect \/ LinkEnds \/ UNCHANGED vars
    <3>1. UNCHANGED <<watched, overtaken, subscribed, removal>>
      BY <2>8 DEF ReadReply, Reconnect, Disconnect, Connect, ConnectFails, ResubscribeLifecycle,
                  LifecycleFails, ResubscribeTicker, ResubscribeOrderbook, LinkEnds, vars, picker
    <3>. QED
      BY <2>1, <3>1 DEF TrackedInv, OnlyOvertakenAreLost, Overtaken
  <2>. QED
    BY <2>2, <2>4, <2>5, <2>6, <2>7, <2>8 DEF Next, Add, Remove
<1>3. TrackedInv => OnlyOvertakenAreLost
  BY DEF TrackedInv
<1>. QED
  BY <1>1, <1>2, <1>3, PTL DEF Spec
===============================================================================
