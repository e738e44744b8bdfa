# Verification of the degenerate trading bot

TLA+ models of the bot (`src/`, Rust) and of its dashboard (`web/`, Go), the TLC instances that
check them, and proofs checked by TLAPS. Paths below are those of the repository.

The bot watches pairs of markets on Kalshi and Polymarket that resolve on the same event. When
owning one side of each costs less than what they will pay, it buys both ("an arb"). What must
not happen is easy to say: an arb is not executed twice at once, not right after it failed, not
when a market is about to close; a leg is not bought without the other; the money spent is the
money that is there. What makes it hard is that every one of these rests on state shared by tasks
on several threads, on quotes that arrive late, and on exchanges that answer badly.

## 1. Inventory

| Component | State | Operations | Interacts with |
|---|---|---|---|
| **Book** (`src/picker.rs`, `mod book`) | `registry`: market → arbs; `records`: arb → watch | `register_arb`, `unregister_arb` | changed by PickerComms only |
| **PickerComms** (`src/picker.rs`, `mod comms`) | the book, `top_of_book`; shares `in_flight`, `cooldown` | commands (find, delete, list arbs), WS events (prices, resolution, lifecycle), HTTP seeding, `evaluate_arb` | feeds (add/del ticker), `execution_tx`, gRPC channels |
| **PickerExec** (`src/picker.rs`, `mod exec`) | `BalanceTracker`; shares `in_flight`, `cooldown` | `handle_execution_request`, `make_fak_order`, `hedge_sell_order`, `refresh_and_set_balances` | `execution_rx`, exchanges over HTTP, gRPC channel |
| **Kalshi feed** (`src/platforms/kalshi.rs`) | `subscribed_assets`, the ids of two subscriptions, one WS connection | add/del ticker, event loop, reconnect, backfill | ws channel, vector store, gRPC channel |
| **Polymarket feed** (`src/platforms/polymarket.rs`) | `subscribed_assets`, one WS connection of the client library | add/del asset, event loop, reconnect, backfill | the same |
| **gRPC link** (`src/grpc.rs`) | one session, `first_connect` | connect, retry, copy both ways | two bounded channels, the dashboard |
| **gRPC server** (`web/server/grpc.go`) | one channel of commands for all streams | `Esu`, `ProcessEbo` | handlers, database |
| **Dashboard** (`web/server/handlers.go`, `app.go`, repository) | status of hits, arbs, orders in Postgres | confirm and run, stop, delete, cron | gRPC server |
| **Discovery** (`src/vector_store.rs`, backfills) | points in Qdrant | `search_and_insert`, deletion of old points | exchanges, gRPC channel |
| **Supervision** (`src/main.rs`, `src/app.rs`, `web/main.go`) | cancellation token, task handles | start, join, shut down | all |
| Views, assets, generated code | none | | |

What makes each correct:

* *Book*: the two maps index the same arbs; a market is evicted when, and only when, its last
  watcher goes, whatever arbs share it.
* *PickerComms and PickerExec together*: at most one execution of an arb at a time; a cooldown is
  respected; both only by the order in which two locks and a channel are used. The comms loop
  always comes back to its messages, and every execution ends.
* *PickerComms*: no Kalshi quote outlives the interest in it; no arb is passed over as in flight for
  good, but by one race.
* *PickerExec*: sizes rest on balances that may be old; a trade costs what it was sized for, up to
  rounding; a hedge sells the excess and, up to rounding, not more.
* *Feeds*: an arb that is registered is live on both markets, or will be, through reconnections
  and through removals that run in the background.
* *gRPC link and server*: neither loop waits for the other for ever; a command or a report is not
  lost, repeated or put in another order but by the end of the session that has taken it.
* *Dashboard*: the database says "running" of an arb exactly when the bot watches it, once nothing
  is under way; nothing runs that the user never accepted.
* *Discovery*: two markets that match are found, whichever is stored first; no market falls between
  two backfills.
* *Supervision*: one task's end ends all.

The hard behaviours, each at its line, are the `hazards` of `PROJECT.json`.

## 2. Plan

| Order | Module | Content | State |
|---|---|---|---|
| 1 | `Book` | the two indexes and their operations | done |
| 2 | `ArbGate` | abstract: open → pending → (cooling) → open, per arb | done |
| 3 | `Picker` (extends `Book`, implements `ArbGate`) | both tasks, the channel, the shared maps | done |
| 4 | `Picker_proofs` | types, indexes, one execution per arb, cooldown, what bars an arb for good, implementation of the gate | done |
| 5 | `Execution`, `Execution_proofs` | the money of one executor | done |
| 6 | `KalshiFeed`, `PolyFeed` and their proofs | subscriptions of either platform against the book that asks for them, reconnects, removals in the background | done |
| 7 | `LossyPipe`, `GrpcLink` (implements `LossyPipe`), `GrpcLink_proofs` | the stream to the dashboard, its bounded buffers, PickerComms at one end and the server's two loops at the other | done |
| 8 | `Dashboard`, `Dashboard_proofs` | rows and handlers of the dashboard against what the bot watches, over a stream that breaks | done |
| 9 | `Discovery`, `Discovery_proofs` | backfills, announcements and the cleaner over one store | done |
| 10 | `Supervisor`, `Supervisor_proofs` | join, cancellation, forced exit | done |

Left: a composition of `Picker` with the two feeds (the quotes of a removal that lags), and the hits
of the dashboard.

## 3. What is modelled

### Book

A hash map is a function whose `DOMAIN` is the set of keys it holds, so an empty watcher set and an
evicted key are different states. `RegisterArb` and `UnregisterArbs` are `register_arb` and
`unregister_arb` (660-737), the latter for a set of arbs because an event on a market removes all
its watchers in one handler. The correlation id of an arb is a hash of its two market tokens
(`models.rs`), so the legs of an arb are the constants `AnchorOf`, `MatchOf`.

### Picker

| TLA+ | Code (`src/picker.rs`) |
|---|---|
| `registry`, `records`, `tob` | `Book`, `SharedTob` |
| `inFlight`, `cooldown`, `execQ` | `SharedInflight`, `SharedCooldown`, the channel `execution_tx`/`execution_rx` |
| `seeds`, `todo`, `evalArb`, `evalAt` | where PickerComms is inside `find_arb`, `on_price_update`, `evaluate_arb` |
| `execArb`, `execAt` | where PickerExec is inside `handle_execution_request` |
| `subscribed` | the markets of which an update may be in the WS channel |
| `RefuseArb`, `DropArb`, `WatchArb` | `find_arb`: close within the hour; a leg that cannot be subscribed; success |
| `DeleteArb`, `PolyResolved`, `KalshiEnded` | `delete_arb`, `MarketResolved`, lifecycle events; all end in `unregister_arb` |
| `PolyPrice`, `KalshiTicker`, `SeedTob` | the three ways into `on_price_update` |
| `CheckInFlight` → `CheckCooldown` → (`ExpireCooldown`) → `Request` → `MarkInFlight` | `evaluate_arb`, one step per lock or channel operation (890, 897, 902, 945, 958) |
| `Take` → `Price` → `PlaceOrders` → (`CoolDown` or `Hedge`) → `Release` → (`Report`) → `RefreshBalances` | `run_picker_exe` and `handle_execution_request`, one step per lock, channel or await |
| `CooldownElapses`, `CloseComesNearer` | time |

The two tasks run on different threads of tokio's pool, hence the fine steps. What PickerComms does
to state that PickerExec never sees is one step per handler. Close times are four classes (more
than an hour ahead, within the hour, within ten minutes, past), which is all the code
distinguishes. The executor's prices, fills and errors are choices; `Execution` has the arithmetic.

`ArbGate` is what the three shared structures promise of an arb: a request only of an arb that is
open; it ends, open or cooling; a cooldown ends. `Picker` implements it under
`phase[c] = "pending"` if a request of `c` is in the channel or in hand and not released, else
`"cooling"` if its cooldown has not elapsed.

### Execution

The executor alone, with numbers. `Receive` has the price check (1307) and `compute_size` (1100);
`PlaceOrders` the two fill-and-kill orders, joined, with any fill the platform allows (whole
contracts on Kalshi, fractions on Polymarket, never more than the size or the money there) at the
limit of the order (floored to cents on Kalshi, `round_dp(2)` on Polymarket), and any answer lost;
`Deduct` the deduction of what both legs filled; `Hedge` the one sell order; `Refresh` the refresh
with its partial failures (Kalshi first; its error hides Polymarket). `tracked` is what the code
believes, `balance` what is there, `reported` and `filled` likewise. `TRADE_FRACTION` is a proper
fraction, any that `parse_env_decimal` lets through (1029). Contracts are counted in grains: a
Polymarket fill may be any number of them, and the hedge of its excess is rounded to hundredths of a
contract, up or down (`RoundToHundredths`, `round_dp(2)` at 1817), that of a Kalshi excess down to
whole contracts. A leg that filled alone, a hedge and a redemption bring no money back within a run
of the model. The price of a Polymarket leg may have a fraction of a cent; its limit is rounded to
the nearest cent, up or down, after the size was computed, which is what `RiskNearFraction` is about.

### KalshiFeed

| TLA+ | Code (`src/platforms/kalshi.rs`) |
|---|---|
| `subscribed`, `tickerSid`, `orderbookSid` | `subscribed_assets`, `ticker_sid`, `orderbook_sid` |
| `adding`; `AddKnown`, `AddStart`, `AddSend`, `AddFails`, `AddInsert` | `add_market_ticker` inside `find_arb`, one step per lock and command |
| `removal`; `Evict`, `DelRemove`, `DelReadSids`, `DelOrderbook` | the task that `unregister_arb` spawns (picker.rs:701) and `del_market_ticker` |
| `feedAt`, `attempt`, `assets`, `onClose`; `Disconnect` … `ResubscribeOrderbook` | `reconnect_ws`, one step per await |
| `ReadReply` | the handler of `SubscribedResponse` |
| `link`, `conn`, `server`, `replies` | external: the server, as the comments at kalshi.rs:24-38 describe it |

A subscription is a channel and its tickers; the ticker channel takes no changes. The registry is
reduced to the tickers it watches (`watched`); `Register` may leave the ticker out, because the
other leg of the arb may fail. `overtaken` is a history variable: the watched tickers whose last arb
was accepted while a removal spawned before had still to take the ticker out of `subscribed`.

### PolyFeed

The same three tasks over `polymarket.rs`: `add_market_ticker` (`Add…`), `del_market_ticker`
(`Del…`), and the loop with its reconnection (`Disconnect`, `Connect`, `ReadAssets`,
`Resubscribe`). `live` is what the server sends updates of and `news` whether it sends new and
resolved markets, both external. `overlapped` is a history variable: did a change of an asset ever
overlap another of the same asset, or a reconnection?

### GrpcLink and LossyPipe

`Connect`, `TakeOutbound`, `ForwardOut`, `TakeInbound`, `ForwardIn`, `PipeBroken`, `StreamEnds`,
`ConnectFails`, `Retry` are the loop of `connect_and_run_session` and the one around it
(`run_grpc_client`); `AskForRunningArbs` the task spawned on the first connection;
`TakeCommand`/`Answer` PickerComms, `OtherReport` everybody else who sends; `Receive`, `Reply` the
reader goroutine of `grpc.go`, `TakeReply`, `ServeCommand`, `ServerSends` its main loop. Every
buffer has its bound, the windows of HTTP/2 included, since the hazard is a circle of full ones.
`LossyPipe` is what the reports should be able to rely on: order, no repetition, and a loss only
of what a session had taken. The refinement mapping concatenates what is on the wire, in the
session's channel and in the client's hand, without the request for the running arbs, which is no
report (`Taken`).

### Dashboard

`row` is the row of an arb in Postgres. `RunRead`, `RunSend`, `RunTimesOut`, `RunUpdate` are
`resolveArbConfirmAndRun`; `DeleteSend`, `DeleteRow` are `deleteArb` and one arb of
`bulkDeleteArbs`; `ProcessEbo` the bot's messages; `HandleCommand` is `find_arb` or `delete_arb`;
`Discover` the answer of `resolve_discovered_list` to a hit that the user resolved; `Ask` the request thirty seconds after the start.
The stream is two queues, which `Break` and `Restart` cut. Two history variables: `accepted`, the
arbs ever confirmed, and `calm`, which stays true as long as each fault was a restart of the bot
and no two changes of one arb overlapped.

### Discovery

A worker is a platform with a tag (its backfill) or with `Live` (the announcements). Each goes
through `Fetch` or `Announcement`, `Search`, `Insert`, `Send`; the awaits between them are where
another may come in. `store` has the time of a market's insertion, from which the next start
computes how far to go back (`ReadWatermark`; later backfills: `BackfillAgain`). A search returns all
the hits of a market, or `HitLimit` of them, whichever Qdrant ranks best (`Best`). `upset` records
which kinds of disorder a behavior has seen, and each property names those it holds under.
Without a point of its platform in the store the start fetches what was created within the last
`Reach` units (125 hours in the code); `Validated` leaves open which records pass `validate`.
`overdue` has the markets whose close, as recorded at their last insertion, is two days past
(`Outlive`), closed or not; the cleaner goes by it. `passedOver` is a history variable: what the first
backfill did not reach and what validation refused.

### Supervisor

The six tasks that `app_startup` spawns, `main`'s join of them, the token, and the five seconds of
grace. A task is idle at its `select!`, where it looks at the token and its channels, or busy in a
handler, where it looks at neither and need not come back. `Senders` says whose end closes the
channel of which task.

## 4. Runs

| Run | Instance | Question | Answer |
|---|---|---|---|
| `picker_safety` | 2 arbs sharing a Kalshi market on opposite sides, 2 prices, timestamps 1-2, a channel of 1 | does any interleaving desynchronise the indexes, keep an orphaned Kalshi quote, execute an arb twice or during its cooldown, or leave the gate? | no |
| `picker_live` | the same arbs, one price, a channel of 2 | does every request and cooldown end, and the comms task come back? | yes, under the fairness below |
| `picker_bars` | 2 arbs sharing a Kalshi market, optimistic mode, a channel of 1, closes far and within the hour | what leaves an arb marked as in flight with no execution to come: a full channel, a deletion, a resolution, a new registration? | only the race between `try_send` and the insert |
| `picker_leak` | optimistic mode | is what `in_flight` holds always in flight? | no: finding |
| `execution_money` | 2 trades, fractions of a half and .99, fills in quarters of a hundredth of a contract, prices of 45 and 46.6 cents, $3 on each side, 1 or 14 contracts on offer, legs on two platforms or both on Polymarket | do the tracked balances stay non-negative, are orders affordable with a fraction of a half, is a trade within its fraction up to rounding, does a hedge spare the pairs up to rounding? | yes |
| `kalshifeed` | 2 tickers, 2 reconnections of 2 attempts each, 1 subscription made by additions on each connection, besides those of the feed | are ids current, ended connections replaced? is a watched ticker lost but by a removal that it overtook? | yes; no |
| `kalshifeed_filter` | the same, 1 reconnection | does a tracked ticker get updates once nothing is under way? | no: finding |
| `polyfeed` | 3 assets, 2 reconnections | are watched assets live, or about to be? is the connection replaced, and does it bring the news of markets once two assets are subscribed? | yes, until an overlap; yes, whatever overlaps |
| `grpclink` | 2 kinds of reports and the request, 2 commands with 1 answer each, buffers of 1, 2 retries, 1 break | does the link implement `LossyPipe` and come back? does anything but the two circles stick PickerComms? | yes; no |
| `dashboard` | 1 arb, queues of 1, 3 faults | do the two sides agree on what runs, whatever restarts? does anything run unaccepted, whatever happens? | yes, while calm; no |
| `discovery` | 2 similar markets, one on each platform, created at any of 4 moments, a first backfill that reaches back 1 of 3 units of time, 1 later backfill period, 2 kinds of upsets | is a stored pair reported, a reported one stored until its recorded close, and nothing skipped between backfills? | yes, but for the upsets and the three reasons the properties name |
| `supervisor_ends` | the six tasks, 3 handlers | does one task's end end the bot, even with another stuck? | yes |

Type invariants are run for `Picker`, `Execution`, `KalshiFeed` and `GrpcLink`. Those of `PolyFeed`,
`Dashboard`, `Discovery` and `Supervisor` are proved instead (section 6).

**Bounds.** Two arbs are enough for the shared market, for the head-of-line wait in the one
executor, and for "for other arbs" in the cooldown properties; a channel of one fills up, a channel
of two queues. Two timestamps give newer, equal and older. Two prices make an update an opportunity
for one arb, the other, both or none. In `Execution` the second trade runs on balances that the
first changed and a refresh did or did not correct; sizes go up to 6 contracts and the offer of 14
is more than the money buys; fills of a quarter, a half and three quarters of a hundredth are rounded
both ways and from halfway; so budget, partial fills, the floor and the rounding of the hedge and the
half cent of the limits all count.
Two tickers are enough for one to be added while the other, or the same, is removed. Two reconnections
let what was read before the first be used after it, and the second end before its subscriptions are
made; with one subscription by an addition and one by the reconnection a connection has two of
orderbook_delta before the first answer. Three Polymarket assets are enough for a resubscription of more than what changes. In
`GrpcLink` one message fills a buffer, and two commands with an answer each fill all that lie on a
circle: the run reaches `BotCircle` and `ServerCircle`, and `OnlyCirclesStick` fails if either is
taken out of it. One arb is enough for `Dashboard`, whose handlers touch the rows of their own arb only
(messages about several arbs are split by `FindArbs`); three faults allow a restart between any two
steps of the two others. In `Discovery` the time before the start is three units and the
first backfill reaches one back, so that a market is in reach or not; one unit after it separates a
startup from a later backfill and from the start after it; two kinds of upsets combine in every way,
each as often as it likes.
With two markets a search has one hit at most, so that a `HitLimit` of one cuts none short; the
theorems of section 6 hold for any number of markets and any limit.
`Supervisor` needs as many handlers as tasks that end or hang at a time.

**Fairness.** *Picker*: weak fairness of the comms task's own steps (`Seed`, `Evaluate`) and of the
executor's: tokio polls a ready task, and every await inside them is an HTTP request, which returns
or fails, or a send to the gRPC channel, which has a reader while the link is up, unless one of
the two circles has closed (`OnlyCirclesStick` of `GrpcLink` is about that). Cooldowns elapse. Nothing is assumed of messages.
*Feeds*: weak fairness of reading and of the reconnection, which only wait for back-offs and for
calls that return; none of connections, additions or removals.
*GrpcLink*: weak fairness of each loop, and strong fairness of the steps that compete for a buffer
or a branch: senders waiting for room in a tokio channel are served in order, and `select!`, in
tokio as in Go, picks among the ready branches at random.
*Dashboard*: weak fairness of a handler that has begun, of the stream and of the reconnection;
strong fairness of `HandleCommand` and `Ask`, whose sends compete for the channel to the dashboard.
*Supervisor*: weak fairness of `main` and of a task at its `select!`; a handler need not end.
*Execution*, *Discovery*: safety only.

**Deadlock** is checked in the `Picker` runs. The others say `CHECK_DEADLOCK FALSE` because the model
really stops: the bounded trades, breaks, faults, time or handlers are used up, the feed or the
client has given up, or the process has ended.

## 5. Findings

Shown by runs:

1. `in_flight` can keep an arb for good: the request is sent (picker.rs:945) before the insert (958),
   and in optimistic mode the executor can release in between. Later evaluations skip the arb until
   a restart (`picker_leak`). Safety of execution is not affected (`AtMostOnePending` is proved for
   both modes).
2. After a reconnection Kalshi's ticker channel is subscribed with the tickers tracked at that
   moment (kalshi.rs:469), whereas at the start it has no filter; no command widens it, so a ticker
   added later gets no updates until the next reconnection (`kalshifeed_filter`).

Met while modelling, and described here without a run. The models have the behavior, and the
properties are stated so as to hold in spite of it:

* *Executor and quotes.* The close-time guard (picker.rs:916) passes an arb whose market has just
  closed, and is looked at once, when the request is sent: it says nothing of a request that waits. A
  Polymarket update is stored (880) without a look at the registry and never evicted. A position that
  is legged gets one attempt to hedge, floored to whole contracts on Kalshi, its failure only logged;
  with a lost answer (1381) the hedge may sell half of a pair. On Polymarket the size of the hedge is
  rounded to hundredths (1817): an excess of .006 contracts sells .01, that is up to half a hundredth
  of a contract that completes a pair, or that is not there. The money of a leg that filled alone is
  not deducted (1410), and if the refresh fails the next trade is sized on it. The Polymarket limit
  may be rounded up past the price the size was computed from (1696); `RiskNearFraction` bounds what
  that costs. With both legs on Polymarket and a `TRADE_FRACTION` above a half, the orders may ask
  for more than there is: at .99, $100 and two legs at 24.6 cents the size is 201 contracts and the
  limits cost 201 times 50 cents, $100.50. `OrdersAffordable` is for fractions of at most a half.
* *Kalshi feed.* The list to subscribe again is read before the back-off (kalshi.rs:431, 460): a
  ticker added meanwhile waits for the connection after, one removed comes back.
  `del_market_ticker` copies the ids before it uses them (153), and may send those of a connection
  that is gone, against the comment at 427; the answer is an error. Two additions before the first
  answer make a second orderbook subscription, whose id is not kept (36-38). An arb accepted on a
  ticker between its eviction and the first access of the removal that was spawned for it (picker.rs:701,
  kalshi.rs:150) finds it subscribed and loses it; `OnlyOvertakenAreLost` says that this is the only
  way.
* *Polymarket feed.* The same race of removal and addition, and of both with a reconnection,
  leaves a watched asset without updates for good (polymarket.rs:111, 129, 204). A reconnection
  that finds no asset subscribed brings no news of markets until the next asset is subscribed on the
  new connection (156, 371), which with an add that was under way may be the second (`NewsArrives`).
* *Link.* The tasks at the two ends can wait for each other for good, in one of two circles.
  `BotCircle`: PickerComms waits for room in bot_outbound while the client waits for room in
  bot_inbound (grpc.rs:149, picker.rs:345). `ServerCircle`: the client waits for room on the way to the
  server, whose reader and main loop wait for the client (grpc.rs:137, grpc.go:62 and 78). A session
  that breaks is not noticed in the first, and ends the second. They take as many commands and reports
  outstanding as the buffers hold. A stream whose client is gone swallows the commands it takes
  (grpc.go:78).
* *Dashboard.* After a break of the session, or an arb that `find_arb` drops (picker.rs:297), or a
  market that ends (561), the dashboard may go on showing an arb as running that the bot does not
  watch: nobody reports it, and the request for the running arbs is made once in the life of the
  process, on the session it began with (grpc.rs:107). A `GetRunningArbs` whose query fails is not answered, and not asked again
  (grpc.go:184). An order that is reported after its arb's row is
  gone is stored without the arb (InsertOrder in query.sql); the daily deletion of old hits keeps
  the cut-off of the start of the process (main.go:95). Neither is in a model.
* *Discovery.* Two workers that search before either inserts miss their pair; a crash between
  insertion and send loses the hit, and the next start does not look again; the start goes back to
  the last insertion of the platform, not of the tag, and skips what a failed page or a crash left
  out; an announced market with no counterpart yet is not stored (vector_store.rs:264); a backfill
  that is late by more than its margin leaves a gap. With no point of its platform in the store, the
  start goes back 125 hours and no further (kalshi.rs:810, polymarket.rs:635): older open markets are
  never fetched. Markets that fail validation are dropped (vector_store.rs:298, models.rs:96). The
  cleaner deletes by the close recorded with the point (vector_store.rs:388), which nothing updates
  when the venue moves it (picker.rs:628), so that an open market may lose its point.
* *Shutdown.* `main` forces the exit five seconds after the token (main.rs:66), also in the middle of
  a trade, between the orders and the hedge.

## 6. Proofs

All from the named assumptions of the modules (`LegAssumption`, `PickerAssumption`,
`ExecutionAssumption`, `FeedAssumption`, `LinkAssumption`, `DashboardAssumption`,
`DiscoveryAssumption`, `SupervisorAssumption`), which say no more than that the constants have their
types, that a channel has room for one, that every `TRADE_FRACTION` is strictly between 0 and 1, as
`parse_env_decimal` makes sure, and that one text is as similar to another as that one to it (the distance of the collection
is the cosine).

* **Types** (`TypeCorrect` of `Picker`, `KalshiFeed`, `PolyFeed`, `GrpcLink`, `Dashboard`, `Discovery`
  and `Supervisor`, `MoneyTypeCorrect`). That of `Discovery` needs that a bounded set of times has a
  greatest one (`MaxInRange`, from the well-foundedness of the natural numbers).
* **Book and quotes** (`BookInSync`, `KalshiQuotesWatched`). The inductive invariant `BookInv` is
  `IndexesInSync`, `KalshiTobIsWatched` and `SeedsAreWatched`: the markets `find_arb` is still
  seeding are watched. Without the last a seed could bring back an evicted quote; it holds because
  `find_arb` does not leave the comms task between registration and seeding.
* **One execution** (`OneExecutionPerArb`, `ExecutionIsMarked`, `ChecksStayValid`). None of the
  three is inductive alone. `ExecInv` joins them: an arb with an execution is in `in_flight` or
  about to be inserted; past the look at `in_flight` there is no execution, since only the comms
  task starts one; so when the request is sent there is no other.
* **Cooldown** (`CooldownRespected`, `FreshCooldownKept`): past the look at `cooldown` the arb has no
  fresh entry, since only the executor writes one, for the arb in hand, which by `ExecInv` is not the
  one under evaluation.
* **Bars** (`StrandedOnlyByTheRace`): of all the steps of the two tasks, an arb comes to be passed over
  as in flight with no execution to come only when the executor releases it between `try_send` (945)
  and the insert (958). By `ExecInv` an execution is marked from the insert to its release; the proof
  goes through every action for what it does to `in_flight`, to the channel and to the arb in hand.
* **Implementation** (`PickerImplementsGate`): every step of `Picker` is a step of `ArbGate` or
  leaves `gatePhase` alone. This is where the order cooldown-then-release of the executor (1431-1434)
  is needed.
* **Money** (`TrackedStaysNonNegative`, `OrdersStayAffordable`, `RiskStaysNear`,
  `HedgeKeepsEveryPair`). `SizeIsCovered` carries the first three: from sizing to deduction the fraction of
  either tracked balance alone pays for both legs of the whole order. So the deduction keeps it above
  zero even when both legs are on one platform and no refresh ever succeeds. As `OrdersCost` compares
  the limits with the prices, the rounding adds at most half a cent a contract; with a fraction of at
  most a half it is covered by the rest of the balance, since no rounding more than doubles a price.
  `PairsKept` carries the last: what rests after a hedge leaves the smaller leg but for the rounding,
  which `RoundIsNear` bounds.
* **Kalshi feed** (`SidsCurrent`, `LostByTheRace`). An id that is held is of the connection in use
  because the answers of a connection go when it does, and the ids are reset with it. `TrackedInv`: an
  eviction leaves its ticker unwatched, so a ticker that is watched before its removal has had its
  first access was accepted in between, and is in `overtaken`; that access is the only one that takes
  a ticker out. Nothing is assumed of what overlaps.
* **Polymarket feed** (`CalmFeedCorrect`, `CalmFeedTracked`, `NewsOnEveryConnection`). `CalmInv`
  follows, for each asset, the one change that may be under way: between its command and its entry
  in `subscribed_assets` the two differ by that asset and no more, and a reconnection finds no change
  under way. It holds until `overlapped`. The news do not need it: `NewsInv`, of a connection
  without news, says that its feed found nothing to subscribe, and that of the additions since then
  there is only the one that had been written to the connection before.
* **Link** (`LinkImplementsPipe`). The mapping takes the request for the running arbs out of what is
  on its way, so the proof needs what `RemoveFirst` does to a sequence as it is moved along: taken
  from one end, added to at the other, handed from one buffer to the next (`RemoveNothing`,
  `RemoveBefore`, `RemoveFromTail`, `HandOver`, `AddAtTheEnd`, ...). They hold of a sequence with at most
  one such element, hence `AskedOnce`: the session's channel and the wire together have one request
  at most, and none before it is made. `Moves` says of each action what it does to the abstract pipe, and
  `EveryMoveIsAllowed` that each of these is a step of `LossyPipe` or a stutter.
* **Dashboard** (`OnlyAcceptedEverRun`). It is not inductive: what runs came in a message. So
  `AcceptedOnTheWay` says that every command to run and every set of running arbs in any of the
  queues, and every page that is about to send or to write, is of accepted arbs only.
* **Agreement of the two sides** (`RunningArbsAreWatched`, `WatchedArbsAreRunning`). The properties
  speak of an arb about which nothing is under way, so all the work is in what holds while
  something is. `Agreement` gives, for each way in which a row and the bot may differ, the message
  or the page that will make up for it (`RunningHasReason`, `WatchedHasReason`, `RunHasReason`,
  `ReportHasReason`, ...), and who may be at work on the arb besides (`SendAlone`, `DeleteAlone`,
  `FoundAlone`, `AskAlone`). The order within a queue turned out not to matter, only which messages
  that name the arb are still in it (`ToRun`, `ToDelete`, `Reported`, `Found`). Like the properties it
  is claimed while `calm`.
* **Discovery** (`ReportedStayStored`). `HitsAreFindable` goes through the workers: the second market
  of a hit was in the store when it was found, the first is inserted before the hit is sent, and
  the cleaner takes only what is overdue by its recorded close. No upset is excluded, and nothing is
  assumed of `Similar`.
* **Pairs** (`PairsAreReported`). `PairsInv`: while no searches race there is one worker at a time
  between its search and its insertion (`OneInsertion`), and it holds every hit of its markets among
  those in the store (`AllFound`), so that its insertion leaves no pair unknown (`AllReported`). A pair
  is found by whichever market comes second, hence the symmetry of `Similar`.
* **Backfills** (`BackfillMissesNothing`). `BackfillInv`: the backfills of a platform wait for the start,
  rest since the last unit of time, or are at work in this one, all of its tags together (`InTurn`);
  nothing is stored or created ahead of the clock (`NothingAhead`); and an open market is
  accounted for, or in the hands of the backfill, if it is older than the window of its platform, than the
  backfill of its tag, or, when the bot starts again, than the latest insertion (`NoneMissed`). The
  last part is why the watermark may be of the platform and not of the tag: as long as no backfill
  is late (`Punctual`) all tags are equally up to date.
* **Supervisor** (`NoneEverMissing`). `NoneEnded`: the first task to end well without a signal would
  have to be one all of whose senders had ended before it, and every task has one.

Only model-checked: all liveness (`ImplementsGate` beyond its safety part, `CommsComesBack`,
`ReconnectsOrEnds`, `WatchedComesLive`, `ReconnectsOrFails`, `OnlyCirclesStick`, `RunIsHonoured`,
`EndsTogether`, `TokenEndsIt`), since fairness and ENABLED are beyond the prover. Every safety property
that a passing run checks is a theorem. No module has a RECURSIVE operator.

## 7. Not modelled

* Views, assets and generated code, `src/platforms.rs` (the pair of clients, the enum of messages) and
  `web/main.go` (starts two servers) keep no state of interest.
* Of the dashboard: the pages and their queries, the hits, orders and excess fills (single inserts
  from `ProcessEbo` on rows no other part reads), the daily deletion of old hits.
* Embeddings and the search in Qdrant, the exchanges, and the client crates are external: a model
  has of them what the code relies on. `Discovery` reads the store as soon as it is written
  (`insert_many` does not wait for Qdrant's index), gives a market one tag, and takes the creation of a market for the date by which
  Polymarket's backfill filters. Its unit of time is the period of the later backfills.
* `GrpcLink` takes both ends of a stream to end together; `Dashboard` has the stream whose client is
  gone (`halfOpen`). The half-open WebSocket of Kalshi is a connection whose end is noticed late.
* JSON conversions, wording and logging. Timestamps of quotes are any, since Kalshi's WS and HTTP
  quotes differ in resolution (picker.rs:606, 841).
* `PickerComms` appears in `Picker`, in both feeds, in `GrpcLink` and in `Dashboard`, each time with
  the state that module is about; no module composes all of it.
