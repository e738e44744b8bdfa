------------------------------- MODULE GrpcLink -------------------------------
(***************************************************************************)
(* The stream between the bot and the dashboard: run_grpc_client and       *)
(* connect_and_run_session (src/src/grpc.rs), the two channels of app.rs   *)
(* that join them to the bot, the task PickerComms at the other end of     *)
(* both channels, and the two goroutines that serve the stream             *)
(* (src/web/server/grpc.go).                                               *)
(*                                                                         *)
(* Every buffer on the way is bounded: bot_outbound and bot_inbound, the   *)
(* channel of one session, the windows of HTTP/2 in both directions, the   *)
(* replies and the commands of the dashboard.  A loop that has taken a     *)
(* message in hand waits for room in the next buffer, and looks at nothing *)
(* else meanwhile.                                                         *)
(*                                                                         *)
(* A message to the dashboard is a report or the request for the running   *)
(* arbs; messages to the bot (commands and the answer to that request)     *)
(* are only counted.  A message makes PickerComms send up to MaxAnswers    *)
(* reports (a list of discovered arbs, one for each; DeleteRunningArbs     *)
(* and an arb close to its end, one).  The other senders are the executor  *)
(* and the feeds.                                                          *)
(***************************************************************************)
EXTENDS Naturals, Sequences, SequencesExt

CONSTANTS
    Reports,        \* the messages to the dashboard
    Ask,            \* the request for the running arbs
    OutCap,         \* capacity of bot_outbound (1024 in app.rs)
    InCap,          \* capacity of bot_inbound (1024 in app.rs)
    NetCap,         \* capacity of a session's channel (128)
    UpCap,          \* messages under way to the dashboard
    DownCap,        \* messages under way to the bot
    ReplyCap,       \* capacity of sendCh (100)
    MaxRetries,     \* MAX_RETRIES
    MaxBreaks,      \* bound on the sessions that break
    MaxCommands,    \* bound on the commands between the user and PickerComms
    MaxAnswers      \* bound on the reports one command asks for

ASSUME LinkAssumption ==
    /\ Ask \notin Reports
    /\ {OutCap, InCap, NetCap, UpCap, DownCap, ReplyCap, MaxRetries} \subseteq Nat \ {0}
    /\ {MaxBreaks, MaxCommands, MaxAnswers} \subseteq Nat

VARIABLES
    outbound,   \* bot_outbound
    inbound,    \* bot_inbound: how many messages
    answers,    \* PickerComms: the reports it has still to send
    linkAt,     \* the client: where it is
    held,       \* the client: the report in its hand
    retries,    \* the client: retries
    ask,        \* the spawned task that asks for the running arbs
    link,       \* the session, as it really is
    breaks,     \* how many sessions broke
    network,    \* the channel of the session
    up,         \* on the wire to the dashboard
    down,       \* on the wire to the bot: how many messages
    reader,     \* the server's reader: the reply in its hand
    replies,    \* sendCh
    server,     \* the server's main loop: does it hold a message to send?
    commands    \* GrpcComms: how many

bot == <<outbound, inbound, answers>>
client == <<linkAt, held, retries, ask>>
session == <<link, breaks>>
wires == <<network, up, down>>
dashboard == <<reader, replies, server, commands>>
vars == <<bot, client, session, wires, dashboard>>

-------------------------------------------------------------------------------
Init ==
    /\ outbound = <<>> /\ inbound = 0 /\ answers = 0
    /\ linkAt = "connect" /\ held = <<>> /\ retries = 0 /\ ask = "first"
    /\ link = "none" /\ breaks = 0
    /\ network = <<>> /\ up = <<>> /\ down = 0
    /\ reader = "none" /\ replies = <<>> /\ server = FALSE /\ commands = 0

One(b) == IF b THEN 1 ELSE 0

(* The messages the user has sent that PickerComms has not taken.           *)
Outstanding == commands + One(server) + down + One(linkAt = "in") + inbound

-------------------------------------------------------------------------------
(* The bot's tasks.                                                         *)

TakeCommand ==
    /\ answers = 0 /\ inbound > 0
    /\ inbound' = inbound - 1
    /\ answers' \in 0..MaxAnswers
    /\ UNCHANGED <<outbound, client, session, wires, dashboard>>

(* Mistake: a channel without a limit.                                      *)
SendAnyway(m) == outbound' = Append(outbound, m)

SendReport(m) == Len(outbound) < OutCap /\ outbound' = Append(outbound, m)

(* PickerComms waits here for room in bot_outbound.                         *)
Answer ==
    /\ answers > 0
    /\ answers' = answers - 1
    /\ \E m \in Reports : SendReport(m)
    /\ UNCHANGED <<inbound, client, session, wires, dashboard>>

(* The executor or a feed.                                                  *)
OtherReport ==
    /\ \E m \in Reports : SendReport(m)
    /\ UNCHANGED <<inbound, answers, client, session, wires, dashboard>>

-------------------------------------------------------------------------------
(* The client.                                                              *)

(* The request for the running arbs is made thirty seconds after the first  *)
(* connection, on its channel.                                              *)
Connect ==
    /\ linkAt = "connect"
    /\ link' = "up" /\ linkAt' = "select"
    /\ ask' = IF ask = "first" THEN "armed" ELSE ask
    /\ UNCHANGED <<bot, held, retries, breaks, wires, dashboard>>

(* The session is over, with all that is on its way in it; the server ends  *)
(* its stream, and keeps the commands.                                      *)
EndSession(point) ==
    /\ linkAt' = point
    /\ link' = "none"
    /\ held' = <<>> /\ network' = <<>> /\ up' = <<>> /\ down' = 0
    /\ reader' = "none" /\ replies' = <<>> /\ server' = FALSE
    /\ ask' = IF ask = "armed" THEN "orphan" ELSE ask
    /\ UNCHANGED <<bot, breaks, commands>>

(* Mistake: start the count again after every failure.                      *)
CountNothing(connected) == retries' = 0 /\ EndSession("wait")

(* A session of more than a minute starts the count of retries again.       *)
Count(connected) ==
    /\ retries' \in {retries + 1} \cup (IF connected THEN {0} ELSE {})
    /\ EndSession(IF retries' >= MaxRetries THEN "failed" ELSE "wait")

ConnectFails == linkAt = "connect" /\ Count(FALSE)

Retry ==
    /\ linkAt = "wait"
    /\ linkAt' = "connect"
    /\ UNCHANGED <<bot, held, retries, ask, session, wires, dashboard>>

(* inbound_stream.message() ends, seen only from the select!.               *)
StreamEnds == linkAt = "select" /\ link = "broken" /\ Count(TRUE)

TakeOutbound ==
    /\ linkAt = "select" /\ outbound # <<>>
    /\ held' = <<Head(outbound)>> /\ outbound' = Tail(outbound)
    /\ linkAt' = "out"
    /\ UNCHANGED <<inbound, answers, retries, ask, session, wires, dashboard>>

ForwardOut ==
    /\ linkAt = "out" /\ link = "up"
    /\ Len(network) < NetCap
    /\ network' = network \o held /\ held' = <<>>
    /\ linkAt' = "select"
    /\ UNCHANGED <<bot, retries, ask, session, up, down, dashboard>>

(* Mistake: put the report back, behind those that came after it.           *)
PipeBrokenPutBack ==
    /\ linkAt = "out" /\ link = "broken"
    /\ retries' = retries + 1
    /\ outbound' = outbound \o held
    /\ linkAt' = IF retries' >= MaxRetries THEN "failed" ELSE "wait"
    /\ link' = "none"
    /\ held' = <<>> /\ network' = <<>> /\ up' = <<>> /\ down' = 0
    /\ reader' = "none" /\ replies' = <<>> /\ server' = FALSE
    /\ ask' = IF ask = "armed" THEN "orphan" ELSE ask
    /\ UNCHANGED <<inbound, answers, breaks, commands>>

(* The receiver of the session's channel is gone: so is the report in hand. *)
PipeBroken == linkAt = "out" /\ link = "broken" /\ Count(TRUE)

TakeInbound ==
    /\ linkAt = "select" /\ down > 0
    /\ down' = down - 1
    /\ linkAt' = "in"
    /\ UNCHANGED <<bot, held, retries, ask, session, network, up, dashboard>>

(* It waits here for room in bot_inbound.                                   *)
ForwardIn ==
    /\ linkAt = "in" /\ inbound < InCap
    /\ inbound' = inbound + 1
    /\ linkAt' = "select"
    /\ UNCHANGED <<outbound, answers, held, retries, ask, session, wires, dashboard>>

(* The thirty seconds are over.                                             *)
AskForRunningArbs ==
    /\ \/ /\ ask = "armed" /\ link = "up" /\ Len(network) < NetCap
          /\ network' = Append(network, Ask) /\ ask' = "asked"
       \/ /\ ask = "orphan" \/ (ask = "armed" /\ link = "broken")
          /\ ask' = "lost" /\ UNCHANGED network
    /\ UNCHANGED <<bot, linkAt, held, retries, session, up, down, dashboard>>

-------------------------------------------------------------------------------
(* The wire and the server.                                                 *)

Transmit ==
    /\ link = "up" /\ network # <<>> /\ Len(up) < UpCap
    /\ up' = Append(up, Head(network)) /\ network' = Tail(network)
    /\ UNCHANGED <<bot, client, session, down, dashboard>>

(* ProcessEbo: an error is logged and has no reply; but for the request for *)
(* the running arbs a reply is nil.                                         *)
Receive ==
    /\ link = "up" /\ reader = "none" /\ up # <<>>
    /\ up' = Tail(up)
    /\ reader' \in {"none", IF Head(up) = Ask THEN "arbs" ELSE "nil"}
    /\ UNCHANGED <<bot, client, session, network, down, replies, server, commands>>

(* The reader waits here for room in sendCh, which nil takes as well.       *)
Reply ==
    /\ link = "up" /\ reader # "none" /\ Len(replies) < ReplyCap
    /\ replies' = Append(replies, reader) /\ reader' = "none"
    /\ UNCHANGED <<bot, client, session, wires, server, commands>>

(* Mistake: leave the replies that are nil where they are.                  *)
TakeArbsOnly ==
    /\ link = "up" /\ ~server /\ replies # <<>> /\ Head(replies) = "arbs"
    /\ replies' = Tail(replies)
    /\ server' = TRUE
    /\ UNCHANGED <<bot, client, session, wires, reader, commands>>

TakeReply ==
    /\ link = "up" /\ ~server /\ replies # <<>>
    /\ replies' = Tail(replies)
    /\ server' = (Head(replies) = "arbs")
    /\ UNCHANGED <<bot, client, session, wires, reader, commands>>

ServeCommand ==
    /\ link = "up" /\ ~server /\ commands > 0
    /\ commands' = commands - 1
    /\ server' = TRUE
    /\ UNCHANGED <<bot, client, session, wires, reader, replies>>

(* The main loop waits here for the window of the client.                   *)
ServerSends ==
    /\ link = "up" /\ server /\ down < DownCap
    /\ down' = down + 1 /\ server' = FALSE
    /\ UNCHANGED <<bot, client, session, network, up, reader, replies, commands>>

UserCommand ==
    /\ Outstanding < MaxCommands
    /\ commands' = commands + 1
    /\ UNCHANGED <<bot, client, session, wires, reader, replies, server>>

LinkBreaks ==
    /\ link = "up" /\ breaks < MaxBreaks
    /\ link' = "broken" /\ breaks' = breaks + 1
    /\ UNCHANGED <<bot, client, wires, dashboard>>

-------------------------------------------------------------------------------
Comms == TakeCommand \/ Answer

Client ==
    \/ Connect
    \/ ConnectFails
    \/ Retry
    \/ StreamEnds
    \/ TakeOutbound
    \/ ForwardOut
    \/ PipeBroken
    \/ TakeInbound
    \/ ForwardIn

Reader == Receive \/ Reply

Server == TakeReply \/ ServeCommand \/ ServerSends

Next ==
    \/ Comms \/ OtherReport
    \/ Client \/ AskForRunningArbs
    \/ Transmit \/ Reader \/ Server
    \/ UserCommand \/ LinkBreaks

(* tokio and the Go scheduler run a task that can go on.  Senders that wait *)
(* for room in a tokio channel are served in order, and a select! takes its *)
(* ready branches at random, hence strong fairness of what competes.        *)
Fairness ==
    /\ WF_vars(TakeCommand) /\ SF_vars(Answer)
    /\ WF_vars(Client) /\ SF_vars(TakeInbound) /\ SF_vars(StreamEnds)
    /\ SF_vars(AskForRunningArbs)
    /\ WF_vars(Transmit) /\ WF_vars(Reader)
    /\ WF_vars(Server) /\ SF_vars(ServeCommand)

Spec == Init /\ [][Next]_vars /\ Fairness

-------------------------------------------------------------------------------
TypeOK ==
    /\ outbound \in Seq(Reports) /\ Len(outbound) <= OutCap
    /\ inbound \in 0..InCap
    /\ answers \in 0..MaxAnswers
    /\ linkAt \in {"connect", "select", "out", "in", "wait", "failed"}
    /\ held \in Seq(Reports) /\ Len(held) = One(linkAt = "out")
    /\ retries \in 0..MaxRetries
    /\ ask \in {"first", "armed", "orphan", "asked", "lost"}
    /\ link \in {"none", "up", "broken"}
    /\ breaks \in Nat
    /\ network \in Seq(Reports \cup {Ask}) /\ Len(network) <= NetCap
    /\ up \in Seq(Reports \cup {Ask}) /\ Len(up) <= UpCap
    /\ down \in 0..DownCap
    /\ reader \in {"none", "nil", "arbs"}
    /\ replies \in Seq({"nil", "arbs"}) /\ Len(replies) <= ReplyCap
    /\ server \in BOOLEAN
    /\ commands \in Nat

(* The reports a session has taken and the dashboard not, oldest first,     *)
(* without the one request for the running arbs that there can be.          *)
Taken == RemoveFirst(up \o network, Ask) \o held

Pipe == INSTANCE LossyPipe WITH Messages <- Reports, waiting <- outbound, taken <- Taken

(* The link implements LossyPipe: across reconnections reports are neither  *)
(* repeated nor put in another order, and a break loses those its session   *)
(* had taken, never one that still waits in bot_outbound (grpc.rs:132-137). *)
ImplementsPipe == Pipe!Spec

(* The client waits for room in bot_inbound, and PickerComms, which would   *)
(* make it, for room in bot_outbound, which only the client can make        *)
(* (grpc.rs:149, picker.rs:345).                                            *)
BotCircle ==
    /\ linkAt = "in" /\ inbound = InCap
    /\ answers > 0 /\ Len(outbound) = OutCap

(* The client waits for room in the channel of the session, and so does,    *)
(* along the wire, the reader and sendCh, everybody up to the main loop of  *)
(* the server, which waits for the client to read (grpc.rs:137, grpc.go:62  *)
(* and 78).                                                                 *)
ServerCircle ==
    /\ linkAt = "out" /\ link = "up"
    /\ Len(network) = NetCap /\ Len(up) = UpCap
    /\ reader # "none" /\ Len(replies) = ReplyCap
    /\ server /\ down = DownCap

(* A session that breaks is replaced, or the client gives up (and main.rs   *)
(* stops the bot): README.md:118, "reconnecting bidirectional stream".  The *)
(* one thing that keeps the client from noticing is the circle it makes     *)
(* with PickerComms; the circle through the server ends with the session.   *)
ReconnectsOrFails ==
    link = "broken" ~> link = "up" \/ linkAt = "failed" \/ BotCircle

(* PickerComms always comes to the end of its answers, whoever else sends   *)
(* to the dashboard and however often the session breaks, unless the client *)
(* gives up or all are caught for good in one of the two circles: no other  *)
(* set of loops and buffers can wait for itself.                            *)
OnlyCirclesStick ==
    []<>(answers = 0) \/ <>[](linkAt = "failed" \/ BotCircle \/ ServerCircle)
===============================================================================
