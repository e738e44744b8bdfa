------------------------------- MODULE Dashboard -------------------------------
(***************************************************************************)
(* Which arbs run, according to the dashboard's database and according to  *)
(* the bot: the handlers of src/web/server/handlers.go, ProcessEbo and the *)
(* stream of src/web/server/grpc.go, and at the other end find_arb and     *)
(* delete_arb of src/src/picker.rs and the request for the running arbs of *)
(* src/src/grpc.rs.                                                        *)
(*                                                                         *)
(* A handler is a goroutine that reads the database, writes to the channel *)
(* GrpcComms and writes to the database, each a step of its own.  The      *)
(* stream is a queue in each direction; a session that breaks takes what   *)
(* is in it along.  GrpcLink has the buffers the queues stand for.         *)
(***************************************************************************)
EXTENDS Naturals, Sequences

CONSTANTS
    Arbs,           \* the arbs, by correlation id
    QueueCap,       \* bound on GrpcComms (512) and on each queue of the stream
    MaxFaults       \* bound on the faults of a behavior

ASSUME DashboardAssumption == {QueueCap, MaxFaults} \subseteq Nat

VARIABLES
    row,        \* the row of an arb: none, found or running
    runAt,      \* arb -> where resolveArbConfirmAndRun is
    deleteAt,   \* arb -> where deleteArb is
    commands,   \* GrpcComms
    replies,    \* sendCh: the sets of running arbs
    toBot,      \* sent to the bot and not handled
    toServer,   \* sent to the dashboard and not handled
    link,       \* is there a session?
    halfOpen,   \* is there a stream whose client is gone?
    ask,        \* the bot's request for the running arbs
    watched,    \* the arbs the bot watches
    accepted,   \* the arbs the user ever confirmed (a history variable)
    close,      \* arb -> is its close far, within the hour, or past?
    faults,     \* how many faults there were
    calm        \* was each a restart, and did no two changes of an arb overlap?
                \* (a history variable)

pages == <<runAt, deleteAt>>
queues == <<commands, replies, toBot, toServer>>
session == <<link, halfOpen>>
history == <<faults, calm>>
vars == <<row, pages, queues, session, ask, watched, accepted, close, history>>

-------------------------------------------------------------------------------
Init ==
    /\ row = [c \in Arbs |-> "none"]
    /\ runAt = [c \in Arbs |-> "idle"] /\ deleteAt = [c \in Arbs |-> "idle"]
    /\ commands = <<>> /\ replies = <<>> /\ toBot = <<>> /\ toServer = <<>>
    /\ link = FALSE /\ halfOpen = FALSE
    /\ ask = "first"
    /\ watched = {} /\ accepted = {}
    /\ close = [c \in Arbs |-> "far"]
    /\ faults = 0 /\ calm = TRUE

Command(kind, C) == [kind |-> kind, arbs |-> C]

(* A session ends, a leg cannot be subscribed, a platform ends a market     *)
(* before its close, or a query or a write of the database fails.           *)
Fault == faults < MaxFaults /\ faults' = faults + 1 /\ calm' = FALSE

NoFault == UNCHANGED history

Has(queue, kind) == \E i \in 1..Len(queue) : queue[i].kind = kind

Names(queue, c) == \E i \in 1..Len(queue) : c \in queue[i].arbs

(* The bot has asked, or has still to ask, what runs.                       *)
Asking ==
    ask \in {"first", "armed"} \/ Has(toServer, "ask") \/ replies # <<>> \/ Has(toBot, "arbs")

(* Nothing is under way that concerns the arb.                              *)
Settled(c) ==
    /\ runAt[c] = "idle" /\ deleteAt[c] = "idle"
    /\ ~Names(commands, c) /\ ~Names(toBot, c) /\ ~Names(toServer, c)
    /\ ~Asking

(* Something is done to the arb, perhaps while something else is.           *)
Act(c) ==
    /\ calm' = (calm /\ Settled(c))
    /\ UNCHANGED faults

-------------------------------------------------------------------------------
(* resolveArbConfirmAndRun.                                                 *)

RunRead(c) ==
    /\ Act(c)
    /\ runAt[c] = "idle" /\ row[c] # "none"
    /\ runAt' = [runAt EXCEPT ![c] = "send"]
    /\ accepted' = accepted \cup {c}
    /\ UNCHANGED <<row, deleteAt, queues, session, ask, watched, close>>

RunSend(c) ==
    /\ runAt[c] = "send" /\ Len(commands) < QueueCap
    /\ commands' = Append(commands, Command("run", {c}))
    /\ runAt' = [runAt EXCEPT ![c] = "update"]
    /\ UNCHANGED <<row, deleteAt, replies, toBot, toServer, session, ask, watched, history, accepted, close>>

(* The channel is full for 50 ms: an error page, and nothing is changed.    *)
RunTimesOut(c) ==
    /\ runAt[c] = "send" /\ Len(commands) = QueueCap
    /\ runAt' = [runAt EXCEPT ![c] = "idle"]
    /\ UNCHANGED <<row, deleteAt, queues, session, ask, watched, history, accepted, close>>

(* Mistake: confirm the arb, and leave it as not running.                   *)
RunUpdateForgets(c) ==
    /\ runAt[c] = "update"
    /\ runAt' = [runAt EXCEPT ![c] = "idle"]
    /\ UNCHANGED <<row, deleteAt, queues, session, ask, watched, history, accepted, close>>

(* UpdateArbStatus changes no row that is gone.                             *)
RunUpdate(c) ==
    /\ runAt[c] = "update"
    /\ runAt' = [runAt EXCEPT ![c] = "idle"]
    /\ \/ /\ row' = IF row[c] = "none" THEN row ELSE [row EXCEPT ![c] = "running"]
          /\ NoFault
       \/ Fault /\ UNCHANGED row
    /\ UNCHANGED <<deleteAt, queues, session, ask, watched, accepted, close>>

(* deleteArb, and bulkDeleteArbs for one of its arbs.                       *)
DeleteSend(c) ==
    /\ Act(c)
    /\ deleteAt[c] = "idle" /\ row[c] # "none"
    /\ Len(commands) < QueueCap
    /\ commands' = Append(commands, Command("delete", {c}))
    /\ deleteAt' = [deleteAt EXCEPT ![c] = "delete"]
    /\ UNCHANGED <<row, runAt, replies, toBot, toServer, session, ask, watched, accepted, close>>

DeleteRow(c) ==
    /\ deleteAt[c] = "delete"
    /\ deleteAt' = [deleteAt EXCEPT ![c] = "idle"]
    /\ \/ row' = [row EXCEPT ![c] = "none"] /\ NoFault
       \/ Fault /\ UNCHANGED row
    /\ UNCHANGED <<runAt, queues, session, ask, watched, accepted, close>>

-------------------------------------------------------------------------------
(* The stream.                                                              *)

SendCommand ==
    /\ link /\ commands # <<>> /\ Len(toBot) < QueueCap
    /\ toBot' = Append(toBot, Head(commands)) /\ commands' = Tail(commands)
    /\ UNCHANGED <<row, pages, replies, toServer, session, ask, watched, history, accepted, close>>

SendReply ==
    /\ link /\ replies # <<>> /\ Len(toBot) < QueueCap
    /\ toBot' = Append(toBot, Head(replies)) /\ replies' = Tail(replies)
    /\ UNCHANGED <<row, pages, commands, toServer, session, ask, watched, history, accepted, close>>

(* A stream whose client is gone takes a command from the channel of all.   *)
SwallowCommand ==
    /\ halfOpen /\ commands # <<>>
    /\ commands' = Tail(commands)
    /\ UNCHANGED <<row, pages, replies, toBot, toServer, session, ask, watched, history, accepted, close>>

(* ProcessEbo.                                                              *)
ProcessDelete(C) ==
    /\ \/ row' = [c \in Arbs |-> IF c \in C THEN "none" ELSE row[c]] /\ NoFault
       \/ Fault /\ UNCHANGED row
    /\ UNCHANGED replies

(* ON CONFLICT DO NOTHING.                                                  *)
ProcessArb(C) ==
    /\ \/ /\ row' = [c \in Arbs |-> IF c \in C /\ row[c] = "none" THEN "found" ELSE row[c]]
          /\ NoFault
       \/ Fault /\ UNCHANGED row
    /\ UNCHANGED replies

(* Mistake: answer with all the arbs there are.                             *)
ProcessAskAll ==
    /\ replies' = Append(replies, Command("arbs", {c \in Arbs : row[c] # "none"}))
    /\ UNCHANGED row /\ NoFault

(* A row that cannot be read is left out, and there is no answer at all if  *)
(* the query fails.                                                         *)
ProcessAsk ==
    LET running == {c \in Arbs : row[c] = "running"}
        Answer(C) == replies' = Append(replies, Command("arbs", C))
    IN  /\ \/ Answer(running) /\ NoFault
           \/ (\E C \in SUBSET running \ {running} : Answer(C)) /\ Fault
           \/ UNCHANGED replies /\ Fault
        /\ UNCHANGED row

ProcessEbo ==
    /\ toServer # <<>> /\ link
    /\ toServer' = Tail(toServer)
    /\ LET ebo == Head(toServer)
       IN  \/ ebo.kind = "delete" /\ ProcessDelete(ebo.arbs)
           \/ ebo.kind = "arb" /\ ProcessArb(ebo.arbs)
           \/ ebo.kind = "ask" /\ ProcessAsk
    /\ UNCHANGED <<pages, commands, toBot, session, ask, watched, accepted, close>>

-------------------------------------------------------------------------------
(* The bot.                                                                 *)

Report(kind, C) ==
    IF C = {} THEN UNCHANGED toServer
    ELSE Len(toServer) < QueueCap /\ toServer' = Append(toServer, Command(kind, C))

(* resolve_discovered_list has found the pair, perhaps again.               *)
Discover(c) ==
    /\ Act(c)
    /\ Report("arb", {c})
    /\ UNCHANGED <<row, pages, commands, replies, toBot, session, ask, watched, accepted, close>>

(* find_arb: an arb is watched, or refused because it closes within the     *)
(* hour and reported as deleted, or dropped and not reported.  An arb whose *)
(* close is past is not refused (close_time > now).                         *)
FindArbs(C) ==
    LET refused == {c \in C : close[c] = "hour"}
    IN  \E dropped \in SUBSET (C \ refused) :
            /\ IF dropped = {} THEN NoFault ELSE Fault
            /\ watched' = (watched \ refused) \cup (C \ (refused \cup dropped))
            /\ Report("delete", refused)

DeleteArbs(C) ==
    /\ watched' = watched \ C
    /\ Report("delete", C)
    /\ NoFault

(* Time passes; what is under way for an arb takes less than an hour.       *)
Pass(c) ==
    /\ close[c] # "past"
    /\ IF close[c] = "hour" THEN Act(c) ELSE NoFault
    /\ close' = [close EXCEPT ![c] = IF @ = "far" THEN "hour" ELSE "past"]
    /\ UNCHANGED <<row, pages, queues, session, ask, watched, accepted>>

(* A message of the platform makes the bot give the arb up: unregister_arb, *)
(* and no report.                                                           *)
MarketEnds(c) ==
    /\ c \in watched /\ Fault
    /\ watched' = watched \ {c}
    /\ UNCHANGED <<row, pages, queues, session, ask, accepted, close>>

HandleCommand ==
    /\ toBot # <<>>
    /\ toBot' = Tail(toBot)
    /\ LET ebo == Head(toBot)
       IN  IF ebo.kind = "delete" THEN DeleteArbs(ebo.arbs) ELSE FindArbs(ebo.arbs)
    /\ UNCHANGED <<row, pages, commands, replies, session, ask, accepted, close>>

(* Mistake: ask on no connection but that of the first start.               *)
ConnectAskNever ==
    /\ ~link
    /\ link' = TRUE
    /\ ask' = "done"
    /\ UNCHANGED <<row, pages, queues, halfOpen, watched, history, accepted, close>>

(* A session opens; the first of the process starts the timer.              *)
Connect ==
    /\ ~link
    /\ link' = TRUE
    /\ ask' = IF ask = "first" THEN "armed" ELSE ask
    /\ UNCHANGED <<row, pages, queues, halfOpen, watched, history, accepted, close>>

(* The timer of thirty seconds fires, in the session that started it; a     *)
(* page that was asked for before has been answered by then.                *)
Ask ==
    /\ ask = "armed" /\ link
    /\ calm' = (calm /\ \A c \in Arbs : runAt[c] = "idle" /\ deleteAt[c] = "idle")
    /\ UNCHANGED faults
    /\ Len(toServer) < QueueCap
    /\ toServer' = Append(toServer, Command("ask", {}))
    /\ ask' = "done"
    /\ UNCHANGED <<row, pages, commands, replies, toBot, session, watched, accepted, close>>

(* A break takes the replies and what the bot has not received along, of    *)
(* what it sent all that the server has not processed, and the timer.       *)
Break ==
    /\ link /\ Fault
    /\ link' = FALSE /\ halfOpen' \in BOOLEAN
    /\ replies' = <<>>
    /\ \E n \in 0..Len(toBot) : toBot' = SubSeq(toBot, 1, n)
    /\ \E n \in 1..Len(toServer) + 1 : toServer' = SubSeq(toServer, n, Len(toServer))
    /\ ask' = IF ask = "armed" THEN "done" ELSE ask
    /\ UNCHANGED <<row, pages, commands, watched, accepted, close>>

(* The server finds out that the client is gone.                            *)
EndHalfOpen ==
    /\ halfOpen
    /\ halfOpen' = FALSE
    /\ UNCHANGED <<row, pages, queues, link, ask, watched, history, accepted, close>>

(* Nothing the bot has survives.                                            *)
Restart ==
    /\ faults < MaxFaults /\ faults' = faults + 1
    /\ UNCHANGED calm
    /\ link' = FALSE /\ halfOpen' = FALSE
    /\ replies' = <<>> /\ toBot' = <<>> /\ toServer' = <<>>
    /\ watched' = {}
    /\ ask' = "first"
    /\ UNCHANGED <<row, pages, commands, accepted, close>>

-------------------------------------------------------------------------------
Page ==
    \E c \in Arbs :
        \/ RunRead(c) \/ RunSend(c) \/ RunTimesOut(c) \/ RunUpdate(c)
        \/ DeleteSend(c) \/ DeleteRow(c)

Stream == SendCommand \/ SendReply \/ ProcessEbo \/ EndHalfOpen

Bot == HandleCommand \/ Connect \/ Ask

Next ==
    \/ Page \/ Stream \/ SwallowCommand \/ Bot
    \/ \E c \in Arbs : Discover(c) \/ MarketEnds(c) \/ Pass(c)
    \/ Break \/ Restart

(* Goroutines and tasks that can go on do, the keepalive of the stream ends *)
(* it at both sides, and the bot connects again.                            *)
Spec ==
    /\ Init /\ [][Next]_vars
    /\ \A c \in Arbs :
          WF_vars(RunSend(c) \/ RunTimesOut(c) \/ RunUpdate(c) \/ DeleteRow(c))
    /\ WF_vars(SendCommand) /\ WF_vars(SendReply) /\ WF_vars(ProcessEbo)
    /\ SF_vars(HandleCommand) /\ WF_vars(Connect) /\ SF_vars(Ask)

-------------------------------------------------------------------------------
TypeOK ==
    /\ row \in [Arbs -> {"none", "found", "running"}]
    /\ runAt \in [Arbs -> {"idle", "send", "update"}]
    /\ deleteAt \in [Arbs -> {"idle", "delete"}]
    /\ commands \in Seq([kind : {"run", "delete"}, arbs : SUBSET Arbs])
    /\ Len(commands) <= QueueCap
    /\ replies \in Seq([kind : {"arbs"}, arbs : SUBSET Arbs])
    /\ toBot \in Seq([kind : {"run", "delete", "arbs"}, arbs : SUBSET Arbs])
    /\ toServer \in Seq([kind : {"delete", "arb", "ask"}, arbs : SUBSET Arbs])
    /\ link \in BOOLEAN /\ halfOpen \in BOOLEAN
    /\ ask \in {"first", "armed", "done"}
    /\ watched \subseteq Arbs /\ accepted \subseteq Arbs
    /\ close \in [Arbs -> {"far", "hour", "past"}]
    /\ faults \in 0..MaxFaults /\ calm \in BOOLEAN

(* Of an arb about which nothing is under way, the dashboard says that it   *)
(* runs only if the bot watches it: "For every accepted pair the bot        *)
(* subscribes to both legs' live top-of-book" (README.md:73).  Restarts of  *)
(* the bot at any moment do not spoil it, through GetRunningArbs            *)
(* (grpc.rs:107-124).  A break of the session does, and so does an arb that *)
(* find_arb drops, or that the bot gives up when its market ends, or two    *)
(* changes of one arb at a time.                                            *)
RunningIsWatched ==
    calm => \A c \in Arbs : Settled(c) /\ row[c] = "running" => c \in watched

(* ... and the bot trades no arb that the dashboard does not show as        *)
(* running, although the handler sends the command before it writes the     *)
(* row (handlers.go:371-373 and 451-453), and the bot reports what it       *)
(* refuses while the handler has still to write.                            *)
WatchedIsRunning ==
    calm => \A c \in Arbs : Settled(c) /\ c \in watched => row[c] = "running"

(* Whatever goes wrong, the bot trades, and the dashboard calls running, no *)
(* arb that the user never accepted: "you accept a pair" (README.md), and a *)
(* pair that is only found is not in the answer to GetRunningArbs.          *)
OnlyAcceptedRun ==
    watched \cup {c \in Arbs : row[c] = "running"} \subseteq accepted

(* An arb that is marked as running comes to be watched, or is taken off.   *)
RunIsHonoured ==
    \A c \in Arbs : row[c] = "running" ~> c \in watched \/ row[c] # "running" \/ ~calm
===============================================================================
