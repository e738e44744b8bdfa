--------------------------- MODULE Dashboard_proofs ---------------------------
(***************************************************************************)
(* Theorems about Dashboard, for every set of arbs, every capacity of the  *)
(* queues and any number of faults: the types, that no arb runs that the   *)
(* user never accepted, and, while every fault is a restart and no two     *)
(* changes of an arb overlap, that the dashboard and the bot agree on what *)
(* runs.                                                                   *)
(***************************************************************************)
EXTENDS Dashboard, SequenceTheorems, TLAPS

USE DashboardAssumption

(* What may be on its way to the bot: deletions, and accepted arbs to run.  *)
Safe(A) ==
    [kind : {"delete"}, arbs : SUBSET Arbs] \cup [kind : {"run", "arbs"}, arbs : SUBSET A]

(* Only accepted arbs are on their way to run, wherever they are: in the    *)
(* handler, in GrpcComms, in the answer to GetRunningArbs or on the stream. *)
AcceptedOnTheWay ==
    /\ \A c \in Arbs : runAt[c] # "idle" => c \in accepted
    /\ commands \in Seq(Safe(accepted))
    /\ replies \in Seq(Safe(accepted))
    /\ toBot \in Seq(Safe(accepted))

AcceptInv == TypeOK /\ OnlyAcceptedRun /\ AcceptedOnTheWay

CommandType == [kind : {"run", "delete"}, arbs : SUBSET Arbs]
ReplyType == [kind : {"arbs"}, arbs : SUBSET Arbs]
ToBotType == [kind : {"run", "delete", "arbs"}, arbs : SUBSET Arbs]
ToServerType == [kind : {"delete", "arb", "ask"}, arbs : SUBSET Arbs]

-------------------------------------------------------------------------------
(* What is safe to send stays so when more arbs are accepted.               *)
LEMMA SafeGrows ==
    ASSUME NEW A, NEW B, A \subseteq B, NEW s \in Seq(Safe(A))
    PROVE  s \in Seq(Safe(B))
<1>1. Safe(A) \subseteq Safe(B)
  BY DEF Safe
<1> QED
  <2>1. Len(s) \in Nat /\ \A i \in 1..Len(s) : s[i] \in Safe(B)
    BY <1>1
  <2>2. s = [i \in 1..Len(s) |-> s[i]]
    OBVIOUS
  <2> QED  BY <2>1, <2>2

LEMMA AppendStays ==
    ASSUME NEW S, NEW s \in Seq(S), NEW e \in S
    PROVE  Append(s, e) \in Seq(S) /\ Len(Append(s, e)) = Len(s) + 1
  BY AppendProperties

LEMMA TailStays ==
    ASSUME NEW S, NEW s \in Seq(S), s # <<>>
    PROVE  /\ Head(s) \in S /\ Tail(s) \in Seq(S)
           /\ Len(s) \in Nat /\ Len(Tail(s)) <= Len(s)
  BY HeadTailProperties

(* A fault is counted within the bound.                                     *)
LEMMA HistoryTyped ==
    ASSUME TypeOK, NoFault \/ Fault
    PROVE  faults' \in 0..MaxFaults /\ calm' \in BOOLEAN
<1>1. MaxFaults \in Nat /\ faults \in 0..MaxFaults
  BY DashboardAssumption DEF TypeOK
<1>2. calm \in BOOLEAN
  BY DEF TypeOK
<1>3. CASE NoFault
  <2>1. faults' = faults /\ calm' = calm
    BY <1>3 DEF NoFault, history
  <2> QED  BY <2>1, <1>1, <1>2
<1>4. CASE Fault
  <2>1. faults < MaxFaults /\ faults' = faults + 1
    BY <1>4 DEF Fault
  <2>2. calm' = FALSE
    BY <1>4 DEF Fault
  <2>3. faults' \in 0..MaxFaults
    BY <2>1, <1>1
  <2> QED  BY <2>2, <2>3
<1> QED  BY <1>3, <1>4

(* A message that is sent has the type of its queue and is safe.            *)
LEMMA CommandTyped ==
    ASSUME NEW C \in SUBSET Arbs, NEW kind
    PROVE  /\ kind \in {"run", "delete"} => Command(kind, C) \in CommandType
           /\ kind = "arbs" => Command(kind, C) \in ReplyType
           /\ kind \in {"delete", "arb", "ask"} => Command(kind, C) \in ToServerType
           /\ kind = "delete" => \A A : Command(kind, C) \in Safe(A)
           /\ kind \in {"run", "arbs"} => \A A : C \subseteq A => Command(kind, C) \in Safe(A)
  BY DEF Command, CommandType, ReplyType, ToServerType, Safe

LEMMA AcceptStarts == Init => AcceptInv
<1> SUFFICES ASSUME Init PROVE AcceptInv  OBVIOUS
<1>1. TypeOK
  <2>1. QueueCap \in Nat /\ MaxFaults \in Nat
    OBVIOUS
  <2>2. \A S : <<>> \in Seq(S) /\ Len(<<>>) = 0
    OBVIOUS
  <2>3. /\ commands \in Seq(CommandType) /\ replies \in Seq(ReplyType)
        /\ toBot \in Seq(ToBotType) /\ toServer \in Seq(ToServerType)
        /\ Len(commands) <= QueueCap
    BY <2>1, <2>2 DEF Init
  <2>4. faults \in 0..MaxFaults
    BY <2>1 DEF Init
  <2> QED
    BY <2>3, <2>4 DEF Init, TypeOK, CommandType, ReplyType, ToBotType, ToServerType
<1>2. OnlyAcceptedRun /\ AcceptedOnTheWay
  BY DEF Init, OnlyAcceptedRun, AcceptedOnTheWay
<1> QED  BY <1>1, <1>2 DEF AcceptInv

-------------------------------------------------------------------------------
(* The pages.                                                               *)
LEMMA PageKeeps ==
    ASSUME AcceptInv, NEW c \in Arbs,
           \/ RunRead(c) \/ RunSend(c) \/ RunTimesOut(c) \/ RunUpdate(c)
           \/ DeleteSend(c) \/ DeleteRow(c)
    PROVE  AcceptInv'
<1> USE DEF AcceptInv
<1>1. CASE RunRead(c)
  <2>1. /\ accepted' = accepted \cup {c} /\ runAt' = [runAt EXCEPT ![c] = "send"]
        /\ calm' \in BOOLEAN
        /\ UNCHANGED <<row, deleteAt, commands, replies, toBot, toServer, link, halfOpen,
                       ask, watched, close, faults>>
    BY <1>1 DEF RunRead, Act, queues, session, Settled, TypeOK
  <2>2. TypeOK' /\ OnlyAcceptedRun'
    BY <2>1 DEF TypeOK, OnlyAcceptedRun
  <2>3. AcceptedOnTheWay'
    BY <2>1, SafeGrows DEF AcceptedOnTheWay, TypeOK
  <2> QED  BY <2>2, <2>3
<1>2. CASE RunSend(c)
  <2> DEFINE command == Command("run", {c})
  <2>1. /\ commands' = Append(commands, command) /\ Len(commands) < QueueCap
        /\ runAt' = [runAt EXCEPT ![c] = "update"] /\ runAt[c] = "send"
        /\ UNCHANGED <<row, deleteAt, replies, toBot, toServer, link, halfOpen, ask, watched,
                       accepted, close, faults, calm>>
    BY <1>2 DEF RunSend, session, history
  <2>2. c \in accepted
    BY <2>1 DEF AcceptedOnTheWay
  <2>3. command \in CommandType /\ command \in Safe(accepted)
    BY <2>2, CommandTyped
  <2> HIDE DEF command
  <2>4. commands' \in Seq(CommandType) /\ Len(commands') = Len(commands) + 1
    BY <2>1, <2>3, AppendStays DEF TypeOK, CommandType
  <2>5. commands' \in Seq(Safe(accepted))
    BY <2>1, <2>3, AppendStays DEF AcceptedOnTheWay
  <2>6. Len(commands') <= QueueCap
    BY <2>1, <2>4 DEF TypeOK
  <2>7. TypeOK' /\ OnlyAcceptedRun'
    BY <2>1, <2>4, <2>6 DEF TypeOK, OnlyAcceptedRun, CommandType
  <2>8. AcceptedOnTheWay'
    BY <2>1, <2>2, <2>5 DEF AcceptedOnTheWay, TypeOK
  <2> QED  BY <2>7, <2>8
<1>3. CASE RunTimesOut(c)
  <2>1. /\ runAt' = [runAt EXCEPT ![c] = "idle"]
        /\ UNCHANGED <<row, deleteAt, commands, replies, toBot, toServer, link, halfOpen, ask,
                       watched, accepted, close, faults, calm>>
    BY <1>3 DEF RunTimesOut, queues, session, history
  <2> QED  BY <2>1 DEF TypeOK, OnlyAcceptedRun, AcceptedOnTheWay
<1>4. CASE RunUpdate(c)
  <2>1. /\ runAt' = [runAt EXCEPT ![c] = "idle"] /\ runAt[c] = "update"
        /\ row' \in {row, [row EXCEPT ![c] = "running"]}
        /\ faults' \in 0..MaxFaults /\ calm' \in BOOLEAN
        /\ UNCHANGED <<deleteAt, commands, replies, toBot, toServer, link, halfOpen, ask,
                       watched, accepted, close>>
    <3>1. NoFault \/ Fault
      BY <1>4 DEF RunUpdate
    <3> QED  BY <1>4, <3>1, HistoryTyped DEF RunUpdate, queues, session
  <2>2. c \in accepted
    BY <2>1 DEF AcceptedOnTheWay
  <2> QED  BY <2>1, <2>2 DEF TypeOK, OnlyAcceptedRun, AcceptedOnTheWay
<1>5. CASE DeleteSend(c)
  <2> DEFINE command == Command("delete", {c})
  <2>1. /\ commands' = Append(commands, command) /\ Len(commands) < QueueCap
        /\ deleteAt' = [deleteAt EXCEPT ![c] = "delete"]
        /\ calm' \in BOOLEAN
        /\ UNCHANGED <<row, runAt, replies, toBot, toServer, link, halfOpen, ask, watched,
                       accepted, close, faults>>
    BY <1>5 DEF DeleteSend, Act, session, Settled, TypeOK
  <2>2. command \in CommandType /\ command \in Safe(accepted)
    BY CommandTyped
  <2> HIDE DEF command
  <2>3. commands' \in Seq(CommandType) /\ Len(commands') = Len(commands) + 1
    BY <2>1, <2>2, AppendStays DEF TypeOK, CommandType
  <2>4. commands' \in Seq(Safe(accepted))
    BY <2>1, <2>2, AppendStays DEF AcceptedOnTheWay
  <2>5. Len(commands') <= QueueCap
    BY <2>1, <2>3 DEF TypeOK
  <2>6. TypeOK' /\ OnlyAcceptedRun'
    BY <2>1, <2>3, <2>5 DEF TypeOK, OnlyAcceptedRun, CommandType
  <2>7. AcceptedOnTheWay'
    BY <2>1, <2>4 DEF AcceptedOnTheWay, TypeOK
  <2> QED  BY <2>6, <2>7
<1>6. CASE DeleteRow(c)
  <2>1. /\ deleteAt' = [deleteAt EXCEPT ![c] = "idle"]
        /\ row' \in {row, [row EXCEPT ![c] = "none"]}
        /\ faults' \in 0..MaxFaults /\ calm' \in BOOLEAN
        /\ UNCHANGED <<runAt, commands, replies, toBot, toServer, link, halfOpen, ask,
                       watched, accepted, close>>
    <3>1. NoFault \/ Fault
      BY <1>6 DEF DeleteRow
    <3> QED  BY <1>6, <3>1, HistoryTyped DEF DeleteRow, queues, session
  <2> QED  BY <2>1 DEF TypeOK, OnlyAcceptedRun, AcceptedOnTheWay
<1> QED  BY <1>1, <1>2, <1>3, <1>4, <1>5, <1>6

-------------------------------------------------------------------------------
(* The stream.                                                              *)
LEMMA SendCommandKeeps == ASSUME AcceptInv, SendCommand PROVE AcceptInv'
<1> USE DEF AcceptInv
<1>1. /\ commands # <<>>
      /\ toBot' = Append(toBot, Head(commands)) /\ commands' = Tail(commands)
      /\ UNCHANGED <<row, runAt, deleteAt, replies, toServer, link, halfOpen, ask, watched,
                     accepted, close, faults, calm>>
  BY DEF SendCommand, pages, session, history
<1>2. /\ Head(commands) \in CommandType /\ commands' \in Seq(CommandType)
      /\ Len(commands') <= QueueCap
  <2>1. commands \in Seq(CommandType) /\ Len(commands) <= QueueCap
    BY DEF TypeOK, CommandType
  <2>2. /\ Head(commands) \in CommandType /\ Tail(commands) \in Seq(CommandType)
        /\ Len(commands) \in Nat /\ Len(Tail(commands)) <= Len(commands)
    BY <1>1, <2>1, TailStays
  <2>3. Len(Tail(commands)) \in Nat /\ QueueCap \in Nat
    BY <2>2, DashboardAssumption
  <2>4. Len(Tail(commands)) <= QueueCap
    BY <2>1, <2>2, <2>3
  <2> QED  BY <1>1, <2>2, <2>4
<1>3. Head(commands) \in ToBotType
  BY <1>2 DEF CommandType, ToBotType
<1>4. toBot' \in Seq(ToBotType)
  BY <1>1, <1>3, AppendStays DEF TypeOK, ToBotType
<1>5. Head(commands) \in Safe(accepted) /\ commands' \in Seq(Safe(accepted))
  BY <1>1, TailStays DEF AcceptedOnTheWay
<1>6. toBot' \in Seq(Safe(accepted))
  BY <1>1, <1>5, AppendStays DEF AcceptedOnTheWay
<1>7. TypeOK' /\ OnlyAcceptedRun'
  BY <1>1, <1>2, <1>4 DEF TypeOK, OnlyAcceptedRun, CommandType, ToBotType
<1>8. AcceptedOnTheWay'
  BY <1>1, <1>5, <1>6 DEF AcceptedOnTheWay
<1> QED  BY <1>7, <1>8

LEMMA SendReplyKeeps == ASSUME AcceptInv, SendReply PROVE AcceptInv'
<1> USE DEF AcceptInv
<1>1. /\ replies # <<>>
      /\ toBot' = Append(toBot, Head(replies)) /\ replies' = Tail(replies)
      /\ UNCHANGED <<row, runAt, deleteAt, commands, toServer, link, halfOpen, ask, watched,
                     accepted, close, faults, calm>>
  BY DEF SendReply, pages, session, history
<1>2. Head(replies) \in ReplyType /\ replies' \in Seq(ReplyType)
  BY <1>1, TailStays DEF TypeOK, ReplyType
<1>3. Head(replies) \in ToBotType
  BY <1>2 DEF ReplyType, ToBotType
<1>4. toBot' \in Seq(ToBotType)
  BY <1>1, <1>3, AppendStays DEF TypeOK, ToBotType
<1>5. Head(replies) \in Safe(accepted) /\ replies' \in Seq(Safe(accepted))
  BY <1>1, TailStays DEF AcceptedOnTheWay
<1>6. toBot' \in Seq(Safe(accepted))
  BY <1>1, <1>5, AppendStays DEF AcceptedOnTheWay
<1>7. TypeOK' /\ OnlyAcceptedRun'
  BY <1>1, <1>2, <1>4 DEF TypeOK, OnlyAcceptedRun, ReplyType, ToBotType
<1>8. AcceptedOnTheWay'
  BY <1>1, <1>5, <1>6 DEF AcceptedOnTheWay
<1> QED  BY <1>7, <1>8

LEMMA SwallowKeeps == ASSUME AcceptInv, SwallowCommand PROVE AcceptInv'
<1> USE DEF AcceptInv
<1>1. /\ commands # <<>> /\ commands' = Tail(commands)
      /\ UNCHANGED <<row, runAt, deleteAt, replies, toBot, toServer, link, halfOpen, ask,
                     watched, accepted, close, faults, calm>>
  BY DEF SwallowCommand, pages, session, history
<1>2. commands' \in Seq(CommandType) /\ Len(commands') <= QueueCap
  BY <1>1, TailStays DEF TypeOK, CommandType
<1>3. commands' \in Seq(Safe(accepted))
  BY <1>1, TailStays DEF AcceptedOnTheWay
<1>4. TypeOK' /\ OnlyAcceptedRun'
  BY <1>1, <1>2 DEF TypeOK, OnlyAcceptedRun, CommandType
<1>5. AcceptedOnTheWay'
  BY <1>1, <1>3 DEF AcceptedOnTheWay
<1> QED  BY <1>4, <1>5

(* The answer to GetRunningArbs is safe because only accepted arbs run.     *)
LEMMA ProcessKeeps == ASSUME AcceptInv, ProcessEbo PROVE AcceptInv'
<1> USE DEF AcceptInv
<1> DEFINE ebo == Head(toServer)
           running == {c \in Arbs : row[c] = "running"}
<1>1. /\ toServer # <<>> /\ toServer' = Tail(toServer)
      /\ \/ ProcessDelete(ebo.arbs)
         \/ ProcessArb(ebo.arbs)
         \/ ProcessAsk
      /\ UNCHANGED <<runAt, deleteAt, commands, toBot, link, halfOpen, ask, watched,
                     accepted, close>>
  BY DEF ProcessEbo, pages, session
<1>2. toServer' \in Seq(ToServerType)
  BY <1>1, TailStays DEF TypeOK, ToServerType
<1>3. faults' \in 0..MaxFaults /\ calm' \in BOOLEAN
  BY <1>1, HistoryTyped DEF ProcessDelete, ProcessArb, ProcessAsk
<1>4. /\ row' \in [Arbs -> {"none", "found", "running"}]
      /\ \A c \in Arbs : row'[c] = "running" => row[c] = "running"
  <2>1. CASE ProcessDelete(ebo.arbs)
    BY <2>1 DEF ProcessDelete, TypeOK
  <2>2. CASE ProcessArb(ebo.arbs)
    BY <2>2 DEF ProcessArb, TypeOK
  <2>3. CASE ProcessAsk
    BY <2>3 DEF ProcessAsk, TypeOK
  <2> QED  BY <1>1, <2>1, <2>2, <2>3
<1>5. replies' \in Seq(ReplyType) /\ replies' \in Seq(Safe(accepted))
  <2>1. replies \in Seq(ReplyType) /\ replies \in Seq(Safe(accepted))
    BY DEF TypeOK, ReplyType, AcceptedOnTheWay
  <2>2. CASE ProcessAsk
    <3>1. replies' = replies \/ \E C \in SUBSET running : replies' = Append(replies, Command("arbs", C))
      BY <2>2 DEF ProcessAsk
    <3>2. running \in SUBSET Arbs /\ running \subseteq accepted
      BY DEF OnlyAcceptedRun
    <3>3. ASSUME NEW C \in SUBSET running
          PROVE  Command("arbs", C) \in ReplyType /\ Command("arbs", C) \in Safe(accepted)
      BY <3>2, CommandTyped
    <3> QED  BY <2>1, <3>1, <3>3, AppendStays
  <2>3. CASE ProcessDelete(ebo.arbs) \/ ProcessArb(ebo.arbs)
    BY <2>1, <2>3 DEF ProcessDelete, ProcessArb
  <2> QED  BY <1>1, <2>2, <2>3
<1>6. TypeOK' /\ OnlyAcceptedRun'
  BY <1>1, <1>2, <1>3, <1>4, <1>5 DEF TypeOK, OnlyAcceptedRun, ReplyType, ToServerType
<1>7. AcceptedOnTheWay'
  BY <1>1, <1>5 DEF AcceptedOnTheWay
<1> QED  BY <1>6, <1>7

-------------------------------------------------------------------------------
(* The bot.                                                                 *)
LEMMA ReportTyped ==
    ASSUME TypeOK, NEW C \in SUBSET Arbs, NEW kind \in {"delete", "arb", "ask"},
           Report(kind, C)
    PROVE  toServer' \in Seq(ToServerType)
<1>1. toServer \in Seq(ToServerType) /\ Command(kind, C) \in ToServerType
  BY CommandTyped DEF TypeOK, ToServerType
<1> QED  BY <1>1, AppendStays DEF Report

LEMMA HandleKeeps == ASSUME AcceptInv, HandleCommand PROVE AcceptInv'
<1> USE DEF AcceptInv
<1> DEFINE ebo == Head(toBot)
<1>1. /\ toBot # <<>> /\ toBot' = Tail(toBot)
      /\ IF ebo.kind = "delete" THEN DeleteArbs(ebo.arbs) ELSE FindArbs(ebo.arbs)
      /\ UNCHANGED <<row, runAt, deleteAt, commands, replies, link, halfOpen, ask,
                     accepted, close>>
  BY DEF HandleCommand, pages, session
<1>2. ebo \in ToBotType /\ toBot' \in Seq(ToBotType)
  BY <1>1, TailStays DEF TypeOK, ToBotType
<1>3. ebo \in Safe(accepted) /\ toBot' \in Seq(Safe(accepted))
  BY <1>1, TailStays DEF AcceptedOnTheWay
<1>4. ebo.arbs \in SUBSET Arbs /\ (ebo.kind # "delete" => ebo.arbs \subseteq accepted)
  BY <1>2, <1>3 DEF ToBotType, Safe
<1> HIDE DEF ebo
<1>5. /\ watched' \subseteq Arbs /\ watched' \subseteq accepted
      /\ toServer' \in Seq(ToServerType)
      /\ faults' \in 0..MaxFaults /\ calm' \in BOOLEAN
  <2>1. watched \subseteq Arbs /\ watched \subseteq accepted
    BY DEF TypeOK, OnlyAcceptedRun
  <2>2. CASE ebo.kind = "delete"
    <3>1. watched' = watched \ ebo.arbs /\ Report("delete", ebo.arbs) /\ NoFault
      BY <1>1, <2>2 DEF DeleteArbs
    <3> QED  BY <1>4, <2>1, <3>1, ReportTyped, HistoryTyped
  <2>3. CASE ebo.kind # "delete"
    <3> DEFINE refused == {c \in ebo.arbs : close[c] = "hour"}
    <3>1. PICK dropped \in SUBSET (ebo.arbs \ refused) :
             /\ IF dropped = {} THEN NoFault ELSE Fault
             /\ watched' = (watched \ refused) \cup (ebo.arbs \ (refused \cup dropped))
             /\ Report("delete", refused)
      BY <1>1, <2>3 DEF FindArbs
    <3>2. refused \in SUBSET Arbs
      BY <1>4
    <3> QED  BY <1>4, <2>1, <2>3, <3>1, <3>2, ReportTyped, HistoryTyped
  <2> QED  BY <2>2, <2>3
<1>6. TypeOK' /\ OnlyAcceptedRun'
  BY <1>1, <1>2, <1>5 DEF TypeOK, OnlyAcceptedRun, ToBotType, ToServerType
<1>7. AcceptedOnTheWay'
  BY <1>1, <1>3 DEF AcceptedOnTheWay
<1> QED  BY <1>6, <1>7

(* What the bot finds, asks, gives up and connects to.                      *)
LEMMA BotKeeps ==
    ASSUME AcceptInv,
           \/ \E c \in Arbs : Discover(c) \/ MarketEnds(c) \/ Pass(c)
           \/ Connect \/ Ask \/ EndHalfOpen
    PROVE  AcceptInv'
<1> USE DEF AcceptInv
<1>1. ASSUME NEW c \in Arbs, Discover(c) PROVE AcceptInv'
  <2>1. /\ Report("arb", {c}) /\ calm' \in BOOLEAN
        /\ UNCHANGED <<row, runAt, deleteAt, commands, replies, toBot, link, halfOpen, ask,
                       watched, accepted, close, faults>>
    BY <1>1 DEF Discover, Act, Settled, TypeOK, pages, session
  <2>2. toServer' \in Seq(ToServerType)
    BY <2>1, ReportTyped
  <2> QED  BY <2>1, <2>2 DEF TypeOK, OnlyAcceptedRun, AcceptedOnTheWay, ToServerType
<1>2. ASSUME NEW c \in Arbs, MarketEnds(c) PROVE AcceptInv'
  <2>1. /\ watched' = watched \ {c} /\ faults' \in 0..MaxFaults /\ calm' \in BOOLEAN
        /\ UNCHANGED <<row, runAt, deleteAt, commands, replies, toBot, toServer, link,
                       halfOpen, ask, accepted, close>>
    BY <1>2, HistoryTyped DEF MarketEnds, pages, queues, session
  <2> QED  BY <2>1 DEF TypeOK, OnlyAcceptedRun, AcceptedOnTheWay
<1>3. ASSUME NEW c \in Arbs, Pass(c) PROVE AcceptInv'
  <2>1. /\ close' \in [Arbs -> {"far", "hour", "past"}]
        /\ calm' \in BOOLEAN
        /\ UNCHANGED <<row, runAt, deleteAt, commands, replies, toBot, toServer, link,
                       halfOpen, ask, watched, accepted, faults>>
    BY <1>3 DEF Pass, Act, Settled, NoFault, history, TypeOK, pages, queues, session
  <2> QED  BY <2>1 DEF TypeOK, OnlyAcceptedRun, AcceptedOnTheWay
<1>4. CASE Connect
  <2>1. /\ link' = TRUE /\ ask' \in {"armed", ask}
        /\ UNCHANGED <<row, runAt, deleteAt, commands, replies, toBot, toServer, halfOpen,
                       watched, accepted, close, faults, calm>>
    BY <1>4 DEF Connect, pages, queues, history
  <2> QED  BY <2>1 DEF TypeOK, OnlyAcceptedRun, AcceptedOnTheWay
<1>5. CASE Ask
  <2>1. /\ toServer' = Append(toServer, Command("ask", {})) /\ ask' = "done"
        /\ calm' \in BOOLEAN
        /\ UNCHANGED <<row, runAt, deleteAt, commands, replies, toBot, link, halfOpen,
                       watched, accepted, close, faults>>
    BY <1>5 DEF Ask, pages, session, TypeOK
  <2>2. Command("ask", {}) \in ToServerType
    BY CommandTyped
  <2>3. toServer' \in Seq(ToServerType)
    BY <2>1, <2>2, AppendStays DEF TypeOK, ToServerType
  <2> QED  BY <2>1, <2>3 DEF TypeOK, OnlyAcceptedRun, AcceptedOnTheWay, ToServerType
<1>6. CASE EndHalfOpen
  <2>1. /\ halfOpen' = FALSE
        /\ UNCHANGED <<row, runAt, deleteAt, commands, replies, toBot, toServer, link, ask,
                       watched, accepted, close, faults, calm>>
    BY <1>6 DEF EndHalfOpen, pages, queues, history
  <2> QED  BY <2>1 DEF TypeOK, OnlyAcceptedRun, AcceptedOnTheWay
<1> QED  BY <1>1, <1>2, <1>3, <1>4, <1>5, <1>6

(* What a break leaves of the stream, and a restart of the bot.             *)
LEMMA PartStays ==
    ASSUME NEW S, NEW s \in Seq(S), NEW m \in 1..Len(s) + 1, NEW n \in 0..Len(s)
    PROVE  SubSeq(s, m, n) \in Seq(S)
  BY SubSeqProperties

LEMMA BreakKeeps == ASSUME AcceptInv, Break \/ Restart PROVE AcceptInv'
<1> USE DEF AcceptInv
<1>1. CASE Break
  <2>1. /\ link' = FALSE /\ halfOpen' \in BOOLEAN /\ replies' = <<>>
        /\ \E n \in 0..Len(toBot) : toBot' = SubSeq(toBot, 1, n)
        /\ \E n \in 1..Len(toServer) + 1 : toServer' = SubSeq(toServer, n, Len(toServer))
        /\ ask' \in {"done", ask}
        /\ faults' \in 0..MaxFaults /\ calm' \in BOOLEAN
        /\ UNCHANGED <<row, runAt, deleteAt, commands, watched, accepted, close>>
    BY <1>1, HistoryTyped DEF Break, pages
  <2>2. /\ toBot \in Seq(ToBotType) /\ toBot \in Seq(Safe(accepted))
        /\ toServer \in Seq(ToServerType)
    BY DEF TypeOK, ToBotType, ToServerType, AcceptedOnTheWay
  <2>3. toBot' \in Seq(ToBotType) /\ toBot' \in Seq(Safe(accepted))
    BY <2>1, <2>2, PartStays
  <2>4. toServer' \in Seq(ToServerType)
    BY <2>1, <2>2, PartStays
  <2>5. \A S : replies' \in Seq(S)
    BY <2>1
  <2>6. TypeOK' /\ OnlyAcceptedRun'
    BY <2>1, <2>3, <2>4, <2>5 DEF TypeOK, OnlyAcceptedRun, ToBotType, ToServerType
  <2>7. AcceptedOnTheWay'
    BY <2>1, <2>3, <2>5 DEF AcceptedOnTheWay
  <2> QED  BY <2>6, <2>7
<1>2. CASE Restart
  <2>1. /\ link' = FALSE /\ halfOpen' = FALSE /\ ask' = "first" /\ watched' = {}
        /\ replies' = <<>> /\ toBot' = <<>> /\ toServer' = <<>>
        /\ faults' \in 0..MaxFaults
        /\ UNCHANGED <<row, runAt, deleteAt, commands, accepted, close, calm>>
    BY <1>2 DEF Restart, pages, TypeOK
  <2>2. \A S : replies' \in Seq(S) /\ toBot' \in Seq(S) /\ toServer' \in Seq(S)
    BY <2>1
  <2>3. TypeOK' /\ OnlyAcceptedRun'
    BY <2>1, <2>2 DEF TypeOK, OnlyAcceptedRun
  <2>4. AcceptedOnTheWay'
    BY <2>1, <2>2 DEF AcceptedOnTheWay
  <2> QED  BY <2>3, <2>4
<1> QED  BY <1>1, <1>2

-------------------------------------------------------------------------------
LEMMA AcceptInvariant == Spec => []AcceptInv
<1>1. AcceptInv /\ [Next]_vars => AcceptInv'
  <2> SUFFICES ASSUME AcceptInv, [Next]_vars PROVE AcceptInv'
    OBVIOUS
  <2>1. CASE Page
    BY <2>1, PageKeeps DEF Page
  <2>2. CASE Stream
    BY <2>2, SendCommandKeeps, SendReplyKeeps, ProcessKeeps, BotKeeps DEF Stream
  <2>3. CASE SwallowCommand
    BY <2>3, SwallowKeeps
  <2>4. CASE Bot
    BY <2>4, HandleKeeps, BotKeeps DEF Bot
  <2>5. CASE \E c \in Arbs : Discover(c) \/ MarketEnds(c) \/ Pass(c)
    BY <2>5, BotKeeps
  <2>6. CASE Break \/ Restart
    BY <2>6, BreakKeeps
  <2>7. CASE UNCHANGED vars
    <3>1. UNCHANGED <<row, runAt, deleteAt, commands, replies, toBot, toServer, link,
                      halfOpen, ask, watched, accepted, close, faults, calm>>
      BY <2>7 DEF vars, pages, queues, session, history
    <3> QED  BY <3>1 DEF AcceptInv, TypeOK, OnlyAcceptedRun, AcceptedOnTheWay
  <2> QED  BY <2>1, <2>2, <2>3, <2>4, <2>5, <2>6, <2>7 DEF Next
<1> QED  BY AcceptStarts, <1>1, PTL DEF Spec

(* Every variable of the two sides keeps its type, and GrpcComms its limit. *)
THEOREM TypeCorrect == Spec => []TypeOK
<1>1. AcceptInv => TypeOK
  BY DEF AcceptInv
<1> QED  BY <1>1, AcceptInvariant, PTL

(* However sessions break, the bot restarts, markets end, writes fail and   *)
(* pages overlap, no arb is traded or shown as running that the user never  *)
(* accepted.                                                                *)
THEOREM OnlyAcceptedEverRun == Spec => []OnlyAcceptedRun
<1>1. AcceptInv => OnlyAcceptedRun
  BY DEF AcceptInv
<1> QED  BY <1>1, AcceptInvariant, PTL

-------------------------------------------------------------------------------
(* What the two sides agree on while every fault is a restart and no two    *)
(* changes of an arb overlap.  The order of the messages does not matter,   *)
(* only that a message of a kind names the arb and is still to be handled.  *)
Says(queue, kinds, c) ==
    \E i \in 1..Len(queue) : queue[i].kind \in kinds /\ c \in queue[i].arbs

ToRun ==
    {c \in Arbs : \/ Says(commands, {"run"}, c) \/ Says(replies, {"arbs"}, c)
                  \/ Says(toBot, {"run", "arbs"}, c)}

ToDelete == {c \in Arbs : Says(commands, {"delete"}, c) \/ Says(toBot, {"delete"}, c)}

Reported == {c \in Arbs : Says(toServer, {"delete"}, c)}

Found == {c \in Arbs : Says(toServer, {"arb"}, c)}

(* The bot has still to ask what runs, and the dashboard to read that.      *)
AskToCome == ask \in {"first", "armed"} \/ Has(toServer, "ask")

(* The answer is on its way.                                                *)
Answering == replies # <<>> \/ Has(toBot, "arbs")

Idle(c) == runAt[c] = "idle" /\ deleteAt[c] = "idle"

Confirming(c) == runAt[c] = "update" /\ row[c] # "none"

(* A row that says running, and the handler that is about to write one, has *)
(* a reason not to be watched yet, or is about to be taken back.            *)
RunningHasReason(c) ==
    row[c] = "running" /\ c \notin watched =>
        AskToCome \/ c \in ToRun \cup ToDelete \cup Reported \/ deleteAt[c] = "delete"

ConfirmingHasReason(c) ==
    Confirming(c) /\ c \notin watched => AskToCome \/ c \in ToRun \cup Reported

(* What is watched or is to be run is shown as running, or will be.         *)
WatchedHasReason(c) ==
    c \in watched /\ row[c] # "running" => Confirming(c) \/ c \in ToDelete

RunHasReason(c) ==
    c \in ToRun => row[c] = "running" \/ Confirming(c) \/ close[c] = "hour"

(* A page that runs has the arb to itself, up to the messages it sent.      *)
SendAlone(c) ==
    runAt[c] = "send" =>
        row[c] # "none" /\ c \notin ToRun \cup ToDelete \cup Reported \cup Found

DeleteAlone(c) ==
    /\ deleteAt[c] = "delete" =>
          runAt[c] = "idle" /\ c \notin ToRun /\ (c \in watched => c \in ToDelete)
    /\ c \in ToDelete =>
          /\ runAt[c] = "idle" /\ c \notin ToRun
          /\ row[c] = "running" => deleteAt[c] = "delete"

FoundAlone(c) == c \in Found => Idle(c)

(* The bot reports what it gave up, because it was told to or because the   *)
(* arb closes within the hour.                                              *)
ReportHasReason(c) ==
    c \in Reported =>
        /\ c \notin watched
        /\ c \in ToRun => close[c] = "hour"
        /\ \/ close[c] = "hour"
           \/ runAt[c] = "idle" /\ (row[c] = "running" => deleteAt[c] = "delete")

Agreed(c) ==
    /\ RunningHasReason(c) /\ ConfirmingHasReason(c) /\ WatchedHasReason(c) /\ RunHasReason(c)
    /\ SendAlone(c) /\ DeleteAlone(c) /\ FoundAlone(c) /\ ReportHasReason(c)

(* While the running arbs are asked for and answered no page runs.          *)
AskAlone == Has(toServer, "ask") \/ Answering => \A c \in Arbs : Idle(c)

Agreement == calm => ~halfOpen /\ AskAlone /\ \A c \in Arbs : Agreed(c)

-------------------------------------------------------------------------------
(* What a queue says when a message enters or leaves it.                    *)
LEMMA SaysAppend ==
    ASSUME NEW S, NEW s \in Seq(S), NEW e \in S, NEW kinds, NEW c
    PROVE  Says(Append(s, e), kinds, c) <=>
              Says(s, kinds, c) \/ (e.kind \in kinds /\ c \in e.arbs)
<1>1. /\ Len(s) \in Nat /\ Len(Append(s, e)) = Len(s) + 1
      /\ \A i \in 1..Len(s) : Append(s, e)[i] = s[i]
      /\ Append(s, e)[Len(s) + 1] = e
  BY AppendProperties
<1> QED  BY <1>1 DEF Says

LEMMA SaysTail ==
    ASSUME NEW S, NEW s \in Seq(S), s # <<>>, NEW kinds, NEW c
    PROVE  Says(s, kinds, c) <=>
              Says(Tail(s), kinds, c) \/ (Head(s).kind \in kinds /\ c \in Head(s).arbs)
<1>1. /\ Len(s) \in Nat /\ Len(s) >= 1 /\ Len(Tail(s)) = Len(s) - 1 /\ Head(s) = s[1]
      /\ \A i \in 1..Len(Tail(s)) : Tail(s)[i] = s[i + 1]
  BY HeadTailProperties, EmptySeq
<1>2. ASSUME NEW i \in 1..Len(s) PROVE i = 1 \/ (i - 1 \in 1..Len(Tail(s)) /\ Tail(s)[i - 1] = s[i])
  BY <1>1
<1>3. ASSUME NEW i \in 1..Len(Tail(s)) PROVE i + 1 \in 1..Len(s) /\ s[i + 1] = Tail(s)[i]
  BY <1>1
<1>4. ASSUME Says(s, kinds, c)
      PROVE  Says(Tail(s), kinds, c) \/ (Head(s).kind \in kinds /\ c \in Head(s).arbs)
  <2>1. PICK i \in 1..Len(s) : s[i].kind \in kinds /\ c \in s[i].arbs
    BY <1>4 DEF Says
  <2> QED  BY <1>1, <1>2, <2>1 DEF Says
<1>5. ASSUME Says(Tail(s), kinds, c) PROVE Says(s, kinds, c)
  <2>1. PICK i \in 1..Len(Tail(s)) : Tail(s)[i].kind \in kinds /\ c \in Tail(s)[i].arbs
    BY <1>5 DEF Says
  <2> QED  BY <1>3, <2>1 DEF Says
<1>6. ASSUME Head(s).kind \in kinds, c \in Head(s).arbs PROVE Says(s, kinds, c)
  BY <1>1, <1>6 DEF Says
<1> QED  BY <1>4, <1>5, <1>6

LEMMA HasAppend ==
    ASSUME NEW S, NEW s \in Seq(S), NEW e \in S, NEW kind
    PROVE  Has(Append(s, e), kind) <=> Has(s, kind) \/ e.kind = kind
<1>1. /\ Len(s) \in Nat /\ Len(Append(s, e)) = Len(s) + 1
      /\ \A i \in 1..Len(s) : Append(s, e)[i] = s[i]
      /\ Append(s, e)[Len(s) + 1] = e
  BY AppendProperties
<1> QED  BY <1>1 DEF Has

LEMMA HasTail ==
    ASSUME NEW S, NEW s \in Seq(S), s # <<>>, NEW kind
    PROVE  Has(s, kind) <=> Has(Tail(s), kind) \/ Head(s).kind = kind
<1>1. /\ Len(s) \in Nat /\ Len(s) >= 1 /\ Len(Tail(s)) = Len(s) - 1 /\ Head(s) = s[1]
      /\ \A i \in 1..Len(Tail(s)) : Tail(s)[i] = s[i + 1]
  BY HeadTailProperties, EmptySeq
<1>2. ASSUME NEW i \in 1..Len(s) PROVE i = 1 \/ (i - 1 \in 1..Len(Tail(s)) /\ Tail(s)[i - 1] = s[i])
  BY <1>1
<1>3. ASSUME NEW i \in 1..Len(Tail(s)) PROVE i + 1 \in 1..Len(s) /\ s[i + 1] = Tail(s)[i]
  BY <1>1
<1> QED  BY <1>1, <1>2, <1>3 DEF Has

LEMMA NothingSaid == \A kinds, kind, c : ~Says(<<>>, kinds, c) /\ ~Has(<<>>, kind)
  BY DEF Says, Has

(* A message names its arb from the moment it is sent.                      *)
LEMMA CommandSays ==
    ASSUME NEW kind, NEW C
    PROVE  Command(kind, C).kind = kind /\ Command(kind, C).arbs = C
  BY DEF Command

-------------------------------------------------------------------------------
(* Messages that move along change nothing of it.                           *)
LEMMA QuietStep ==
    ASSUME Agreement, UNCHANGED <<row, runAt, deleteAt, watched, close>>,
           calm' => calm, halfOpen' => halfOpen,
           ToRun' = ToRun, ToDelete' = ToDelete, Reported' = Reported, Found' = Found,
           AskToCome => AskToCome',
           Has(toServer', "ask") \/ Answering' => Has(toServer, "ask") \/ Answering
    PROVE  Agreement'
<1> SUFFICES ASSUME calm' PROVE (~halfOpen /\ AskAlone /\ \A c \in Arbs : Agreed(c))'
  BY DEF Agreement
<1>1. ~halfOpen /\ AskAlone /\ \A c \in Arbs : Agreed(c)
  BY DEF Agreement
<1>2. ~halfOpen'
  BY <1>1
<1>3. AskAlone'
  BY <1>1 DEF AskAlone, Idle
<1>4. ASSUME NEW c \in Arbs PROVE Agreed(c)'
  <2>1. Agreed(c)
    BY <1>1
  <2> QED
    BY <2>1 DEF Agreed, RunningHasReason, ConfirmingHasReason, WatchedHasReason,
                RunHasReason, SendAlone, DeleteAlone, FoundAlone, ReportHasReason,
                Confirming, Idle
<1> QED  BY <1>2, <1>3, <1>4

LEMMA SendCommandAgrees == ASSUME TypeOK, Agreement, SendCommand PROVE Agreement'
<1> DEFINE m == Head(commands)
<1>1. /\ commands # <<>> /\ commands' = Tail(commands) /\ toBot' = Append(toBot, m)
      /\ UNCHANGED <<row, runAt, deleteAt, replies, toServer, halfOpen, ask, watched, close, calm>>
  BY DEF SendCommand, pages, session, history
<1>2. /\ commands \in Seq(CommandType) /\ m \in CommandType
      /\ toBot \in Seq(ToBotType) /\ m \in ToBotType /\ m.kind \in {"run", "delete"}
  <2>1. commands \in Seq(CommandType) /\ toBot \in Seq(ToBotType)
    BY DEF TypeOK, CommandType, ToBotType
  <2>2. m \in CommandType
    BY <1>1, <2>1, TailStays
  <2> QED  BY <2>1, <2>2 DEF CommandType, ToBotType
<1> HIDE DEF m
<1>3. ASSUME NEW kinds, NEW c
      PROVE  /\ Says(commands, kinds, c) <=>
                   Says(commands', kinds, c) \/ (m.kind \in kinds /\ c \in m.arbs)
             /\ Says(toBot', kinds, c) <=>
                   Says(toBot, kinds, c) \/ (m.kind \in kinds /\ c \in m.arbs)
  <2>1. Says(commands, kinds, c) <=>
           Says(Tail(commands), kinds, c) \/ (m.kind \in kinds /\ c \in m.arbs)
    BY <1>1, <1>2, SaysTail DEF m
  <2>2. Says(Append(toBot, m), kinds, c) <=>
           Says(toBot, kinds, c) \/ (m.kind \in kinds /\ c \in m.arbs)
    BY <1>2, SaysAppend
  <2> QED  BY <1>1, <2>1, <2>2
<1>4. Has(toBot', "arbs") <=> Has(toBot, "arbs")
  BY <1>1, <1>2, HasAppend
<1>5. ToRun' = ToRun /\ ToDelete' = ToDelete
  BY <1>1, <1>2, <1>3 DEF ToRun, ToDelete
<1>6. Reported' = Reported /\ Found' = Found /\ AskToCome' = AskToCome
  BY <1>1 DEF Reported, Found, AskToCome
<1>7. Has(toServer', "ask") \/ Answering' => Has(toServer, "ask") \/ Answering
  BY <1>1, <1>4 DEF Answering
<1> QED  BY <1>1, <1>5, <1>6, <1>7, QuietStep

LEMMA SendReplyAgrees == ASSUME TypeOK, Agreement, SendReply PROVE Agreement'
<1> DEFINE m == Head(replies)
<1>1. /\ replies # <<>> /\ replies' = Tail(replies) /\ toBot' = Append(toBot, m)
      /\ UNCHANGED <<row, runAt, deleteAt, commands, toServer, halfOpen, ask, watched, close, calm>>
  BY DEF SendReply, pages, session, history
<1>2. /\ replies \in Seq(ReplyType) /\ m \in ReplyType
      /\ toBot \in Seq(ToBotType) /\ m \in ToBotType /\ m.kind = "arbs"
  <2>1. replies \in Seq(ReplyType) /\ toBot \in Seq(ToBotType)
    BY DEF TypeOK, ReplyType, ToBotType
  <2>2. m \in ReplyType
    BY <1>1, <2>1, TailStays
  <2> QED  BY <2>1, <2>2 DEF ReplyType, ToBotType
<1> HIDE DEF m
<1>3. ASSUME NEW kinds, NEW c
      PROVE  /\ Says(replies, kinds, c) <=>
                   Says(replies', kinds, c) \/ (m.kind \in kinds /\ c \in m.arbs)
             /\ Says(toBot', kinds, c) <=>
                   Says(toBot, kinds, c) \/ (m.kind \in kinds /\ c \in m.arbs)
  <2>1. Says(replies, kinds, c) <=>
           Says(Tail(replies), kinds, c) \/ (m.kind \in kinds /\ c \in m.arbs)
    BY <1>1, <1>2, SaysTail DEF m
  <2>2. Says(Append(toBot, m), kinds, c) <=>
           Says(toBot, kinds, c) \/ (m.kind \in kinds /\ c \in m.arbs)
    BY <1>2, SaysAppend
  <2> QED  BY <1>1, <2>1, <2>2
<1>4. ToRun' = ToRun /\ ToDelete' = ToDelete
  BY <1>1, <1>2, <1>3 DEF ToRun, ToDelete
<1>5. Reported' = Reported /\ Found' = Found /\ AskToCome' = AskToCome
  BY <1>1 DEF Reported, Found, AskToCome
<1>6. Has(toServer', "ask") \/ Answering' => Has(toServer, "ask") \/ Answering
  BY <1>1 DEF Answering
<1> QED  BY <1>1, <1>4, <1>5, <1>6, QuietStep

(* A session opens, and the server finds out that a client is gone.         *)
LEMMA ConnectAgrees == ASSUME TypeOK, Agreement, Connect \/ EndHalfOpen PROVE Agreement'
<1>1. /\ UNCHANGED <<row, runAt, deleteAt, commands, replies, toBot, toServer, watched, close, calm>>
      /\ halfOpen' => halfOpen
      /\ ask \in {"first", "armed"} => ask' \in {"first", "armed"}
  BY DEF Connect, EndHalfOpen, pages, queues, session, history
<1>2. ToRun' = ToRun /\ ToDelete' = ToDelete /\ Reported' = Reported /\ Found' = Found
  BY <1>1 DEF ToRun, ToDelete, Reported, Found
<1>3. /\ AskToCome => AskToCome'
      /\ Has(toServer', "ask") \/ Answering' => Has(toServer, "ask") \/ Answering
  BY <1>1 DEF AskToCome, Answering
<1> QED  BY <1>1, <1>2, <1>3, QuietStep

(* There is no stream to swallow a command.                                 *)
LEMMA SwallowAgrees == ASSUME Agreement, SwallowCommand PROVE Agreement'
  BY DEF SwallowCommand, Agreement, history

LEMMA FaultAgrees == ASSUME Fault PROVE Agreement'
  BY DEF Fault, Agreement

-------------------------------------------------------------------------------
(* The pages.  Nothing is under way that concerns the arb of a page that    *)
(* begins.                                                                  *)
LEMMA SettledIsAlone ==
    ASSUME TypeOK, NEW c \in Arbs, Settled(c)
    PROVE  /\ Idle(c) /\ c \notin ToRun \cup ToDelete \cup Reported \cup Found
           /\ ~AskToCome /\ ~Answering /\ ~Has(toServer, "ask")
<1>1. /\ Idle(c) /\ ~AskToCome /\ ~Answering /\ ~Has(toServer, "ask") /\ replies = <<>>
  BY DEF Settled, Asking, Idle, AskToCome, Answering
<1>2. ASSUME NEW kinds
      PROVE  /\ ~Says(commands, kinds, c) /\ ~Says(toBot, kinds, c)
             /\ ~Says(toServer, kinds, c) /\ ~Says(replies, kinds, c)
  <2>1. ~Says(commands, kinds, c) /\ ~Says(toBot, kinds, c) /\ ~Says(toServer, kinds, c)
    BY DEF Settled, Names, Says
  <2> QED  BY <1>1, <2>1, NothingSaid
<1> QED  BY <1>1, <1>2 DEF ToRun, ToDelete, Reported, Found

(* An arb that a step does not concern.                                     *)
LEMMA OthersAgree ==
    ASSUME NEW c, Agreed(c), AskToCome => AskToCome',
           row'[c] = row[c], runAt'[c] = runAt[c], deleteAt'[c] = deleteAt[c],
           close'[c] = close[c], c \in watched' <=> c \in watched,
           c \in ToRun' <=> c \in ToRun, c \in ToDelete' <=> c \in ToDelete,
           c \in Reported' <=> c \in Reported, c \in Found' <=> c \in Found
    PROVE  Agreed(c)'
  BY DEF Agreed, RunningHasReason, ConfirmingHasReason, WatchedHasReason, RunHasReason,
         SendAlone, DeleteAlone, FoundAlone, ReportHasReason, Confirming, Idle

LEMMA RunReadAgrees == ASSUME TypeOK, Agreement, NEW c \in Arbs, RunRead(c) PROVE Agreement'
<1> SUFFICES ASSUME calm' PROVE (~halfOpen /\ AskAlone /\ \A x \in Arbs : Agreed(x))'
  BY DEF Agreement
<1>1. /\ row[c] # "none" /\ runAt' = [runAt EXCEPT ![c] = "send"] /\ calm /\ Settled(c)
      /\ UNCHANGED <<row, deleteAt, commands, replies, toBot, toServer, halfOpen, ask, watched,
                     close>>
  BY DEF RunRead, Act, queues, session
<1>2. ~halfOpen /\ AskAlone /\ \A x \in Arbs : Agreed(x)
  BY <1>1 DEF Agreement
<1>3. /\ Idle(c) /\ c \notin ToRun \cup ToDelete \cup Reported \cup Found
      /\ ~AskToCome /\ ~Answering /\ ~Has(toServer, "ask")
  BY <1>1, SettledIsAlone
<1>4. /\ ToRun' = ToRun /\ ToDelete' = ToDelete /\ Reported' = Reported /\ Found' = Found
      /\ AskToCome' = AskToCome /\ Answering' = Answering
  BY <1>1 DEF ToRun, ToDelete, Reported, Found, AskToCome, Answering
<1>5. AskAlone' /\ ~halfOpen'
  BY <1>1, <1>2, <1>3, <1>4 DEF AskAlone
<1>6. /\ runAt'[c] = "send" /\ \A x \in Arbs \ {c} : runAt'[x] = runAt[x]
  BY <1>1 DEF TypeOK
<1>7. ASSUME NEW x \in Arbs, x # c PROVE Agreed(x)'
  BY <1>1, <1>2, <1>4, <1>6, <1>7, OthersAgree
<1>8. Agreed(c)'
  <2>1. Agreed(c)
    BY <1>2
  <2> QED
    BY <1>1, <1>3, <1>4, <1>6, <2>1
    DEF Agreed, RunningHasReason, ConfirmingHasReason, WatchedHasReason, RunHasReason,
        SendAlone, DeleteAlone, FoundAlone, ReportHasReason, Confirming, Idle
<1> QED  BY <1>5, <1>7, <1>8

LEMMA RunSendAgrees == ASSUME TypeOK, Agreement, NEW c \in Arbs, RunSend(c) PROVE Agreement'
<1> SUFFICES ASSUME calm' PROVE (~halfOpen /\ AskAlone /\ \A x \in Arbs : Agreed(x))'
  BY DEF Agreement
<1> DEFINE m == Command("run", {c})
<1>1. /\ commands' = Append(commands, m)
      /\ runAt[c] = "send" /\ runAt' = [runAt EXCEPT ![c] = "update"]
      /\ UNCHANGED <<row, deleteAt, replies, toBot, toServer, halfOpen, ask, watched, close, calm>>
  BY DEF RunSend, session, history
<1>2. ~halfOpen /\ AskAlone /\ \A x \in Arbs : Agreed(x)
  BY <1>1 DEF Agreement
<1>3. /\ commands \in Seq(CommandType) /\ m \in CommandType /\ m.kind = "run" /\ m.arbs = {c}
  <2>1. commands \in Seq(CommandType)
    BY DEF TypeOK, CommandType
  <2>2. {c} \in SUBSET Arbs
    OBVIOUS
  <2> QED  BY <2>1, <2>2, CommandTyped, CommandSays
<1> HIDE DEF m
<1>4. ASSUME NEW kinds, NEW x
      PROVE  Says(commands', kinds, x) <=>
                Says(commands, kinds, x) \/ ("run" \in kinds /\ x = c)
  BY <1>1, <1>3, SaysAppend
<1>5. \A x \in Arbs : x \in ToRun' <=> x \in ToRun \/ x = c
  BY <1>1, <1>4 DEF ToRun
<1>6. ToDelete' = ToDelete
  BY <1>1, <1>4 DEF ToDelete
<1>7. /\ Reported' = Reported /\ Found' = Found
      /\ AskToCome' = AskToCome /\ Answering' = Answering
  BY <1>1 DEF Reported, Found, AskToCome, Answering
<1>8. AskAlone' /\ ~halfOpen'
  BY <1>1, <1>2, <1>7 DEF AskAlone, Idle
<1>9. /\ runAt'[c] = "update" /\ \A x \in Arbs \ {c} : runAt'[x] = runAt[x]
  BY <1>1 DEF TypeOK
<1>10. ASSUME NEW x \in Arbs, x # c PROVE Agreed(x)'
  BY <1>1, <1>2, <1>5, <1>6, <1>7, <1>9, <1>10, OthersAgree
<1>11. Agreed(c)'
  <2>1. Agreed(c)
    BY <1>2
  <2> QED
    BY <1>1, <1>5, <1>6, <1>7, <1>9, <2>1
    DEF Agreed, RunningHasReason, ConfirmingHasReason, WatchedHasReason, RunHasReason,
        SendAlone, DeleteAlone, FoundAlone, ReportHasReason, Confirming, Idle
<1> QED  BY <1>8, <1>10, <1>11

LEMMA RunEndsAgrees ==
    ASSUME TypeOK, Agreement, NEW c \in Arbs, RunTimesOut(c) \/ RunUpdate(c)
    PROVE  Agreement'
<1>1. CASE Fault
  BY <1>1, FaultAgrees
<1>2. ASSUME ~Fault PROVE Agreement'
  <2> SUFFICES ASSUME calm' PROVE (~halfOpen /\ AskAlone /\ \A x \in Arbs : Agreed(x))'
    BY DEF Agreement
  <2>1. /\ \/ runAt[c] = "send" /\ row' = row
           \/ /\ runAt[c] = "update"
              /\ row' = IF row[c] = "none" THEN row ELSE [row EXCEPT ![c] = "running"]
        /\ runAt' = [runAt EXCEPT ![c] = "idle"]
        /\ UNCHANGED <<deleteAt, commands, replies, toBot, toServer, halfOpen, ask, watched,
                       close, calm>>
    BY <1>2 DEF RunTimesOut, RunUpdate, NoFault, queues, session, history
  <2>2. ~halfOpen /\ AskAlone /\ \A x \in Arbs : Agreed(x)
    BY <2>1 DEF Agreement
  <2>3. /\ ToRun' = ToRun /\ ToDelete' = ToDelete /\ Reported' = Reported /\ Found' = Found
        /\ AskToCome' = AskToCome /\ Answering' = Answering
    BY <2>1 DEF ToRun, ToDelete, Reported, Found, AskToCome, Answering
  <2>4. AskAlone' /\ ~halfOpen'
    BY <2>1, <2>2, <2>3 DEF AskAlone, Idle
  <2>5. /\ runAt'[c] = "idle"
        /\ \A x \in Arbs \ {c} : runAt'[x] = runAt[x] /\ row'[x] = row[x]
        /\ runAt[c] = "send" => row'[c] = row[c]
        /\ runAt[c] = "update" => row'[c] = IF row[c] = "none" THEN "none" ELSE "running"
    BY <2>1 DEF TypeOK
  <2>6. ASSUME NEW x \in Arbs, x # c PROVE Agreed(x)'
    BY <2>1, <2>2, <2>3, <2>5, <2>6, OthersAgree
  <2>7. Agreed(c)'
    <3>1. Agreed(c) /\ (runAt[c] = "send" \/ runAt[c] = "update")
      BY <2>1, <2>2
    <3> QED
      BY <2>1, <2>3, <2>5, <3>1
      DEF Agreed, RunningHasReason, ConfirmingHasReason, WatchedHasReason, RunHasReason,
          SendAlone, DeleteAlone, FoundAlone, ReportHasReason, Confirming, Idle
  <2> QED  BY <2>4, <2>6, <2>7
<1> QED  BY <1>1, <1>2

LEMMA DeleteSendAgrees == ASSUME TypeOK, Agreement, NEW c \in Arbs, DeleteSend(c) PROVE Agreement'
<1> SUFFICES ASSUME calm' PROVE (~halfOpen /\ AskAlone /\ \A x \in Arbs : Agreed(x))'
  BY DEF Agreement
<1> DEFINE m == Command("delete", {c})
<1>1. /\ commands' = Append(commands, m) /\ calm /\ Settled(c)
      /\ deleteAt' = [deleteAt EXCEPT ![c] = "delete"]
      /\ UNCHANGED <<row, runAt, replies, toBot, toServer, halfOpen, ask, watched, close>>
  BY DEF DeleteSend, Act, session
<1>2. ~halfOpen /\ AskAlone /\ \A x \in Arbs : Agreed(x)
  BY <1>1 DEF Agreement
<1>3. /\ commands \in Seq(CommandType) /\ m \in CommandType /\ m.kind = "delete" /\ m.arbs = {c}
  <2>1. commands \in Seq(CommandType)
    BY DEF TypeOK, CommandType
  <2>2. {c} \in SUBSET Arbs
    OBVIOUS
  <2> QED  BY <2>1, <2>2, CommandTyped, CommandSays
<1> HIDE DEF m
<1>4. ASSUME NEW kinds, NEW x
      PROVE  Says(commands', kinds, x) <=>
                Says(commands, kinds, x) \/ ("delete" \in kinds /\ x = c)
  BY <1>1, <1>3, SaysAppend
<1>5. ToRun' = ToRun
  BY <1>1, <1>4 DEF ToRun
<1>6. \A x \in Arbs : x \in ToDelete' <=> x \in ToDelete \/ x = c
  BY <1>1, <1>4 DEF ToDelete
<1>7. /\ Reported' = Reported /\ Found' = Found
      /\ AskToCome' = AskToCome /\ Answering' = Answering
  BY <1>1 DEF Reported, Found, AskToCome, Answering
<1>8. /\ Idle(c) /\ c \notin ToRun \cup ToDelete \cup Reported \cup Found
      /\ ~AskToCome /\ ~Answering /\ ~Has(toServer, "ask")
  BY <1>1, SettledIsAlone
<1>9. AskAlone' /\ ~halfOpen'
  BY <1>1, <1>2, <1>7, <1>8 DEF AskAlone
<1>10. /\ deleteAt'[c] = "delete" /\ \A x \in Arbs \ {c} : deleteAt'[x] = deleteAt[x]
  BY <1>1 DEF TypeOK
<1>11. ASSUME NEW x \in Arbs, x # c PROVE Agreed(x)'
  BY <1>1, <1>2, <1>5, <1>6, <1>7, <1>10, <1>11, OthersAgree
<1>12. Agreed(c)'
  <2>1. Agreed(c)
    BY <1>2
  <2> QED
    BY <1>1, <1>5, <1>6, <1>7, <1>8, <1>10, <2>1
    DEF Agreed, RunningHasReason, ConfirmingHasReason, WatchedHasReason, RunHasReason,
        SendAlone, DeleteAlone, FoundAlone, ReportHasReason, Confirming, Idle
<1> QED  BY <1>9, <1>11, <1>12

LEMMA DeleteRowAgrees == ASSUME TypeOK, Agreement, NEW c \in Arbs, DeleteRow(c) PROVE Agreement'
<1>1. CASE Fault
  BY <1>1, FaultAgrees
<1>2. ASSUME ~Fault PROVE Agreement'
  <2> SUFFICES ASSUME calm' PROVE (~halfOpen /\ AskAlone /\ \A x \in Arbs : Agreed(x))'
    BY DEF Agreement
  <2>1. /\ deleteAt[c] = "delete" /\ deleteAt' = [deleteAt EXCEPT ![c] = "idle"]
        /\ row' = [row EXCEPT ![c] = "none"]
        /\ UNCHANGED <<runAt, commands, replies, toBot, toServer, halfOpen, ask, watched,
                       close, calm>>
    BY <1>2 DEF DeleteRow, NoFault, queues, session, history
  <2>2. ~halfOpen /\ AskAlone /\ \A x \in Arbs : Agreed(x)
    BY <2>1 DEF Agreement
  <2>3. /\ ToRun' = ToRun /\ ToDelete' = ToDelete /\ Reported' = Reported /\ Found' = Found
        /\ AskToCome' = AskToCome /\ Answering' = Answering
    BY <2>1 DEF ToRun, ToDelete, Reported, Found, AskToCome, Answering
  <2>4. AskAlone' /\ ~halfOpen'
    BY <2>1, <2>2, <2>3 DEF AskAlone, Idle
  <2>5. /\ deleteAt'[c] = "idle" /\ row'[c] = "none"
        /\ \A x \in Arbs \ {c} : deleteAt'[x] = deleteAt[x] /\ row'[x] = row[x]
    BY <2>1 DEF TypeOK
  <2>6. ASSUME NEW x \in Arbs, x # c PROVE Agreed(x)'
    BY <2>1, <2>2, <2>3, <2>5, <2>6, OthersAgree
  <2>7. Agreed(c)'
    <3>1. Agreed(c)
      BY <2>2
    <3> QED
      BY <2>1, <2>3, <2>5, <3>1
      DEF Agreed, RunningHasReason, ConfirmingHasReason, WatchedHasReason, RunHasReason,
          SendAlone, DeleteAlone, FoundAlone, ReportHasReason, Confirming, Idle
  <2> QED  BY <2>4, <2>6, <2>7
<1> QED  BY <1>1, <1>2

-------------------------------------------------------------------------------
(* ProcessEbo.                                                              *)
LEMMA EboLeaves ==
    ASSUME TypeOK, toServer # <<>>, toServer' = Tail(toServer)
    PROVE  /\ Head(toServer) \in ToServerType
           /\ \A kinds, c :
                 Says(toServer, kinds, c) <=>
                    \/ Says(toServer', kinds, c)
                    \/ Head(toServer).kind \in kinds /\ c \in Head(toServer).arbs
           /\ Has(toServer, "ask") <=> Has(toServer', "ask") \/ Head(toServer).kind = "ask"
<1>1. toServer \in Seq(ToServerType)
  BY DEF TypeOK, ToServerType
<1>2. Head(toServer) \in ToServerType
  BY <1>1, TailStays
<1>3. ASSUME NEW kinds, NEW c
      PROVE  Says(toServer, kinds, c) <=>
                \/ Says(toServer', kinds, c)
                \/ Head(toServer).kind \in kinds /\ c \in Head(toServer).arbs
  BY <1>1, SaysTail
<1>4. Has(toServer, "ask") <=> Has(toServer', "ask") \/ Head(toServer).kind = "ask"
  BY <1>1, HasTail
<1> QED  BY <1>2, <1>3, <1>4

(* What the bot gave up, or is told to, is not shown as running.            *)
LEMMA ProcessDeleteAgrees ==
    ASSUME TypeOK, Agreement, ProcessEbo, Head(toServer).kind = "delete" PROVE Agreement'
<1>1. CASE Fault
  BY <1>1, FaultAgrees
<1>2. ASSUME ~Fault PROVE Agreement'
  <2> SUFFICES ASSUME calm' PROVE (~halfOpen /\ AskAlone /\ \A x \in Arbs : Agreed(x))'
    BY DEF Agreement
  <2> DEFINE C == Head(toServer).arbs
  <2>1. /\ toServer # <<>> /\ toServer' = Tail(toServer)
        /\ row' = [c \in Arbs |-> IF c \in C THEN "none" ELSE row[c]]
        /\ UNCHANGED <<runAt, deleteAt, commands, replies, toBot, halfOpen, ask, watched,
                       close, calm>>
    BY <1>2 DEF ProcessEbo, ProcessDelete, NoFault, pages, session, history
  <2>2. ~halfOpen /\ AskAlone /\ \A x \in Arbs : Agreed(x)
    BY <2>1 DEF Agreement
  <2>3. /\ \A x \in Arbs : x \in Reported <=> x \in Reported' \/ x \in C
        /\ Found' = Found
        /\ Has(toServer, "ask") <=> Has(toServer', "ask")
    <3>1. \A kinds, c :
             Says(toServer, kinds, c) <=> Says(toServer', kinds, c) \/ ("delete" \in kinds /\ c \in C)
      BY <2>1, EboLeaves
    <3>2. Has(toServer, "ask") <=> Has(toServer', "ask")
      BY <2>1, EboLeaves
    <3> HIDE DEF C
    <3>3. \A x \in Arbs : x \in Reported <=> x \in Reported' \/ x \in C
      BY <3>1 DEF Reported
    <3>4. Found' = Found
      BY <3>1 DEF Found
    <3> QED  BY <3>2, <3>3, <3>4
  <2> HIDE DEF C
  <2>4. /\ ToRun' = ToRun /\ ToDelete' = ToDelete
        /\ AskToCome' = AskToCome /\ Answering' = Answering
    BY <2>1, <2>3 DEF ToRun, ToDelete, AskToCome, Answering
  <2>5. AskAlone' /\ ~halfOpen'
    BY <2>1, <2>2, <2>3, <2>4 DEF AskAlone, Idle
  <2>6. ASSUME NEW x \in Arbs PROVE Agreed(x)'
    <3>1. Agreed(x)
      BY <2>2
    <3>2. row'[x] = IF x \in C THEN "none" ELSE row[x]
      BY <2>1
    <3>3. x \in Reported <=> x \in Reported' \/ x \in C
      BY <2>3
    <3> QED
      BY <2>1, <2>3, <2>4, <3>1, <3>2, <3>3
      DEF Agreed, RunningHasReason, ConfirmingHasReason, WatchedHasReason, RunHasReason,
          SendAlone, DeleteAlone, FoundAlone, ReportHasReason, Confirming, Idle
  <2> QED  BY <2>5, <2>6
<1> QED  BY <1>1, <1>2

(* A pair that is found is not run.                                         *)
LEMMA ProcessArbAgrees ==
    ASSUME TypeOK, Agreement, ProcessEbo, Head(toServer).kind = "arb" PROVE Agreement'
<1>1. CASE Fault
  BY <1>1, FaultAgrees
<1>2. ASSUME ~Fault PROVE Agreement'
  <2> SUFFICES ASSUME calm' PROVE (~halfOpen /\ AskAlone /\ \A x \in Arbs : Agreed(x))'
    BY DEF Agreement
  <2> DEFINE C == Head(toServer).arbs
  <2>1. /\ toServer # <<>> /\ toServer' = Tail(toServer)
        /\ row' = [c \in Arbs |-> IF c \in C /\ row[c] = "none" THEN "found" ELSE row[c]]
        /\ UNCHANGED <<runAt, deleteAt, commands, replies, toBot, halfOpen, ask, watched,
                       close, calm>>
    BY <1>2 DEF ProcessEbo, ProcessArb, NoFault, pages, session, history
  <2>2. ~halfOpen /\ AskAlone /\ \A x \in Arbs : Agreed(x)
    BY <2>1 DEF Agreement
  <2>3. /\ \A x \in Arbs : x \in Found <=> x \in Found' \/ x \in C
        /\ Reported' = Reported
        /\ Has(toServer, "ask") <=> Has(toServer', "ask")
    <3>1. \A kinds, c :
             Says(toServer, kinds, c) <=> Says(toServer', kinds, c) \/ ("arb" \in kinds /\ c \in C)
      BY <2>1, EboLeaves
    <3>2. Has(toServer, "ask") <=> Has(toServer', "ask")
      BY <2>1, EboLeaves
    <3> HIDE DEF C
    <3>3. \A x \in Arbs : x \in Found <=> x \in Found' \/ x \in C
      BY <3>1 DEF Found
    <3>4. Reported' = Reported
      BY <3>1 DEF Reported
    <3> QED  BY <3>2, <3>3, <3>4
  <2> HIDE DEF C
  <2>4. /\ ToRun' = ToRun /\ ToDelete' = ToDelete
        /\ AskToCome' = AskToCome /\ Answering' = Answering
    BY <2>1, <2>3 DEF ToRun, ToDelete, AskToCome, Answering
  <2>5. AskAlone' /\ ~halfOpen'
    BY <2>1, <2>2, <2>3, <2>4 DEF AskAlone, Idle
  <2>6. ASSUME NEW x \in Arbs PROVE Agreed(x)'
    <3>1. Agreed(x) /\ (x \in C => Idle(x))
      BY <2>2, <2>3 DEF Agreed, FoundAlone
    <3>2. row'[x] = IF x \in C /\ row[x] = "none" THEN "found" ELSE row[x]
      BY <2>1
    <3>3. x \in Found' => x \in Found
      BY <2>3
    <3> QED
      BY <2>1, <2>3, <2>4, <3>1, <3>2, <3>3
      DEF Agreed, RunningHasReason, ConfirmingHasReason, WatchedHasReason, RunHasReason,
          SendAlone, DeleteAlone, FoundAlone, ReportHasReason, Confirming, Idle
  <2> QED  BY <2>5, <2>6
<1> QED  BY <1>1, <1>2

(* The answer is what runs, and no page changes it on its way.              *)
LEMMA ProcessAskAgrees ==
    ASSUME TypeOK, Agreement, ProcessEbo, Head(toServer).kind = "ask" PROVE Agreement'
<1>0. Fault => Agreement'
  BY FaultAgrees
<1> SUFFICES ASSUME calm', ~Fault PROVE (~halfOpen /\ AskAlone /\ \A x \in Arbs : Agreed(x))'
  BY <1>0 DEF Agreement
<1> DEFINE running == {c \in Arbs : row[c] = "running"}
           m == Command("arbs", running)
<1>1. /\ toServer # <<>> /\ toServer' = Tail(toServer)
      /\ replies' = Append(replies, m)
      /\ UNCHANGED <<row, runAt, deleteAt, commands, toBot, halfOpen, ask, watched, close, calm>>
  BY DEF ProcessEbo, ProcessAsk, NoFault, pages, session, history
<1>2. ~halfOpen /\ AskAlone /\ \A x \in Arbs : Agreed(x)
  BY <1>1 DEF Agreement
<1>3. /\ \A kinds, c : "ask" \notin kinds => (Says(toServer, kinds, c) <=> Says(toServer', kinds, c))
      /\ Has(toServer, "ask")
  BY <1>1, EboLeaves
<1>4. Reported' = Reported /\ Found' = Found
  BY <1>3 DEF Reported, Found
<1>5. \A c \in Arbs : Idle(c)
  BY <1>2, <1>3 DEF AskAlone
<1>6. replies \in Seq(ReplyType) /\ m \in ReplyType /\ m.kind = "arbs" /\ m.arbs = running
  <2>1. replies \in Seq(ReplyType)
    BY DEF TypeOK, ReplyType
  <2>2. running \in SUBSET Arbs
    OBVIOUS
  <2> HIDE DEF running
  <2> QED  BY <2>1, <2>2, CommandTyped, CommandSays
<1> HIDE DEF m
<1>7. \A kinds, c : Says(replies', kinds, c) <=>
                       Says(replies, kinds, c) \/ ("arbs" \in kinds /\ c \in running)
  BY <1>1, <1>6, SaysAppend
<1>8. \A x \in Arbs : x \in ToRun' <=> x \in ToRun \/ row[x] = "running"
  BY <1>1, <1>7 DEF ToRun
<1>9. ToDelete' = ToDelete
  BY <1>1 DEF ToDelete
<1>10. AskAlone' /\ ~halfOpen'
  BY <1>1, <1>2, <1>5 DEF AskAlone, Idle
<1>11. ASSUME NEW x \in Arbs PROVE Agreed(x)'
  <2>1. Agreed(x) /\ Idle(x)
    BY <1>2, <1>5
  <2>2. x \in ToRun' <=> x \in ToRun \/ row[x] = "running"
    BY <1>8
  <2> QED
    BY <1>1, <1>4, <1>9, <2>1, <2>2
    DEF Agreed, RunningHasReason, ConfirmingHasReason, WatchedHasReason, RunHasReason,
        SendAlone, DeleteAlone, FoundAlone, ReportHasReason, Confirming, Idle
<1> QED  BY <1>10, <1>11

-------------------------------------------------------------------------------
(* The bot.                                                                 *)
LEMMA ReportSays ==
    ASSUME TypeOK, NEW C \in SUBSET Arbs, NEW kind \in {"delete", "arb"}, Report(kind, C)
    PROVE  /\ \A kinds, x : Says(toServer', kinds, x) <=>
                               Says(toServer, kinds, x) \/ (kind \in kinds /\ x \in C)
           /\ Has(toServer', "ask") <=> Has(toServer, "ask")
<1> DEFINE m == Command(kind, C)
<1>1. toServer \in Seq(ToServerType) /\ m \in ToServerType /\ m.kind = kind /\ m.arbs = C
  <2>1. toServer \in Seq(ToServerType)
    BY DEF TypeOK, ToServerType
  <2> QED  BY <2>1, CommandTyped, CommandSays
<1>2. CASE C = {}
  BY <1>2 DEF Report
<1>3. CASE C # {}
  <2>1. toServer' = Append(toServer, m)
    BY <1>3 DEF Report
  <2> HIDE DEF m
  <2>2. \A kinds, x : Says(toServer', kinds, x) <=>
                         Says(toServer, kinds, x) \/ (kind \in kinds /\ x \in C)
    BY <1>1, <2>1, SaysAppend
  <2>3. Has(toServer', "ask") <=> Has(toServer, "ask")
    BY <1>1, <2>1, HasAppend
  <2> QED  BY <2>2, <2>3
<1> QED  BY <1>2, <1>3

LEMMA DiscoverAgrees == ASSUME TypeOK, Agreement, NEW c \in Arbs, Discover(c) PROVE Agreement'
<1> SUFFICES ASSUME calm' PROVE (~halfOpen /\ AskAlone /\ \A x \in Arbs : Agreed(x))'
  BY DEF Agreement
<1>1. /\ Report("arb", {c}) /\ calm /\ Settled(c)
      /\ UNCHANGED <<row, runAt, deleteAt, commands, replies, toBot, halfOpen, ask, watched, close>>
  BY DEF Discover, Act, pages, session
<1>2. ~halfOpen /\ AskAlone /\ \A x \in Arbs : Agreed(x)
  BY <1>1 DEF Agreement
<1>3. /\ Idle(c) /\ c \notin ToRun \cup ToDelete \cup Reported \cup Found
      /\ ~AskToCome /\ ~Answering /\ ~Has(toServer, "ask")
  BY <1>1, SettledIsAlone
<1>4. /\ \A kinds, x : Says(toServer', kinds, x) <=>
                          Says(toServer, kinds, x) \/ ("arb" \in kinds /\ x = c)
      /\ Has(toServer', "ask") <=> Has(toServer, "ask")
  <2>1. {c} \in SUBSET Arbs /\ \A x : x \in {c} <=> x = c
    OBVIOUS
  <2> QED  BY <1>1, <2>1, ReportSays
<1>5. Reported' = Reported /\ \A x \in Arbs : x \in Found' <=> x \in Found \/ x = c
  BY <1>4 DEF Reported, Found
<1>6. /\ ToRun' = ToRun /\ ToDelete' = ToDelete /\ Answering' = Answering
      /\ AskToCome => AskToCome'
  BY <1>1, <1>4 DEF ToRun, ToDelete, Answering, AskToCome
<1>7. AskAlone' /\ ~halfOpen'
  BY <1>1, <1>2, <1>3, <1>4, <1>6 DEF AskAlone
<1>8. ASSUME NEW x \in Arbs, x # c PROVE Agreed(x)'
  BY <1>1, <1>2, <1>5, <1>6, <1>8, OthersAgree
<1>9. Agreed(c)'
  <2>1. Agreed(c)
    BY <1>2
  <2> QED
    BY <1>1, <1>3, <1>5, <1>6, <2>1
    DEF Agreed, RunningHasReason, ConfirmingHasReason, WatchedHasReason, RunHasReason,
        SendAlone, DeleteAlone, FoundAlone, ReportHasReason, Confirming, Idle
<1> QED  BY <1>7, <1>8, <1>9

(* When the close passes nothing is under way, and when it comes near what  *)
(* is under way may be refused.                                             *)
LEMMA PassAgrees == ASSUME TypeOK, Agreement, NEW c \in Arbs, Pass(c) PROVE Agreement'
<1> SUFFICES ASSUME calm' PROVE (~halfOpen /\ AskAlone /\ \A x \in Arbs : Agreed(x))'
  BY DEF Agreement
<1>1. /\ \/ close[c] = "hour" /\ calm /\ Settled(c)
         \/ close[c] = "far" /\ calm /\ close'[c] = "hour"
      /\ \A x \in Arbs \ {c} : close'[x] = close[x]
      /\ UNCHANGED <<row, runAt, deleteAt, commands, replies, toBot, toServer, halfOpen, ask,
                     watched>>
  BY DEF Pass, Act, NoFault, TypeOK, pages, queues, session, history
<1>2. ~halfOpen /\ AskAlone /\ \A x \in Arbs : Agreed(x)
  BY <1>1 DEF Agreement
<1>3. /\ ToRun' = ToRun /\ ToDelete' = ToDelete /\ Reported' = Reported /\ Found' = Found
      /\ AskToCome' = AskToCome /\ Answering' = Answering
  BY <1>1 DEF ToRun, ToDelete, Reported, Found, AskToCome, Answering
<1>4. AskAlone' /\ ~halfOpen'
  BY <1>1, <1>2, <1>3 DEF AskAlone, Idle
<1>5. ASSUME NEW x \in Arbs, x # c PROVE Agreed(x)'
  BY <1>1, <1>2, <1>3, <1>5, OthersAgree
<1>6. Agreed(c)'
  <2>1. Agreed(c) /\ (close'[c] = "hour" \/ c \notin ToRun \cup Reported)
    BY <1>1, <1>2, SettledIsAlone
  <2> QED
    BY <1>1, <1>3, <2>1
    DEF Agreed, RunningHasReason, ConfirmingHasReason, WatchedHasReason, RunHasReason,
        SendAlone, DeleteAlone, FoundAlone, ReportHasReason, Confirming, Idle
<1> QED  BY <1>4, <1>5, <1>6

LEMMA AskAgrees == ASSUME TypeOK, Agreement, Ask PROVE Agreement'
<1> SUFFICES ASSUME calm' PROVE (~halfOpen /\ AskAlone /\ \A x \in Arbs : Agreed(x))'
  BY DEF Agreement
<1> DEFINE m == Command("ask", {})
<1>1. /\ calm /\ (\A c \in Arbs : Idle(c)) /\ toServer' = Append(toServer, m)
      /\ UNCHANGED <<row, runAt, deleteAt, commands, replies, toBot, halfOpen, watched, close>>
  BY DEF Ask, Idle, pages, session
<1>2. ~halfOpen /\ \A x \in Arbs : Agreed(x)
  BY <1>1 DEF Agreement
<1>3. toServer \in Seq(ToServerType) /\ m \in ToServerType /\ m.kind = "ask" /\ m.arbs = {}
  <2>1. toServer \in Seq(ToServerType) /\ {} \in SUBSET Arbs
    BY DEF TypeOK, ToServerType
  <2> QED  BY <2>1, CommandTyped, CommandSays
<1> HIDE DEF m
<1>4. \A kinds, x : Says(toServer', kinds, x) <=> Says(toServer, kinds, x)
  BY <1>1, <1>3, SaysAppend
<1>5. AskToCome'
  BY <1>1, <1>3, HasAppend DEF AskToCome
<1>6. ToRun' = ToRun /\ ToDelete' = ToDelete /\ Reported' = Reported /\ Found' = Found
  BY <1>1, <1>4 DEF ToRun, ToDelete, Reported, Found
<1>7. AskAlone' /\ ~halfOpen'
  BY <1>1, <1>2 DEF AskAlone, Idle
<1>8. ASSUME NEW x \in Arbs PROVE Agreed(x)'
  BY <1>1, <1>2, <1>5, <1>6, OthersAgree
<1> QED  BY <1>7, <1>8

(* What the command that is handled said, and no other does.                *)
LEMMA CommandLeaves ==
    ASSUME TypeOK, toBot # <<>>, toBot' = Tail(toBot)
    PROVE  /\ Head(toBot) \in ToBotType
           /\ \A kinds, c : Says(toBot, kinds, c) <=>
                 \/ Says(toBot', kinds, c)
                 \/ Head(toBot).kind \in kinds /\ c \in Head(toBot).arbs
           /\ Has(toBot', "arbs") => Has(toBot, "arbs")
<1>1. toBot \in Seq(ToBotType)
  BY DEF TypeOK, ToBotType
<1>2. Head(toBot) \in ToBotType
  BY <1>1, TailStays
<1>3. ASSUME NEW kinds, NEW c
      PROVE  Says(toBot, kinds, c) <=>
                \/ Says(toBot', kinds, c)
                \/ Head(toBot).kind \in kinds /\ c \in Head(toBot).arbs
  BY <1>1, SaysTail
<1>4. Has(toBot', "arbs") => Has(toBot, "arbs")
  BY <1>1, HasTail
<1> QED  BY <1>2, <1>3, <1>4

LEMMA DeleteArbsAgrees ==
    ASSUME TypeOK, Agreement, HandleCommand, Head(toBot).kind = "delete" PROVE Agreement'
<1> SUFFICES ASSUME calm' PROVE (~halfOpen /\ AskAlone /\ \A x \in Arbs : Agreed(x))'
  BY DEF Agreement
<1> DEFINE C == Head(toBot).arbs
<1>1. /\ toBot # <<>> /\ toBot' = Tail(toBot)
      /\ watched' = watched \ C /\ Report("delete", C)
      /\ UNCHANGED <<row, runAt, deleteAt, commands, replies, halfOpen, ask, close, calm>>
  BY DEF HandleCommand, DeleteArbs, NoFault, pages, session, history
<1>2. ~halfOpen /\ AskAlone /\ \A x \in Arbs : Agreed(x)
  BY <1>1 DEF Agreement
<1>3. \A kinds, c : Says(toBot, kinds, c) <=> Says(toBot', kinds, c) \/ ("delete" \in kinds /\ c \in C)
  BY <1>1, CommandLeaves
<1>4. C \in SUBSET Arbs /\ (Has(toBot', "arbs") => Has(toBot, "arbs"))
  BY <1>1, CommandLeaves DEF ToBotType
<1> HIDE DEF C
<1>5. /\ \A kinds, x : Says(toServer', kinds, x) <=>
                          Says(toServer, kinds, x) \/ ("delete" \in kinds /\ x \in C)
      /\ Has(toServer', "ask") <=> Has(toServer, "ask")
  BY <1>1, <1>4, ReportSays
<1>6. ToRun' = ToRun /\ \A x \in Arbs : x \in ToDelete <=> x \in ToDelete' \/ x \in C
  BY <1>1, <1>3 DEF ToRun, ToDelete
<1>7. Found' = Found /\ \A x \in Arbs : x \in Reported' <=> x \in Reported \/ x \in C
  BY <1>5 DEF Found, Reported
<1>8. (AskToCome => AskToCome') /\ (Answering' => Answering)
  BY <1>1, <1>4, <1>5 DEF AskToCome, Answering
<1>9. AskAlone' /\ ~halfOpen'
  BY <1>1, <1>2, <1>5, <1>8 DEF AskAlone, Idle
<1>10. ASSUME NEW x \in Arbs PROVE Agreed(x)'
  <2>1. Agreed(x) /\ (x \in watched' <=> x \in watched /\ x \notin C)
    BY <1>1, <1>2
  <2>2. /\ x \in ToDelete <=> x \in ToDelete' \/ x \in C
        /\ x \in Reported' <=> x \in Reported \/ x \in C
    BY <1>6, <1>7
  <2> QED
    BY <1>1, <1>6, <1>7, <1>8, <2>1, <2>2
    DEF Agreed, RunningHasReason, ConfirmingHasReason, WatchedHasReason, RunHasReason,
        SendAlone, DeleteAlone, FoundAlone, ReportHasReason, Confirming, Idle
<1> QED  BY <1>9, <1>10

LEMMA FindArbsAgrees ==
    ASSUME TypeOK, Agreement, HandleCommand, Head(toBot).kind # "delete" PROVE Agreement'
<1>1. CASE Fault
  BY <1>1, FaultAgrees
<1>2. ASSUME ~Fault PROVE Agreement'
  <2> SUFFICES ASSUME calm' PROVE (~halfOpen /\ AskAlone /\ \A x \in Arbs : Agreed(x))'
    BY DEF Agreement
  <2> DEFINE C == Head(toBot).arbs
             refused == {c \in C : close[c] = "hour"}
  <2>1. /\ toBot # <<>> /\ toBot' = Tail(toBot)
        /\ FindArbs(C)
        /\ UNCHANGED <<row, runAt, deleteAt, commands, replies, halfOpen, ask, close>>
    BY DEF HandleCommand, pages, session
  <2>2. calm' = calm /\ Report("delete", refused) /\ watched' = (watched \ refused) \cup (C \ refused)
    BY <1>2, <2>1 DEF FindArbs, NoFault, history
  <2>3. ~halfOpen /\ AskAlone /\ \A x \in Arbs : Agreed(x)
    BY <2>2 DEF Agreement
  <2>4. /\ Head(toBot) \in ToBotType /\ Head(toBot).kind \in {"run", "arbs"}
        /\ C \in SUBSET Arbs /\ (Has(toBot', "arbs") => Has(toBot, "arbs"))
    BY <2>1, CommandLeaves DEF ToBotType
  <2>5. \A kinds, c : Says(toBot, kinds, c) <=>
                         Says(toBot', kinds, c) \/ (Head(toBot).kind \in kinds /\ c \in C)
    BY <2>1, CommandLeaves
  <2>6. refused \in SUBSET Arbs /\ \A x : x \in refused <=> x \in C /\ close[x] = "hour"
    BY <2>4
  <2>7. \A x \in Arbs : x \in ToRun <=> x \in ToRun' \/ x \in C
    BY <2>1, <2>4, <2>5 DEF ToRun
  <2>8. ToDelete' = ToDelete
    BY <2>1, <2>4, <2>5 DEF ToDelete
  <2> HIDE DEF C, refused
  <2>9. /\ \A kinds, x : Says(toServer', kinds, x) <=>
                            Says(toServer, kinds, x) \/ ("delete" \in kinds /\ x \in refused)
        /\ Has(toServer', "ask") <=> Has(toServer, "ask")
    BY <2>2, <2>6, ReportSays
  <2>10. Found' = Found /\ \A x \in Arbs : x \in Reported' <=> x \in Reported \/ x \in refused
    BY <2>9 DEF Found, Reported
  <2>11. (AskToCome => AskToCome') /\ (Answering' => Answering)
    BY <2>1, <2>4, <2>9 DEF AskToCome, Answering
  <2>12. AskAlone' /\ ~halfOpen'
    BY <2>1, <2>3, <2>9, <2>11 DEF AskAlone, Idle
  <2>13. ASSUME NEW x \in Arbs PROVE Agreed(x)'
    <3>1. /\ Agreed(x)
          /\ x \in watched' <=> IF x \in refused THEN FALSE ELSE x \in watched \/ x \in C
      BY <2>2, <2>3
    <3>2. /\ x \in ToRun <=> x \in ToRun' \/ x \in C
          /\ x \in Reported' <=> x \in Reported \/ x \in refused
          /\ x \in refused <=> x \in C /\ close[x] = "hour"
      BY <2>6, <2>7, <2>10
    <3> QED
      BY <2>1, <2>8, <2>10, <2>11, <3>1, <3>2
      DEF Agreed, RunningHasReason, ConfirmingHasReason, WatchedHasReason, RunHasReason,
          SendAlone, DeleteAlone, FoundAlone, ReportHasReason, Confirming, Idle
  <2> QED  BY <2>12, <2>13
<1> QED  BY <1>1, <1>2

(* After a restart the bot watches nothing, and has to ask.                 *)
LEMMA RestartAgrees == ASSUME TypeOK, Agreement, Restart PROVE Agreement'
<1> SUFFICES ASSUME calm' PROVE (~halfOpen /\ AskAlone /\ \A x \in Arbs : Agreed(x))'
  BY DEF Agreement
<1>1. /\ ~halfOpen' /\ ask' = "first" /\ watched' = {}
      /\ replies' = <<>> /\ toBot' = <<>> /\ toServer' = <<>>
      /\ UNCHANGED <<row, runAt, deleteAt, commands, close, calm>>
  BY DEF Restart, pages
<1>2. \A x \in Arbs : Agreed(x)
  BY <1>1 DEF Agreement
<1>3. AskToCome' /\ ~Answering' /\ ~Has(toServer', "ask")
  BY <1>1, NothingSaid DEF AskToCome, Answering
<1>4. \A kinds, c : ~Says(replies', kinds, c) /\ ~Says(toBot', kinds, c) /\ ~Says(toServer', kinds, c)
  BY <1>1, NothingSaid
<1>5. \A x \in Arbs : /\ x \in ToRun' => x \in ToRun
                      /\ x \in ToDelete' => x \in ToDelete
                      /\ x \notin Reported' /\ x \notin Found'
  BY <1>1, <1>4 DEF ToRun, ToDelete, Reported, Found
<1>6. AskAlone'
  BY <1>3 DEF AskAlone
<1>7. ASSUME NEW x \in Arbs PROVE Agreed(x)'
  <2>1. Agreed(x) /\ x \notin watched'
    BY <1>1, <1>2
  <2> QED
    BY <1>1, <1>3, <1>5, <2>1
    DEF Agreed, RunningHasReason, ConfirmingHasReason, WatchedHasReason, RunHasReason,
        SendAlone, DeleteAlone, FoundAlone, ReportHasReason, Confirming, Idle
<1> QED  BY <1>1, <1>6, <1>7

-------------------------------------------------------------------------------
LEMMA AgreementStarts == Init => Agreement
<1> SUFFICES ASSUME Init PROVE ~halfOpen /\ AskAlone /\ \A x \in Arbs : Agreed(x)
  BY DEF Agreement
<1>1. /\ \A x \in Arbs : row[x] = "none" /\ Idle(x)
      /\ ~halfOpen /\ watched = {}
      /\ commands = <<>> /\ replies = <<>> /\ toBot = <<>> /\ toServer = <<>>
  BY DEF Init, Idle
<1>2. ToRun = {} /\ ToDelete = {} /\ Reported = {} /\ Found = {}
  BY <1>1, NothingSaid DEF ToRun, ToDelete, Reported, Found
<1>3. ASSUME NEW x \in Arbs PROVE Agreed(x)
  BY <1>1, <1>2
  DEF Agreed, RunningHasReason, ConfirmingHasReason, WatchedHasReason, RunHasReason,
      SendAlone, DeleteAlone, FoundAlone, ReportHasReason, Confirming, Idle
<1> QED  BY <1>1, <1>3 DEF AskAlone

LEMMA StepAgrees == ASSUME TypeOK, Agreement, [Next]_vars PROVE Agreement'
<1>1. CASE Page
  BY <1>1, RunReadAgrees, RunSendAgrees, RunEndsAgrees, DeleteSendAgrees, DeleteRowAgrees
  DEF Page
<1>2. CASE ProcessEbo
  <2>1. Head(toServer).kind \in {"delete", "arb", "ask"}
    BY <1>2 DEF ProcessEbo
  <2> QED  BY <1>2, <2>1, ProcessDeleteAgrees, ProcessArbAgrees, ProcessAskAgrees
<1>3. CASE Stream
  BY <1>2, <1>3, SendCommandAgrees, SendReplyAgrees, ConnectAgrees DEF Stream
<1>4. CASE SwallowCommand
  BY <1>4, SwallowAgrees
<1>5. CASE Bot
  BY <1>5, DeleteArbsAgrees, FindArbsAgrees, ConnectAgrees, AskAgrees DEF Bot
<1>6. ASSUME NEW c \in Arbs, Discover(c) \/ MarketEnds(c) \/ Pass(c) PROVE Agreement'
  BY <1>6, DiscoverAgrees, PassAgrees, FaultAgrees DEF MarketEnds
<1>7. CASE Break
  BY <1>7, FaultAgrees DEF Break
<1>8. CASE Restart
  BY <1>8, RestartAgrees
<1>9. CASE UNCHANGED vars
  <2>1. UNCHANGED <<row, runAt, deleteAt, commands, replies, toBot, toServer, halfOpen, ask,
                    watched, close, calm>>
    BY <1>9 DEF vars, pages, queues, session, history
  <2>2. /\ ToRun' = ToRun /\ ToDelete' = ToDelete /\ Reported' = Reported /\ Found' = Found
        /\ AskToCome' = AskToCome /\ Answering' = Answering
    BY <2>1 DEF ToRun, ToDelete, Reported, Found, AskToCome, Answering
  <2> QED  BY <2>1, <2>2, QuietStep
<1> QED  BY <1>1, <1>3, <1>4, <1>5, <1>6, <1>7, <1>8, <1>9 DEF Next

LEMMA AgreementInvariant == Spec => []Agreement
<1>1. Spec => []TypeOK
  BY TypeCorrect
<1>2. TypeOK /\ Agreement /\ [Next]_vars => Agreement'
  BY StepAgrees
<1> QED  BY <1>1, <1>2, AgreementStarts, PTL DEF Spec

(* While every fault is a restart of the bot and no two changes of an arb   *)
(* overlap, an arb about which nothing is under way runs according to the   *)
(* dashboard only if the bot watches it.                                    *)
THEOREM RunningArbsAreWatched == Spec => []RunningIsWatched
<1>1. TypeOK /\ Agreement => RunningIsWatched
  <2> SUFFICES ASSUME TypeOK, Agreement, calm, NEW c \in Arbs, Settled(c), row[c] = "running"
               PROVE  c \in watched
    BY DEF RunningIsWatched
  <2>1. RunningHasReason(c)
    BY DEF Agreement, Agreed
  <2> QED  BY <2>1, SettledIsAlone DEF RunningHasReason, Idle
<1> QED  BY <1>1, TypeCorrect, AgreementInvariant, PTL

(* ... and the bot watches it only if the dashboard says that it runs.      *)
THEOREM WatchedArbsAreRunning == Spec => []WatchedIsRunning
<1>1. TypeOK /\ Agreement => WatchedIsRunning
  <2> SUFFICES ASSUME TypeOK, Agreement, calm, NEW c \in Arbs, Settled(c), c \in watched
               PROVE  row[c] = "running"
    BY DEF WatchedIsRunning
  <2>1. WatchedHasReason(c)
    BY DEF Agreement, Agreed
  <2> QED  BY <2>1, SettledIsAlone DEF WatchedHasReason, Confirming, Idle
<1> QED  BY <1>1, TypeCorrect, AgreementInvariant, PTL
===============================================================================
