---------------------------- MODULE GrpcLink_proofs ----------------------------
(***************************************************************************)
(* Theorems about GrpcLink, for every set of reports, every size of the    *)
(* buffers and however often the session breaks: its type correctness, and *)
(* that the link implements LossyPipe.  The mapping takes the request for  *)
(* the running arbs out of what is on its way, hence the lemmas about      *)
(* RemoveFirst and the invariant that there is at most one.                *)
(***************************************************************************)
EXTENDS GrpcLink, SequenceTheorems, TLAPS

Message == Reports \cup {Ask}

(* The element is nowhere in the sequence, or in one place at most.         *)
Nowhere(s, e) == \A i \in 1..Len(s) : s[i] # e

Once(s, e) == \A i, j \in 1..Len(s) : s[i] = e /\ s[j] = e => i = j

-------------------------------------------------------------------------------
(* RemoveFirst on a sequence without the element ...                        *)
LEMMA RemoveNothing ==
    ASSUME NEW s, NEW e, Nowhere(s, e)
    PROVE  RemoveFirst(s, e) = s
BY DEF RemoveFirst, Nowhere

(* ... and on one that has it once.                                         *)
LEMMA RemoveTheOne ==
    ASSUME NEW S, NEW s \in Seq(S), NEW e, Once(s, e),
           NEW k \in 1..Len(s), s[k] = e
    PROVE  /\ RemoveFirst(s, e) \in Seq(S)
           /\ Len(RemoveFirst(s, e)) = Len(s) - 1
           /\ \A i \in 1..Len(s) - 1 :
                RemoveFirst(s, e)[i] = IF i < k THEN s[i] ELSE s[i + 1]
<1>. DEFINE at == {i \in 1..Len(s) : s[i] = e}
            left == SubSeq(s, 1, k - 1)
            right == SubSeq(s, k + 1, Len(s))
<1>1. at = {k} /\ Min(at) = k
  <2>1. at = {k}
    BY DEF Once
  <2>. QED
    BY <2>1 DEF Min
<1>2. RemoveFirst(s, e) = left \o right
  BY <1>1 DEF RemoveFirst, SelectInSeq, RemoveAt
<1>3. /\ left \in Seq(S) /\ Len(left) = k - 1
      /\ \A i \in 1..k - 1 : left[i] = s[i]
  BY SubSeqProperties, ElementOfSeq
<1>4. /\ right \in Seq(S) /\ Len(right) = Len(s) - k
      /\ \A i \in 1..Len(s) - k : right[i] = s[k + i]
  BY SubSeqProperties, ElementOfSeq
<1>. HIDE DEF left, right
<1>5. /\ left \o right \in Seq(S)
      /\ Len(left \o right) = Len(s) - 1
      /\ \A i \in 1..Len(s) - 1 :
            (left \o right)[i] = IF i <= k - 1 THEN left[i] ELSE right[i - (k - 1)]
  <2>1. Len(s) \in Nat /\ k \in Nat
    OBVIOUS
  <2>2. Len(left) + Len(right) = Len(s) - 1
    BY <1>3, <1>4, <2>1
  <2>3. /\ left \o right \in Seq(S)
        /\ Len(left \o right) = Len(left) + Len(right)
        /\ \A i \in 1..Len(left) + Len(right) :
              (left \o right)[i] = IF i <= Len(left) THEN left[i] ELSE right[i - Len(left)]
    BY <1>3, <1>4, ConcatProperties, Zenon
  <2>. QED
    BY <1>3, <2>2, <2>3, Zenon
<1>6. ASSUME NEW i \in 1..Len(s) - 1
      PROVE  (left \o right)[i] = IF i < k THEN s[i] ELSE s[i + 1]
  <2>1. CASE i < k
    BY <1>3, <1>5, <2>1
  <2>2. CASE i >= k
    <3>1. i - (k - 1) \in 1..Len(s) - k
      BY <2>2
    <3>2. right[i - (k - 1)] = s[k + (i - (k - 1))] /\ k + (i - (k - 1)) = i + 1
      BY <1>4, <3>1
    <3>. QED
      BY <1>5, <2>2, <3>2
  <2>. QED
    <3>1. i < k \/ i >= k
      OBVIOUS
    <3>. QED
      BY <2>1, <2>2, <3>1, Zenon
<1>. QED
  BY <1>2, <1>5, <1>6

(* What comes after it does not matter to the removal.                      *)
LEMMA RemoveBefore ==
    ASSUME NEW S, NEW s \in Seq(S), NEW t \in Seq(S), NEW e, Once(s, e), Nowhere(t, e)
    PROVE  RemoveFirst(s \o t, e) = RemoveFirst(s, e) \o t
<1>. DEFINE st == s \o t
            r == RemoveFirst(s, e)
            rt == RemoveFirst(st, e)
<1>1. /\ st \in Seq(S) /\ Len(s) \in Nat /\ Len(t) \in Nat
      /\ Len(st) = Len(s) + Len(t)
      /\ \A i \in 1..Len(s) + Len(t) : st[i] = IF i <= Len(s) THEN s[i] ELSE t[i - Len(s)]
  BY ConcatProperties
<1>2. CASE Nowhere(s, e)
  <2>1. Nowhere(st, e)
    BY <1>1, <1>2 DEF Nowhere
  <2>. QED
    BY <1>2, <2>1, RemoveNothing
<1>3. CASE ~Nowhere(s, e)
  <2>. HIDE DEF st
  <2>1. PICK k \in 1..Len(s) : s[k] = e
    BY <1>3 DEF Nowhere
  <2>2. /\ r \in Seq(S) /\ Len(r) = Len(s) - 1
        /\ \A i \in 1..Len(s) - 1 : r[i] = IF i < k THEN s[i] ELSE s[i + 1]
    BY <2>1, RemoveTheOne
  <2>3. Once(st, e) /\ k \in 1..Len(st) /\ st[k] = e
    <3>1. ASSUME NEW i \in 1..Len(st), st[i] = e
          PROVE  i \in 1..Len(s) /\ s[i] = e
      <4>1. i > Len(s) => i - Len(s) \in 1..Len(t) /\ st[i] = t[i - Len(s)]
        BY <1>1
      <4>2. i <= Len(s)
        BY <1>1, <3>1, <4>1 DEF Nowhere
      <4>. QED
        BY <1>1, <3>1, <4>2
    <3>2. Once(st, e)
      BY <3>1 DEF Once
    <3>. QED
      BY <1>1, <2>1, <3>2
  <2>4. /\ rt \in Seq(S) /\ Len(rt) = Len(st) - 1
        /\ \A i \in 1..Len(st) - 1 : rt[i] = IF i < k THEN st[i] ELSE st[i + 1]
    BY <1>1, <2>3, RemoveTheOne
  <2>. HIDE DEF r, rt
  <2>5. /\ r \o t \in Seq(S) /\ Len(r \o t) = Len(r) + Len(t)
        /\ \A i \in 1..Len(r) + Len(t) : (r \o t)[i] = IF i <= Len(r) THEN r[i] ELSE t[i - Len(r)]
    BY <2>2, ConcatProperties
  <2>6. ASSUME NEW i \in 1..Len(rt)
        PROVE  rt[i] = (r \o t)[i]
    <3>1. /\ k \in Int /\ k <= Len(s) /\ 1 <= k /\ Len(s) \in Nat /\ Len(t) \in Nat
          /\ i \in Int /\ 1 <= i /\ i <= Len(s) + Len(t) - 1
      BY <1>1, <2>4
    <3>2. rt[i] = IF i < k THEN st[i] ELSE st[i + 1]
      BY <2>4
    <3>3. (r \o t)[i] = IF i <= Len(s) - 1 THEN r[i] ELSE t[i - (Len(s) - 1)]
      BY <2>2, <2>5, <3>1
    <3>4. i < Len(s) => r[i] = IF i < k THEN s[i] ELSE s[i + 1]
      BY <2>2, <3>1
    <3>5. /\ i <= Len(s) => st[i] = s[i]
          /\ i + 1 <= Len(s) => st[i + 1] = s[i + 1]
          /\ i >= Len(s) => st[i + 1] = t[i + 1 - Len(s)]
      BY <1>1, <3>1
    <3>6. i + 1 - Len(s) = i - (Len(s) - 1)
      BY <3>1
    <3>7. CASE i < Len(s)
      BY <3>1, <3>2, <3>3, <3>4, <3>5, <3>7
    <3>8. CASE i >= Len(s)
      BY <3>1, <3>2, <3>3, <3>5, <3>6, <3>8
    <3>9. i < Len(s) \/ i >= Len(s)
      BY <3>1
    <3>. QED
      BY <3>7, <3>8, <3>9, Zenon
  <2>7. Len(rt) = Len(r \o t)
    BY <1>1, <2>2, <2>4, <2>5
  <2>8. rt = r \o t
    BY <2>4, <2>5, <2>6, <2>7, SeqEqual
  <2>. QED
    BY <2>8 DEF r, rt, st
<1>. QED
  BY <1>2, <1>3

(* The element at the end is the one that is removed.                       *)
LEMMA RemoveLast ==
    ASSUME NEW S, NEW s \in Seq(S), NEW e \in S, Nowhere(s, e)
    PROVE  RemoveFirst(Append(s, e), e) = s
<1>1. /\ Append(s, e) \in Seq(S) /\ Len(s) \in Nat /\ Len(Append(s, e)) = Len(s) + 1
      /\ \A i \in 1..Len(s) : Append(s, e)[i] = s[i]
      /\ Append(s, e)[Len(s) + 1] = e
  BY AppendProperties
<1>. DEFINE t == Append(s, e)
<1>2. t \in Seq(S) /\ Len(s) + 1 \in 1..Len(t) /\ t[Len(s) + 1] = e
  BY <1>1
<1>3. Once(t, e)
  BY <1>1 DEF Nowhere, Once
<1>. HIDE DEF t
<1>4. /\ RemoveFirst(t, e) \in Seq(S) /\ Len(RemoveFirst(t, e)) = Len(t) - 1
      /\ \A i \in 1..Len(t) - 1 :
            RemoveFirst(t, e)[i] = IF i < Len(s) + 1 THEN t[i] ELSE t[i + 1]
  BY <1>2, <1>3, RemoveTheOne
<1>5. Len(t) = Len(s) + 1 /\ \A i \in 1..Len(s) : t[i] = s[i]
  BY <1>1 DEF t
<1>6. \A i \in 1..Len(s) : RemoveFirst(t, e)[i] = s[i]
  BY <1>1, <1>4, <1>5
<1>7. RemoveFirst(t, e) = s
  BY <1>1, <1>4, <1>5, <1>6, SeqEqual
<1>. QED
  BY <1>7 DEF t

(* The head is removed with the tail in the order in which they come.       *)
LEMMA RemoveFromTail ==
    ASSUME NEW S, NEW s \in Seq(S), NEW e, Once(s, e), s # <<>>
    PROVE  /\ Head(s) = e => RemoveFirst(Tail(s), e) = RemoveFirst(s, e)
           /\ Head(s) # e =>
                /\ RemoveFirst(s, e) # <<>>
                /\ RemoveFirst(Tail(s), e) = Tail(RemoveFirst(s, e))
<1>. DEFINE t == Tail(s)
            r == RemoveFirst(s, e)
            rt == RemoveFirst(t, e)
<1>1. /\ t \in Seq(S) /\ Len(s) \in Nat \ {0} /\ Len(t) = Len(s) - 1
      /\ \A i \in 1..Len(s) - 1 : t[i] = s[i + 1]
      /\ Head(s) = s[1]
  BY HeadTailProperties, EmptySeq
<1>2. CASE Nowhere(s, e)
  <2>1. Nowhere(t, e) /\ Head(s) # e
    BY <1>1, <1>2 DEF Nowhere
  <2>. QED
    BY <1>2, <2>1, RemoveNothing
<1>3. ASSUME NEW k \in 1..Len(s), s[k] = e
      PROVE  /\ Head(s) = e => rt = r
             /\ Head(s) # e => r # <<>> /\ rt = Tail(r)
  <2>1. /\ r \in Seq(S) /\ Len(r) = Len(s) - 1
        /\ \A i \in 1..Len(s) - 1 : r[i] = IF i < k THEN s[i] ELSE s[i + 1]
    BY <1>3, RemoveTheOne
  <2>. HIDE DEF t, r
  <2>2. CASE k = 1
    <3>1. Nowhere(t, e) /\ Head(s) = e
      BY <1>1, <1>3, <2>2 DEF Nowhere, Once
    <3>2. rt = t
      BY <3>1, RemoveNothing
    <3>3. t = r
      BY <1>1, <2>1, <2>2, SeqEqual
    <3>. QED
      BY <3>1, <3>2, <3>3
  <2>3. CASE k # 1
    <3>1. Head(s) # e
      BY <1>1, <1>3, <2>3 DEF Once
    <3>2. PICK n \in 1..Len(t) : n = k - 1 /\ t[n] = e
      BY <1>1, <1>3, <2>3
    <3>3. Once(t, e)
      BY <1>1, <1>3 DEF Once
    <3>4. /\ rt \in Seq(S) /\ Len(rt) = Len(t) - 1
          /\ \A i \in 1..Len(t) - 1 : rt[i] = IF i < n THEN t[i] ELSE t[i + 1]
      BY <1>1, <3>2, <3>3, RemoveTheOne
    <3>5. r # <<>>
      BY <1>1, <2>1, <2>3, EmptySeq
    <3>6. Tail(r) \in Seq(S) /\ Len(Tail(r)) = Len(r) - 1
          /\ \A i \in 1..Len(Tail(r)) : Tail(r)[i] = r[i + 1]
      BY <2>1, <3>5, HeadTailProperties
    <3>. HIDE DEF rt
    <3>7. ASSUME NEW i \in 1..Len(rt)
          PROVE  rt[i] = Tail(r)[i]
      <4>1. /\ i \in Int /\ 1 <= i /\ i <= Len(s) - 2 /\ Len(s) \in Nat
            /\ k \in Int /\ n = k - 1
        BY <1>1, <3>2, <3>4
      <4>2. Tail(r)[i] = r[i + 1]
        BY <1>1, <2>1, <3>6, <4>1
      <4>3. r[i + 1] = IF i + 1 < k THEN s[i + 1] ELSE s[i + 2]
        BY <2>1, <4>1
      <4>4. t[i] = s[i + 1] /\ t[i + 1] = s[i + 2]
        BY <1>1, <4>1
      <4>5. rt[i] = IF i < n THEN t[i] ELSE t[i + 1]
        BY <3>4
      <4>6. i + 1 < k <=> i < n
        BY <4>1
      <4>. QED
        BY <4>2, <4>3, <4>4, <4>5, <4>6, Zenon
    <3>8. Len(rt) = Len(Tail(r))
      BY <1>1, <2>1, <3>4, <3>6
    <3>9. rt = Tail(r)
      BY <3>4, <3>6, <3>7, <3>8, SeqEqual
    <3>. QED
      BY <3>1, <3>5, <3>9
  <2>. QED
    BY <2>2, <2>3
<1>. QED
  BY <1>2, <1>3 DEF Nowhere

-------------------------------------------------------------------------------
(* The client has not used up its retries until it gives up.                *)
RetriesLeft == linkAt # "failed" => retries < MaxRetries

(* The request for the running arbs is made once, if at all.                *)
OnWire == up \o network

AskedOnce == Once(OnWire, Ask) /\ (ask # "asked" => Nowhere(OnWire, Ask))

(* The types, task by task.                                                 *)
BotTyped ==
    /\ outbound \in Seq(Reports) /\ Len(outbound) <= OutCap
    /\ inbound \in 0..InCap /\ answers \in 0..MaxAnswers

ClientTyped ==
    /\ linkAt \in {"connect", "select", "out", "in", "wait", "failed"}
    /\ held \in Seq(Reports) /\ Len(held) = One(linkAt = "out")
    /\ retries \in 0..MaxRetries /\ RetriesLeft
    /\ ask \in {"first", "armed", "orphan", "asked", "lost"}

SessionTyped == link \in {"none", "up", "broken"} /\ breaks \in Nat

WiresTyped ==
    /\ network \in Seq(Message) /\ Len(network) <= NetCap
    /\ up \in Seq(Message) /\ Len(up) <= UpCap
    /\ down \in 0..DownCap

DashboardTyped ==
    /\ reader \in {"none", "nil", "arbs"}
    /\ replies \in Seq({"nil", "arbs"}) /\ Len(replies) <= ReplyCap
    /\ server \in BOOLEAN /\ commands \in Nat

Typed == BotTyped /\ ClientTyped /\ SessionTyped /\ WiresTyped /\ DashboardTyped

LEMMA TypedIsTypeOK == Typed <=> TypeOK /\ RetriesLeft
BY DEF Typed, BotTyped, ClientTyped, SessionTyped, WiresTyped, DashboardTyped, TypeOK, Message

LEMMA Capacities ==
    /\ OutCap \in Nat \ {0} /\ InCap \in Nat \ {0} /\ NetCap \in Nat \ {0}
    /\ UpCap \in Nat \ {0} /\ DownCap \in Nat \ {0} /\ ReplyCap \in Nat \ {0}
    /\ MaxRetries \in Nat \ {0} /\ MaxAnswers \in Nat
BY LinkAssumption

(* A buffer stays within its capacity.                                      *)
LEMMA PutInBuffer ==
    ASSUME NEW S, NEW q \in Seq(S), NEW cap \in Nat, Len(q) < cap, NEW m \in S
    PROVE  Append(q, m) \in Seq(S) /\ Len(Append(q, m)) <= cap
BY AppendProperties

LEMMA TakeFromBuffer ==
    ASSUME NEW S, NEW q \in Seq(S), NEW cap \in Nat, Len(q) <= cap, q # <<>>
    PROVE  Head(q) \in S /\ Tail(q) \in Seq(S) /\ Len(Tail(q)) <= cap
BY HeadTailProperties

(* The tasks that have no part in a step.                                   *)
LEMMA Untouched ==
    /\ UNCHANGED bot /\ BotTyped => BotTyped'
    /\ UNCHANGED client /\ ClientTyped => ClientTyped'
    /\ UNCHANGED session /\ SessionTyped => SessionTyped'
    /\ UNCHANGED wires /\ WiresTyped => WiresTyped'
    /\ UNCHANGED dashboard /\ DashboardTyped => DashboardTyped'
BY DEF bot, client, session, wires, dashboard, BotTyped, ClientTyped, SessionTyped, WiresTyped,
       DashboardTyped, RetriesLeft

(* The steps of the bot's tasks keep the types.                             *)
LEMMA BotKeepsType == Typed /\ (Comms \/ OtherReport) => Typed'
<1> SUFFICES ASSUME Typed, Comms \/ OtherReport PROVE BotTyped'
  BY Untouched DEF Typed, Comms, TakeCommand, Answer, OtherReport
<1>. USE Capacities DEF Typed, BotTyped
<1>1. CASE TakeCommand
  BY <1>1 DEF TakeCommand
<1>2. CASE Answer \/ OtherReport
  <2>1. PICK m \in Reports : SendReport(m)
    BY <1>2 DEF Answer, OtherReport
  <2>2. outbound' \in Seq(Reports) /\ Len(outbound') <= OutCap
    BY <2>1, PutInBuffer DEF SendReport
  <2>3. inbound' \in 0..InCap /\ answers' \in 0..MaxAnswers
    BY <1>2 DEF Answer, OtherReport
  <2>. QED
    BY <2>2, <2>3
<1>. QED
  BY <1>1, <1>2 DEF Comms

(* The end of a session keeps the types.                                    *)
LEMMA CountKeepsType ==
    ASSUME Typed, NEW connected \in BOOLEAN, Count(connected), linkAt # "failed"
    PROVE  Typed'
<1>. USE Capacities DEF Typed
<1>. DEFINE point == IF retries' >= MaxRetries THEN "failed" ELSE "wait"
<1>1. retries' \in 0..MaxRetries /\ EndSession(point)
  BY DEF Count, ClientTyped, RetriesLeft
<1>2. point \in {"wait", "failed"} /\ (point # "failed" => retries' < MaxRetries)
  BY <1>1
<1>. HIDE DEF point
<1>3. linkAt' = point /\ held' = <<>> /\ ask' \in {"first", "armed", "orphan", "asked", "lost"}
  BY <1>1 DEF EndSession, ClientTyped
<1>4. ClientTyped'
  BY <1>1, <1>2, <1>3 DEF ClientTyped, RetriesLeft, One
<1>5. WiresTyped' /\ SessionTyped' /\ DashboardTyped'
  <2>1. network' = <<>> /\ up' = <<>> /\ down' = 0 /\ link' = "none" /\ UNCHANGED breaks
    BY <1>1 DEF EndSession
  <2>2. reader' = "none" /\ replies' = <<>> /\ server' = FALSE /\ UNCHANGED commands
    BY <1>1 DEF EndSession
  <2>3. WiresTyped'
    BY <2>1 DEF WiresTyped
  <2>4. SessionTyped'
    BY <2>1 DEF SessionTyped
  <2>5. server' \in BOOLEAN
    BY <2>2, Zenon
  <2>6. reader' = "none" /\ replies' \in Seq({"nil", "arbs"}) /\ Len(replies') = 0
    BY <2>2
  <2>7. DashboardTyped'
    BY <2>2, <2>5, <2>6 DEF DashboardTyped
  <2>. QED
    BY <2>3, <2>4, <2>7
<1>6. BotTyped'
  BY <1>1, Untouched DEF EndSession
<1>. QED
  BY <1>4, <1>5, <1>6

(* So do the other steps of the client, and the request it makes.           *)
LEMMA ClientKeepsType == Typed /\ (Client \/ AskForRunningArbs) => Typed'
<1> SUFFICES ASSUME Typed, Client \/ AskForRunningArbs PROVE Typed'
  OBVIOUS
<1>. USE Capacities DEF Typed
<1>1. CASE Connect \/ Retry
  <2>1. ClientTyped' /\ SessionTyped'
    BY <1>1 DEF ClientTyped, SessionTyped, RetriesLeft, One, Connect, Retry, session
  <2>. QED
    BY <1>1, <2>1, Untouched DEF Connect, Retry
<1>2. CASE ConnectFails \/ StreamEnds \/ PipeBroken
  BY <1>2, CountKeepsType DEF ConnectFails, StreamEnds, PipeBroken
<1>3. CASE TakeOutbound
  <2>1. Head(outbound) \in Reports /\ outbound' \in Seq(Reports) /\ Len(outbound') <= OutCap
    BY <1>3, TakeFromBuffer DEF TakeOutbound, BotTyped
  <2>2. held' \in Seq(Reports) /\ Len(held') = 1
    BY <1>3, <2>1 DEF TakeOutbound
  <2>3. ClientTyped' /\ BotTyped'
    BY <1>3, <2>1, <2>2 DEF ClientTyped, BotTyped, RetriesLeft, One, TakeOutbound
  <2>. QED
    BY <1>3, <2>3, Untouched DEF TakeOutbound
<1>4. CASE ForwardOut
  <2>1. held \in Seq(Message) /\ network \in Seq(Message) /\ Len(held) = 1
    BY <1>4, SeqMonotonic DEF ClientTyped, WiresTyped, One, ForwardOut, Message
  <2>2. network \o held \in Seq(Message) /\ Len(network \o held) = Len(network) + Len(held)
    BY <2>1, ConcatProperties
  <2>3. network' \in Seq(Message) /\ Len(network') <= NetCap
    BY <1>4, <2>1, <2>2 DEF ForwardOut, WiresTyped
  <2>4. held' \in Seq(Reports) /\ Len(held') = 0
    BY <1>4 DEF ForwardOut
  <2>5. WiresTyped' /\ ClientTyped'
    BY <1>4, <2>3, <2>4 DEF ForwardOut, WiresTyped, ClientTyped, RetriesLeft, One
  <2>. QED
    BY <1>4, <2>5, Untouched DEF ForwardOut
<1>5. CASE TakeInbound
  <2>1. WiresTyped' /\ ClientTyped'
    BY <1>5 DEF TakeInbound, WiresTyped, ClientTyped, RetriesLeft, One
  <2>. QED
    BY <1>5, <2>1, Untouched DEF TakeInbound
<1>6. CASE ForwardIn
  <2>1. BotTyped' /\ ClientTyped'
    BY <1>6 DEF ForwardIn, BotTyped, ClientTyped, RetriesLeft, One
  <2>. QED
    BY <1>6, <2>1, Untouched DEF ForwardIn
<1>7. CASE AskForRunningArbs
  <2>1. network' \in Seq(Message) /\ Len(network') <= NetCap
    <3>1. Ask \in Message
      BY DEF Message
    <3>. QED
      BY <1>7, <3>1, PutInBuffer DEF AskForRunningArbs, WiresTyped
  <2>2. WiresTyped' /\ ClientTyped'
    BY <1>7, <2>1 DEF AskForRunningArbs, WiresTyped, ClientTyped, RetriesLeft
  <2>. QED
    BY <1>7, <2>2, Untouched DEF AskForRunningArbs
<1>. QED
  BY <1>1, <1>2, <1>3, <1>4, <1>5, <1>6, <1>7 DEF Client

(* So do those of the wire, of the server, of the user and of the network.  *)
LEMMA OthersKeepType ==
    Typed /\ (Transmit \/ Reader \/ Server \/ UserCommand \/ LinkBreaks) => Typed'
<1> SUFFICES ASSUME Typed, Transmit \/ Reader \/ Server \/ UserCommand \/ LinkBreaks PROVE Typed'
  OBVIOUS
<1>. USE Capacities DEF Typed
<1>1. CASE Transmit
  <2>1. Head(network) \in Message /\ network' \in Seq(Message) /\ Len(network') <= NetCap
    BY <1>1, TakeFromBuffer DEF Transmit, WiresTyped
  <2>2. up' \in Seq(Message) /\ Len(up') <= UpCap
    BY <1>1, <2>1, PutInBuffer DEF Transmit, WiresTyped
  <2>3. WiresTyped'
    BY <1>1, <2>1, <2>2 DEF Transmit, WiresTyped
  <2>. QED
    BY <1>1, <2>3, Untouched DEF Transmit
<1>2. CASE Receive
  <2>1. up' \in Seq(Message) /\ Len(up') <= UpCap
    BY <1>2, TakeFromBuffer DEF Receive, WiresTyped
  <2>2. WiresTyped' /\ DashboardTyped'
    BY <1>2, <2>1 DEF Receive, WiresTyped, DashboardTyped
  <2>. QED
    BY <1>2, <2>2, Untouched DEF Receive
<1>3. CASE Reply
  <2>1. reader \in {"nil", "arbs"}
    BY <1>3 DEF Reply, DashboardTyped
  <2>2. replies' \in Seq({"nil", "arbs"}) /\ Len(replies') <= ReplyCap
    BY <1>3, <2>1, PutInBuffer DEF Reply, DashboardTyped
  <2>3. DashboardTyped'
    BY <1>3, <2>2 DEF Reply, DashboardTyped
  <2>. QED
    BY <1>3, <2>3, Untouched DEF Reply
<1>4. CASE TakeReply
  <2>1. replies' \in Seq({"nil", "arbs"}) /\ Len(replies') <= ReplyCap
    BY <1>4, TakeFromBuffer DEF TakeReply, DashboardTyped
  <2>2. server' \in BOOLEAN
    BY <1>4 DEF TakeReply
  <2>3. DashboardTyped'
    BY <1>4, <2>1, <2>2 DEF TakeReply, DashboardTyped
  <2>. QED
    BY <1>4, <2>3, Untouched DEF TakeReply
<1>5. CASE ServeCommand \/ UserCommand
  <2>1. commands' \in Nat /\ UNCHANGED <<reader, replies>>
    BY <1>5 DEF ServeCommand, UserCommand, DashboardTyped
  <2>2. server' \in BOOLEAN
    BY <1>5, Zenon DEF ServeCommand, UserCommand, DashboardTyped
  <2>3. DashboardTyped'
    BY <2>1, <2>2 DEF DashboardTyped
  <2>. QED
    BY <1>5, <2>3, Untouched DEF ServeCommand, UserCommand
<1>6. CASE ServerSends
  <2>1. WiresTyped'
    BY <1>6 DEF ServerSends, WiresTyped
  <2>2. server' \in BOOLEAN /\ UNCHANGED <<reader, replies, commands>>
    BY <1>6, Zenon DEF ServerSends
  <2>3. DashboardTyped'
    BY <2>2 DEF DashboardTyped
  <2>. QED
    BY <1>6, <2>1, <2>3, Untouched DEF ServerSends
<1>7. CASE LinkBreaks
  <2>1. SessionTyped'
    BY <1>7 DEF LinkBreaks, SessionTyped
  <2>. QED
    BY <1>7, <2>1, Untouched DEF LinkBreaks
<1>. QED
  BY <1>1, <1>2, <1>3, <1>4, <1>5, <1>6, <1>7 DEF Reader, Server

LEMMA TypedInvariant == Spec => []Typed
<1>1. Init => Typed
  <2> SUFFICES ASSUME Init PROVE Typed
    OBVIOUS
  <2>1. BotTyped /\ SessionTyped
    BY Capacities DEF Init, BotTyped, SessionTyped
  <2>2. ClientTyped
    BY Capacities DEF Init, ClientTyped, RetriesLeft, One
  <2>3. WiresTyped
    BY Capacities DEF Init, WiresTyped
  <2>4. server \in BOOLEAN
    BY Zenon DEF Init
  <2>5. DashboardTyped
    BY <2>4, Capacities DEF Init, DashboardTyped
  <2>. QED
    BY <2>1, <2>2, <2>3, <2>5 DEF Typed
<1>2. Typed /\ [Next]_vars => Typed'
  <2>1. Typed /\ UNCHANGED vars => Typed'
    BY Untouched DEF vars, Typed
  <2>. QED
    BY <2>1, BotKeepsType, ClientKeepsType, OthersKeepType DEF Next
<1>. QED
  BY <1>1, <1>2, PTL DEF Spec

(* The variables have their types, and no buffer grows past its capacity.   *)
THEOREM TypeCorrect == Spec => []TypeOK
BY TypedInvariant, TypedIsTypeOK, PTL

-------------------------------------------------------------------------------
(* What is on its way to the dashboard, as the steps see it.                *)
LEMMA TakeOfConcat ==
    ASSUME NEW S, NEW s \in Seq(S), NEW t \in Seq(S), s # <<>>
    PROVE  /\ s \o t \in Seq(S) /\ s \o t # <<>>
           /\ Head(s \o t) = Head(s)
           /\ Tail(s \o t) = Tail(s) \o t
<1>. DEFINE st == s \o t
            u == Tail(s) \o t
<1>1. /\ st \in Seq(S) /\ Len(s) \in Nat \ {0} /\ Len(t) \in Nat
      /\ Len(st) = Len(s) + Len(t)
      /\ \A i \in 1..Len(s) + Len(t) : st[i] = IF i <= Len(s) THEN s[i] ELSE t[i - Len(s)]
  BY ConcatProperties, EmptySeq
<1>2. /\ Tail(s) \in Seq(S) /\ Len(Tail(s)) = Len(s) - 1
      /\ \A i \in 1..Len(s) - 1 : Tail(s)[i] = s[i + 1]
  BY HeadTailProperties
<1>3. /\ u \in Seq(S) /\ Len(u) = Len(s) - 1 + Len(t)
      /\ \A i \in 1..Len(s) - 1 + Len(t) :
            u[i] = IF i <= Len(s) - 1 THEN Tail(s)[i] ELSE t[i - (Len(s) - 1)]
  BY <1>2, ConcatProperties
<1>. HIDE DEF st, u
<1>4. st # <<>> /\ Head(st) = st[1] /\ Head(s) = s[1] /\ st[1] = s[1]
  BY <1>1, EmptySeq
<1>5. /\ Tail(st) \in Seq(S) /\ Len(Tail(st)) = Len(s) + Len(t) - 1
      /\ \A i \in 1..Len(s) + Len(t) - 1 : Tail(st)[i] = st[i + 1]
  BY <1>1, <1>4, HeadTailProperties
<1>6. ASSUME NEW i \in 1..Len(Tail(st))
      PROVE  Tail(st)[i] = u[i]
  <2>1. i \in 1..Len(s) + Len(t) - 1 /\ i - (Len(s) - 1) = i + 1 - Len(s)
    BY <1>1, <1>5
  <2>2. CASE i <= Len(s) - 1
    BY <1>1, <1>2, <1>3, <1>5, <2>1, <2>2
  <2>3. CASE i > Len(s) - 1
    BY <1>1, <1>3, <1>5, <2>1, <2>3
  <2>. QED
    BY <1>1, <2>1, <2>2, <2>3
<1>7. Tail(st) = u
  BY <1>1, <1>3, <1>5, <1>6, SeqEqual
<1>. QED
  BY <1>1, <1>4, <1>7 DEF st, u

LEMMA HandOver ==
    ASSUME NEW S, NEW s \in Seq(S), NEW t \in Seq(S), t # <<>>
    PROVE  Append(s, Head(t)) \o Tail(t) = s \o t
<1>1. Head(t) \in S /\ Tail(t) \in Seq(S) /\ <<Head(t)>> \in Seq(S)
  BY HeadTailProperties
<1>2. Append(s, Head(t)) = s \o <<Head(t)>>
  BY <1>1, AppendIsConcat
<1>3. <<Head(t)>> \o Tail(t) = t
  <2>. DEFINE h == <<Head(t)>>
              u == Tail(t)
              hu == h \o u
  <2>1. h \in Seq(S) /\ Len(h) = 1 /\ h[1] = t[1]
    BY <1>1
  <2>2. /\ u \in Seq(S) /\ Len(t) \in Nat \ {0} /\ Len(u) = Len(t) - 1
        /\ \A i \in 1..Len(t) - 1 : u[i] = t[i + 1]
    BY HeadTailProperties, EmptySeq
  <2>. HIDE DEF h, u
  <2>3. /\ hu \in Seq(S) /\ Len(hu) = Len(h) + Len(u)
        /\ \A i \in 1..Len(h) + Len(u) : hu[i] = IF i <= Len(h) THEN h[i] ELSE u[i - Len(h)]
    BY <2>1, <2>2, ConcatProperties
  <2>. HIDE DEF hu
  <2>4. Len(hu) = Len(t) /\ \A i \in 1..Len(t) : hu[i] = IF i <= 1 THEN h[i] ELSE u[i - 1]
    BY <2>1, <2>2, <2>3
  <2>5. ASSUME NEW i \in 1..Len(t)
        PROVE  hu[i] = t[i]
    <3>1. i = 1 \/ i - 1 \in 1..Len(t) - 1
      BY <2>2
    <3>. QED
      BY <2>1, <2>2, <2>4, <3>1
  <2>6. hu = t
    BY <2>3, <2>4, <2>5, SeqEqual
  <2>. QED
    BY <2>6 DEF hu, h, u
<1>. QED
  BY <1>1, <1>2, <1>3, ConcatAssociative

LEMMA AddAtTheEnd ==
    ASSUME NEW S, NEW s \in Seq(S), NEW t \in Seq(S), NEW e \in S
    PROVE  s \o Append(t, e) = Append(s \o t, e)
<1>1. <<e>> \in Seq(S) /\ s \o t \in Seq(S)
  BY ConcatProperties
<1>2. Append(t, e) = t \o <<e>> /\ Append(s \o t, e) = (s \o t) \o <<e>>
  BY <1>1, AppendIsConcat
<1>. QED
  BY <1>1, <1>2, ConcatAssociative

LEMMA AddManyAtTheEnd ==
    ASSUME NEW s \in Seq(Message), NEW t \in Seq(Message), NEW u \in Seq(Message)
    PROVE  s \o (t \o u) = (s \o t) \o u
<1>. DEFINE S == Message
<1>1. s \in Seq(S) /\ t \in Seq(S) /\ u \in Seq(S)
  OBVIOUS
<1>. HIDE DEF S
<1>. QED
  BY <1>1, ConcatAssociative

(* All that a step can do to the reports and to what is on its way.         *)
AskIsKept == ask' = "asked" <=> ask = "asked"

Sent ==
    /\ \E m \in Reports : outbound' = Append(outbound, m)
    /\ UNCHANGED held /\ OnWire' = OnWire /\ AskIsKept

TakenInHand ==
    /\ outbound # <<>> /\ held = <<>>
    /\ held' = <<Head(outbound)>> /\ outbound' = Tail(outbound)
    /\ OnWire' = OnWire /\ AskIsKept

PutOnWire ==
    /\ OnWire' = OnWire \o held /\ held' = <<>>
    /\ UNCHANGED outbound /\ AskIsKept

RequestOnWire ==
    /\ ask # "asked" /\ ask' = "asked"
    /\ OnWire' = Append(OnWire, Ask)
    /\ UNCHANGED <<outbound, held>>

TakenFromWire ==
    /\ OnWire # <<>> /\ OnWire' = Tail(OnWire)
    /\ UNCHANGED <<outbound, held>> /\ AskIsKept

LostWithSession ==
    /\ OnWire' = <<>> /\ held' = <<>>
    /\ UNCHANGED outbound /\ AskIsKept

NothingMoves == OnWire' = OnWire /\ UNCHANGED <<outbound, held>> /\ AskIsKept

Moves ==
    \/ Sent \/ TakenInHand \/ PutOnWire \/ RequestOnWire
    \/ TakenFromWire \/ LostWithSession \/ NothingMoves

LEMMA TypedOnWire ==
    ASSUME Typed
    PROVE  /\ outbound \in Seq(Reports) /\ held \in Seq(Reports)
           /\ up \in Seq(Message) /\ network \in Seq(Message) /\ OnWire \in Seq(Message)
BY ConcatProperties DEF Typed, BotTyped, ClientTyped, WiresTyped, OnWire

LEMMA SessionEndMoves ==
    ASSUME Typed, NEW connected \in BOOLEAN, Count(connected)
    PROVE  LostWithSession
<1>1. /\ up' = <<>> /\ network' = <<>> /\ held' = <<>> /\ UNCHANGED outbound
      /\ ask' = IF ask = "armed" THEN "orphan" ELSE ask
  BY DEF Count, EndSession, bot
<1>2. up' \o network' = <<>>
  BY <1>1, ConcatEmptySeq, EmptySeq
<1>. QED
  BY <1>1, <1>2 DEF LostWithSession, OnWire, AskIsKept

LEMMA EveryStepMoves == Typed /\ [Next]_vars => Moves
<1> SUFFICES ASSUME Typed, [Next]_vars PROVE Moves
  OBVIOUS
<1>. USE TypedOnWire
<1>1. CASE Answer \/ OtherReport
  <2>1. PICK m \in Reports : outbound' = Append(outbound, m)
    BY <1>1 DEF Answer, OtherReport, SendReport
  <2>. QED
    BY <1>1, <2>1 DEF Answer, OtherReport, client, wires, Moves, Sent, OnWire, AskIsKept
<1>2. CASE ConnectFails \/ StreamEnds \/ PipeBroken
  BY <1>2, SessionEndMoves DEF ConnectFails, StreamEnds, PipeBroken, Moves
<1>3. CASE TakeOutbound
  <2>1. held = <<>>
    BY <1>3, EmptySeq DEF TakeOutbound, Typed, ClientTyped, One
  <2>. QED
    BY <1>3, <2>1 DEF TakeOutbound, wires, Moves, TakenInHand, OnWire, AskIsKept
<1>4. CASE ForwardOut
  <2>1. up \in Seq(Message) /\ network \in Seq(Message) /\ held \in Seq(Message)
    BY SeqMonotonic DEF Message
  <2>2. up \o (network \o held) = (up \o network) \o held
    BY <2>1, AddManyAtTheEnd
  <2>. QED
    BY <1>4, <2>2 DEF ForwardOut, bot, Moves, PutOnWire, OnWire, AskIsKept
<1>5. CASE AskForRunningArbs
  <2>1. CASE network' = Append(network, Ask) /\ ask = "armed" /\ ask' = "asked"
    <3>1. up \o Append(network, Ask) = Append(up \o network, Ask)
      BY AddAtTheEnd DEF Message
    <3>. QED
      BY <1>5, <2>1, <3>1 DEF AskForRunningArbs, bot, Moves, RequestOnWire, OnWire
  <2>2. CASE UNCHANGED network /\ ask # "asked" /\ ask' = "lost"
    BY <1>5, <2>2 DEF AskForRunningArbs, bot, Moves, NothingMoves, OnWire, AskIsKept
  <2>. QED
    BY <1>5, <2>1, <2>2 DEF AskForRunningArbs
<1>6. CASE Transmit
  <2>1. Append(up, Head(network)) \o Tail(network) = up \o network
    BY <1>6, HandOver DEF Transmit
  <2>. QED
    BY <1>6, <2>1 DEF Transmit, bot, client, Moves, NothingMoves, OnWire, AskIsKept
<1>7. CASE Receive
  <2>1. up \o network # <<>> /\ Tail(up \o network) = Tail(up) \o network
    BY <1>7, TakeOfConcat DEF Receive
  <2>. QED
    BY <1>7, <2>1 DEF Receive, bot, client, Moves, TakenFromWire, OnWire, AskIsKept
<1>8. CASE \/ TakeCommand \/ Connect \/ Retry \/ TakeInbound \/ ForwardIn \/ Reply
           \/ Server \/ UserCommand \/ LinkBreaks \/ UNCHANGED vars
  <2>1. UNCHANGED <<outbound, held, up, network>>
    BY <1>8 DEF TakeCommand, Connect, Retry, TakeInbound, ForwardIn, Reply, Server, TakeReply,
                ServeCommand, ServerSends, UserCommand, LinkBreaks, vars, bot, client, wires
  <2>2. AskIsKept
    BY <1>8 DEF TakeCommand, Connect, Retry, TakeInbound, ForwardIn, Reply, Server, TakeReply,
                ServeCommand, ServerSends, UserCommand, LinkBreaks, vars, client, AskIsKept
  <2>. QED
    BY <2>1, <2>2 DEF Moves, NothingMoves, OnWire
<1>. QED
  BY <1>1, <1>2, <1>3, <1>4, <1>5, <1>6, <1>7, <1>8 DEF Next, Comms, Client, Reader

-------------------------------------------------------------------------------
LEMMA ReportsOnly ==
    ASSUME NEW s \in Seq(Reports)
    PROVE  s \in Seq(Message) /\ Nowhere(s, Ask)
<1>1. \A i \in 1..Len(s) : s[i] \in Reports
  BY ElementOfSeq
<1>. QED
  BY <1>1, SeqMonotonic, LinkAssumption DEF Message, Nowhere

LEMMA AskedOnceInvariant == Spec => []AskedOnce
<1>1. Init => AskedOnce
  <2>1. Init => OnWire = <<>>
    BY ConcatEmptySeq, EmptySeq DEF Init, OnWire
  <2>. QED
    BY <2>1 DEF AskedOnce, Once, Nowhere
<1>2. Typed /\ AskedOnce /\ [Next]_vars => AskedOnce'
  <2> SUFFICES ASSUME Typed, AskedOnce, Moves PROVE AskedOnce'
    BY EveryStepMoves
  <2>. DEFINE w == OnWire
  <2>0. w \in Seq(Message) /\ Len(w) \in Nat /\ held \in Seq(Reports)
    BY TypedOnWire
  <2>1. CASE Sent \/ TakenInHand \/ NothingMoves
    BY <2>1 DEF Sent, TakenInHand, NothingMoves, AskedOnce, AskIsKept, Once, Nowhere
  <2>. HIDE DEF w
  <2>2. CASE PutOnWire
    <3>1. /\ Len(w \o held) = Len(w) + Len(held) /\ Len(held) \in Nat
          /\ \A i \in 1..Len(w) + Len(held) :
                (w \o held)[i] = IF i <= Len(w) THEN w[i] ELSE held[i - Len(w)]
      BY <2>0, ReportsOnly, ConcatProperties
    <3>2. \A i \in 1..Len(held) : held[i] # Ask
      BY <2>0, ReportsOnly DEF Nowhere
    <3>3. ASSUME NEW i \in 1..Len(w \o held), (w \o held)[i] = Ask
          PROVE  i \in 1..Len(w) /\ w[i] = Ask
      <4>1. i > Len(w) => i - Len(w) \in 1..Len(held)
        BY <2>0, <3>1
      <4>2. i <= Len(w)
        BY <2>0, <3>1, <3>2, <3>3, <4>1
      <4>. QED
        BY <2>0, <3>1, <3>3, <4>2
    <3>4. (Once(w, Ask) => Once(w \o held, Ask)) /\ (Nowhere(w, Ask) => Nowhere(w \o held, Ask))
      BY <3>3 DEF Once, Nowhere
    <3>. QED
      BY <2>2, <3>4 DEF PutOnWire, AskIsKept, AskedOnce, w
  <2>3. CASE RequestOnWire
    <3>1. Nowhere(w, Ask)
      BY <2>3 DEF RequestOnWire, AskedOnce, w
    <3>2. /\ Len(Append(w, Ask)) = Len(w) + 1
          /\ \A i \in 1..Len(w) : Append(w, Ask)[i] = w[i]
      BY <2>0, AppendProperties DEF Message
    <3>3. Once(Append(w, Ask), Ask)
      BY <2>0, <3>1, <3>2 DEF Nowhere, Once
    <3>. QED
      BY <2>3, <3>3 DEF RequestOnWire, AskedOnce, w
  <2>4. CASE TakenFromWire
    <3>1. /\ Len(Tail(w)) = Len(w) - 1
          /\ \A i \in 1..Len(Tail(w)) : Tail(w)[i] = w[i + 1]
      BY <2>0, <2>4, HeadTailProperties DEF TakenFromWire, w
    <3>2. (Once(w, Ask) => Once(Tail(w), Ask)) /\ (Nowhere(w, Ask) => Nowhere(Tail(w), Ask))
      BY <2>0, <3>1 DEF Once, Nowhere
    <3>. QED
      BY <2>4, <3>2 DEF TakenFromWire, AskIsKept, AskedOnce, w
  <2>5. CASE LostWithSession
    BY <2>5 DEF LostWithSession, AskedOnce, Once, Nowhere
  <2>. QED
    BY <2>1, <2>2, <2>3, <2>4, <2>5 DEF Moves
<1>. QED
  BY <1>1, <1>2, TypedInvariant, PTL DEF Spec

(* The step of LossyPipe that a step of the link is.                        *)
LEMMA EveryMoveIsAllowed ==
    ASSUME Typed, AskedOnce, Moves
    PROVE  [Pipe!Next]_<<outbound, Taken>>
<1>. DEFINE w == OnWire
            left == RemoveFirst(w, Ask)
<1>1. /\ w \in Seq(Message) /\ Once(w, Ask) /\ outbound \in Seq(Reports)
      /\ held \in Seq(Reports) /\ held \in Seq(Message) /\ Nowhere(held, Ask)
  BY TypedOnWire, ReportsOnly DEF AskedOnce
<1>2. left \in Seq(Message)
  <2>1. CASE Nowhere(w, Ask)
    BY <1>1, <2>1, RemoveNothing
  <2>2. CASE ~Nowhere(w, Ask)
    <3>1. PICK k \in 1..Len(w) : w[k] = Ask
      BY <2>2 DEF Nowhere
    <3>. QED
      BY <1>1, <3>1, RemoveTheOne
  <2>. QED
    BY <2>1, <2>2
<1>3. Taken = left \o held /\ Taken' = RemoveFirst(OnWire', Ask) \o held'
  BY DEF Taken, OnWire
<1>. HIDE DEF w, left
<1>4. CASE Sent
  <2>1. Taken' = Taken
    BY <1>3, <1>4 DEF Sent, w, left
  <2>. QED
    BY <1>4, <2>1 DEF Sent, Pipe!Next, Pipe!Send
<1>5. CASE TakenInHand
  <2>1. Head(outbound) \in Message
    BY <1>1, <1>5, HeadTailProperties DEF TakenInHand, Message
  <2>2. Taken = left
    BY <1>2, <1>3, <1>5, ConcatEmptySeq DEF TakenInHand
  <2>3. Taken' = left \o <<Head(outbound)>>
    BY <1>3, <1>5 DEF TakenInHand, w, left
  <2>4. Taken' = Append(Taken, Head(outbound))
    BY <1>2, <2>1, <2>2, <2>3, AppendIsConcat
  <2>. QED
    BY <1>5, <2>4 DEF TakenInHand, Pipe!Next, Pipe!Take
<1>6. CASE PutOnWire
  <2>1. RemoveFirst(w \o held, Ask) = left \o held
    BY <1>1, RemoveBefore DEF left
  <2>2. Taken' = (left \o held) \o <<>>
    BY <1>3, <1>6, <2>1 DEF PutOnWire, w
  <2>3. (left \o held) \o <<>> = left \o held
    BY <1>1, <1>2, ConcatProperties, ConcatEmptySeq
  <2>. QED
    BY <1>3, <1>6, <2>2, <2>3 DEF PutOnWire
<1>7. CASE RequestOnWire
  <2>1. Nowhere(w, Ask) /\ Ask \in Message
    BY <1>7 DEF RequestOnWire, AskedOnce, w, Message
  <2>2. RemoveFirst(Append(w, Ask), Ask) = left
    BY <1>1, <2>1, RemoveLast, RemoveNothing DEF left
  <2>. QED
    BY <1>3, <1>7, <2>2 DEF RequestOnWire, w
<1>8. CASE TakenFromWire
  <2>1. w # <<>>
    BY <1>8 DEF TakenFromWire, w
  <2>2. /\ Head(w) = Ask => RemoveFirst(Tail(w), Ask) = left
        /\ Head(w) # Ask => left # <<>> /\ RemoveFirst(Tail(w), Ask) = Tail(left)
    BY <1>1, <2>1, RemoveFromTail DEF left
  <2>3. Taken' = RemoveFirst(Tail(w), Ask) \o held /\ outbound' = outbound
    BY <1>3, <1>8 DEF TakenFromWire, w
  <2>4. CASE Head(w) = Ask
    BY <1>3, <2>2, <2>3, <2>4
  <2>5. CASE Head(w) # Ask
    <3>1. left \o held # <<>> /\ Tail(left \o held) = Tail(left) \o held
      BY <1>1, <1>2, <2>2, <2>5, TakeOfConcat
    <3>. QED
      BY <1>3, <2>2, <2>3, <2>5, <3>1 DEF Pipe!Next, Pipe!Arrive
  <2>. QED
    BY <2>4, <2>5
<1>9. CASE LostWithSession
  <2>1. RemoveFirst(<<>>, Ask) = <<>>
    BY RemoveNothing DEF Nowhere
  <2>2. Taken' = <<>>
    BY <1>3, <1>9, <2>1, ConcatEmptySeq, EmptySeq DEF LostWithSession
  <2>. QED
    BY <1>9, <2>2 DEF LostWithSession, Pipe!Next, Pipe!Lose
<1>10. CASE NothingMoves
  BY <1>3, <1>10 DEF NothingMoves, w, left
<1>. QED
  BY <1>4, <1>5, <1>6, <1>7, <1>8, <1>9, <1>10 DEF Moves

(* Across reconnections the reports arrive in the order in which they were  *)
(* sent, none twice, and only what a session had taken is lost with it.     *)
THEOREM LinkImplementsPipe == Spec => ImplementsPipe
<1>1. Init => Pipe!Init
  <2> SUFFICES ASSUME Init PROVE Pipe!Init
    OBVIOUS
  <2>1. up \o network = <<>>
    BY ConcatEmptySeq, EmptySeq DEF Init
  <2>2. RemoveFirst(<<>>, Ask) = <<>>
    BY RemoveNothing DEF Nowhere
  <2>3. Taken = <<>>
    BY <2>1, <2>2, ConcatEmptySeq, EmptySeq DEF Init, Taken
  <2>. QED
    BY <2>3 DEF Init, Pipe!Init
<1>2. Typed /\ AskedOnce /\ [Next]_vars => [Pipe!Next]_<<outbound, Taken>>
  BY EveryStepMoves, EveryMoveIsAllowed
<1>. QED
  BY <1>1, <1>2, TypedInvariant, AskedOnceInvariant, PTL DEF Spec, ImplementsPipe, Pipe!Spec
===============================================================================
