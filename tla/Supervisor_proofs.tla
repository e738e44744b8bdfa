--------------------------- MODULE Supervisor_proofs ---------------------------
(***************************************************************************)
(* Theorems about Supervisor, for any number of handlers: the types, and   *)
(* that the bot never runs on with a task missing.                         *)
(***************************************************************************)
EXTENDS Supervisor, TLAPS

USE SupervisorAssumption

(* The tasks, as a set.                                                     *)
LEMMA TasksAre ==
    Tasks = {"cleanup", "picker_comms", "picker_exec", "grpc", "polymarket", "kalshi"}
<1>1. /\ Len(Order) = 6
      /\ Order[1] = "cleanup" /\ Order[2] = "picker_comms" /\ Order[3] = "picker_exec"
      /\ Order[4] = "grpc" /\ Order[5] = "polymarket" /\ Order[6] = "kalshi"
  BY DEF Order
<1>2. DOMAIN Order = 1..6
  BY DEF Order
<1>3. Tasks = {Order[i] : i \in 1..6}
  BY <1>2 DEF Tasks, ToSet
<1>4. 1..6 = {1, 2, 3, 4, 5, 6}
  OBVIOUS
<1> QED  BY <1>1, <1>3, <1>4

(* Somebody can still send to a task, if only the task itself.              *)
LEMMA SendersAreTasks == \A t \in Tasks : Senders(t) # {} /\ Senders(t) \subseteq Tasks
<1> SUFFICES ASSUME NEW t \in Tasks PROVE Senders(t) # {} /\ Senders(t) \subseteq Tasks
  OBVIOUS
<1>1. CASE t = "grpc"
  BY <1>1, TasksAre DEF Senders
<1>2. CASE t = "picker_comms"
  BY <1>2, TasksAre DEF Senders
<1>3. CASE t = "picker_exec"
  BY <1>3, TasksAre DEF Senders
<1>4. CASE t \notin {"grpc", "picker_comms", "picker_exec"}
  BY <1>4 DEF Senders
<1> QED  BY <1>1, <1>2, <1>3, <1>4

-------------------------------------------------------------------------------
(* While main waits, every task was spawned; and as long as there is no     *)
(* signal and no error, no task has ended, since the first to end would     *)
(* have to be one whose senders had ended before it.                        *)
AllSpawned == main \in {"join", "grace"} => \A t \in Tasks : task[t] # "none"

NoneEnded == ~token /\ (\A t \in Tasks : task[t] # "err") => \A t \in Tasks : task[t] # "ok"

SupervisorInv == TypeOK /\ AllSpawned /\ NoneEnded

LEMMA SupervisorStarts == Init => SupervisorInv
<1> SUFFICES ASSUME Init PROVE SupervisorInv  OBVIOUS
<1>1. 0 \in 0..MaxHandlers
  OBVIOUS
<1> QED  BY <1>1 DEF Init, SupervisorInv, TypeOK, AllSpawned, NoneEnded, Ended

(* The steps of main and the signal change no task.                         *)
LEMMA MainKeeps ==
    ASSUME SupervisorInv,
           StartupDone \/ StartupFails \/ Signal \/ AllFinished \/ TaskFailed \/ GraceOver
    PROVE  SupervisorInv'
<1>1. UNCHANGED <<task, handlers>>
  BY DEF StartupDone, StartupFails, Signal, AllFinished, TaskFailed, GraceOver
<1>2. token' \in BOOLEAN /\ (token => token') /\ main' \in {"startup", "join", "grace", "exited"}
  BY DEF StartupDone, StartupFails, Signal, AllFinished, TaskFailed, GraceOver,
         SupervisorInv, TypeOK
<1>3. main' \in {"join", "grace"} => main \in {"join", "grace"} \/ \A t \in Tasks : task[t] # "none"
  BY DEF StartupDone, StartupFails, Signal, AllFinished, TaskFailed, GraceOver
<1>4. TypeOK'
  BY <1>1, <1>2 DEF SupervisorInv, TypeOK
<1>5. AllSpawned'
  BY <1>1, <1>3 DEF SupervisorInv, AllSpawned
<1>6. NoneEnded'
  BY <1>1, <1>2 DEF SupervisorInv, NoneEnded, TypeOK
<1> QED  BY <1>4, <1>5, <1>6 DEF SupervisorInv

(* A task that is spawned, enters or leaves a handler, or fails, leaves no  *)
(* task missing.                                                            *)
LEMMA TaskKeeps ==
    ASSUME SupervisorInv, NEW t \in Tasks, Spawn(t) \/ Enter(t) \/ Leave(t) \/ Fail(t)
    PROVE  SupervisorInv'
<1>1. PICK s \in {"idle", "busy", "err"} : task' = [task EXCEPT ![t] = s]
  BY DEF Spawn, Enter, Leave, Fail
<1>2. /\ UNCHANGED <<main, token>> /\ handlers' \in 0..MaxHandlers
      /\ task[t] # "err"
  BY DEF Spawn, Enter, Leave, Fail, SupervisorInv, TypeOK
<1>3. task \in [Tasks -> {"none", "idle", "busy"} \cup Ended]
  BY DEF SupervisorInv, TypeOK
<1>4. TypeOK'
  BY <1>1, <1>2, <1>3 DEF SupervisorInv, TypeOK, Ended
<1>5. AllSpawned'
  BY <1>1, <1>2, <1>3 DEF SupervisorInv, AllSpawned
<1>6. NoneEnded'
  BY <1>1, <1>2, <1>3 DEF SupervisorInv, NoneEnded
<1> QED  BY <1>4, <1>5, <1>6 DEF SupervisorInv

(* No task is the first to end well.                                        *)
LEMMA FinishKeeps ==
    ASSUME SupervisorInv, NEW t \in Tasks, Finish(t)
    PROVE  SupervisorInv'
<1>1. /\ task[t] = "idle" /\ task' = [task EXCEPT ![t] = "ok"]
      /\ UNCHANGED <<main, token, handlers>>
      /\ token \/ \A s \in Senders(t) : task[s] \in Ended
  BY DEF Finish
<1>2. task \in [Tasks -> {"none", "idle", "busy"} \cup Ended]
  BY DEF SupervisorInv, TypeOK
<1>3. TypeOK'
  BY <1>1, <1>2 DEF SupervisorInv, TypeOK, Ended
<1>4. AllSpawned'
  BY <1>1, <1>2 DEF SupervisorInv, AllSpawned
<1>5. NoneEnded'
  <2> SUFFICES ASSUME ~token, \A s \in Tasks : task'[s] # "err" PROVE FALSE
    BY <1>1 DEF NoneEnded
  <2>1. \A s \in Tasks : task[s] # "err"
    BY <1>1, <1>2
  <2>2. \A s \in Tasks : task[s] \notin Ended
    BY <2>1 DEF SupervisorInv, NoneEnded, Ended
  <2> QED  BY <1>1, <2>2, SendersAreTasks
<1> QED  BY <1>3, <1>4, <1>5 DEF SupervisorInv

LEMMA SupervisorInvIsInvariant == Spec => []SupervisorInv
<1>1. SupervisorInv /\ [Next]_vars => SupervisorInv'
  <2> SUFFICES ASSUME SupervisorInv, [Next]_vars PROVE SupervisorInv'  OBVIOUS
  <2>1. CASE UNCHANGED vars
    BY <2>1 DEF vars, SupervisorInv, TypeOK, AllSpawned, NoneEnded
  <2>2. CASE StartupDone \/ StartupFails \/ Signal \/ AllFinished \/ TaskFailed \/ GraceOver
    BY <2>2, MainKeeps
  <2>3. CASE \E t \in Tasks : Spawn(t) \/ Enter(t) \/ Leave(t) \/ Finish(t) \/ Fail(t)
    BY <2>3, TaskKeeps, FinishKeeps
  <2> QED  BY <2>1, <2>2, <2>3 DEF Next
<1> QED  BY SupervisorStarts, <1>1, PTL DEF Spec

(* The state of the process, of the token and of each task keeps its type.  *)
THEOREM TypeCorrect == Spec => []TypeOK
<1>1. SupervisorInv => TypeOK
  BY DEF SupervisorInv
<1> QED  BY <1>1, SupervisorInvIsInvariant, PTL

(* While main is in its try_join! and there was neither a signal nor an     *)
(* error, all six tasks are at work: a closed channel does not end one      *)
(* before the others.                                                       *)
THEOREM NoneEverMissing == Spec => []NoneMissing
<1>1. SupervisorInv => NoneMissing
  BY DEF SupervisorInv, TypeOK, AllSpawned, NoneEnded, NoneMissing, Ended
<1> QED  BY <1>1, SupervisorInvIsInvariant, PTL
===============================================================================
