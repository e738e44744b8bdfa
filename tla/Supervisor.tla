------------------------------ MODULE Supervisor ------------------------------
(***************************************************************************)
(* How the bot ends: main (src/src/main.rs), the six tasks that            *)
(* app_startup (src/src/app.rs) hands to it, their token and the channels  *)
(* whose closing ends a task.                                              *)
(*                                                                         *)
(* A task is at its select!, where it looks at the token and its channels, *)
(* or busy inside a handler, where it looks at neither: a trade, a         *)
(* reconnection, a send on a full channel.                                 *)
(***************************************************************************)
EXTENDS Naturals, Sequences, SequencesExt

CONSTANT MaxHandlers    \* bound on the handlers of a behavior

ASSUME SupervisorAssumption == MaxHandlers \in Nat

VARIABLES
    main,       \* startup, join, grace (five seconds) or exited
    token,      \* has the shutdown token been cancelled?
    task,       \* task -> none, idle, busy, ok or err
    handlers    \* how many handlers were entered

vars == <<main, token, task, handlers>>

(* In the order in which app_startup spawns them.                           *)
Order == <<"cleanup", "picker_comms", "picker_exec", "grpc", "polymarket", "kalshi">>

Tasks == ToSet(Order)

Ended == {"ok", "err"}

(* The tasks that hold a sender of a channel whose closing ends the task;   *)
(* the other tasks have no such channel.                                    *)
Senders(t) ==
    CASE t = "grpc" -> {"polymarket", "kalshi", "picker_comms", "picker_exec"}
      [] t = "picker_comms" -> {"grpc"}
      [] t = "picker_exec" -> {"picker_comms"}
      [] OTHER -> {t}

Init ==
    /\ main = "startup"
    /\ token = FALSE
    /\ task = [t \in Tasks |-> "none"]
    /\ handlers = 0

-------------------------------------------------------------------------------
(* app_startup spawns the tasks in its order; an error in it ends main.     *)
Spawn(t) ==
    /\ main = "startup" /\ task[t] = "none"
    /\ \A i, j \in 1..Len(Order) : Order[i] = t /\ j < i => task[Order[j]] # "none"
    /\ task' = [task EXCEPT ![t] = "idle"]
    /\ UNCHANGED <<main, token, handlers>>

StartupDone ==
    /\ main = "startup" /\ \A t \in Tasks : task[t] # "none"
    /\ main' = "join"
    /\ UNCHANGED <<token, task, handlers>>

StartupFails ==
    /\ main = "startup" /\ \E t \in Tasks : task[t] = "none"
    /\ main' = "exited"
    /\ UNCHANGED <<token, task, handlers>>

(* SIGTERM or SIGINT.                                                       *)
Signal ==
    /\ main # "exited" /\ ~token
    /\ token' = TRUE
    /\ UNCHANGED <<main, task, handlers>>

-------------------------------------------------------------------------------
(* A task; none goes on when main has returned.                             *)

Enter(t) ==
    /\ main # "exited" /\ task[t] = "idle" /\ handlers < MaxHandlers
    /\ handlers' = handlers + 1
    /\ task' = [task EXCEPT ![t] = "busy"]
    /\ UNCHANGED <<main, token>>

Leave(t) ==
    /\ main # "exited" /\ task[t] = "busy"
    /\ task' = [task EXCEPT ![t] = "idle"]
    /\ UNCHANGED <<main, token, handlers>>

(* The token is cancelled, or the last sender of a channel is gone.         *)
Finish(t) ==
    /\ main # "exited" /\ task[t] = "idle"
    /\ token \/ \A s \in Senders(t) : task[s] \in Ended
    /\ task' = [task EXCEPT ![t] = "ok"]
    /\ UNCHANGED <<main, token, handlers>>

(* Mistake: an attempt too many is logged, and the task returns Ok.         *)
FailQuietly(t) ==
    /\ main # "exited" /\ task[t] = "busy"
    /\ task' = [task EXCEPT ![t] = "ok"]
    /\ UNCHANGED <<main, token, handlers>>

(* The feeds and the gRPC client give up; any task may panic.               *)
Fail(t) ==
    /\ main # "exited" /\ task[t] = "busy"
    /\ task' = [task EXCEPT ![t] = "err"]
    /\ UNCHANGED <<main, token, handlers>>

-------------------------------------------------------------------------------
(* try_join! of all tasks, before the wait for the token (biased).          *)

AllFinished ==
    /\ main = "join" /\ \A t \in Tasks : task[t] = "ok"
    /\ main' = "exited"
    /\ UNCHANGED <<token, task, handlers>>

(* The other tasks get five seconds, however soon they finish.              *)
TaskFailed ==
    /\ main = "join" /\ \E t \in Tasks : task[t] = "err"
    /\ token' = TRUE
    /\ main' = "grace"
    /\ UNCHANGED <<task, handlers>>

(* Mistake: wait for the tasks if there was no failure.                     *)
GraceOverOnFailure ==
    /\ main = "grace"
    /\ main' = "exited"
    /\ UNCHANGED <<token, task, handlers>>

(* Five seconds after the token, or after the failure.                      *)
GraceOver ==
    /\ \/ main = "grace"
       \/ main = "join" /\ token /\ \A t \in Tasks : task[t] # "err"
    /\ main' = "exited"
    /\ UNCHANGED <<token, task, handlers>>

-------------------------------------------------------------------------------
Next ==
    \/ StartupDone \/ StartupFails \/ Signal
    \/ AllFinished \/ TaskFailed \/ GraceOver
    \/ \E t \in Tasks : Spawn(t) \/ Enter(t) \/ Leave(t) \/ Finish(t) \/ Fail(t)

(* Main goes on, its timers fire, and a task at its select! looks at the    *)
(* token and the channels.  A handler need not end.                         *)
Spec ==
    /\ Init /\ [][Next]_vars
    /\ WF_vars(StartupDone \/ AllFinished \/ TaskFailed \/ GraceOver)
    /\ \A t \in Tasks : WF_vars(Spawn(t)) /\ WF_vars(Finish(t))

-------------------------------------------------------------------------------
TypeOK ==
    /\ main \in {"startup", "join", "grace", "exited"}
    /\ token \in BOOLEAN
    /\ task \in [Tasks -> {"none", "idle", "busy"} \cup Ended]
    /\ handlers \in 0..MaxHandlers

(* The bot runs as a whole or not at all: when a task has ended, for        *)
(* whatever reason, the process ends, even if another one hangs.  No task   *)
(* watches another: it rests on every early end being an error, or the      *)
(* closing of a channel whose last sender ended with one.                   *)
EndsTogether ==
    \A t \in Tasks : task[t] \in Ended ~> main = "exited"

(* ... and so a cancelled token ends it, "forcing exit" if need be          *)
(* (main.rs:64-69).                                                         *)
TokenEndsIt == token ~> main = "exited"

(* Without a signal, and without an error, every task is there.             *)
NoneMissing ==
    main = "join" /\ ~token /\ (\A t \in Tasks : task[t] # "err") =>
        \A t \in Tasks : task[t] \in {"idle", "busy"}
===============================================================================
