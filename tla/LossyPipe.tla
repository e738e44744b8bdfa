------------------------------- MODULE LossyPipe -------------------------------
(***************************************************************************)
(* What the bot's link to the dashboard promises of the messages sent      *)
(* through it: they arrive in the order in which they were sent, none      *)
(* twice; a session that ends loses all it had taken and not delivered,    *)
(* and never a message that it had not taken.                              *)
(***************************************************************************)
EXTENDS Sequences

CONSTANT Messages

VARIABLES
    waiting,    \* what was sent and no session has taken
    taken       \* what a session has taken and not delivered

Init == waiting = <<>> /\ taken = <<>>

Send(m) == waiting' = Append(waiting, m) /\ UNCHANGED taken

Take ==
    /\ waiting # <<>>
    /\ taken' = Append(taken, Head(waiting)) /\ waiting' = Tail(waiting)

Arrive == taken # <<>> /\ taken' = Tail(taken) /\ UNCHANGED waiting

Lose == taken' = <<>> /\ UNCHANGED waiting

Next == (\E m \in Messages : Send(m)) \/ Take \/ Arrive \/ Lose

Spec == Init /\ [][Next]_<<waiting, taken>>
===============================================================================
