------------------------------- MODULE ArbGate -------------------------------
(***************************************************************************)
(* What in_flight, the cooldown map and the execution channel together     *)
(* promise of each arb (README.md:88-90): an execution is requested only   *)
(* of an arb that has none and that is not cooling down; an execution      *)
(* ends, and leaves the arb open again or cooling down; a cooldown ends.   *)
(* Picker implements this module.                                          *)
(***************************************************************************)
CONSTANT Arbs

VARIABLE phase

Phases == {"open", "pending", "cooling"}

Init == phase = [c \in Arbs |-> "open"]

Move(c, from, to) == phase[c] = from /\ phase' = [phase EXCEPT ![c] = to]

Request(c) == Move(c, "open", "pending")

End(c) == Move(c, "pending", "open") \/ Move(c, "pending", "cooling")

Thaw(c) == Move(c, "cooling", "open")

Next == \E c \in Arbs : Request(c) \/ End(c) \/ Thaw(c)

Safety == Init /\ [][Next]_phase

Spec == Safety /\ \A c \in Arbs : WF_phase(End(c)) /\ WF_phase(Thaw(c))
===============================================================================
