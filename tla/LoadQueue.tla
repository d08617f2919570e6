----------------------------- MODULE LoadQueue -----------------------------
(***************************************************************************)
(* What the path between the cores and a memory promises: every load of a   *)
(* core is answered, once, and in the order in which the core issued them.  *)
(***************************************************************************)
EXTENDS Integers, Sequences

CONSTANTS Core, Load
VARIABLES issued, answered      \* [Core -> the loads, in order]

Init == issued = [c \in Core |-> <<>>] /\ answered = [c \in Core |-> <<>>]
Issue(c) ==
    /\ \E load \in Load : issued' = [issued EXCEPT ![c] = Append(@, load)]
    /\ UNCHANGED answered
Outstanding(c) == Len(answered[c]) < Len(issued[c])
Answer(c) ==
    /\ Outstanding(c)
    /\ answered' = [answered EXCEPT ![c] = Append(@, issued[c][Len(@) + 1])]
    /\ UNCHANGED issued
Next == \E c \in Core : Issue(c) \/ Answer(c)
Spec == Init /\ [][Next]_<<issued, answered>> /\ \A c \in Core : WF_<<issued, answered>>(Answer(c))
=============================================================================
