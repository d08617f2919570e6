---------------------------- MODULE MC_Registers ----------------------------
(***************************************************************************)
(* Instances of RegisterAllocation.                                         *)
(***************************************************************************)
EXTENDS RegisterAllocation

Regs(g, s, l) == [globals |-> g, shareds |-> s, locals |-> l]
Both(x, y) == [i \in RegType |-> IF i = "int" THEN x ELSE y]

\* Bodies with and without floating point registers, and the empty family's.
AllBodies == {Both(Regs(1, 1, 1), Regs(0, 0, 2)),
              Both(Regs(0, 0, 4), Regs(0, 0, 4)),
              Both(Regs(0, 0, 3), Regs(0, 0, 0)),
              Both(Regs(0, 0, 0), Regs(0, 0, 0))}

\* The reserved counts grow without bound (see the README): the runs stop
\* following a behaviour once one of them has reached four.
FewReserved == \A i \in RegType : unit[i].free["RESERVED"] <= 3
=============================================================================
