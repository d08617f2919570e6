------------------------------ MODULE MC_Core ------------------------------
(* Two threads: thread 0 computes in registers 1 and 2 of its own, thread 1  *)
(* in 3, and reads register 4, which thread 0 produces.                      *)
EXTENDS Core

Op(op, ra, rb, rs, rc, tag) == [op |-> op, ra |-> ra, rb |-> rb, rs |-> rs, rc |-> rc, tag |-> tag]
R(r) == <<r, 1>>
Lit == <<>>

MCLength == [t \in Thread |-> IF t = 0 THEN MaxLen ELSE 2]
MCLocal == [t \in Thread |-> IF t = 0 THEN {1, 2} ELSE {3}]
MCUnitFor == [op \in {"add", "div"} |-> IF op = "div" THEN 1 ELSE 2]
MCPipelined == [n \in Unit |-> n = 2]

Alu(ra, rb, rc) == Op("alu", ra, rb, Lit, rc, "none")
Fp(op, ra, rb, rc, tag) == Op(op, ra, rb, Lit, rc, tag)
Load(r, tag) == Op("load", Lit, Lit, r, r, tag)
Store(r, tag) == Op("store", Lit, Lit, r, Lit, tag)
Jump(r) == Op("jump", Lit, Lit, Lit, r, "none")
Barrier == Op("barrier", Lit, Lit, Lit, Lit, "none")

\* Thread 0 starts an operation of long latency, has a second one or an
\* ordinary instruction race it, and then uses what they produced.
First == {Fp("add", R(1), Lit, R(2), "none"), Fp("div", R(1), Lit, R(2), "switch"),
          Load(R(2), "none"), Store(R(1), "line"), Jump(R(2))}
Second == {Alu(R(1), R(2), R(1)), Alu(R(1), Lit, R(2)), Load(R(2), "switch"), Load(R(1), "none"),
           Fp("add", R(2), Lit, R(1), "none"), Fp("div", R(2), Lit, R(1), "line"), Barrier}
Third == {Alu(R(2), Lit, R(4)), Fp("div", R(1), R(2), R(2), "none")}
Fourth == {Alu(R(2), R(1), R(4)), Alu(R(4), Lit, R(1)), Store(R(1), "none")}
\* On the Sparc an operand can be a pair of registers.
Pair == <<1, 2>>
WideFirst == {Fp("add", Pair, Lit, Pair, "none"), Fp("div", Pair, Lit, Pair, "switch"), Load(R(2), "none")}
WideSecond == {Fp("add", Pair, Pair, Pair, "none"), Store(Pair, "none"), Jump(R(1)), Barrier}
WideThird == {Store(Pair, "none"), Alu(Pair, Lit, Pair), Alu(R(1), R(2), R(4))}
Reader == << {Alu(R(4), Lit, R(3))}, {Store(R(3), "none")} >>

MCCode ==
    [isa \in Isas |->
        [t \in Thread |-> CASE t # 0 -> Reader
                            [] t = 0 /\ isa = "mtalpha" -> <<First, Second, Third, Fourth>>
                            [] t = 0 /\ isa = "mtsparc" -> <<WideFirst, WideSecond, WideThird, Fourth>>]]
=============================================================================
