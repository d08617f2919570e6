------------------------------ MODULE MC_Memory ------------------------------
(* Two cores and two lines of one byte that share one line of the caches.  Of   *)
(* the two interfaces of the DDR memory one takes the reads of line 1 and the   *)
(* other its writes; line 2 has its reads and its writes at the first.          *)
EXTENDS MemorySystem

AllKinds == {"serial", "parallel", "banked", "ddr"}
OneRegister == [o \in Operand |-> 1]
ZeroLine == [b \in Byte |-> 0]
Values == 0..MaxStores
TwoRows == [a \in Addr |-> a]
Stores == [a \in Addr |-> IF a = 2 THEN Client ELSE {0}]
Bundles == [a \in Addr |-> IF a = 2 THEN {0} ELSE {}]
Requests == [c \in Client |-> IF c = 0 THEN 2 ELSE 1]
=============================================================================
