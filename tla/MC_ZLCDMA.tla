----------------------------- MODULE MC_ZLCDMA ------------------------------
(* Two caches below one directory, and one root directory. *)
EXTENDS ZLCDMA

OneSet == [a \in Addrs |-> 0]
Crossed == [a \in Addrs |-> IF a = 0 THEN {1} ELSE {0}]
FirstLine == [a \in Addrs |-> IF a = 0 THEN Caches ELSE {}]
FirstByte == {[b \in Bytes |-> IF b = 0 THEN 1 ELSE NoVal]}
=============================================================================
