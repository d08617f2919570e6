------------------------------ MODULE MC_CDMA -------------------------------
(***************************************************************************)
(* CDMA networks for the model checker, connected as the two Initialize      *)
(* functions of src/arch/mem/cdma/CDMA.cpp do.  OneLevel: two caches and a   *)
(* root directory.  TwoLevel: the two caches on a ring below a directory,    *)
(* and two root directories on the ring above it.  Lines a0 and a1 share a   *)
(* set of a direct-mapped cache, so that they evict each other.              *)
(***************************************************************************)
EXTENDS CDMA, TLC

CONSTANTS c0, c1, d0, r0, r1, a0, a1

TwoCaches   == {c0, c1}
OneLevel    == (c0 :> r0) @@ (r0 :> c1) @@ (c1 :> c0)
NoDirectory == <<>>
TwoLevel    == (Bottom(d0) :> c1) @@ (c1 :> c0) @@ (c0 :> Bottom(d0))
                 @@ (r0 :> Top(d0)) @@ (Top(d0) :> r1) @@ (r1 :> r0)
AllInD0     == (d0 :> Caches)

OneSet     == [a \in Addrs |-> 0]
SingleRoot == [a \in Addrs |-> r0]
BothRoots  == (a0 :> r0) @@ (a1 :> r1)

\* Who loads and who stores which line, and what a store writes.
OnlyC0    == (a0 :> {c0}) @@ (a1 :> {})
All       == [a \in Addrs |-> Caches]
EvictC1   == (a0 :> {c1}) @@ (a1 :> {c1})
WholeLine == [mask : {Bytes}, value : Values]
FirstByte == [mask : {{1}}, value : Values]
=============================================================================
