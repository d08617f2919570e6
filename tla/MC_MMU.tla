------------------------------- MODULE MC_MMU -------------------------------
(* The tables lie in page 0 and on; page 1 is used as it is. Page 4 is small  *)
(* and can be read, 5 is not mapped, 6 to 8 form a large page that can be    *)
(* written.                                                                  *)
EXTENDS MMU

Lines == <<2, 2>>
Sizes == <<1, 3>>
Tree ==
    <<[page |-> 4, frame |-> 3, size |-> 0, r |-> TRUE, w |-> FALSE],
      [page |-> 6, frame |-> 6, size |-> 1, r |-> FALSE, w |-> TRUE]>>
Loads == <<{8, 12}, {8, 10, 14}>>
OfLargePage == {[filter |-> "page", page |-> 6]}
=============================================================================
