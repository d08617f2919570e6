--------------------------- MODULE CDMADirectory ---------------------------
(***************************************************************************)
(* The directory between a ring of caches and the top ring of a two-level   *)
(* CDMA network (arch/mem/cdma/Directory.{h,cpp}).  It counts, for every    *)
(* line, the tokens of the caches below it, so that messages about lines    *)
(* the ring does not hold stay on the top ring.                            *)
(*                                                                         *)
(* ringTokens[d][a] is m_dir's entry; an entry is erased with its last      *)
(* token, so a missing entry is the count 0.                               *)
(***************************************************************************)
EXTENDS CDMANode

CONSTANT Below    \* the caches on the ring below each directory

\* The nodes on the ring below a directory
LowRing(d) == Below[d] \cup {Bottom(d)}

\* The ring below a directory is closed, and no other node is one of the halves
\* of a directory (CDMA.cpp, the two Initialize functions)
ASSUME DirectoryAssumption ==
  /\ Below \in [Directories -> SUBSET Caches]
  /\ \A d \in Directories : {Top(d), Bottom(d)} \cap (Caches \cup Roots) = {}
  /\ \A d \in Directories, n \in Nodes : NextNode[n] \in LowRing(d) <=> n \in LowRing(d)

IsBelow(d, c) == c \in Below[d]

InitDirectory == ringTokens = [d \in Directories |-> [a \in Addrs |-> 0]]

\* DoInBottom: a message comes up from the ring and takes its tokens along
\* Mutant: only evictions take their tokens along
DoInBottomEvictions(d) ==
  /\ net[incoming(Bottom(d))] # <<>>
  /\ CanSend(Top(d), MINSPACE_FORWARD)
  /\ LET msg == Head(net[incoming(Bottom(d))]) IN
       /\ Pass(incoming(Bottom(d)), outgoing(Top(d)), [msg EXCEPT !.ignore = FALSE])
       /\ ringTokens' = IF ~ msg.ignore /\ msg.type = EVICTION
            THEN [ringTokens EXCEPT ![d][msg.addr] = @ - msg.tokens]
            ELSE ringTokens
  /\ UNCHANGED <<lines, bus, unacked, dir, mem, latest>>

DoInBottom(d) ==
  /\ net[incoming(Bottom(d))] # <<>>
  /\ CanSend(Top(d), MINSPACE_FORWARD)
  /\ LET msg    == Head(net[incoming(Bottom(d))])
         leaves == ~ msg.ignore /\ msg.type \in {EVICTION, REQUEST_DATA_TOKEN}
     IN  /\ Pass(incoming(Bottom(d)), outgoing(Top(d)), [msg EXCEPT !.ignore = FALSE])
         /\ ringTokens' = IF leaves
              THEN [ringTokens EXCEPT ![d][msg.addr] = @ - msg.tokens]
              ELSE ringTokens
  /\ UNCHANGED <<lines, bus, unacked, dir, mem, latest>>

\* The ring below may hold the line, or is about to receive it
Enters(d, msg) ==
  \/ /\ msg.type \in {REQUEST, REQUEST_DATA, UPDATE}
     /\ ringTokens[d][msg.addr] > 0
  \/ msg.type = REQUEST_DATA_TOKEN /\ IsBelow(d, msg.sender)

\* DoInTop: down into the ring, or past it on the top ring, or, when the top
\* ring is full, through the lower ring with every cache ignoring it
DoInTop(d) ==
  /\ net[incoming(Top(d))] # <<>>
  /\ LET msg == Head(net[incoming(Top(d))]) IN
       IF Enters(d, msg)
       THEN /\ CanSend(Bottom(d), MINSPACE_FORWARD)
            /\ Pass(incoming(Top(d)), outgoing(Bottom(d)), msg)
            /\ ringTokens' = IF msg.type = REQUEST_DATA_TOKEN
                 THEN [ringTokens EXCEPT ![d][msg.addr] = @ + msg.tokens]
                 ELSE ringTokens
       ELSE /\ IF CanSend(Top(d), MINSPACE_SHORTCUT)
               THEN Pass(incoming(Top(d)), outgoing(Top(d)), msg)
               ELSE /\ CanSend(Bottom(d), MINSPACE_FORWARD)
                    /\ Pass(incoming(Top(d)), outgoing(Bottom(d)),
                            [msg EXCEPT !.ignore = TRUE])
            /\ ringTokens' = ringTokens
  /\ UNCHANGED <<lines, bus, unacked, dir, mem, latest>>
=============================================================================
