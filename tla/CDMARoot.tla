------------------------------ MODULE CDMARoot ------------------------------
(***************************************************************************)
(* The root directory of the CDMA network                                  *)
(* (arch/mem/cdma/RootDirectory.{h,cpp}): it introduces lines from memory   *)
(* with all their tokens, keeps the tokens of evicted copies, and writes    *)
(* back and forgets a line when all its tokens are here.                   *)
(*                                                                         *)
(* dir[r][a] is m_dir's entry, NoEntry when m_dir has none.  The DDR        *)
(* channel (arch/mem/DDR.cpp) accepts requests one by one and completes     *)
(* reads in the order it accepted them after an unspecified time.          *)
(***************************************************************************)
EXTENDS CDMANode

CONSTANTS
  RootOf,           \* the root directory for which an address is local
  OutputQueueSize,  \* ExternalOutputQueueSize, capacity of m_requests
  InputQueueSize,   \* ExternalInputQueueSize, capacity of m_responses
  DDRDepth          \* bound: reads in progress in the DDR channel

ASSUME RootAssumption ==
  /\ RootOf \in [Addrs -> Roots]
  /\ OutputQueueSize \in Nat \ {0}
  /\ InputQueueSize \in Nat \ {0}
  /\ DDRDepth \in Nat \ {0}

DIR_EMPTY   == "empty"
DIR_LOADING == "loading"
DIR_FULL    == "full"

Entry ==
  [state : {DIR_EMPTY, DIR_LOADING, DIR_FULL}, tokens : Nat, sender : Caches]

\* A value-initialised entry: EMPTY, no tokens, sender 0
NoEntry == [state |-> DIR_EMPTY, tokens |-> 0, sender |-> CHOOSE c \in Caches : TRUE]

InitRoot == dir = [r \in Roots |-> [a \in Addrs |-> NoEntry]]

IsLocalAddress(r, a) == RootOf[a] = r

CanQueueRequest(r) == HasSpace(requests(r), OutputQueueSize, 1)

-----------------------------------------------------------------------------
(* DoIncoming: the front message of the ring, by OnMessageReceived          *)

\* Send the message on, or the long way round: flagged to be ignored, through
\* the memory queues
ForwardRoot(r, msg) ==
  IF CanSend(r, MINSPACE_SHORTCUT)
  THEN Pass(incoming(r), outgoing(r), msg)
  ELSE /\ CanQueueRequest(r)
       /\ Pass(incoming(r), requests(r), [msg EXCEPT !.ignore = TRUE])

AtRoot(r, types) ==
  /\ net[incoming(r)] # <<>>
  /\ IsLocalAddress(r, Head(net[incoming(r)]).addr)
  /\ Head(net[incoming(r)]).type \in types

\* Messages for another root directory, updates and answers pass through
RootPass(r) ==
  /\ net[incoming(r)] # <<>>
  /\ LET msg == Head(net[incoming(r)]) IN
       /\ \/ ~ IsLocalAddress(r, msg.addr)
          \/ msg.type \in {UPDATE, REQUEST_DATA_TOKEN}
       /\ ForwardRoot(r, msg)
  /\ UNCHANGED <<lines, bus, unacked, dir, ringTokens, mem, latest>>

\* A request for a line that is not in the system is queued to memory
RootRequest(r) ==
  /\ AtRoot(r, {REQUEST})
  /\ LET msg == Head(net[incoming(r)]) IN
       IF dir[r][msg.addr].state = DIR_EMPTY
       THEN /\ CanQueueRequest(r)
            /\ Pass(incoming(r), requests(r), msg)
            /\ dir' = [dir EXCEPT ![r][msg.addr] =
                 [state |-> DIR_LOADING, tokens |-> 0, sender |-> msg.sender]]
       ELSE /\ ForwardRoot(r, msg)
            /\ dir' = dir
  /\ UNCHANGED <<lines, bus, unacked, ringTokens, mem, latest>>

\* A request that already has data takes the tokens stored here, or all of
\* them if the line has left the system meanwhile
\* Mutant: the tokens stored here are never handed out
RootRequestDataKeeps(r) ==
  /\ AtRoot(r, {REQUEST_DATA})
  /\ ForwardRoot(r, Head(net[incoming(r)]))
  /\ UNCHANGED <<lines, bus, unacked, dir, ringTokens, mem, latest>>

RootRequestData(r) ==
  /\ AtRoot(r, {REQUEST_DATA})
  /\ LET msg   == Head(net[incoming(r)])
         entry == dir[r][msg.addr]
         give  == IF entry.state = DIR_EMPTY THEN TotalTokens ELSE entry.tokens
     IN  IF give > 0
         THEN /\ ForwardRoot(r, [msg EXCEPT !.type = REQUEST_DATA_TOKEN,
                                            !.tokens = give])
              /\ dir' = [dir EXCEPT ![r][msg.addr].tokens = 0,
                                    ![r][msg.addr].state =
                                       IF @ = DIR_EMPTY THEN DIR_FULL ELSE @]
         ELSE /\ ForwardRoot(r, msg)
              /\ dir' = dir
  /\ UNCHANGED <<lines, bus, unacked, ringTokens, mem, latest>>

\* An eviction leaves its tokens here; with the last ones the line leaves the
\* system, by way of memory if the message is dirty
\* Mutant: the tokens already stored here are not counted
RootEvictionForgets(r) ==
  /\ AtRoot(r, {EVICTION})
  /\ LET msg == Head(net[incoming(r)]) IN
       IF msg.tokens < TotalTokens
       THEN /\ Take(incoming(r))
            /\ dir' = [dir EXCEPT ![r][msg.addr].tokens = msg.tokens]
       ELSE /\ Take(incoming(r))
            /\ dir' = [dir EXCEPT ![r][msg.addr] = NoEntry]
  /\ UNCHANGED <<lines, bus, unacked, ringTokens, mem, latest>>

RootEviction(r) ==
  /\ AtRoot(r, {EVICTION})
  /\ LET msg    == Head(net[incoming(r)])
         tokens == msg.tokens + dir[r][msg.addr].tokens
     IN  IF tokens < TotalTokens
         THEN /\ Take(incoming(r))
              /\ dir' = [dir EXCEPT ![r][msg.addr].tokens = tokens]
         ELSE /\ IF msg.dirty
                 THEN /\ CanQueueRequest(r)
                      /\ Pass(incoming(r), requests(r), msg)
                 ELSE Take(incoming(r))
              /\ dir' = [dir EXCEPT ![r][msg.addr] = NoEntry]
  /\ UNCHANGED <<lines, bus, unacked, ringTokens, mem, latest>>

DoIncoming(r) ==
  RootPass(r) \/ RootRequest(r) \/ RootRequestData(r) \/ RootEviction(r)

-----------------------------------------------------------------------------
(* The way to memory and back                                              *)

CanRespond(r) == HasSpace(responses(r), InputQueueSize, 1)

\* DoRequests: an ignored message goes straight to the responses, a read to
\* the DDR channel, a writeback into memory
DoMemory(r) ==
  /\ net[requests(r)] # <<>>
  /\ LET msg == Head(net[requests(r)]) IN
       \/ /\ msg.ignore
          /\ CanRespond(r)
          /\ Pass(requests(r), responses(r), msg)
          /\ mem' = mem
       \/ /\ ~ msg.ignore /\ msg.type = REQUEST
          /\ HasSpace(active(r), DDRDepth, 1)
          /\ Pass(requests(r), active(r), msg)
          /\ mem' = mem
       \/ /\ ~ msg.ignore /\ msg.type = EVICTION
          /\ Take(requests(r))
          /\ mem' = [mem EXCEPT ![msg.addr] = msg.data]
  /\ UNCHANGED <<lines, bus, unacked, dir, ringTokens, latest>>

\* OnReadCompleted, called by the DDR channel for its oldest read
OnReadCompleted(r) ==
  /\ net[active(r)] # <<>>
  /\ CanRespond(r)
  /\ LET msg == Head(net[active(r)]) IN
       Pass(active(r), responses(r),
            [msg EXCEPT !.type = REQUEST_DATA_TOKEN, !.dirty = FALSE,
                        !.data = mem[msg.addr]])
  /\ UNCHANGED <<lines, bus, unacked, dir, ringTokens, mem, latest>>

\* DoResponses: an answer from memory carries all tokens
DoResponses(r) ==
  /\ net[responses(r)] # <<>>
  /\ CanSend(r, MINSPACE_FORWARD)
  /\ LET msg == Head(net[responses(r)]) IN
       IF msg.ignore
       THEN /\ Pass(responses(r), outgoing(r), [msg EXCEPT !.ignore = FALSE])
            /\ dir' = dir
       ELSE /\ Pass(responses(r), outgoing(r),
                    [msg EXCEPT !.tokens = TotalTokens,
                                !.sender = dir[r][msg.addr].sender])
            /\ dir' = [dir EXCEPT ![r][msg.addr].state = DIR_FULL]
  /\ UNCHANGED <<lines, bus, unacked, ringTokens, mem, latest>>
=============================================================================
