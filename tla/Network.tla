------------------------------ MODULE Network -------------------------------
(***************************************************************************)
(* What a core's network interface does with a message: the delegation      *)
(* network brings requests of parent threads to the first core of a place,  *)
(* the link carries them from each core of the place to the next, and the   *)
(* allocation responses travel back.  c is the core, k its state record     *)
(* with the message already taken out of the input register.                *)
(***************************************************************************)
EXTENDS Allocator

CONSTANT LoadBalanceThreshold

IsPowerOfTwo(n) == n \in {1, 2, 4, 8}

\* Allocator::QueueFamilyAllocation, for both kinds of message.
QueueFamilyAllocation(k, req) ==
    IF req.exclusive THEN [k EXCEPT !.reqExclusive = Append(@, req)]
    ELSE IF req.suspend THEN [k EXCEPT !.reqSuspend = Append(@, req)]
    ELSE [k EXCEPT !.reqNoSuspend = Append(@, req)]

\* Mutant: the request stays balanced
OnAllocateBalanced(c, k, req) ==
    IF ~req.bundle /\ req.type = "BALANCED" /\ req.size > 1
       /\ GetNumUsedFamilies(k) >= LoadBalanceThreshold
    THEN SendLink(k, [type |-> "BALLOCATE", min |-> GetNumUsedFamilies(k), minPid |-> c,
                      req |-> req])
    ELSE QueueFamilyAllocation(k, req)

\* ALLOCATE from the delegation network.  A balanced allocation looks for a core
\* below the threshold along the place before it becomes an ordinary one.
OnAllocate(c, k, req) ==
    IF ~req.bundle /\ req.type = "BALANCED" /\ req.size > 1
    THEN IF GetNumUsedFamilies(k) >= LoadBalanceThreshold
         THEN SendLink(k, [type |-> "BALLOCATE", min |-> GetNumUsedFamilies(k), minPid |-> c,
                           req |-> req])
         ELSE QueueFamilyAllocation(k, [req EXCEPT !.type = "SINGLE"])
    ELSE QueueFamilyAllocation(k, req)

\* BALLOCATE from the link.  The chosen core gets the allocation as a place of
\* one over the delegation network.  The message's bundle flag is not written:
\* `garbage' is what it happens to hold.
OnBallocate(c, k, m, garbage) ==
    LET used == GetNumUsedFamilies(k)
        here == [m EXCEPT !.min = used, !.minPid = c]
        to(pid) == SendRemote(c, k, pid, [type |-> "ALLOCATE",
                       req |-> [m.req EXCEPT !.type = "SINGLE", !.bundle = garbage]])
    IN  IF used >= LoadBalanceThreshold
        THEN IF (c + 1) % m.req.size # 0
             THEN SendLink(k, IF used <= m.min THEN here ELSE m)
             ELSE to(IF used > m.min THEN m.minPid ELSE c)
        ELSE to(c)

SetProperty(F, prop, v) ==
    CASE prop = "START" -> [F EXCEPT !.start = v]
      [] prop = "LIMIT" -> [F EXCEPT !.limit = v]
      [] prop = "STEP"  -> [F EXCEPT !.step = v]
      [] prop = "BLOCK" -> [F EXCEPT !.physBlockSize = v]

\* A message for the family's entry on the next core, if it has one.
ForwardTo(k, link, m) == IF link = INVALID THEN k ELSE SendLink(k, [m EXCEPT !.fid = link])

\* SET_PROPERTY from either network.
OnSetProperty(k, f, m) ==
    ForwardTo([k EXCEPT !.families[f] = SetProperty(@, m.prop, m.value)],
              k.families[f].link, m)

\* A global written by the parent goes to every core of the family.
OnGlobal(k, f, m) == ForwardTo(k, k.families[f].link, m)

\* Mutant: a synchronization that comes late is not answered
OnSyncLate(k, f, p) ==
    LET F == k.families[f]
    IN  IF F.link # INVALID THEN SendLink(k, [type |-> "SYNC", fid |-> F.link, parent |-> p])
        ELSE [k EXCEPT !.families[f].syncTo = p, !.families[f].syncSent = FALSE]

\* Network::OnSync.
OnSync(k, f, p) ==
    LET F == k.families[f]
    IN  IF F.link # INVALID THEN SendLink(k, [type |-> "SYNC", fid |-> F.link, parent |-> p])
        ELSE IF ~F.syncDone
        THEN [k EXCEPT !.families[f].syncTo = p, !.families[f].syncSent = FALSE]
        ELSE SendSync([k EXCEPT !.families[f].syncSent = FALSE],
                      [fid |-> f, parent |-> p, broken |-> F.broken])

\* Mutant: the other cores are not told
OnDetachHere(k, f) == DecreaseFamilyDependency(k, f, "DETACHED")

\* Network::OnDetach.
OnDetach(k, f) ==
    ForwardTo(DecreaseFamilyDependency(k, f, "DETACHED"),
              k.families[f].link, [type |-> "DETACH", fid |-> f])

\* Mutant: a family whose threads are all allocated is ended again
OnBreakAgain(k, f) ==
    [ForwardTo(DecreaseFamilyDependency(k, f, "ALLOCATION_DONE"), k.families[f].link,
               [type |-> "BREAK", fid |-> f]) EXCEPT !.families[f].broken = TRUE]

\* Network::OnBreak.
OnBreak(k, f) ==
    LET F  == k.families[f]
        k1 == IF F.allocationDone THEN k
              ELSE DecreaseFamilyDependency(k, f, "ALLOCATION_DONE")
        k2 == ForwardTo(k1, F.link, [type |-> "BREAK", fid |-> f])
    IN  [k2 EXCEPT !.families[f].broken = TRUE]

\* CREATE from the link: the cores past the ones the family needs give their
\* context back, the others set the family up (Allocator::QueueCreate) and pass
\* the message on.
RestrictCreate(k, m) ==
    ReleaseContext(ForwardTo(k, k.families[m.fid].link, m), m.fid)

SetUp(c, k, m) ==
    LET F == [k.families[m.fid] EXCEPT !.pc = m.pc, !.counts = m.pc,
                                       !.base = [i \in RegType |-> INVALID]]
    IN  [k EXCEPT !.families[m.fid] =
            Distribute(c, F, CalculateThreadCount(F.start, F.limit, F.step), F.numCores)]

QueueLinkCreate(k, m) ==
    LET link == k.families[m.fid].link
        k1   == ActivateFamily(k, m.fid)
    IN  IF link = INVALID THEN k1
        ELSE [SendLink(k1, [m EXCEPT !.fid = link, !.numCores = @ - 1])
                 EXCEPT !.families[m.fid].link = IF m.numCores = 1 THEN INVALID ELSE @]

\* DONE from the link.
OnDone(k, m) ==
    DecreaseFamilyDependency([k EXCEPT !.families[m.fid].broken = @ \/ m.broken],
                             m.fid, "PREV_SYNCHRONIZED")

\* The cores that are committed: a failed allocation that is not exact is cut to
\* the largest power of two.
\* Mutant: to any number
CommittedAny(m, cores) == IF m.numCores = 0 /\ ~m.exact THEN cores ELSE m.numCores
Committed(m, cores) ==
    IF m.numCores = 0 /\ ~m.exact /\ IsPowerOfTwo(cores) THEN cores ELSE m.numCores

\* Network::DoAllocResponse.  The response commits the entries from the last
\* core back to the first, or unwinds them to a power of two.
OnAllocResponse(c, k, m) ==
    LET F      == k.families[m.prev]
        count  == Committed(m, (c % F.placeSize) + 1)
        k0     == [k EXCEPT !.families[m.prev].link = m.next]
        k1     == IF count = 0 THEN ReleaseContext(k0, m.prev)
                  ELSE [k0 EXCEPT !.families[m.prev].numCores = count]
        answer == IF count = 0 THEN NoFamily ELSE [core |-> c, fid |-> m.prev]
    IN  IF F.link = INVALID
        THEN WriteParent(k1, m.parent, answer)
        ELSE [k1 EXCEPT !.respOut = Append(@,
                 [m EXCEPT !.prev = F.link, !.numCores = count,
                           !.next = IF count = 0 THEN @ ELSE m.prev])]
=============================================================================
