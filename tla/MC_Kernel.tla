----------------------------- MODULE MC_Kernel -----------------------------
(***************************************************************************)
(* Two cores on one serial memory, two threads each, two loads per thread.  *)
(***************************************************************************)
EXTENDS KernelSystem

CONSTANTS c1, c2, t1, t2

TheClock == {"core", "memory"}
TheStorage == ({"m_active", "m_outgoing", "m_read_responses", "m_writebacks"} \X Core)
              \cup {<<"m_requests", "memory">>}
TheProcess == ({"p_Pipeline", "p_Outgoing", "p_ReadResponses", "p_ReadWritebacks"} \X Core)
              \cup {<<"p_Requests", "memory">>}
ThePort == ({"p_service"} \X Core) \cup {<<"p_requests", "memory">>}
ClockOf(x) == IF x[2] = "memory" THEN "memory" ELSE "core"
TheStorageClock == [s \in Storage |-> ClockOf(s)]
ThePortClock == [r \in Port |-> ClockOf(r)]
ReaderOf == [m_active |-> "p_Pipeline", m_outgoing |-> "p_Outgoing", m_requests |-> "p_Requests",
             m_read_responses |-> "p_ReadResponses", m_writebacks |-> "p_ReadWritebacks"]
TheSensitive == [s \in Storage |-> <<ReaderOf[s[1]], s[2]>>]

Sizes(n) == [m_outgoing |-> n, m_requests |-> n, m_read_responses |-> n, m_writebacks |-> n]
Setup(core, memory, sizes, times, policies) ==
    {[frequency |-> [core |-> core, memory |-> memory], size |-> Sizes(n), time |-> t, policy |-> p,
      clients |-> <<<<"p_Outgoing", c1>>, <<"p_Outgoing", c2>>>>] :
        n \in sizes, t \in times, p \in policies}
\* Cores that are not faster than the memory.
SlowCores ==
    Setup(1, 1, {1, 2}, {1}, {"cyclic"}) \cup Setup(2, 3, {1}, {1, 2}, {"cyclic"})
    \cup Setup(1, 2, {1}, {2}, {"cyclic", "priority", "both"})
=============================================================================
