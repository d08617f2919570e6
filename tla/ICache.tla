------------------------------- MODULE ICache -------------------------------
(***************************************************************************)
(* The instruction cache of a core.  Threads that are activated and the      *)
(* creation of a family fetch lines; a line counts who refers to it, and the *)
(* threads that came while it was loading hang in a list from it, linked     *)
(* through the thread table.                                                 *)
(*                                                                           *)
(* One cycle of the simulator gives the cache's service to one process: to   *)
(* the one that handles lines that have come in, if there was one at the     *)
(* start of the cycle.  `incoming' is the buffer as the cycle found it,      *)
(* `arrived' what was pushed since.                                          *)
(***************************************************************************)
EXTENDS Naturals, Sequences, FiniteSets, SequencesExt

CONSTANTS Thread,        \* the entries of the thread table
          None,          \* no thread, no line
          Addr,          \* the lines of memory with code
          NumSets, Assoc,
          SetIndex,      \* SetIndex[a]: the set the bank selector maps a to
          BufferSize,    \* of m_incoming and m_outgoing
          MaxRequests    \* bound: reads the memory takes on at a time

ASSUME ICacheAssumption ==
    /\ NumSets \in Nat \ {0} /\ Assoc \in Nat \ {0}
    /\ SetIndex \in [Addr -> 0 .. NumSets - 1]
    /\ BufferSize \in Nat \ {0} /\ MaxRequests \in Nat \ {0}
    /\ IsFiniteSet(Thread)
    /\ None \notin Thread \cup Addr \cup Nat

CID == 0 .. NumSets * Assoc - 1

\* The lines that may hold address a.
SetOf(a) == {c \in CID : c \div Assoc = SetIndex[a]}

VARIABLES line,       \* line[c]: see EmptyLine
          outgoing,   \* m_outgoing: addresses to read
          incoming,   \* m_incoming: lines that have been loaded
          arrived,    \* those pushed in this cycle
          served,     \* whether p_service was used in this cycle
          reading     \* reading[a]: the reads of a that the memory works on

icacheVars == <<line, outgoing, incoming, arrived, served, reading>>

\* `fresh' is history: the memory has delivered the data of the line's tag, and
\* has not invalidated them since.
EmptyLine == [state |-> "EMPTY", tag |-> None, references |-> 0, head |-> None,
              tail |-> None, creation |-> FALSE, fresh |-> FALSE]

ICacheInit ==
    /\ line = [c \in CID |-> EmptyLine]
    /\ outgoing = <<>> /\ incoming = <<>> /\ arrived = <<>>
    /\ served = FALSE
    /\ reading = [a \in Addr |-> 0]

\* FindLine: the first line with the tag, an empty one (the last of the set), or
\* the replaceable ones; which of those is the oldest is left open.
Tagged(a)  == {c \in SetOf(a) : line[c].state # "EMPTY" /\ line[c].tag = a}
Hits(a)    == {c \in Tagged(a) : \A d \in Tagged(a) : c <= d}
Empties(a) == {c \in SetOf(a) : line[c].state = "EMPTY"}
Victims(a) ==
    IF Empties(a) # {} THEN {c \in Empties(a) : \A d \in Empties(a) : d <= c}
    ELSE {c \in SetOf(a) : line[c].references = 0}

\* Fetch(a) of a line that is there, of one that is on its way, and of one that
\* has to be read: each for line c, by thread t, or by the family creation when
\* t is None.  A line that is INVALID cannot be fetched.
Fetchable == ~served /\ incoming = <<>>

FetchHit(c, a) ==
    /\ Fetchable
    /\ c \in Hits(a) /\ line[c].state = "FULL"
    /\ line' = [line EXCEPT ![c].references = @ + 1]
    /\ served' = TRUE
    /\ UNCHANGED <<outgoing, incoming, arrived, reading>>

\* Mutant: who waits for the line is not counted
FetchLoadingUncounted(c, a, t) ==
    /\ Fetchable
    /\ c \in Hits(a) /\ line[c].state = "LOADING"
    /\ line' = [line EXCEPT
                  ![c].head = IF t = None THEN @ ELSE t,
                  ![c].tail = IF t # None /\ line[c].head = None THEN t ELSE @,
                  ![c].creation = @ \/ t = None]
    /\ served' = TRUE
    /\ UNCHANGED <<outgoing, incoming, arrived, reading>>
FetchLoading(c, a, t) ==
    /\ Fetchable
    /\ c \in Hits(a) /\ line[c].state = "LOADING"
    /\ line' = [line EXCEPT
                  ![c].references = @ + 1,
                  ![c].head = IF t = None THEN @ ELSE t,
                  ![c].tail = IF t # None /\ line[c].head = None THEN t ELSE @,
                  ![c].creation = @ \/ t = None]
    /\ served' = TRUE
    /\ UNCHANGED <<outgoing, incoming, arrived, reading>>

FetchMiss(c, a, t) ==
    /\ Fetchable
    /\ Hits(a) = {} /\ c \in Victims(a)
    /\ Len(outgoing) < BufferSize
    /\ outgoing' = Append(outgoing, a)
    /\ line' = [line EXCEPT ![c] = [state |-> "LOADING", tag |-> a, references |-> 1,
                                    head |-> t, tail |-> t, creation |-> t = None,
                                    fresh |-> FALSE]]
    /\ served' = TRUE
    /\ UNCHANGED <<incoming, arrived, reading>>

\* Whether Fetch(a) succeeds at all.
CanFetch(a) ==
    IF Hits(a) # {} THEN \E c \in Hits(a) : line[c].state # "INVALID"
    ELSE Victims(a) # {} /\ Len(outgoing) < BufferSize

\* Mutant: an invalid line is cleared although it is still in use
ReleasedEarly(lines, c) ==
    [lines EXCEPT ![c].references = @ - 1,
                  ![c].state = IF @ = "INVALID" THEN "EMPTY" ELSE @]
\* ReleaseCacheLine: the cache without one reference to line c.
Released(lines, c) ==
    [lines EXCEPT ![c].references = @ - 1,
                  ![c].state = IF lines[c].references = 1 /\ @ = "INVALID" THEN "EMPTY" ELSE @]

\* DoOutgoing.
DoOutgoing ==
    /\ outgoing # <<>>
    /\ FoldFunction(+, 0, reading) < MaxRequests
    /\ reading' = [reading EXCEPT ![Head(outgoing)] = @ + 1]
    /\ outgoing' = Tail(outgoing)
    /\ UNCHANGED <<line, incoming, arrived, served>>

\* OnMemoryReadCompleted: the memory delivers address a, to this cache and to
\* every other client on its bus.
Loaded(a) ==
    IF \E c \in Hits(a) : line[c].state # "FULL"
    THEN \E c \in Hits(a) :
            /\ Len(incoming) + Len(arrived) < BufferSize
            /\ arrived' = Append(arrived, c)
            /\ line' = [line EXCEPT ![c].fresh = TRUE]
    ELSE UNCHANGED <<line, arrived>>

\* The data are taken for a line that nobody waits for, or a second time.
Unasked(a) ==
    \E c \in Hits(a) :
        /\ line[c].state # "FULL"
        /\ \/ line[c].head = None /\ ~line[c].creation
           \/ Contains(incoming \o arrived, c)

OnMemoryReadCompleted(a) ==
    /\ reading[a] > 0
    /\ reading' = [reading EXCEPT ![a] = @ - 1]
    /\ Loaded(a)
    /\ UNCHANGED <<outgoing, incoming, served>>

\* The same for the read of another client.
OnOtherReadCompleted(a) ==
    /\ Loaded(a)
    /\ UNCHANGED <<outgoing, incoming, served, reading>>

\* Mutant: a line that is loading is cleared
InvalidateLoading(a) ==
    /\ line' = [c \in CID |->
         IF c \notin Hits(a) THEN line[c]
         ELSE [line[c] EXCEPT
                 !.state = IF @ = "LOADING" \/ line[c].references = 0 THEN "EMPTY" ELSE "INVALID",
                 !.fresh = FALSE]]
    /\ UNCHANGED <<outgoing, incoming, arrived, served, reading>>
\* OnMemoryInvalidated: a line somebody refers to stays until it is released.
OnMemoryInvalidated(a) ==
    /\ line' = [c \in CID |->
         IF c \notin Hits(a) THEN line[c]
         ELSE [line[c] EXCEPT
                 !.state = IF @ = "FULL" /\ line[c].references = 0 THEN "EMPTY" ELSE "INVALID",
                 !.fresh = FALSE]]
    /\ UNCHANGED <<outgoing, incoming, arrived, served, reading>>
=============================================================================
