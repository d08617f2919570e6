--------------------------- MODULE MemoryService ----------------------------
(***************************************************************************)
(* What every memory promises to its clients: a request is performed on the *)
(* contents of memory at one instant between its acceptance and its answer, *)
(* a client's requests for a line that take the same way are performed      *)
(* after the earlier writes of the client to that line, and every request   *)
(* is answered once.  A read may see a later write of its own client (the   *)
(* DDR memory reads its data when the burst completes).  The way is what    *)
(* the client cannot count on: a memory with several of them may perform a  *)
(* read before an earlier write of the same client to the same line.        *)
(***************************************************************************)
EXTENDS Integers

CONSTANTS Client, Addr, Byte, Val, NoVal, InitLine,
          Way     \* the ways through the memory

VARIABLES
    store,   \* [Addr -> line]: the contents
    asked,   \* the requests under way
    count,   \* [Client -> number of requests accepted]
    answer   \* the last answer

vars == <<store, asked, count, answer>>

Data == [Byte -> Val \cup {NoVal}]
Written(line, data) == [b \in Byte |-> IF data[b] = NoVal THEN line[b] ELSE data[b]]

Init ==
    /\ store = [a \in Addr |-> InitLine]
    /\ asked = {}
    /\ count = [c \in Client |-> 0]
    /\ answer = <<>>

Ask(c, write, a, data, way) ==
    /\ count' = [count EXCEPT ![c] = @ + 1]
    /\ UNCHANGED <<store, answer>>
    /\ asked' = asked \cup {[client |-> c, seq |-> count[c], write |-> write, address |-> a,
                             data |-> data, way |-> way, done |-> FALSE]}

\* The request is the oldest of its client for the line on its way, or those
\* before it are reads or performed.
Performable(r) ==
    /\ ~r.done
    /\ \A q \in asked : (/\ q.client = r.client /\ q.address = r.address /\ q.way = r.way
                         /\ q.seq < r.seq /\ q.write) => q.done

Performed(r) == [r EXCEPT !.done = TRUE, !.data = IF r.write THEN @ ELSE store[r.address]]
Effect(r) == IF r.write THEN [store EXCEPT ![r.address] = Written(@, r.data)] ELSE store

Perform(r) ==
    /\ Performable(r)
    /\ store' = Effect(r)
    /\ UNCHANGED <<count, answer>>
    /\ asked' = (asked \ {r}) \cup {Performed(r)}

AnswerOf(r) == <<r.client, r.seq, r.data>>

Answer(r) ==
    /\ r.done
    /\ asked' = asked \ {r}
    /\ answer' = AnswerOf(r)
    /\ UNCHANGED <<store, count>>

PerformAndAnswer(r) ==
    /\ Performable(r)
    /\ store' = Effect(r)
    /\ asked' = asked \ {r}
    /\ answer' = AnswerOf(Performed(r))
    /\ UNCHANGED count

Next ==
    \/ \E c \in Client, write \in BOOLEAN, a \in Addr, data \in Data, way \in Way :
           Ask(c, write, a, data, way)
    \/ \E r \in asked : Perform(r) \/ Answer(r) \/ PerformAndAnswer(r)

Spec == Init /\ [][Next]_vars
=============================================================================
