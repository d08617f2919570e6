----------------------------- MODULE MC_Place ------------------------------
(***************************************************************************)
(* Small places and the programs of their parents for the model checker.    *)
(***************************************************************************)
EXTENDS Place

CONSTANTS p1, p2

Regs(g, s, l) == [globals |-> g, shareds |-> s, locals |-> l]
Plain   == [int |-> Regs(1, 0, 1), flt |-> Regs(0, 0, 0)]
Chain   == [int |-> Regs(0, 1, 1), flt |-> Regs(0, 0, 0)]
Both    == [int |-> Regs(0, 0, 1), flt |-> Regs(0, 0, 1)]

Req(size, type, suspend) ==
    [size |-> size, type |-> type, suspend |-> suspend, exclusive |-> FALSE,
     bundle |-> FALSE, notify |-> TRUE, index |-> 0, body |-> NoRegs]

Set(prop, v) == <<[type |-> "SET_PROPERTY", prop |-> prop, value |-> v]>>
Create(body) ==
    <<[type |-> "CREATE", pc |-> body, bundle |-> FALSE, notify |-> TRUE, index |-> 0]>>
Global == <<[type |-> "GLOBAL"]>>
Sync   == <<[type |-> "SYNC"]>>
Detach == <<[type |-> "DETACH"]>>
Ends   == {Sync \o Detach, Detach}

Script(req, todo) == [pid |-> 0, req |-> req, todo |-> todo, breaks |-> FALSE]
Breaking(s) == [s EXCEPT !.breaks = TRUE]

Together(S, T) == {(p1 :> s) @@ (p2 :> t) : s \in S, t \in T}
Alone(S) == Together(S, {None})

\* One family over two cores: none or some threads, waited for or abandoned.
Down == Set("START", 3) \o Set("LIMIT", -3) \o Set("STEP", -2) \o Set("BLOCK", 1)
OverTwoCores ==
    {Script(Req(2, "NORMAL", FALSE), s \o Create(Plain) \o Global \o Detach) :
        s \in {Set("LIMIT", 0), Down}}
    \cup {Script(Req(2, "NORMAL", FALSE), s \o Create(Plain) \o Global \o Sync \o Detach) :
        s \in {Set("LIMIT", 0), Set("LIMIT", 3)}}

\* One that a thread breaks.
Broken ==
    {Breaking(Script(Req(2, "NORMAL", FALSE),
                     Set("LIMIT", n) \o Set("BLOCK", 1) \o Create(Plain) \o Sync \o Detach)) :
        n \in {3}}

\* A family with shared registers.
Chained1 ==
    {Script(Req(1, "SINGLE", FALSE), Set("LIMIT", 4) \o Set("BLOCK", b) \o Create(Chain) \o e) :
        b \in {1, 2}, e \in Ends}

\* A bundle, with an exclusive family or an ordinary one on the same core.
Bundle(notify) == [size |-> 1, type |-> "SINGLE", suspend |-> TRUE, exclusive |-> TRUE,
                   bundle |-> TRUE, notify |-> notify, index |-> 1, body |-> Chain]
Bundles == {Script(Bundle(TRUE), Sync \o Detach), Script(Bundle(FALSE), <<>>)}
Exclusive ==
    {Script([Req(1, "SINGLE", TRUE) EXCEPT !.exclusive = TRUE],
            Set("LIMIT", n) \o Create(Both) \o Sync \o Detach) : n \in {0, 2}}
    \cup {Script(Req(1, "SINGLE", FALSE), Set("LIMIT", 1) \o Create(Plain) \o Detach)}

\* Two parents compete for the cores of the place, from its first core or from
\* within, and keep what they get; or they share them in balance.
Hold == Set("START", 0)
From(pid, size) ==
    {[Script(Req(size, t, w), Hold) EXCEPT !.pid = pid] : t \in {"NORMAL", "EXACT"}, w \in BOOLEAN}
Contention ==
    Together(From(0, 4) \cup From(0, 2), From(0, 4) \cup From(2, 2) \cup From(3, 1))
Balance(size) == {Script(Req(size, "BALANCED", w), Hold) : w \in BOOLEAN}

\* Two empty families that have to wait for each other's contexts.
Waiting(ends) ==
    {Script(Req(2, t, TRUE), Set("LIMIT", 0) \o Create(Plain) \o e) :
        t \in {"EXACT", "NORMAL"}, e \in ends}

\* An empty family on the last core, and a balanced one that may end on the core
\* it started from.
Empty(req) == Script(req, Set("LIMIT", 0) \o Create(Plain) \o Detach)
PassedBy ==
    Together({[Empty(Req(1, "SINGLE", TRUE)) EXCEPT !.pid = NumCores - 1]},
             {Empty(Req(NumCores, "BALANCED", TRUE))})

AllWorkloads ==
    Alone(OverTwoCores \cup Broken \cup Chained1) \cup Together(Exclusive, Bundles)
    \cup Contention \cup Together(Balance(4), Balance(4))

EndingWorkloads ==
    Alone({Script(Req(2, "NORMAL", FALSE), Set("LIMIT", 3) \o Set("BLOCK", 1) \o Create(Plain) \o Sync \o Detach)})
    \cup Together(Waiting({Detach}), Waiting(Ends)) \cup PassedBy
=============================================================================
