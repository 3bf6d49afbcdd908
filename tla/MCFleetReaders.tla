--------------------------- MODULE MCFleetReaders ---------------------------
\* What the readers of an orchestrator see, in the long run (FleetReadModel) and in one
\* answer (FleetApi).  The two share no state, so a behaviour follows one of them.
EXTENDS FleetReadModel, FleetApi

CONSTANTS c1, c2, m, n

Room(k) == [id |-> "room", type |-> "t", connections |-> k, origin |-> "fleet"]
Report(process, k, limit) ==
    [processUid |-> process, labels |-> {}, roomTypes |-> {"t"}, rooms |-> {Room(k)},
     maxRooms |-> None, maxConnections |-> limit, autoCreate |-> TRUE, status |-> "active"]

\* A limit and half of it used; no limit and one connection, also with a label; draining
\* and full.
MCSnapshots ==
    {Report(m, 2, 4), Report(n, 1, None), [Report(n, 1, None) EXCEPT !.labels = {"l"}],
     [Report(m, 2, 4) EXCEPT !.status = "draining", !.maxRooms = 1]}

Ask == [type |-> "t", labels |-> {}, strategy |-> "least-loaded", pin |-> None, force |-> FALSE]
MCRequests ==
    {Ask, [Ask EXCEPT !.strategy = "most-loaded", !.labels = {"l"}], [Ask EXCEPT !.strategy = "random"],
     [Ask EXCEPT !.pin = [by |-> "instanceId", value |-> c1], !.force = TRUE],
     [Ask EXCEPT !.pin = [by |-> "processUid", value |-> m]]}

MCFilters == {[type |-> "t", labels |-> {"l"}], [type |-> None, labels |-> {}]}

VARIABLE subject

readersVars == <<vars, apiVars, subject>>
\* Bound: the changes and the faults of a behaviour are two together.
Model(A) == subject = "model" /\ A /\ changes' + faults' <= 2 /\ UNCHANGED <<apiVars, subject>>
Api(A) == subject = "api" /\ A /\ UNCHANGED <<vars, subject>>

ReadersInit == Init /\ ApiInit /\ subject \in {"model", "api"}

ReadersSpec ==
    /\ ReadersInit /\ [][Model(Next) \/ Api(ApiNext)]_readersVars
    /\ \A i \in Instance : WF_readersVars(Model(Tick(i))) /\ WF_readersVars(Model(HandleState(i)))
    /\ \A p \in Process : /\ WF_readersVars(Model(Answer(p)))
                          /\ WF_readersVars(Model(link[p] \notin links /\ Loses(p)))

=============================================================================
