--------------------------- MODULE MCFleetServer ---------------------------
\* One orchestrator: the process and its port, and the fleet it controls.  They share
\* no state, so a behaviour follows one of them.
EXTENDS FleetControlPlane, FleetServer

CONSTANTS k1, k2, short

\* Two keys that will do, one of them in a list with a key that is too short.
MCLists == {{k1}, {k2}, {k1, short}}

VARIABLE subject

Control(A) == subject = "fleet" /\ A /\ UNCHANGED <<serverVars, subject>>

\* Bound: time passes only under one configuration.
Server(A) ==
    /\ subject \in {"server", "clock"} /\ A
    /\ IF subject = "server" THEN now' = 0
       ELSE config' \in {Refused, [agentKeys |-> {k1}, adminKeys |-> {k2}, api |-> TRUE, sseQueryAuth |-> TRUE]}
    /\ UNCHANGED <<vars, subject>>

OrchestratorInit == Init /\ ServerInit /\ subject \in {"fleet", "server", "clock"}

orchestratorVars == <<vars, serverVars, subject>>

OrchestratorSpec ==
    /\ OrchestratorInit
    /\ [][Control(Next) \/ Server(ServerNext)]_orchestratorVars
    /\ \A i \in Instance :
          /\ WF_orchestratorVars(Control(Tick(i))) /\ WF_orchestratorVars(Control(Frame(i)))
          /\ WF_orchestratorVars(Control(i[2] # current[i[1]] /\ OrchestratorLoses(i)))
    /\ WF_orchestratorVars(Control(ResumeStatus))
    /\ WF_orchestratorVars(Server(RivalisStops)) /\ WF_orchestratorVars(Server(Exits))
    /\ \A s \in Streams : WF_orchestratorVars(Server(stream[s] = "ended" /\ StreamCloses(s)))
============================================================================
