----------------------------- MODULE MCClients -----------------------------
\* The two users of WSClient, a game client and a fleet agent.  They share no state, so
\* a behaviour follows one of them.
EXTENDS ReconnectingClient, AgentLifecycle

VARIABLE subject

Game(A) == subject = "game" /\ A /\ UNCHANGED <<agentVars, subject>>
Fleet(A) == subject = "fleet" /\ A /\ UNCHANGED <<vars, subject>>
both == <<vars, agentVars, subject>>

ClientsInit == Init /\ AgentInit /\ subject \in {"game", "fleet"}

ClientsSpec ==
    /\ ClientsInit
    /\ [][Game(Next) \/ Fleet(AgentNext)]_both
    /\ WF_both(Game(TimerFires \/ TicketArrives \/ TicketFails \/ \E s \in Socket : Settles(s)))
    /\ WF_both(Game(RunHeartbeat))
    /\ WF_both(Fleet(RetryFires)) /\ WF_both(Fleet(\E h \in Hellos : Accepts(h)))
    /\ WF_both(Fleet(Poll)) /\ WF_both(Fleet(Records))
    /\ WF_both(Fleet(OnHello \/ OnMismatch \/ OnPoll \/ OnCmd))
    /\ WF_both(Fleet(Drained)) /\ WF_both(Fleet(Finish))
=============================================================================
