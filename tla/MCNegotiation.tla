--------------------------- MODULE MCNegotiation ---------------------------
(* Behaviours of Negotiation for TLC: each plan is large in one respect.   *)
EXTENDS Negotiation

Plan(setups, stages, client, server, ends) ==
    [setups |-> setups, stages |-> stages, ends |-> ends,
     beats |-> [s \in Side |-> IF s = "client" THEN client ELSE server]]

MCPlans == {Plan(1, 1, 0, 0, TRUE),   \* a channel, and every end
            Plan(3, 1, 0, 0, FALSE),  \* channels at one port
            Plan(1, 2, 0, 0, FALSE),  \* the same channel again, after a time-out too
            Plan(1, 1, 1, 0, FALSE),  \* requests and a heart beat
            Plan(0, 0, 1, 0, TRUE),   \* a heart beat, and every end
            Plan(0, 0, 1, 1, FALSE)}  \* heart beats of both sides
=============================================================================
