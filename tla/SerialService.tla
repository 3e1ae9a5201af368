---------------------------- MODULE SerialService ----------------------------
(***************************************************************************)
(* What a queue in front of one worker promises its clients: every client  *)
(* is refused or served, at most one is served at a time, a client that    *)
(* has left does not come back, and an outage ends every visit at once.    *)
(* Deployment builds (DeployBuilds) implement it, one service per project. *)
(***************************************************************************)
CONSTANT Clients

VARIABLE stage

svars == <<stage>>

Stages == {"new", "waiting", "served", "over"}

TypeOK == stage \in [Clients -> Stages]

Init == stage = [c \in Clients |-> "new"]

Free == \A c \in Clients : stage[c] # "served"

\* The worker is busy: the client waits.
Arrive(c) == /\ stage[c] = "new"
             /\ stage' = [stage EXCEPT ![c] = "waiting"]

\* The worker is free: a waiting or an arriving client is taken on.
Serve(c) == /\ stage[c] \in {"new", "waiting"}
            /\ Free
            /\ stage' = [stage EXCEPT ![c] = "served"]

\* A client is refused, gives up, or has been served.
Leave(c) == /\ stage[c] \in {"waiting", "served"}
            /\ stage' = [stage EXCEPT ![c] = "over"]

\* The service stops: whoever is inside is gone.
Outage == stage' = [c \in Clients |->
                      IF stage[c] \in {"waiting", "served"} THEN "over" ELSE stage[c]]

Next == \/ \E c \in Clients : Arrive(c) \/ Serve(c) \/ Leave(c)
        \/ Outage

Spec == Init /\ [][Next]_svars
=============================================================================
