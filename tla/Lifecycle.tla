----------------------------- MODULE Lifecycle ------------------------------
(***************************************************************************)
(* What the deployment state machine promises (spec 3 and 4.4), with no    *)
(* workers, queues or object store: a deployment's state only follows the *)
(* table                                                                   *)
(*   pending_upload -> uploaded -> pending_build -> pending_deploy         *)
(*     -> deployed, and -> failed from any non-terminal state,             *)
(* plus uploaded -> pending_deploy for a project with skip_build; and a   *)
(* deployment becomes deployed only together with the project's active    *)
(* pointer, from pending_deploy or (redeploying) from deployed.            *)
(***************************************************************************)
CONSTANTS Deployments, NoDeployment

VARIABLES state, active

States == {"pending_upload", "uploaded", "pending_build",
           "pending_deploy", "deployed", "failed"}

Edges ==
    {<<"pending_upload", "uploaded">>, <<"uploaded", "pending_build">>,
     <<"uploaded", "pending_deploy">>, <<"pending_build", "pending_deploy">>}
    \cup {<<s, "failed">> : s \in States \ {"deployed", "failed"}}

Init ==
    /\ state = [d \in Deployments |-> "pending_upload"]
    /\ active = NoDeployment

(* One legal step of the table that does not deploy.                       *)
Advance(d, s) ==
    /\ <<state[d], s>> \in Edges
    /\ state' = [state EXCEPT ![d] = s]
    /\ UNCHANGED active

(* The activation: the deployment is deployed and the project points at it.*)
Activate(d) ==
    /\ state[d] \in {"pending_deploy", "deployed"}
    /\ state' = [state EXCEPT ![d] = "deployed"]
    /\ active' = d

Next ==
    \E d \in Deployments :
        \/ \E s \in States : Advance(d, s)
        \/ Activate(d)

Spec == Init /\ [][Next]_<<state, active>>

=============================================================================
