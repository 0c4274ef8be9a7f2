----------------------------- MODULE MCRootOwner -----------------------------
(***************************************************************************)
(* The owners a pod may have: a ReplicaSet or a Job, a Deployment or a     *)
(* CronJob above those, and an object of a custom kind above any of them;  *)
(* and a ReplicaSet above its own Deployment.  Every way to own within     *)
(* these bounds is an initial state.                                       *)
(***************************************************************************)
EXTENDS RootOwner

CONSTANTS rs, job, deploy, rollout, pod

Ownership == (pod :> {rs, job, rollout}) @@ (rs :> {deploy, rollout})
             @@ (job :> {deploy}) @@ (deploy :> {rollout, rs})
=============================================================================
