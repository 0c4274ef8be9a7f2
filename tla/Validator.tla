------------------------------ MODULE Validator ------------------------------
(***************************************************************************)
(* webhook/validator.go: the validating webhook.  net/http runs Validate   *)
(* in a goroutine per admission review, so any number of them interleave.  *)
(* A handler hands its requests to the workers over unbuffered channels:   *)
(* each send is one step together with the worker that receives.           *)
(*                                                                         *)
(* The context Validate looks at is the HTTP request's, which is done when *)
(* the API server hangs up and not when the process is told to stop.       *)
(***************************************************************************)
EXTENDS CertCreator

CONSTANTS
    Reviews,     \* admission reviews, each sent once
    Operations   \* the operations the webhook is configured for

ASSUME ValidatorAssumption == Operations \subseteq {"CREATE", "DELETE", "UPDATE"}

VARIABLE reviews

Answers == {"allowed", "denied", "failed"}
ReviewPcs == {"idle", "start", "closeCert", "closeDelete",
              "resolve", "sendSecret", "sendCert", "sendDelete"} \cup Answers

\* waiting: the API server has neither got an answer nor hung up
ReviewRecords == [pc: ReviewPcs, pod: Pods \cup {None}, op: Operations \cup {None},
                  dry: BOOLEAN, waiting: BOOLEAN, root: OwnerRefs \cup {None}]

ValidatorTypeOK ==
    /\ reviews \in [Reviews -> ReviewRecords]
    /\ \A r \in Reviews :
        /\ reviews[r].pc # "idle" => reviews[r].pod \in Pods /\ reviews[r].op \in Operations
        /\ reviews[r].pc \in {"sendSecret", "sendCert"} => reviews[r].root \in OwnerRefs

ValidatorInit ==
    reviews = [r \in Reviews |-> [pc |-> "idle", pod |-> None, op |-> None,
                                  dry |-> FALSE, waiting |-> FALSE, root |-> None]]

At(r, pc) == reviews[r].pc = pc
Goto(r, pc) == reviews' = [reviews EXCEPT ![r].pc = pc]
PodOf(r) == Manifest[reviews[r].pod]
Running(r) == reviews[r].pc \notin Answers \cup {"idle"}

\* mutant: the Secret is named after the pod, not after its root owner
SecretRequestForPod(r) == [id    |-> SecretName(PodOf(r).ns, PodOf(r).name),
                           owner |-> reviews[r].root.uid,
                           data  |-> bundle]
\* mutant: the CA secret is read anew, by the handler
SecretRequestFresh(r) == [id    |-> SecretName(PodOf(r).ns, reviews[r].root.name),
                          owner |-> reviews[r].root.uid,
                          data  |-> caSecret]
\* mutant: the pod's bare name is sent to the deleter
DeletedPodName(r) == PodOf(r).name

\* the requests a handler sends, from what it knows
SecretRequest(r) == [id    |-> SecretName(PodOf(r).ns, reviews[r].root.name),
                     owner |-> reviews[r].root.uid,
                     data  |-> bundle]
CertInfo(r) == [ns |-> PodOf(r).ns, name |-> reviews[r].root.name,
                owner |-> reviews[r].root.uid, password |-> PodOf(r).password]
DeletedSecret(r) == SecretName(PodOf(r).ns, PodOf(r).name)

(***************************************************************************)
(* A request that is done before it starts closes the three channels, one  *)
(* after the other; closing a closed channel panics.                       *)
(***************************************************************************)
CloseSecret(r) ==
    /\ At(r, "start")
    /\ ~reviews[r].waiting
    /\ "secret" \notin closed
    /\ closed' = closed \cup {"secret"}
    /\ Goto(r, "closeCert")
    /\ UNCHANGED <<creator, deleter, certCreator>>

ClosePanics(r) ==
    /\ At(r, "start")
    /\ ~reviews[r].waiting
    /\ "secret" \in closed
    /\ Goto(r, "failed")
    /\ UNCHANGED <<closed, creator, deleter, certCreator>>

\* only the handler that closed the first channel gets here
CloseCert(r) ==
    /\ At(r, "closeCert")
    /\ "cert" \notin closed
    /\ closed' = closed \cup {"cert"}
    /\ Goto(r, "closeDelete")
    /\ UNCHANGED <<creator, deleter, certCreator>>

\* mutant: the deleter's channel is forgotten
CloseDeleteForgotten(r) ==
    /\ At(r, "closeDelete")
    /\ "delete" \notin closed
    /\ Goto(r, "failed")
    /\ UNCHANGED <<closed, creator, deleter, certCreator>>

CloseDelete(r) ==
    /\ At(r, "closeDelete")
    /\ "delete" \notin closed
    /\ closed' = closed \cup {"delete"}
    /\ Goto(r, "failed")
    /\ UNCHANGED <<creator, deleter, certCreator>>

\* mutant: a dry run of a DELETE is not told from a real one
DispatchIgnoringDryRun(r) ==
    /\ At(r, "start")
    /\ reviews[r].waiting
    /\ Goto(r, CASE ~PodOf(r).enabled -> "allowed"
                 [] PodOf(r).enabled /\ reviews[r].op = "DELETE" ->
                        IF Ownerless(reviews[r].pod) THEN "sendDelete" ELSE "allowed"
                 [] PodOf(r).enabled /\ reviews[r].op = "CREATE" -> "resolve"
                 [] OTHER -> "failed")
    /\ UNCHANGED <<closed, creator, deleter, certCreator>>

(***************************************************************************)
(* Past the check: a pod without injection is let through; a DELETE asks   *)
(* for the deletion of the Secret of a pod without an owner; a CREATE goes *)
(* on to createResources; anything else is an error.                       *)
(***************************************************************************)
Dispatch(r) ==
    /\ At(r, "start")
    /\ reviews[r].waiting
    /\ Goto(r, CASE ~PodOf(r).enabled -> "allowed"
                 [] PodOf(r).enabled /\ reviews[r].op = "DELETE" ->
                        IF Ownerless(reviews[r].pod) /\ ~reviews[r].dry
                        THEN "sendDelete" ELSE "allowed"
                 [] PodOf(r).enabled /\ reviews[r].op = "CREATE" -> "resolve"
                 [] OTHER -> "failed")
    /\ UNCHANGED <<closed, creator, deleter, certCreator>>

SendDelete(r) ==
    /\ At(r, "sendDelete")
    /\ DeleterReceives(DeletedSecret(r))
    /\ Goto(r, "allowed")
    /\ UNCHANGED <<closed, creator, certCreator>>

\* mutant: a dry run of a CREATE is not told from a real one
ResolveIgnoringDryRun(r) ==
    /\ At(r, "resolve")
    /\ reviews' = [reviews EXCEPT ![r].root = root[reviews[r].pod], ![r].pc = "sendSecret"]
    /\ UNCHANGED <<closed, creator, deleter, certCreator>>

\* the root owner: module RootOwner has the walk that this step stands for
Resolve(r) ==
    /\ At(r, "resolve")
    /\ reviews' = [reviews EXCEPT ![r].root = root[reviews[r].pod],
                                  ![r].pc = IF reviews[r].dry THEN "allowed" ELSE "sendSecret"]
    /\ UNCHANGED <<closed, creator, deleter, certCreator>>

(***************************************************************************)
(* No root owner: an owner is gone, or a call to the API server fails, as  *)
(* it does once the request's context is done.  A pod without owners needs *)
(* no call.  The answer is a verdict, not an error.                        *)
(***************************************************************************)
ResolveFails(r) ==
    /\ At(r, "resolve")
    /\ ~Ownerless(reviews[r].pod)
    /\ \/ "api" \in Faults
       \/ ~reviews[r].waiting
       \/ root[reviews[r].pod].uid \in dead
    /\ Goto(r, "denied")
    /\ UNCHANGED <<closed, creator, deleter, certCreator>>

SendSecret(r) ==
    /\ At(r, "sendSecret")
    /\ CreatorReceives(SecretRequest(r))
    /\ Goto(r, IF PodOf(r).jvm THEN "sendCert" ELSE "allowed")
    /\ UNCHANGED <<closed, deleter, certCreator>>

SendCert(r) ==
    /\ At(r, "sendCert")
    /\ CertCreatorReceives(CertInfo(r))
    /\ Goto(r, "allowed")
    /\ UNCHANGED <<closed, creator, deleter>>


\* net/http recovers a handler's panic and drops the connection
HandlerPanics(r) ==
    /\ \/ At(r, "sendSecret") /\ "secret" \in closed
       \/ At(r, "sendCert") /\ "cert" \in closed
       \/ At(r, "sendDelete") /\ "delete" \in closed
    /\ Goto(r, "failed")
    /\ UNCHANGED <<closed, creator, deleter, certCreator>>

HandlerStep(r) ==
    \/ CloseSecret(r) \/ ClosePanics(r) \/ CloseCert(r) \/ CloseDelete(r)
    \/ Dispatch(r) \/ SendDelete(r)
    \/ Resolve(r) \/ ResolveFails(r) \/ SendSecret(r) \/ SendCert(r)
    \/ HandlerPanics(r)
=============================================================================
