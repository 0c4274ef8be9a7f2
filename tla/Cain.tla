-------------------------------- MODULE Cain --------------------------------
(***************************************************************************)
(* cain as a whole: the API server sends pods through the mutating and the *)
(* validating webhook, the validating webhook asks the three workers for   *)
(* Secrets, Certificates and deletions, and the process may be signalled,  *)
(* fail, be killed and be started again.                                   *)
(***************************************************************************)
EXTENDS Validator

vars == <<clusterVars, runtimeVars, creatorVars, deleter, certCreator, reviews>>

TypeOK == /\ ClusterTypeOK /\ RuntimeTypeOK /\ CreatorTypeOK
          /\ DeleterTypeOK /\ CertCreatorTypeOK /\ ValidatorTypeOK

Init == /\ ClusterInit /\ RuntimeInit /\ CreatorInit
        /\ DeleterInit /\ CertCreatorInit /\ ValidatorInit

Serving == process = "up" /\ server = "serving"

-----------------------------------------------------------------------------
(***************************************************************************)
(* The API server.  With failurePolicy Fail, a webhook that cannot be      *)
(* called, answers with an error or takes too long refuses the request.    *)
(***************************************************************************)
\* mutant: the name is the pod's
WalkPodName(p) == {Manifest[p].name}

(***************************************************************************)
(* What rootOwner may answer the mutating webhook: the root's name, or an  *)
(* error where it has to call the API server.                              *)
(***************************************************************************)
WalkNames(p) ==
    IF ~Ownerless(p) /\ ("api" \in Faults \/ root[p].uid \in dead)
    THEN {root[p].name, None} ELSE {root[p].name}

(***************************************************************************)
(* Mutate adds the CA volume, named after the root owner, and for a JVM    *)
(* pod resolves that owner again to name the truststore's volume.  A       *)
(* failure is a warning, and the pod goes on with what it has.  Module     *)
(* Mutator has the rest of what Mutate does.                               *)
(***************************************************************************)
Submit(p) ==
    /\ pods[p].st = "new"
    /\ Serving
    /\ \E name \in IF Manifest[p].enabled THEN WalkNames(p) ELSE {None} :
         pods' = [pods EXCEPT ![p].ca = name,
                              ![p].st = IF name # None /\ Manifest[p].jvm THEN "mutating" ELSE "submitted"]
    /\ UNCHANGED <<objects, truststores, caSecret, root, dead,
                   runtimeVars, creatorVars, deleter, certCreator, reviews>>

AddTruststore(p) ==
    /\ process = "up"
    /\ pods[p].st = "mutating"
    /\ \E name \in WalkNames(p) :
         pods' = [pods EXCEPT ![p].truststore = name, ![p].st = "submitted"]
    /\ UNCHANGED <<objects, truststores, caSecret, root, dead,
                   runtimeVars, creatorVars, deleter, certCreator, reviews>>

\* a webhook cannot be reached, or does not answer in time, or the client has gone
Unreachable(p) ==
    /\ \/ pods[p].st \in {"new", "submitted"} /\ ~Serving
       \/ pods[p].st \in {"new", "mutating", "submitted"} /\ "cancel" \in Faults
    /\ pods' = [pods EXCEPT ![p].st = "gone"]
    /\ UNCHANGED <<objects, truststores, caSecret, root, dead,
                   runtimeVars, creatorVars, deleter, certCreator, reviews>>

Review(r, p, op, dry) ==
    /\ reviews[r].pc = "idle"
    /\ Serving
    /\ IF op = "CREATE"
       THEN /\ pods[p].st = "submitted"
            /\ pods' = [pods EXCEPT ![p].st = "reviewing"]
       ELSE pods[p].st = "live" /\ UNCHANGED pods
    /\ reviews' = [reviews EXCEPT ![r] = [pc |-> "start", pod |-> p, op |-> op, dry |-> dry,
                                          waiting |-> TRUE, root |-> None]]
    /\ UNCHANGED <<objects, truststores, caSecret, root, dead, runtimeVars, creatorVars, deleter, certCreator>>

\* a timeout, or the client of the API server went away
HangUp(r) ==
    /\ "cancel" \in Faults
    /\ reviews[r].waiting
    /\ reviews' = [reviews EXCEPT ![r].waiting = FALSE]
    /\ pods' = IF reviews[r].op = "CREATE" THEN [pods EXCEPT ![reviews[r].pod].st = "gone"] ELSE pods
    /\ UNCHANGED <<objects, truststores, caSecret, root, dead, runtimeVars, creatorVars, deleter, certCreator>>

(***************************************************************************)
(* The answer arrives.  An allowed creation is persisted, unless another   *)
(* admission step refuses it or a pod of that name exists; an allowed      *)
(* deletion takes the pod away, or only starts its graceful termination,   *)
(* and then the kubelet deletes it again.                                  *)
(***************************************************************************)
Granted(r) == At(r, "allowed") /\ ~reviews[r].dry
NameTaken(p) == \E q \in Pods \ {p} : SameName(p, q) /\ pods[q].st = "live"

NextPodStates(r) ==
    LET p == reviews[r].pod
    IN  CASE reviews[r].op = "CREATE" ->
                (IF Granted(r) /\ ~NameTaken(p) THEN {"live"} ELSE {"gone"})
                \cup (IF "reject" \in Faults THEN {"gone"} ELSE {})
          [] reviews[r].op = "DELETE" /\ Granted(r) -> {pods[p].st, "gone"}
          [] OTHER -> {pods[p].st}

Settle(r) ==
    /\ reviews[r].waiting
    /\ reviews[r].pc \in Answers
    /\ reviews' = [reviews EXCEPT ![r].waiting = FALSE]
    /\ \E st \in NextPodStates(r) : pods' = [pods EXCEPT ![reviews[r].pod].st = st]
    /\ UNCHANGED <<objects, truststores, caSecret, root, dead, runtimeVars, creatorVars, deleter, certCreator>>

ClusterStep ==
    /\ \/ \E u \in Uids : OwnerDeleted(u)
       \/ \E i \in ObjectIds : CollectGarbage(i)
       \/ \E p \in Pods, o \in Owners : Reparent(p, o)
       \/ \E t \in TruststoreIds : IssueTruststore(t)
       \/ RotateCA
    /\ UNCHANGED <<runtimeVars, creatorVars, deleter, certCreator, reviews>>

-----------------------------------------------------------------------------
(***************************************************************************)
(* The goroutines of a running process.                                    *)
(***************************************************************************)
Handler(r) ==
    /\ process = "up"
    /\ HandlerStep(r)
    /\ UNCHANGED <<clusterVars, process, restarts, ctx, server, bundle, metrics, dropped>>

SecretWorker ==
    /\ process = "up"
    /\ CreatorStep
    /\ UNCHANGED <<truststores, caSecret, pods, root, dead, process, restarts, ctx, server, closed,
                   bundle, deleter, certCreator, reviews>>

DeleteWorker ==
    /\ process = "up"
    /\ DeleterStep
    /\ UNCHANGED <<truststores, caSecret, pods, root, dead, process, restarts, ctx, server, closed,
                   bundle, creatorVars, certCreator, reviews>>

CertWorker ==
    /\ process = "up"
    /\ CertCreatorStep
    /\ UNCHANGED <<truststores, caSecret, pods, root, dead, process, restarts, server, closed,
                   bundle, deleter, reviews>>

ProcessStep ==
    /\ Signal \/ TaskFails
    /\ UNCHANGED <<clusterVars, creatorVars, deleter, certCreator, reviews>>

ShutdownStep ==
    /\ BeginShutdown \/ EndShutdown
    /\ UNCHANGED <<clusterVars, creatorVars, deleter, certCreator, reviews>>

-----------------------------------------------------------------------------
(***************************************************************************)
(* The process ends: handlers die with their connections, and what the     *)
(* workers have in hand is lost, for nothing is kept outside memory.       *)
(***************************************************************************)
InCreator == IF creator.pc = "call" THEN {creator.req.id} ELSE {}
InCertCreator ==
    LET info == certCreator.info
    IN  CASE certCreator.pc = "send" -> {PasswordRequest(info).id, CertificateId(info)}
          [] certCreator.pc = "call" -> {CertificateId(info)}
          [] OTHER -> {}

Die ==
    /\ Ends
    /\ reviews' = [r \in Reviews |-> IF Running(r) THEN [reviews[r] EXCEPT !.pc = "failed"]
                                     ELSE reviews[r]]
    /\ pods' = [p \in Pods |-> IF pods[p].st = "mutating" THEN [pods[p] EXCEPT !.st = "gone"]
                               ELSE pods[p]]
    /\ creator' = CreatorIdle
    /\ deleter' = DeleterIdle
    /\ certCreator' = CertCreatorIdle
    /\ dropped' = dropped \cup InCreator \cup InCertCreator
    /\ UNCHANGED <<objects, truststores, caSecret, root, dead>>

WorkersDone == /\ creator.pc = "exit"
               /\ deleter.pc = "exit"
               /\ certCreator.pc \in {"exit", "panicked"}

\* Wait returns when every goroutine of the pool has
RunReturns == CtxDone /\ server = "stopped" /\ WorkersDone /\ Die
Kill == MayBeKilled /\ Die
Restart == (Start \/ StartFails) /\ UNCHANGED <<clusterVars, creatorVars, deleter, certCreator, reviews>>

-----------------------------------------------------------------------------
\* where the system may rest: nobody is in the middle of anything
AtRest == /\ \A r \in Reviews : ~Running(r)
          /\ \A p \in Pods : pods[p].st # "mutating"
          /\ creator.pc # "call"
          /\ deleter.pc # "call"
          /\ certCreator.pc \notin {"send", "call"}
Rest == AtRest /\ UNCHANGED vars

Next ==
    \/ \E p \in Pods : Submit(p) \/ AddTruststore(p) \/ Unreachable(p)
    \/ \E r \in Reviews, p \in Pods, op \in Operations, dry \in BOOLEAN : Review(r, p, op, dry)
    \/ \E r \in Reviews : HangUp(r) \/ Settle(r) \/ Handler(r)
    \/ ClusterStep
    \/ SecretWorker \/ DeleteWorker \/ CertWorker
    \/ ProcessStep \/ ShutdownStep \/ RunReturns \/ Kill \/ Restart
    \/ Rest

Spec == Init /\ [][Next]_vars

(***************************************************************************)
(* Fairness: the Go scheduler runs every goroutine that can run, the API   *)
(* server answers every call cain makes, the kubelet starts a container    *)
(* that ended, and cert-manager gets to every Certificate.  Nothing is     *)
(* assumed of users, faults or kills.                                      *)
(***************************************************************************)
CertManager ==
    /\ \E t \in TruststoreIds : IssueTruststore(t)
    /\ UNCHANGED <<runtimeVars, creatorVars, deleter, certCreator, reviews>>

Fairness ==
    /\ \A r \in Reviews : WF_vars(Handler(r))
    /\ WF_vars(SecretWorker) /\ WF_vars(DeleteWorker) /\ WF_vars(CertWorker)
    /\ WF_vars(ShutdownStep) /\ WF_vars(RunReturns) /\ WF_vars(Restart)
    /\ WF_vars(CertManager)

FairSpec == Spec /\ Fairness
=============================================================================
