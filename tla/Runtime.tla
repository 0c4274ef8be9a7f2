------------------------------- MODULE Runtime -------------------------------
(***************************************************************************)
(* cain.go: the process.  run() starts eight goroutines in a context pool: *)
(* the certificate watcher, the three workers, two HTTP servers and the    *)
(* two goroutines that shut those servers down once the pool's context is  *)
(* done; Wait returns when all eight have.  prometheus.go: the counters.   *)
(***************************************************************************)
EXTENDS Cluster

CONSTANTS MaxRestarts   \* bound on how often the container is started again

ASSUME RuntimeAssumption == MaxRestarts \in Nat

VARIABLES
    process,   \* "up" or "down"
    restarts,
    ctx,       \* the pool's context: "live", cancelled by a signal, or by a failed goroutine
    server,    \* the webhook's HTTP server
    closed,    \* the channels somebody closed
    bundle,    \* the CA bundle that was in the default CA secret when the process started
    metrics    \* the prometheus counters

runtimeVars == <<process, restarts, ctx, server, closed, bundle, metrics>>

Channels == {"secret", "cert", "delete"}
Counters == {"AlreadyExists", "CreateError", "Created", "Deleted", "NotFound", "DeleteError"}
Series == Counters \X Namespaces \X {"Secret", "Certificate"}

RuntimeTypeOK ==
    /\ process \in {"up", "down"}
    /\ restarts \in 0..MaxRestarts
    /\ ctx \in {"live", "signalled", "failed"}
    /\ server \in {"serving", "draining", "stopped"}
    /\ closed \subseteq Channels
    /\ bundle \in Bundles
    /\ metrics \in [Series -> Nat]

\* everything run() builds before it starts the pool
Fresh ==
    /\ process' = "up"
    /\ ctx' = "live"
    /\ server' = "serving"
    /\ closed' = {}
    /\ bundle' = caSecret
    /\ metrics' = [s \in Series |-> 0]

RuntimeInit ==
    /\ process = "up"
    /\ restarts = 0
    /\ ctx = "live"
    /\ server = "serving"
    /\ closed = {}
    /\ bundle = caSecret
    /\ metrics = [s \in Series |-> 0]

Count(counter, ns, gvk) == metrics' = [metrics EXCEPT ![<<counter, ns, gvk>>] = @ + 1]
CtxDone == ctx # "live"

\* a goroutine of the pool ends with an error or a panic: WithCancelOnError
CancelOnError == ctx' = IF ctx = "live" THEN "failed" ELSE ctx

Signal ==
    /\ "term" \in Faults
    /\ process = "up"
    /\ ctx # "signalled"
    /\ ctx' = "signalled"
    /\ UNCHANGED <<process, restarts, server, closed, bundle, metrics>>

(***************************************************************************)
(* The watcher or one of the servers stops with an error.  When it is the  *)
(* webhook's server, that also stops accepting connections.                *)
(***************************************************************************)
TaskFails ==
    /\ "task" \in Faults
    /\ process = "up"
    /\ ctx = "live"
    /\ CancelOnError
    /\ server' \in {"serving", "draining"}
    /\ UNCHANGED <<process, restarts, closed, bundle, metrics>>

\* mutant: the goroutine waits for the signal's context, not for the pool's
BeginShutdownOnSignal ==
    /\ process = "up"
    /\ ctx = "signalled"
    /\ server = "serving"
    /\ server' = "draining"
    /\ UNCHANGED <<process, restarts, ctx, closed, bundle, metrics>>

BeginShutdown ==
    /\ process = "up"
    /\ CtxDone
    /\ server = "serving"
    /\ server' = "draining"
    /\ UNCHANGED <<process, restarts, ctx, closed, bundle, metrics>>

(***************************************************************************)
(* Shutdown returns when every connection is idle, or after                *)
(* serverShutdownTimeout while handlers still run: the state it leaves is  *)
(* the same.                                                               *)
(***************************************************************************)
EndShutdown ==
    /\ process = "up"
    /\ CtxDone
    /\ server = "draining"
    /\ server' = "stopped"
    /\ UNCHANGED <<process, restarts, ctx, closed, bundle, metrics>>

(***************************************************************************)
(* The process ends: because Wait returned, by a crash, or because the     *)
(* kubelet kills a container that outlives its grace period.               *)
(***************************************************************************)
Ends == process = "up" /\ process' = "down" /\ UNCHANGED <<restarts, ctx, server, closed, bundle, metrics>>
MayBeKilled == ctx = "signalled" \/ "crash" \in Faults

Start ==
    /\ process = "down"
    /\ restarts < MaxRestarts
    /\ restarts' = restarts + 1
    /\ Fresh

(***************************************************************************)
(* run() returns before it serves: the CA secret or one of its keys is     *)
(* missing, the API server does not answer within executionTimeout, or the *)
(* serving certificate cannot be read.  The kubelet tries again.           *)
(***************************************************************************)
StartFails ==
    /\ "startup" \in Faults
    /\ process = "down"
    /\ restarts < MaxRestarts
    /\ restarts' = restarts + 1
    /\ UNCHANGED <<process, ctx, server, closed, bundle, metrics>>
=============================================================================
