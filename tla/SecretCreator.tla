---------------------------- MODULE SecretCreator ----------------------------
(***************************************************************************)
(* secrets/creator.go: one goroutine that takes creation requests from an  *)
(* unbuffered channel and asks the API server for each Secret once.        *)
(* Whatever the API server answers, the request is then forgotten.         *)
(***************************************************************************)
EXTENDS Runtime

VARIABLES
    creator,
    dropped    \* what was forgotten without its object: listed in the error log, or lost with the process

creatorVars == <<creator, dropped>>

CreationRequests == [id: ObjectIds, owner: Uids \cup {NoUid}, data: Data]

CreatorTypeOK ==
    /\ creator \in [pc: {"receive", "call", "exit"}, req: CreationRequests \cup {None}]
    /\ creator.pc = "call" => creator.req \in CreationRequests
    /\ dropped \subseteq ObjectIds

CreatorIdle == [pc |-> "receive", req |-> None]
CreatorInit == creator = CreatorIdle /\ dropped = {}

\* the receiving half of a rendezvous on the channel: the sender conjoins it
CreatorReceives(req) ==
    /\ "secret" \notin closed
    /\ creator.pc = "receive"
    /\ creator' = [pc |-> "call", req |-> req]

\* mutant: the owner is always left out
NewOwnerlessSecret(req) == [owner |-> NoUid, data |-> req.data]

\* the object built from a request: the owner is left out when its UID is empty
NewSecret(req) == [owner |-> req.owner, data |-> req.data]

CreateSucceeds ==
    /\ creator.pc = "call"
    /\ Stores(creator.req.id, NewSecret(creator.req))
    /\ Count("Created", creator.req.id.ns, "Secret")
    /\ creator' = CreatorIdle
    /\ UNCHANGED dropped

\* mutant: no test for AlreadyExists, so that it counts as a creation
CreateCountsExisting ==
    /\ creator.pc = "call"
    /\ Exists(creator.req.id)
    /\ Count("Created", creator.req.id.ns, "Secret")
    /\ creator' = CreatorIdle
    /\ UNCHANGED <<objects, dropped>>

CreateFindsSecret ==
    /\ creator.pc = "call"
    /\ Exists(creator.req.id)
    /\ Count("AlreadyExists", creator.req.id.ns, "Secret")
    /\ creator' = CreatorIdle
    /\ UNCHANGED <<objects, dropped>>

\* mutant: a status error is counted and not logged
CreateFailsUnlogged ==
    /\ creator.pc = "call"
    /\ "api" \in Faults \/ CtxDone
    /\ MayStore(creator.req.id, NewSecret(creator.req))
    /\ Count("CreateError", creator.req.id.ns, "Secret")
    /\ creator' = CreatorIdle
    /\ UNCHANGED dropped

(***************************************************************************)
(* A status error, a transport error, or the pool's context done: counted  *)
(* and logged alike.  After the last two the Secret may exist.             *)
(***************************************************************************)
CreateFails ==
    /\ creator.pc = "call"
    /\ "api" \in Faults \/ CtxDone
    /\ MayStore(creator.req.id, NewSecret(creator.req))
    /\ Count("CreateError", creator.req.id.ns, "Secret")
    /\ creator' = CreatorIdle
    /\ dropped' = dropped \cup {creator.req.id}


\* mutant: the loop selects on the pool's context too
CreatorExitsOnContext ==
    /\ creator.pc = "receive"
    /\ "secret" \in closed \/ CtxDone
    /\ creator' = [pc |-> "exit", req |-> None]
    /\ UNCHANGED <<objects, metrics, dropped>>

\* the range loop ends with the channel, not with the context
CreatorExits ==
    /\ creator.pc = "receive"
    /\ "secret" \in closed
    /\ creator' = [pc |-> "exit", req |-> None]
    /\ UNCHANGED <<objects, metrics, dropped>>

CreatorStep == CreateSucceeds \/ CreateFindsSecret \/ CreateFails \/ CreatorExits
=============================================================================
