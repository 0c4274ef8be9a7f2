---------------------------- MODULE SecretDeleter ----------------------------
(***************************************************************************)
(* secrets/deleter.go: one goroutine that takes deletion requests from an  *)
(* unbuffered channel and asks the API server to delete each Secret, by    *)
(* its name and without a precondition.                                    *)
(***************************************************************************)
EXTENDS SecretCreator

VARIABLE deleter

DeleterTypeOK ==
    /\ deleter \in [pc: {"receive", "call", "exit"}, id: ObjectIds \cup {None}]
    /\ deleter.pc = "call" => deleter.id \in ObjectIds

DeleterIdle == [pc |-> "receive", id |-> None]
DeleterInit == deleter = DeleterIdle

DeleterReceives(id) ==
    /\ "delete" \notin closed
    /\ deleter.pc = "receive"
    /\ deleter' = [pc |-> "call", id |-> id]

DeleteSucceeds ==
    /\ deleter.pc = "call"
    /\ Removes(deleter.id)
    /\ Count("Deleted", deleter.id.ns, "Secret")
    /\ deleter' = DeleterIdle

DeleteFindsNothing ==
    /\ deleter.pc = "call"
    /\ ~Exists(deleter.id)
    /\ Count("NotFound", deleter.id.ns, "Secret")
    /\ deleter' = DeleterIdle
    /\ UNCHANGED objects

DeleteRefused ==
    /\ deleter.pc = "call"
    /\ "api" \in Faults
    /\ Count("DeleteError", deleter.id.ns, "Secret")
    /\ deleter' = DeleterIdle
    /\ UNCHANGED objects

\* mutant: the last branch counts only when there was no error
DeleteInterruptedUncounted ==
    /\ deleter.pc = "call"
    /\ "api" \in Faults \/ CtxDone
    /\ MayRemove(deleter.id)
    /\ deleter' = DeleterIdle
    /\ UNCHANGED metrics

(***************************************************************************)
(* An error that is not a status (transport, context done) reaches the     *)
(* last branch, the one that counts a deletion.                            *)
(***************************************************************************)
DeleteInterrupted ==
    /\ deleter.pc = "call"
    /\ "api" \in Faults \/ CtxDone
    /\ MayRemove(deleter.id)
    /\ Count("Deleted", deleter.id.ns, "Secret")
    /\ deleter' = DeleterIdle

DeleterExits ==
    /\ deleter.pc = "receive"
    /\ "delete" \in closed
    /\ deleter' = [pc |-> "exit", id |-> None]
    /\ UNCHANGED <<objects, metrics>>

DeleterStep == \/ DeleteSucceeds \/ DeleteFindsNothing \/ DeleteRefused
               \/ DeleteInterrupted \/ DeleterExits
=============================================================================
