------------------------------ MODULE RootOwner ------------------------------
(***************************************************************************)
(* webhook/utils.go, rootOwner: from a pod, up along the owner references, *)
(* one read of the API server at a time, while the owners may change under *)
(* it.  The recursion is a stack of calls.  An owner is looked up by kind  *)
(* and name; here it is one value.  Owners may own each other: then the    *)
(* walk goes around until the API server's timeout ends the request.       *)
(***************************************************************************)
EXTENDS Naturals, FiniteSets, SequencesExt

CONSTANTS
    Known,      \* owners of the kinds in kindFuncs: Deployment, ReplicaSet, Job, ...
    Custom,     \* owners of any other kind
    Pod,        \* the object the webhook got
    MayOwn,     \* for the pod and each known owner: what its references may name
    Failed,     \* the answer that is an error
    None,
    MaxChanges, \* bound on the changes of the owners during one walk
    MaxDepth    \* bound on the calls under way at once: what goes around stops there

ASSUME RootOwnerAssumption ==
    /\ IsFiniteSet(Known)
    /\ Known \cap Custom = {}
    /\ Pod \notin Known \cup Custom
    /\ MayOwn \in [Known \cup {Pod} -> SUBSET (Known \cup Custom)]
    /\ Failed # None
    /\ {Failed, None} \cap (Known \cup Custom \cup {Pod}) = {}
    /\ MaxChanges \in Nat
    /\ MaxDepth \in Nat /\ MaxDepth > Cardinality(Known) + 1

VARIABLES
    refs,       \* the owner references of the pod and of each known owner; None if there is no such owner
    calls,      \* the calls of rootOwner under way, the innermost last
    answer,     \* None until the outermost call returns
    cancelled,  \* the request's context is done
    changes,
    seen,       \* what the pod's root has been since the walk began
    cyclic      \* whether owners have owned each other since the walk began

rootVars == <<refs, calls, answer, cancelled, changes, seen, cyclic>>

Objects == Known \cup Custom \cup {Pod}
\* an object has at most two references
Lists(o) == UNION {[1..n -> MayOwn[o]] : n \in 0..2}

\* no such owner is not the same as no references
ASSUME NoneAssumption == \A o \in Known \cup {Pod} : None \notin Lists(o)

\* left: the references still to follow; via: the one that led here; found: rootOwnerRef
Call(o, g) == [left |-> g[o], via |-> o, found |-> None]

-----------------------------------------------------------------------------
(***************************************************************************)
(* What the root of the pod is among owners that stay as they are: the     *)
(* first owner of a custom kind ends the search, and otherwise the last    *)
(* reference counts.  Every owner named before that must be there, and     *)
(* none may lead back to itself.                                           *)
(***************************************************************************)
CustomAt(list) == {i \in DOMAIN list : list[i] \in Custom}
FirstCustom(list) == CHOOSE i \in CustomAt(list) : \A j \in CustomAt(list) : i <= j
Walked(list) == IF CustomAt(list) = {} THEN DOMAIN list ELSE 1..(FirstCustom(list) - 1)

\* references fail if one that is walked does; above: what each owner leads to
Fails(above, list) == \E i \in Walked(list) : above[list[i]] = Failed
LeadsTo(above, list) == IF CustomAt(list) = {} THEN above[Last(list)] ELSE list[FirstCustom(list)]

RootOf(g, o, above) ==
    IF g[o] = None \/ Fails(above, g[o]) THEN Failed
    ELSE IF g[o] = <<>> THEN o
    ELSE LeadsTo(above, g[o])

\* with n calls at most; an owner has no more than there are owners above it, or it goes around
Roots(g) ==
    LET roots[n \in 0..Cardinality(Known) + 1] ==
            IF n = 0 THEN [o \in Known \cup {Pod} |-> Failed]
            ELSE [o \in Known \cup {Pod} |-> RootOf(g, o, roots[n - 1])]
    IN  roots[Cardinality(Known) + 1]
RootIn(g) == Roots(g)[Pod]

\* some owners own each other: each of them has an owner among them
Cyclic(g) == \E S \in SUBSET Known \ {{}} :
                \A o \in S : g[o] # None /\ ToSet(g[o]) \cap S # {}

-----------------------------------------------------------------------------
RootOwnerTypeOK ==
    /\ \A o \in Known \cup {Pod} : refs[o] \in Lists(o) \cup {None}
    /\ refs[Pod] # None
    /\ \A i \in DOMAIN calls : /\ calls[i].via \in Known \cup {Pod}
                               /\ calls[i].found \in Objects \cup {None}
    /\ answer \in Objects \cup {None, Failed}
    /\ answer = None <=> calls # <<>>
    /\ cancelled \in BOOLEAN
    /\ changes \in 0..MaxChanges
    /\ cyclic \in BOOLEAN

RootOwnerInit ==
    /\ refs \in {g \in [Known \cup {Pod} -> UNION {Lists(o) \cup {None} : o \in Known \cup {Pod}}] :
                    \A o \in Known \cup {Pod} : g[o] \in Lists(o) \cup (IF o = Pod THEN {} ELSE {None})}
    /\ calls = <<Call(Pod, refs)>>
    /\ answer = None
    /\ cancelled = FALSE
    /\ changes = 0
    /\ seen = {RootIn(refs)}
    /\ cyclic = Cyclic(refs)

Walking == calls # <<>>
Here == Last(calls)

\* mutant: the outermost call returns nil for a pod that is its own root
ReturnsNil(ref) ==
    IF Len(calls) = 1
    THEN answer' = (IF ref = Pod THEN None ELSE ref) /\ calls' = <<>>
    ELSE /\ answer' = answer
         /\ calls' = [Front(calls) EXCEPT ![Len(calls) - 1].found = ref]

\* mutant: the first root found wins over the last
ReturnsFirst(ref) ==
    IF Len(calls) = 1
    THEN answer' = ref /\ calls' = <<>>
    ELSE /\ answer' = answer
         /\ calls' = [Front(calls) EXCEPT ![Len(calls) - 1].found = IF @ = None THEN ref ELSE @]

\* the innermost call returns a reference, and its caller notes it
Returns(ref) ==
    IF Len(calls) = 1
    THEN answer' = ref /\ calls' = <<>>
    ELSE /\ answer' = answer
         /\ calls' = [Front(calls) EXCEPT ![Len(calls) - 1].found = ref]

\* no references (left): the way here is the answer; all of them followed: the last one found
EndOfReferences ==
    /\ Walking
    /\ Here.left = <<>>
    /\ Returns(IF Here.found = None THEN Here.via ELSE Here.found)
    /\ UNCHANGED <<refs, cancelled, changes, seen, cyclic>>

MeetsCustom ==
    /\ Walking
    /\ Here.left # <<>>
    /\ Head(Here.left) \in Custom
    /\ Returns(Head(Here.left))
    /\ UNCHANGED <<refs, cancelled, changes, seen, cyclic>>

\* mutant: the recursion is on the object whose owner was read
FollowsItself ==
    /\ Walking
    /\ Here.left # <<>>
    /\ Head(Here.left) \in Known
    /\ ~cancelled
    /\ refs[Head(Here.left)] # None
    /\ Len(calls) < MaxDepth
    /\ calls' = Append([calls EXCEPT ![Len(calls)].left = Tail(@)], Call(Here.via, refs))
    /\ UNCHANGED <<refs, answer, cancelled, changes, seen, cyclic>>

\* Get finds the owner, and rootOwner is called on it
Follows ==
    /\ Walking
    /\ Here.left # <<>>
    /\ Head(Here.left) \in Known
    /\ ~cancelled
    /\ refs[Head(Here.left)] # None
    /\ Len(calls) < MaxDepth
    /\ calls' = Append([calls EXCEPT ![Len(calls)].left = Tail(@)], Call(Head(Here.left), refs))
    /\ UNCHANGED <<refs, answer, cancelled, changes, seen, cyclic>>

\* mutant: only a missing owner is an error
GetFailsIfGone ==
    /\ Walking
    /\ Here.left # <<>>
    /\ Head(Here.left) \in Known
    /\ refs[Head(Here.left)] = None
    /\ answer' = Failed
    /\ calls' = <<>>
    /\ UNCHANGED <<refs, cancelled, changes, seen, cyclic>>

\* an error goes all the way up
GetFails ==
    /\ Walking
    /\ Here.left # <<>>
    /\ Head(Here.left) \in Known
    /\ cancelled \/ refs[Head(Here.left)] = None
    /\ answer' = Failed
    /\ calls' = <<>>
    /\ UNCHANGED <<refs, cancelled, changes, seen, cyclic>>

WalkStep == EndOfReferences \/ MeetsCustom \/ Follows \/ GetFails

-----------------------------------------------------------------------------
(***************************************************************************)
(* Somebody deletes, creates or re-parents an owner.  The pod is the one   *)
(* in the admission request.                                               *)
(***************************************************************************)
OwnerChanges(o) ==
    /\ Walking
    /\ changes < MaxChanges
    /\ changes' = changes + 1
    /\ \E list \in (Lists(o) \cup {None}) \ {refs[o]} : refs' = [refs EXCEPT ![o] = list]
    /\ seen' = seen \cup {RootIn(refs')}
    /\ cyclic' = (cyclic \/ Cyclic(refs'))
    /\ UNCHANGED <<calls, answer, cancelled>>

\* the caller hangs up, or its timeout has passed
Cancelled ==
    /\ Walking
    /\ ~cancelled
    /\ cancelled' = TRUE
    /\ UNCHANGED <<refs, calls, answer, changes, seen, cyclic>>

RootOwnerNext == WalkStep \/ Cancelled \/ \E o \in Known : OwnerChanges(o)

\* the API server waits for a webhook no longer than its timeoutSeconds
RootOwnerSpec == /\ RootOwnerInit /\ [][RootOwnerNext]_rootVars
                 /\ WF_rootVars(WalkStep) /\ WF_rootVars(Cancelled)

-----------------------------------------------------------------------------
(***************************************************************************)
(* Although the owners are read one after the other, the answer is the     *)
(* root the pod had at some moment of the walk, if no more than one owner  *)
(* changed meanwhile; and the walk fails only where that root could not be *)
(* reached at some moment, or the caller is gone.  In a cycle one owner is *)
(* read more than once, and then a single change can mislead it.           *)
(***************************************************************************)
AnswerWasRoot ==
    answer = None \/ answer \in seen \/ (answer = Failed /\ cancelled)
        \/ (cyclic /\ changes > 0) \/ changes > 1

(***************************************************************************)
(* The recursion has no bound of its own (utils.go:206).  Unless owners    *)
(* own each other it needs none: it is never deeper than there are owners, *)
(* though one of them may change under it.                                 *)
(***************************************************************************)
DeepOnlyInCycles == Len(calls) > Cardinality(Known) + 1 => cyclic \/ changes > 1

(***************************************************************************)
(* The walk comes to an end, in a cycle by the caller's timeout, which the *)
(* next read of the API server reports as an error (utils.go:201-203).     *)
(***************************************************************************)
WalkEnds == <>(answer # None)
=============================================================================
