------------------------------- MODULE Mutator -------------------------------
(***************************************************************************)
(* webhook/mutator.go: what the mutating webhook does to a pod.  The API   *)
(* server calls it among other webhooks, and again when one of those       *)
(* changed the pod after it (reinvocationPolicy IfNeeded); and the stored  *)
(* pod may be submitted once more as it is.  kubewebhook sends back what   *)
(* became of the pod it handed to Mutate, also when Mutate's result names  *)
(* no MutatedObject.                                                       *)
(***************************************************************************)
EXTENDS Extractor, FiniteSets

CONSTANTS
    Requests,     \* pods as they are submitted
    VolumeNames,
    Slots,        \* places for containers, cain's own excepted
    Owners,       \* names of root owners
    None,
    MaxSteps      \* bound on the steps of the webhooks and of owners, for one pod

Truststore == "cain-truststore"
KubeSystem == <<"kube-system">>

\* the two volumes that cain adds for the CA, and those the pod brings along
CAVolumes(q) == {SecretVolumeName(q), CaVolumeName(q)}

Names == Owners \cup {q.name : q \in Requests}

ASSUME VolumesAssumption ==
    \A q \in Requests : CAVolumes(q) \cup {Truststore} \cup q.volumes \subseteq VolumeNames

ASSUME NamesAssumption ==
    /\ \A q \in Requests : /\ {q.name, q.ns} \subseteq Seq(STRING)
                          /\ Value(q.annotations, "jvm-common-name", <<>>) \in Seq(STRING)
    /\ Owners \subseteq Seq(STRING)
    /\ None \notin Names

ASSUME MaxStepsAssumption == MaxSteps \in Nat

VARIABLES
    request,    \* name, namespace, labels, annotations and volumes of the pod as it is submitted
    root,       \* what the references of the pod lead to: a name, and whether it is an owner's
    pod,
    calling,    \* between the two walks of a call
    st,         \* "mutating", "stored" or "refused"
    steps,
    injected,   \* Mutate got to its end once: with every part that was asked for
    moved       \* when the root changed: in a call, between its two walks, or later

mutatorVars == <<request, root, pod, calling, st, steps, injected, moved>>

-----------------------------------------------------------------------------
(***************************************************************************)
(* A container: how often it mounts each volume, how it defines the JVM's  *)
(* variable, how often the truststore's flags are in there, and how many   *)
(* pairs of Python variables it has.  late: it came after cain's.  A pod:  *)
(* its containers, how many of cain's, how often each volume is declared,  *)
(* and the names of the roots cain's volumes have in their Secrets' names. *)
(***************************************************************************)
Kinds == {"absent", "init", "main"}
JVMVars == {"absent", "value", "valueFrom"}
Containers == [kind: Kinds, mounts: [VolumeNames -> Nat], jvmVar: JVMVars,
               flags: Nat, python: Nat, late: BOOLEAN]
Container(kind, jvmVar, late) ==
    [kind |-> kind, mounts |-> [v \in VolumeNames |-> 0], jvmVar |-> jvmVar,
     flags |-> 0, python |-> 0, late |-> late]
AbsentContainer == Container("absent", "absent", FALSE)

Count(condition) == IF condition THEN 1 ELSE 0
Pods == [containers: [Slots -> Containers], cain: Nat, volumes: [VolumeNames -> Nat],
         ca: Names \cup {None}, truststore: Names \cup {None}]

HasInitContainer == pod.cain > 0

Roots(q) == [name: Owners, owned: {TRUE}] \cup {[name |-> q.name, owned |-> FALSE]}

\* what is done to every container, or to every one of the main containers
ToEach(F(_), cs) == [s \in Slots |-> IF cs[s].kind = "absent" THEN cs[s] ELSE F(cs[s])]
ToMain(F(_), cs) == [s \in Slots |-> IF cs[s].kind = "main" THEN F(cs[s]) ELSE cs[s]]
Mounting(c, v) == [c EXCEPT !.mounts[v] = @ + 1]

-----------------------------------------------------------------------------
\* mutant: namespace and name change places, both are strings
AddCASecretVolumesOfNamespace(p, rootName) ==
    [p EXCEPT !.cain = @ + 1, !.ca = request.ns]

WithBundle(c) == Mounting(c, CaVolumeName(request))

\* addCASecretVolumes; one name may be given to both volumes
AddCASecretVolumes(p, rootName) ==
    [p EXCEPT !.containers = ToEach(WithBundle, @),
              !.cain = @ + 1,
              !.volumes = [v \in VolumeNames |-> @[v] + Count(v = SecretVolumeName(request))
                                                      + Count(v = CaVolumeName(request))],
              !.ca = rootName]

\* mutant: the flags do not go into a variable that is there already
WithTruststoreIfUnset(c) ==
    [Mounting(c, Truststore) EXCEPT !.jvmVar = IF @ = "absent" THEN "value" ELSE @,
                                    !.flags = @ + Count(c.jvmVar = "absent")]

\* the flags go to the end of the variable, which is added where there is none
WithTruststore(c) ==
    [Mounting(c, Truststore) EXCEPT !.jvmVar = IF @ = "absent" THEN "value" ELSE @,
                                    !.flags = @ + 1]

\* addJVMSecretAndEnv
AddJVMSecretAndEnv(p, rootName) ==
    [p EXCEPT !.containers = ToMain(WithTruststore, @),
              !.volumes[Truststore] = @ + 1,
              !.truststore = rootName]

WithPython(c) == [c EXCEPT !.python = @ + 1]

\* addPythonEnv, if it is called
AddPythonEnv(p) ==
    IF IsPythonEnabled(request) THEN [p EXCEPT !.containers = ToMain(WithPython, @)] ELSE p
-----------------------------------------------------------------------------
MutatorTypeOK ==
    /\ request \in Requests
    /\ root \in Roots(request)
    /\ pod \in Pods
    /\ calling \in BOOLEAN
    /\ st \in {"mutating", "stored", "refused"}
    /\ steps \in 0..MaxSteps
    /\ injected \in BOOLEAN
    /\ moved \subseteq {"in a call", "later"}

MutatorInit ==
    /\ request \in Requests
    /\ root \in Roots(request)
    /\ \E cs \in [Slots -> {AbsentContainer, Container("init", "absent", FALSE)}
                           \cup {Container("main", var, FALSE) : var \in JVMVars}] :
          pod = [containers |-> cs, cain |-> 0,
                 volumes |-> [v \in VolumeNames |-> Count(v \in request.volumes)],
                 ca |-> None, truststore |-> None]
    /\ calling = FALSE
    /\ st = "mutating"
    /\ steps = 0
    /\ injected = FALSE
    /\ moved = {}

Step == /\ st = "mutating"
        /\ steps < MaxSteps
        /\ steps' = steps + 1
        /\ UNCHANGED request

-----------------------------------------------------------------------------
(***************************************************************************)
(* The ways a call of Mutate can go.  Each leaves the pod as it was handed *)
(* to kubewebhook: what was added before a failure stays.                  *)
(***************************************************************************)
\* mutant: the check for the CA init container is gone
AlwaysWants == IsInjectionEnabled(request) /\ request.ns # KubeSystem

Wants == IsInjectionEnabled(request) /\ request.ns # KubeSystem /\ ~HasInitContainer

\* mutant: the check for the truststore volume is gone
AlwaysAddsJVM(p) == IsJVMEnabled(request)

ShouldAddJVM(p) == IsJVMEnabled(request) /\ p.volumes[Truststore] = 0

\* an extra secret that is given without its key
Misformed == \E i \in DOMAIN GetExtraSecretsToInject(request) :
                Len(GetExtraSecretsToInject(request)[i]) < 2

Declines ==
    /\ Step
    /\ ~calling
    /\ ~Wants
    /\ UNCHANGED <<root, pod, calling, st, injected, moved>>

\* the caller has gone before Mutate starts: an error
ContextDone ==
    /\ Step
    /\ ~calling
    /\ st' = "refused"
    /\ UNCHANGED <<root, pod, calling, injected, moved>>

\* no root owner: a warning, and no volume
FailsAtVolumes ==
    /\ Step
    /\ ~calling
    /\ Wants
    /\ root.owned
    /\ UNCHANGED <<root, pod, calling, st, injected, moved>>

\* strings.Split(...)[1] of a secret without a key: the handler panics
PanicsAtExtra ==
    /\ Step
    /\ ~calling
    /\ Wants
    /\ Misformed
    /\ st' = "refused"
    /\ UNCHANGED <<root, pod, calling, injected, moved>>

\* the first walk finds the root, and without a truststore the call goes on to its end
InjectsCA ==
    /\ Step
    /\ ~calling
    /\ Wants
    /\ ~Misformed
    /\ LET p == AddCASecretVolumes(pod, root.name)
       IN  /\ calling' = ShouldAddJVM(p)
           /\ injected' = ~ShouldAddJVM(p)
           /\ pod' = IF ShouldAddJVM(p) THEN p ELSE AddPythonEnv(p)
    /\ UNCHANGED <<root, st, moved>>

InjectsTruststore ==
    /\ Step
    /\ calling
    /\ calling' = FALSE
    /\ injected' = TRUE
    /\ pod' = AddPythonEnv(AddJVMSecretAndEnv(pod, root.name))
    /\ UNCHANGED <<root, st, moved>>

\* no root owner any more: a warning, and the Python environment is left out as well
FailsAtTruststore ==
    /\ Step
    /\ calling
    /\ root.owned
    /\ calling' = FALSE
    /\ UNCHANGED <<root, pod, st, injected, moved>>

CallMutate == \/ ContextDone \/ Declines \/ FailsAtVolumes \/ PanicsAtExtra
              \/ InjectsCA \/ InjectsTruststore \/ FailsAtTruststore

-----------------------------------------------------------------------------
\* another webhook adds a container
OtherWebhook ==
    /\ Step
    /\ ~calling
    /\ \E s \in Slots, kind \in {"init", "main"} :
          /\ pod.containers[s].kind = "absent"
          /\ pod' = [pod EXCEPT !.containers[s] = Container(kind, "absent", HasInitContainer)]
    /\ UNCHANGED <<root, calling, st, injected, moved>>

Moves(new) ==
    /\ root' = new
    /\ moved' = IF calling THEN moved \cup {"in a call"}
                ELSE IF HasInitContainer /\ new.name # root.name THEN moved \cup {"later"}
                ELSE moved

\* a reference above the pod changes while it is under way
RootChanges ==
    /\ Step
    /\ root.owned
    /\ \E o \in Owners \ {root.name} : Moves([name |-> o, owned |-> TRUE])
    /\ UNCHANGED <<pod, calling, st, injected>>

Stored ==
    /\ st = "mutating"
    /\ ~calling
    /\ st' = "stored"
    /\ UNCHANGED <<request, root, pod, calling, steps, injected, moved>>

\* the stored manifest is submitted as a new pod, perhaps for another owner or for none
Resubmitted ==
    /\ st = "stored"
    /\ steps < MaxSteps
    /\ steps' = steps + 1
    /\ st' = "mutating"
    /\ \E new \in Roots(request) : Moves(new)
    /\ UNCHANGED <<request, pod, calling, injected>>

MutatorNext == CallMutate \/ OtherWebhook \/ RootChanges \/ Stored \/ Resubmitted
MutatorSpec == MutatorInit /\ [][MutatorNext]_mutatorVars

-----------------------------------------------------------------------------
(***************************************************************************)
(* Manifests that cain turns into pods the API server refuses: cain checks *)
(* for a volume with the name of the truststore's, and not for the other   *)
(* two (mutator.go:318-321); and it sets the value of a JVM variable that  *)
(* already has a source (mutator.go:440-446).                              *)
(***************************************************************************)
Clashes ==
    \/ SecretVolumeName(request) = CaVolumeName(request)
    \/ CAVolumes(request) \cap request.volumes # {}
    \/ IsJVMEnabled(request) /\ \E s \in Slots : pod.containers[s].jvmVar = "valueFrom"

JVMIsWanted == IsJVMEnabled(request) /\ Truststore \notin request.volumes \cup CAVolumes(request)
Present == {s \in Slots : pod.containers[s].kind # "absent"}
Main == {s \in Slots : pod.containers[s].kind = "main"}

(***************************************************************************)
(* However often the webhook is called, whatever fails in it and whatever  *)
(* other webhooks add in between, the API server gets a pod it can accept, *)
(* the manifests above excepted: no volume is declared twice, every mount  *)
(* is of a declared volume and the only one of it in its container, and no *)
(* variable has both a value and a source (mutator.go:165, 218).           *)
(***************************************************************************)
PodStaysValid ==
    ~Clashes =>
        /\ \A v \in VolumeNames : pod.volumes[v] <= 1
        /\ HasInitContainer => \A v \in CAVolumes(request) : pod.volumes[v] = 1
        /\ \A s \in Present, v \in VolumeNames : pod.containers[s].mounts[v] <= pod.volumes[v]
        /\ \A s \in Main : pod.containers[s].flags > 0 => pod.containers[s].jvmVar = "value"

(***************************************************************************)
(* The bundle is shared "into all the existing containers" (README.md:23): *)
(* those that were there when the CA init container came have it, and no   *)
(* others; the JVM's flags come with the mount of the truststore, and the  *)
(* Python variables only with a complete injection; each of them once.     *)
(***************************************************************************)
InjectedOnce ==
    /\ pod.cain <= 1
    /\ injected => HasInitContainer
    /\ \A s \in Present :
          LET c == pod.containers[s]
          IN  /\ c.mounts[CaVolumeName(request)] = Count(HasInitContainer /\ ~c.late)
              /\ c.flags = Count(s \in Main /\ injected /\ JVMIsWanted /\ ~c.late)
              /\ c.flags > 0 => c.mounts[Truststore] = 1
              /\ c.python = Count(s \in Main /\ injected /\ IsPythonEnabled(request) /\ ~c.late)

(***************************************************************************)
(* Cain resolves the root twice in a call (mutator.go:313, 393), and never *)
(* again in a pod that has its init container (mutator.go:166).  So the CA *)
(* and the truststore a pod mounts are those of one root unless it changed *)
(* between the two walks; and they are those of its present root, which    *)
(* the validating webhook provides for, unless it changed after a walk.    *)
(***************************************************************************)
VolumesAgree ==
    /\ HasInitContainer <=> pod.ca # None
    /\ pod.truststore \notin {None, pod.ca} => "in a call" \in moved
    /\ {pod.ca, pod.truststore} \subseteq {None, root.name} \/ moved # {}

(***************************************************************************)
(* Over all calls, failures, moves and resubmissions, the volumes of the   *)
(* pod are named as module Injection says: each once and after the root of *)
(* that moment, the truststore's only after the CA's and in the same call  *)
(* (mutator.go:166-192, 313, 393).                                         *)
(***************************************************************************)
Stage == IF calling THEN "half" ELSE IF HasInitContainer THEN "closed" ELSE "open"
MovedInCall == "in a call" \in moved
ThisPod == {"pod"}
I == INSTANCE Injection WITH
        Pods <- ThisPod,
        root <- [p \in ThisPod |-> root.name],
        ca <- [p \in ThisPod |-> pod.ca],
        truststore <- [p \in ThisPod |-> pod.truststore],
        stage <- [p \in ThisPod |-> Stage],
        moved <- [p \in ThisPod |-> MovedInCall]

KeepsNames == I!Spec

(***************************************************************************)
(* The common name the validating webhook gives the Certificate of this    *)
(* pod (validator.go:153, extractor.go:203-221) fits into a certificate,   *)
(* is the end of the name that was asked for, and nothing is cut off that  *)
(* would have fitted.                                                      *)
(***************************************************************************)
CommonNameFits ==
    LET cn == JVMCommonName(request, root.name, request.ns)
        full == Value(request.annotations, "jvm-common-name",
                      DefaultCommonName(root.name, request.ns))
    IN  /\ Len(cn) <= MaxCNLength
        /\ Len(cn) < MaxCNLength => cn = full
        /\ \A i \in 1..Len(cn) : cn[i] = full[Len(full) - Len(cn) + i]
=============================================================================
