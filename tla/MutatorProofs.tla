---------------------------- MODULE MutatorProofs ----------------------------
(***************************************************************************)
(* The mutating webhook leaves a pod the API server can accept, adds each  *)
(* part once, and names its volumes after one root: for every manifest,    *)
(* any number of containers and owners, and however long the webhooks and  *)
(* resubmissions go on.                                                    *)
(***************************************************************************)
EXTENDS Mutator, TLAPS

Trusted == pod.truststore # None

\* one container, as far as it got
Holds(s, c) ==
    /\ c.kind # "absent" =>
        /\ \A v \in VolumeNames :
              c.mounts[v] = Count(HasInitContainer /\ ~c.late /\ v = CaVolumeName(request))
                            + Count(c.kind = "main" /\ Trusted /\ ~c.late /\ v = Truststore)
        /\ c.flags = Count(c.kind = "main" /\ Trusted /\ ~c.late)
        /\ c.python = Count(c.kind = "main" /\ injected /\ IsPythonEnabled(request) /\ ~c.late)
        /\ c.flags > 0 => c.jvmVar # "absent"
        /\ c.late => HasInitContainer /\ ~calling

ContainersInv == \A s \in Slots : Holds(s, pod.containers[s])

VolumesInv ==
    \A v \in VolumeNames :
        pod.volumes[v] = Count(v \in request.volumes)
                         + Count(HasInitContainer /\ v = SecretVolumeName(request))
                         + Count(HasInitContainer /\ v = CaVolumeName(request))
                         + Count(Trusted /\ v = Truststore)

PhaseInv ==
    /\ pod.cain = Count(pod.ca # None)
    /\ Trusted => injected /\ JVMIsWanted
    /\ injected => HasInitContainer /\ ~calling /\ (JVMIsWanted => Trusted)
    /\ calling => HasInitContainer /\ JVMIsWanted

NamesInv ==
    /\ pod.ca \in {None, root.name} \/ moved # {}
    /\ calling => pod.ca = root.name \/ "in a call" \in moved
    /\ pod.truststore \in {None, pod.ca} \/ "in a call" \in moved
    /\ pod.truststore \in {None, root.name} \/ moved # {}

MutatorInv == MutatorTypeOK /\ PhaseInv /\ VolumesInv /\ ContainersInv /\ NamesInv

-----------------------------------------------------------------------------
(***************************************************************************)
(* What each of the three edits makes of a well-formed pod.                *)
(***************************************************************************)
LEMMA RequestNames ==
    ASSUME request \in Requests
    PROVE  /\ SecretVolumeName(request) \in VolumeNames
           /\ CaVolumeName(request) \in VolumeNames
           /\ Truststore \in VolumeNames
           /\ request.volumes \subseteq VolumeNames
  BY VolumesAssumption DEF CAVolumes

LEMMA RootNames ==
    ASSUME MutatorTypeOK
    PROVE  root.name \in Names /\ root.name # None
<1>1. root.name \in Names
  <2>1. CASE root \in [name: Owners, owned: {TRUE}]
    BY <2>1 DEF Names
  <2>2. CASE root = [name |-> request.name, owned |-> FALSE]
    BY <2>2 DEF Names, MutatorTypeOK
  <2> QED
    BY <2>1, <2>2 DEF MutatorTypeOK, Roots
<1> QED
  BY <1>1, NamesAssumption

LEMMA CAEdit ==
    ASSUME MutatorTypeOK,
           NEW p, p = AddCASecretVolumes(pod, root.name)
    PROVE  /\ p \in Pods
           /\ p.cain = pod.cain + 1 /\ p.ca = root.name /\ p.truststore = pod.truststore
           /\ \A v \in VolumeNames :
                 p.volumes[v] = pod.volumes[v] + Count(v = SecretVolumeName(request))
                                               + Count(v = CaVolumeName(request))
           /\ \A s \in Slots :
                 LET c == pod.containers[s]
                     d == p.containers[s]
                 IN  /\ d.kind = c.kind /\ d.jvmVar = c.jvmVar /\ d.flags = c.flags
                     /\ d.python = c.python /\ d.late = c.late
                     /\ c.kind # "absent" => \A v \in VolumeNames :
                           d.mounts[v] = c.mounts[v] + Count(v = CaVolumeName(request))
<1>1. pod \in Pods /\ CaVolumeName(request) \in VolumeNames
  BY RequestNames DEF MutatorTypeOK
<1>2. p.cain = pod.cain + 1 /\ p.ca = root.name /\ p.truststore = pod.truststore
  BY <1>1 DEF AddCASecretVolumes, Pods
<1>3. p.volumes = [v \in VolumeNames |-> pod.volumes[v] + Count(v = SecretVolumeName(request))
                                                        + Count(v = CaVolumeName(request))]
  BY <1>1 DEF AddCASecretVolumes, Pods
<1>4. p.containers = [s \in Slots |-> IF pod.containers[s].kind = "absent" THEN pod.containers[s]
                                      ELSE WithBundle(pod.containers[s])]
  BY <1>1 DEF AddCASecretVolumes, Pods, ToEach
<1>5. ASSUME NEW s \in Slots
      PROVE  /\ p.containers[s] \in Containers
             /\ LET c == pod.containers[s]
                    d == p.containers[s]
                IN  /\ d.kind = c.kind /\ d.jvmVar = c.jvmVar /\ d.flags = c.flags
                    /\ d.python = c.python /\ d.late = c.late
                    /\ c.kind # "absent" => \A v \in VolumeNames :
                          d.mounts[v] = c.mounts[v] + Count(v = CaVolumeName(request))
  <2>1. pod.containers[s] \in Containers
    BY <1>1 DEF Pods
  <2> QED
    BY <1>1, <1>4, <2>1 DEF WithBundle, Mounting, Containers, Count
<1>6. p \in Pods
  <2>1. p.volumes \in [VolumeNames -> Nat]
    BY <1>1, <1>3 DEF Count, Pods
  <2>2. p.containers \in [Slots -> Containers]
    BY <1>4, <1>5
  <2>3. p = [containers |-> p.containers, cain |-> pod.cain + 1, volumes |-> p.volumes,
             ca |-> root.name, truststore |-> pod.truststore]
    BY <1>1 DEF AddCASecretVolumes, Pods
  <2>4. pod.cain \in Nat /\ pod.ca \in Names \cup {None} /\ pod.truststore \in Names \cup {None}
    BY <1>1 DEF Pods
  <2> QED
    BY <2>1, <2>2, <2>3, <2>4, RootNames DEF Pods
<1> QED
  BY <1>2, <1>3, <1>5, <1>6

LEMMA TruststoreEdit ==
    ASSUME MutatorTypeOK,
           NEW p, p = AddJVMSecretAndEnv(pod, root.name)
    PROVE  /\ p \in Pods
           /\ p.cain = pod.cain /\ p.ca = pod.ca /\ p.truststore = root.name
           /\ \A v \in VolumeNames : p.volumes[v] = pod.volumes[v] + Count(v = Truststore)
           /\ \A s \in Slots :
                 LET c == pod.containers[s]
                     d == p.containers[s]
                 IN  /\ d.kind = c.kind /\ d.python = c.python /\ d.late = c.late
                     /\ d.flags = c.flags + Count(c.kind = "main")
                     /\ c.kind = "main" => d.jvmVar # "absent"
                     /\ c.kind # "main" => d.jvmVar = c.jvmVar
                     /\ \A v \in VolumeNames :
                           d.mounts[v] = c.mounts[v] + Count(c.kind = "main" /\ v = Truststore)
<1>1. pod \in Pods /\ Truststore \in VolumeNames
  BY RequestNames DEF MutatorTypeOK
<1>2. p.cain = pod.cain /\ p.ca = pod.ca /\ p.truststore = root.name
  BY <1>1 DEF AddJVMSecretAndEnv, Pods
<1>3. p.volumes = [pod.volumes EXCEPT ![Truststore] = @ + 1]
  BY <1>1 DEF AddJVMSecretAndEnv, Pods
<1>4. p.containers = [s \in Slots |-> IF pod.containers[s].kind = "main"
                                      THEN WithTruststore(pod.containers[s]) ELSE pod.containers[s]]
  BY <1>1 DEF AddJVMSecretAndEnv, Pods, ToMain
<1>5. ASSUME NEW s \in Slots
      PROVE  /\ p.containers[s] \in Containers
             /\ LET c == pod.containers[s]
                    d == p.containers[s]
                IN  /\ d.kind = c.kind /\ d.python = c.python /\ d.late = c.late
                    /\ d.flags = c.flags + Count(c.kind = "main")
                    /\ c.kind = "main" => d.jvmVar # "absent"
                    /\ c.kind # "main" => d.jvmVar = c.jvmVar
                    /\ \A v \in VolumeNames :
                          d.mounts[v] = c.mounts[v] + Count(c.kind = "main" /\ v = Truststore)
  <2>1. pod.containers[s] \in Containers
    BY <1>1 DEF Pods
  <2>2. CASE pod.containers[s].kind = "main"
    <3>1. p.containers[s] = WithTruststore(pod.containers[s])
      BY <1>4, <2>2
    <3>2. p.containers[s] = [kind |-> "main", late |-> pod.containers[s].late,
                             mounts |-> [pod.containers[s].mounts EXCEPT ![Truststore] = @ + 1],
                             jvmVar |-> IF pod.containers[s].jvmVar = "absent" THEN "value"
                                        ELSE pod.containers[s].jvmVar,
                             flags |-> pod.containers[s].flags + 1,
                             python |-> pod.containers[s].python]
      BY <2>1, <2>2, <3>1 DEF WithTruststore, Mounting, Containers
    <3> QED
      BY <1>1, <2>1, <2>2, <3>2 DEF Containers, Count, JVMVars, Kinds
  <2>3. CASE pod.containers[s].kind # "main"
    BY <1>1, <1>4, <2>1, <2>3 DEF Containers, Count
  <2> QED
    BY <2>2, <2>3
<1>6. p \in Pods
  <2>1. p.volumes \in [VolumeNames -> Nat]
    BY <1>1, <1>3 DEF Pods
  <2>2. p.containers \in [Slots -> Containers]
    BY <1>4, <1>5
  <2>3. p = [containers |-> p.containers, cain |-> pod.cain, volumes |-> p.volumes,
             ca |-> pod.ca, truststore |-> root.name]
    BY <1>1 DEF AddJVMSecretAndEnv, Pods
  <2>4. pod.cain \in Nat /\ pod.ca \in Names \cup {None} /\ pod.truststore \in Names \cup {None}
    BY <1>1 DEF Pods
  <2> QED
    BY <2>1, <2>2, <2>3, <2>4, RootNames DEF Pods
<1> QED
  BY <1>1, <1>2, <1>3, <1>5, <1>6 DEF Pods, Count

LEMMA PythonEdit ==
    ASSUME NEW p \in Pods, NEW q, q = AddPythonEnv(p)
    PROVE  /\ q \in Pods
           /\ q.cain = p.cain /\ q.ca = p.ca /\ q.truststore = p.truststore /\ q.volumes = p.volumes
           /\ \A s \in Slots :
                 LET c == p.containers[s]
                     d == q.containers[s]
                 IN  /\ d.kind = c.kind /\ d.mounts = c.mounts /\ d.jvmVar = c.jvmVar
                     /\ d.flags = c.flags /\ d.late = c.late
                     /\ d.python = c.python + Count(c.kind = "main" /\ IsPythonEnabled(request))
<1>1. CASE ~IsPythonEnabled(request)
  BY <1>1 DEF AddPythonEnv, Count, Pods, Containers
<1>2. CASE IsPythonEnabled(request)
  <2>1. q.containers = [s \in Slots |-> IF p.containers[s].kind = "main"
                                        THEN WithPython(p.containers[s]) ELSE p.containers[s]]
    BY <1>2 DEF AddPythonEnv, Pods, ToMain
  <2>2. ASSUME NEW s \in Slots
        PROVE  /\ q.containers[s] \in Containers
               /\ LET c == p.containers[s]
                      d == q.containers[s]
                  IN  /\ d.kind = c.kind /\ d.mounts = c.mounts /\ d.jvmVar = c.jvmVar
                      /\ d.flags = c.flags /\ d.late = c.late
                      /\ d.python = c.python + Count(c.kind = "main" /\ IsPythonEnabled(request))
    <3>1. p.containers[s] \in Containers
      BY DEF Pods
    <3> QED
      BY <1>2, <2>1, <3>1 DEF WithPython, Containers, Count
  <2>3. q.containers \in [Slots -> Containers]
    BY <2>1, <2>2
  <2>4. q \in Pods
    BY <1>2, <2>3 DEF AddPythonEnv, Pods
  <2> QED
    BY <1>2, <2>2, <2>4 DEF AddPythonEnv, Pods
<1> QED
  BY <1>1, <1>2

-----------------------------------------------------------------------------
(***************************************************************************)
(* The invariant holds at first, and every action keeps it.                *)
(***************************************************************************)
LEMMA FreshContainer ==
    ASSUME NEW kind \in Kinds, NEW var \in JVMVars, NEW late \in BOOLEAN
    PROVE  LET c == Container(kind, var, late)
           IN  /\ c \in Containers
               /\ c.kind = kind /\ c.late = late /\ c.flags = 0 /\ c.python = 0
               /\ \A v \in VolumeNames : c.mounts[v] = 0
  BY DEF Container, Containers

LEMMA InvInit == MutatorInit => MutatorInv
<1> SUFFICES ASSUME MutatorInit PROVE MutatorInv
  OBVIOUS
<1>1. /\ request \in Requests /\ root \in Roots(request)
      /\ calling = FALSE /\ st = "mutating" /\ steps = 0 /\ injected = FALSE /\ moved = {}
  BY DEF MutatorInit
<1>2. PICK cs \in [Slots -> {AbsentContainer, Container("init", "absent", FALSE)}
                           \cup {Container("main", var, FALSE) : var \in JVMVars}] :
          pod = [containers |-> cs, cain |-> 0,
                 volumes |-> [v \in VolumeNames |-> Count(v \in request.volumes)],
                 ca |-> None, truststore |-> None]
  BY DEF MutatorInit
<1>3. ASSUME NEW s \in Slots
      PROVE  /\ cs[s] \in Containers /\ ~cs[s].late /\ cs[s].flags = 0 /\ cs[s].python = 0
             /\ \A v \in VolumeNames : cs[s].mounts[v] = 0
  <2>1. PICK kind \in Kinds, var \in JVMVars : cs[s] = Container(kind, var, FALSE)
    BY DEF AbsentContainer, Kinds, JVMVars
  <2>2. LET c == Container(kind, var, FALSE)
        IN  /\ c \in Containers
            /\ c.late = FALSE /\ c.flags = 0 /\ c.python = 0
            /\ \A v \in VolumeNames : c.mounts[v] = 0
    BY FreshContainer
  <2> QED
    BY <2>1, <2>2
<1>4. cs \in [Slots -> Containers]
  BY <1>3
<1>5. pod \in Pods
  BY <1>2, <1>4 DEF Pods, Count
<1>6. MutatorTypeOK
  <2>1. steps \in 0..MaxSteps
    BY <1>1, MaxStepsAssumption
  <2> QED
    BY <1>1, <1>5, <2>1 DEF MutatorTypeOK
<1>7. ~HasInitContainer /\ ~Trusted /\ ~injected /\ ~calling
  BY <1>1, <1>2 DEF HasInitContainer, Trusted
<1>8. VolumesInv
  BY <1>2, <1>7 DEF VolumesInv, Count
<1>9. ContainersInv
  BY <1>2, <1>3, <1>7 DEF ContainersInv, Holds, Count
<1>10. PhaseInv /\ NamesInv
  BY <1>2, <1>7 DEF PhaseInv, NamesInv, Count
<1> QED
  BY <1>6, <1>8, <1>9, <1>10 DEF MutatorInv

\* a step that leaves the pod and its root as they are
LEMMA QuietStep ==
    ASSUME MutatorInv, UNCHANGED <<request, root, pod, injected, moved>>,
           calling' \in {calling, FALSE},
           st' \in {"mutating", "stored", "refused"}, steps' \in 0..MaxSteps
    PROVE  MutatorInv'
<1>1. MutatorTypeOK'
  BY DEF MutatorInv, MutatorTypeOK, Pods, Roots
<1>2. PhaseInv /\ VolumesInv /\ ContainersInv /\ NamesInv
  BY DEF MutatorInv
<1>3. VolumesInv'
  BY <1>2 DEF VolumesInv, HasInitContainer, Trusted
<1>4. PhaseInv' /\ NamesInv' /\ ContainersInv'
  <2>1. CASE calling' = calling
    <3>1. PhaseInv' /\ NamesInv'
      BY <1>2, <2>1 DEF PhaseInv, NamesInv, HasInitContainer, Trusted, JVMIsWanted
    <3>2. ContainersInv'
      BY <1>2, <2>1 DEF ContainersInv, Holds, HasInitContainer, Trusted
    <3> QED
      BY <3>1, <3>2
  <2>2. CASE calling' = FALSE
    <3>1. PhaseInv' /\ NamesInv'
      BY <1>2, <2>2 DEF PhaseInv, NamesInv, HasInitContainer, Trusted, JVMIsWanted
    <3>2. ContainersInv'
      BY <1>2, <2>2 DEF ContainersInv, Holds, HasInitContainer, Trusted
    <3> QED
      BY <3>1, <3>2
  <2> QED
    BY <2>1, <2>2
<1> QED
  BY <1>1, <1>3, <1>4 DEF MutatorInv

LEMMA StepCount ==
    ASSUME MutatorTypeOK, Step
    PROVE  steps' \in 0..MaxSteps /\ request' = request /\ st = "mutating"
<1>1. steps \in 0..MaxSteps
  BY DEF MutatorTypeOK
<1> QED
  BY <1>1, MaxStepsAssumption DEF Step

LEMMA InjectsCAStep ==
    ASSUME MutatorInv, InjectsCA
    PROVE  MutatorInv'
<1> DEFINE p == AddCASecretVolumes(pod, root.name)
<1>1. /\ MutatorTypeOK /\ PhaseInv /\ VolumesInv /\ ContainersInv /\ NamesInv
      /\ UNCHANGED <<request, root, st, moved>> /\ steps' \in 0..MaxSteps /\ ~HasInitContainer /\ ~calling
      /\ calling' = ShouldAddJVM(p) /\ injected' = ~ShouldAddJVM(p)
      /\ pod' = IF ShouldAddJVM(p) THEN p ELSE AddPythonEnv(p)
  BY StepCount DEF MutatorInv, InjectsCA, Wants
<1>2. pod.cain = 0 /\ pod.ca = None /\ ~Trusted /\ ~injected
  <2>1. ~injected /\ ~Trusted
    BY <1>1 DEF PhaseInv
  <2> QED
    BY <1>1, <2>1 DEF PhaseInv, HasInitContainer, Count
<1>3. /\ p \in Pods
      /\ p.cain = 1 /\ p.ca = root.name /\ p.truststore = None
      /\ \A v \in VolumeNames :
            p.volumes[v] = pod.volumes[v] + Count(v = SecretVolumeName(request))
                                          + Count(v = CaVolumeName(request))
      /\ \A s \in Slots :
            LET c == pod.containers[s]
                d == p.containers[s]
            IN  /\ d.kind = c.kind /\ d.jvmVar = c.jvmVar /\ d.flags = c.flags
                /\ d.python = c.python /\ d.late = c.late
                /\ c.kind # "absent" => \A v \in VolumeNames :
                      d.mounts[v] = c.mounts[v] + Count(v = CaVolumeName(request))
  BY <1>1, <1>2, CAEdit DEF Trusted
<1>4. /\ pod' \in Pods
      /\ pod'.cain = 1 /\ pod'.ca = root.name /\ pod'.truststore = None /\ pod'.volumes = p.volumes
      /\ \A s \in Slots :
            LET c == p.containers[s]
                d == pod'.containers[s]
            IN  /\ d.kind = c.kind /\ d.mounts = c.mounts /\ d.jvmVar = c.jvmVar
                /\ d.flags = c.flags /\ d.late = c.late
                /\ d.python = c.python + Count(injected' /\ c.kind = "main" /\ IsPythonEnabled(request))
  <2>1. CASE ShouldAddJVM(p)
    <3>1. pod' = p /\ ~injected'
      BY <1>1, <2>1
    <3>2. \A s \in Slots : p.containers[s].python \in Nat
      BY <1>3 DEF Pods, Containers
    <3> QED
      BY <1>3, <3>1, <3>2 DEF Count
  <2>2. CASE ~ShouldAddJVM(p)
    <3>1. pod' = AddPythonEnv(p) /\ injected'
      BY <1>1, <2>2
    <3> QED
      BY <1>3, <3>1, PythonEdit DEF Count
  <2> QED
    BY <2>1, <2>2
<1>5. MutatorTypeOK'
  BY <1>1, <1>4 DEF MutatorTypeOK, ShouldAddJVM, Roots
<1>6. HasInitContainer' /\ ~Trusted' /\ UNCHANGED JVMIsWanted
  BY <1>1, <1>4 DEF HasInitContainer, Trusted, JVMIsWanted
<1>7. VolumesInv'
  BY <1>1, <1>2, <1>3, <1>4, <1>6 DEF VolumesInv, Count
<1>8. ContainersInv'
  <2> SUFFICES ASSUME NEW s \in Slots PROVE Holds(s, pod.containers[s])'
    BY DEF ContainersInv
  <2>1. Holds(s, pod.containers[s]) /\ pod.containers[s] \in Containers
    BY <1>1 DEF ContainersInv, MutatorTypeOK, Pods
  <2> DEFINE c == pod.containers[s]
             d == pod'.containers[s]
  <2>2. /\ d.kind = c.kind /\ d.late = c.late
        /\ c.mounts \in [VolumeNames -> Nat] /\ c.flags \in Nat /\ c.python \in Nat
    BY <1>3, <1>4, <2>1 DEF Containers
  <2>3. d.kind # "absent" => ~c.late /\ ~d.late
    BY <1>1, <2>1, <2>2 DEF Holds
  <2>4. ASSUME d.kind # "absent", NEW v \in VolumeNames
        PROVE  d.mounts[v] = Count(HasInitContainer' /\ ~d.late /\ v = CaVolumeName(request))
                             + Count(d.kind = "main" /\ Trusted' /\ ~d.late /\ v = Truststore)
    BY <1>1, <1>2, <1>3, <1>4, <1>6, <2>1, <2>2, <2>4 DEF Holds, Count
  <2>5. ASSUME d.kind # "absent"
        PROVE  /\ d.flags = Count(d.kind = "main" /\ Trusted' /\ ~d.late)
               /\ d.flags > 0 => d.jvmVar # "absent"
    BY <1>1, <1>2, <1>3, <1>4, <1>6, <2>1, <2>2, <2>5 DEF Holds, Count
  <2>6. ASSUME d.kind # "absent"
        PROVE  d.python = Count(d.kind = "main" /\ injected' /\ IsPythonEnabled(request) /\ ~d.late)
    <3>1. c.python = 0
      BY <1>2, <2>1, <2>2, <2>6 DEF Holds, Count
    <3>2. d.python = c.python + Count(injected' /\ c.kind = "main" /\ IsPythonEnabled(request))
      BY <1>3, <1>4
    <3> QED
      BY <2>2, <2>3, <2>6, <3>1, <3>2 DEF Count
  <2> QED
    BY <1>1, <1>6, <2>3, <2>4, <2>5, <2>6 DEF Holds
<1>9. ShouldAddJVM(p) <=> JVMIsWanted
  <2>1. Truststore \in VolumeNames
    BY <1>1, RequestNames DEF MutatorTypeOK
  <2>2. p.volumes[Truststore] = Count(Truststore \in request.volumes)
                                + Count(Truststore = SecretVolumeName(request))
                                + Count(Truststore = CaVolumeName(request))
    BY <1>1, <1>2, <1>3, <2>1 DEF VolumesInv, Count
  <2> QED
    BY <2>2 DEF ShouldAddJVM, JVMIsWanted, CAVolumes, Count
<1>10. PhaseInv'
  BY <1>1, <1>4, <1>6, <1>9, RootNames DEF PhaseInv, Count
<1>11. NamesInv'
  BY <1>1, <1>4 DEF NamesInv
<1> QED
  BY <1>5, <1>7, <1>8, <1>10, <1>11 DEF MutatorInv

LEMMA InjectsTruststoreStep ==
    ASSUME MutatorInv, InjectsTruststore
    PROVE  MutatorInv'
<1> DEFINE p == AddJVMSecretAndEnv(pod, root.name)
<1>1. /\ MutatorTypeOK /\ PhaseInv /\ VolumesInv /\ ContainersInv /\ NamesInv
      /\ UNCHANGED <<request, root, st, moved>> /\ steps' \in 0..MaxSteps /\ calling
      /\ calling' = FALSE /\ injected' = TRUE
      /\ pod' = AddPythonEnv(p)
  BY StepCount DEF MutatorInv, InjectsTruststore
<1>2. HasInitContainer /\ JVMIsWanted /\ ~injected /\ ~Trusted
  BY <1>1 DEF PhaseInv
<1>3. /\ p \in Pods
      /\ p.cain = pod.cain /\ p.ca = pod.ca /\ p.truststore = root.name
      /\ \A v \in VolumeNames : p.volumes[v] = pod.volumes[v] + Count(v = Truststore)
      /\ \A s \in Slots :
            LET c == pod.containers[s]
                d == p.containers[s]
            IN  /\ d.kind = c.kind /\ d.python = c.python /\ d.late = c.late
                /\ d.flags = c.flags + Count(c.kind = "main")
                /\ c.kind = "main" => d.jvmVar # "absent"
                /\ c.kind # "main" => d.jvmVar = c.jvmVar
                /\ \A v \in VolumeNames :
                      d.mounts[v] = c.mounts[v] + Count(c.kind = "main" /\ v = Truststore)
  BY <1>1, TruststoreEdit
<1>4. /\ pod' \in Pods
      /\ pod'.cain = p.cain /\ pod'.ca = p.ca /\ pod'.truststore = root.name /\ pod'.volumes = p.volumes
      /\ \A s \in Slots :
            LET c == p.containers[s]
                d == pod'.containers[s]
            IN  /\ d.kind = c.kind /\ d.mounts = c.mounts /\ d.jvmVar = c.jvmVar
                /\ d.flags = c.flags /\ d.late = c.late
                /\ d.python = c.python + Count(c.kind = "main" /\ IsPythonEnabled(request))
  BY <1>1, <1>3, PythonEdit
<1>5. MutatorTypeOK'
  BY <1>1, <1>4 DEF MutatorTypeOK, Roots
<1>6. HasInitContainer' /\ Trusted' /\ JVMIsWanted'
  BY <1>1, <1>2, <1>3, <1>4, RootNames DEF HasInitContainer, Trusted, JVMIsWanted
<1>7. VolumesInv'
  BY <1>1, <1>2, <1>3, <1>4, <1>6 DEF VolumesInv, Count
<1>8. ContainersInv'
  <2> SUFFICES ASSUME NEW s \in Slots PROVE Holds(s, pod.containers[s])'
    BY DEF ContainersInv
  <2>1. Holds(s, pod.containers[s]) /\ pod.containers[s] \in Containers
    BY <1>1 DEF ContainersInv, MutatorTypeOK, Pods
  <2> DEFINE c == pod.containers[s]
             d == pod'.containers[s]
  <2>2. /\ d.kind = c.kind /\ d.late = c.late
        /\ c.mounts \in [VolumeNames -> Nat] /\ c.flags \in Nat /\ c.python \in Nat
    BY <1>3, <1>4, <2>1 DEF Containers
  <2>3. ASSUME d.kind # "absent", NEW v \in VolumeNames
        PROVE  d.mounts[v] = Count(HasInitContainer' /\ ~d.late /\ v = CaVolumeName(request))
                             + Count(d.kind = "main" /\ Trusted' /\ ~d.late /\ v = Truststore)
    BY <1>1, <1>2, <1>3, <1>4, <1>6, <2>1, <2>2, <2>3 DEF Holds, Count
  <2>4. ASSUME d.kind # "absent"
        PROVE  /\ d.flags = Count(d.kind = "main" /\ Trusted' /\ ~d.late)
               /\ d.flags > 0 => d.jvmVar # "absent"
    BY <1>1, <1>2, <1>3, <1>4, <1>6, <2>1, <2>2, <2>4 DEF Holds, Count
  <2>5. ASSUME d.kind # "absent"
        PROVE  d.python = Count(d.kind = "main" /\ injected' /\ IsPythonEnabled(request) /\ ~d.late)
    BY <1>1, <1>2, <1>3, <1>4, <1>6, <2>1, <2>2, <2>5 DEF Holds, Count
  <2> QED
    BY <1>1, <1>6, <2>3, <2>4, <2>5 DEF Holds
<1>9. PhaseInv'
  BY <1>1, <1>2, <1>3, <1>4, <1>6 DEF PhaseInv
<1>10. NamesInv'
  BY <1>1, <1>3, <1>4 DEF NamesInv
<1> QED
  BY <1>5, <1>7, <1>8, <1>9, <1>10 DEF MutatorInv

LEMMA OtherWebhookStep ==
    ASSUME MutatorInv, OtherWebhook
    PROVE  MutatorInv'
<1>1. /\ MutatorTypeOK /\ PhaseInv /\ VolumesInv /\ ContainersInv /\ NamesInv
      /\ UNCHANGED <<request, root, calling, st, injected, moved>> /\ steps' \in 0..MaxSteps /\ ~calling
  BY StepCount DEF MutatorInv, OtherWebhook
<1>2. PICK new \in Slots, kind \in {"init", "main"} :
          /\ pod.containers[new].kind = "absent"
          /\ pod' = [pod EXCEPT !.containers[new] = Container(kind, "absent", HasInitContainer)]
  BY DEF OtherWebhook
<1>3. pod \in Pods
  BY <1>1 DEF MutatorTypeOK
<1>4. /\ pod'.cain = pod.cain /\ pod'.ca = pod.ca /\ pod'.truststore = pod.truststore
      /\ pod'.volumes = pod.volumes
      /\ pod'.containers = [pod.containers EXCEPT ![new] = Container(kind, "absent", HasInitContainer)]
  BY <1>2, <1>3 DEF Pods
<1>5. LET c == Container(kind, "absent", HasInitContainer)
      IN  /\ c \in Containers
          /\ c.kind = kind /\ c.late = HasInitContainer /\ c.flags = 0 /\ c.python = 0
          /\ \A v \in VolumeNames : c.mounts[v] = 0
  <2>1. kind \in Kinds /\ "absent" \in JVMVars /\ HasInitContainer \in BOOLEAN
    BY DEF Kinds, JVMVars, HasInitContainer
  <2> QED
    BY <2>1, FreshContainer
<1>6. MutatorTypeOK'
  <2>1. pod'.containers \in [Slots -> Containers]
    BY <1>3, <1>4, <1>5 DEF Pods
  <2>2. pod' \in Pods
    BY <1>2, <1>3, <2>1 DEF Pods
  <2> QED
    BY <1>1, <2>2 DEF MutatorTypeOK, Roots
<1>7. (HasInitContainer' <=> HasInitContainer) /\ (Trusted' <=> Trusted) /\ (JVMIsWanted' <=> JVMIsWanted)
  BY <1>1, <1>4 DEF HasInitContainer, Trusted, JVMIsWanted
<1>8. VolumesInv'
  BY <1>1, <1>4, <1>7 DEF VolumesInv
<1>9. PhaseInv' /\ NamesInv'
  BY <1>1, <1>4, <1>7 DEF PhaseInv, NamesInv
<1>10. ContainersInv'
  <2> SUFFICES ASSUME NEW s \in Slots PROVE Holds(s, pod.containers[s])'
    BY DEF ContainersInv
  <2>1. CASE s # new
    <3>1. pod'.containers[s] = pod.containers[s]
      BY <1>3, <1>4, <2>1 DEF Pods
    <3> QED
      BY <1>1, <1>7, <3>1 DEF ContainersInv, Holds
  <2>2. CASE s = new
    <3>1. pod'.containers[s] = Container(kind, "absent", HasInitContainer)
      BY <1>3, <1>4, <2>2 DEF Pods
    <3>2. CASE HasInitContainer
      <4>1. Container(kind, "absent", HasInitContainer).late = TRUE
        BY <1>5, <3>2
      <4>2. HasInitContainer' /\ ~calling'
        BY <1>1, <1>7, <3>2
      <4> QED
        BY <1>5, <3>1, <4>1, <4>2 DEF Holds, Count
    <3>3. CASE ~HasInitContainer
      <4>1. ~Trusted /\ ~injected
        BY <1>1, <3>3 DEF PhaseInv
      <4> QED
        BY <1>1, <1>5, <1>7, <3>1, <3>3, <4>1 DEF Holds, Count
    <3> QED
      BY <3>2, <3>3
  <2> QED
    BY <2>1, <2>2
<1> QED
  BY <1>6, <1>8, <1>9, <1>10 DEF MutatorInv

\* the pod stays, and its root changes
LEMMA MovesStep ==
    ASSUME MutatorInv, NEW new \in Roots(request), Moves(new),
           UNCHANGED <<request, pod, calling, injected>>,
           st' \in {"mutating", "stored", "refused"}, steps' \in 0..MaxSteps
    PROVE  MutatorInv'
<1>1. MutatorTypeOK /\ PhaseInv /\ VolumesInv /\ ContainersInv /\ NamesInv
  BY DEF MutatorInv
<1>2. root' = new /\ moved \subseteq moved' /\ moved' \subseteq {"in a call", "later"}
  BY <1>1 DEF Moves, MutatorTypeOK
<1>3. MutatorTypeOK'
  BY <1>1, <1>2 DEF MutatorTypeOK, Roots
<1>4. PhaseInv' /\ VolumesInv' /\ ContainersInv'
  <2>1. PhaseInv'
    BY <1>1 DEF PhaseInv, HasInitContainer, Trusted, JVMIsWanted
  <2>2. VolumesInv'
    BY <1>1 DEF VolumesInv, HasInitContainer, Trusted
  <2>3. ContainersInv'
    BY <1>1 DEF ContainersInv, Holds, HasInitContainer, Trusted
  <2> QED
    BY <2>1, <2>2, <2>3
<1>5. NamesInv'
  <2>1. CASE calling
    BY <1>1, <1>2, <2>1 DEF NamesInv, Moves
  <2>2. CASE ~calling /\ ~HasInitContainer
    <3>1. pod.ca = None /\ pod.truststore = None
      BY <1>1, <2>2 DEF PhaseInv, HasInitContainer, Trusted, Count
    <3> QED
      BY <2>2, <3>1 DEF NamesInv
  <2>3. CASE ~calling /\ HasInitContainer
    BY <1>1, <1>2, <2>3 DEF NamesInv, Moves
  <2> QED
    BY <2>1, <2>2, <2>3
<1> QED
  BY <1>3, <1>4, <1>5 DEF MutatorInv

LEMMA InvStep == MutatorInv /\ [MutatorNext]_mutatorVars => MutatorInv'
<1> SUFFICES ASSUME MutatorInv, [MutatorNext]_mutatorVars PROVE MutatorInv'
  OBVIOUS
<1>1. MutatorTypeOK
  BY DEF MutatorInv
<1>2. CASE ContextDone \/ Declines \/ FailsAtVolumes \/ PanicsAtExtra \/ FailsAtTruststore
  <2>1. Step /\ UNCHANGED <<root, pod, injected, moved>> /\ calling' \in {calling, FALSE}
        /\ st' \in {st, "refused"}
    BY <1>2 DEF ContextDone, Declines, FailsAtVolumes, PanicsAtExtra, FailsAtTruststore
  <2> QED
    BY <1>1, <2>1, StepCount, QuietStep DEF MutatorTypeOK
<1>3. CASE InjectsCA
  BY <1>3, InjectsCAStep
<1>4. CASE InjectsTruststore
  BY <1>4, InjectsTruststoreStep
<1>5. CASE OtherWebhook
  BY <1>5, OtherWebhookStep
<1>6. CASE RootChanges
  <2>1. /\ Step /\ UNCHANGED <<pod, calling, st, injected>>
        /\ \E o \in Owners : Moves([name |-> o, owned |-> TRUE])
    BY <1>6 DEF RootChanges
  <2>2. PICK o \in Owners : Moves([name |-> o, owned |-> TRUE])
    BY <2>1
  <2>3. [name |-> o, owned |-> TRUE] \in Roots(request)
    BY DEF Roots
  <2> QED
    BY <1>1, <2>1, <2>2, <2>3, StepCount, MovesStep
<1>7. CASE Stored
  BY <1>1, <1>7, QuietStep DEF Stored, MutatorTypeOK
<1>8. CASE Resubmitted
  <2>1. PICK new \in Roots(request) : Moves(new)
    BY <1>8 DEF Resubmitted
  <2>2. steps' \in 0..MaxSteps
    <3>1. steps \in 0..MaxSteps
      BY <1>1 DEF MutatorTypeOK
    <3> QED
      BY <1>8, <3>1, MaxStepsAssumption DEF Resubmitted
  <2> QED
    BY <1>8, <2>1, <2>2, MovesStep DEF Resubmitted
<1>9. CASE UNCHANGED mutatorVars
  BY <1>1, <1>9, QuietStep DEF mutatorVars, MutatorTypeOK
<1> QED
  BY <1>2, <1>3, <1>4, <1>5, <1>6, <1>7, <1>8, <1>9 DEF MutatorNext, CallMutate

LEMMA InvEver == MutatorSpec => []MutatorInv
  BY InvInit, InvStep, PTL DEF MutatorSpec

(***************************************************************************)
(* Every reachable state has its types: what is named in a pod's volumes   *)
(* is an owner or the pod itself.                                          *)
(***************************************************************************)
THEOREM MutatorTypeCorrect == MutatorSpec => []MutatorTypeOK
<1>1. MutatorInv => MutatorTypeOK
  BY DEF MutatorInv
<1> QED
  BY <1>1, InvEver, PTL

-----------------------------------------------------------------------------
(***************************************************************************)
(* No call of the webhook, and no sequence of calls, partial failures,     *)
(* sidecars and resubmissions makes a pod the API server would refuse, but *)
(* for the manifests that clash from the start.                            *)
(***************************************************************************)
THEOREM PodStaysValidEver == MutatorSpec => []PodStaysValid
<1>1. MutatorInv => PodStaysValid
  <2> SUFFICES ASSUME MutatorInv, ~Clashes PROVE PodStaysValid
    BY DEF PodStaysValid
  <2>1. MutatorTypeOK /\ PhaseInv /\ VolumesInv /\ ContainersInv
    BY DEF MutatorInv
  <2>2. /\ SecretVolumeName(request) \in VolumeNames /\ CaVolumeName(request) \in VolumeNames
        /\ Truststore \in VolumeNames
    BY <2>1, RequestNames DEF MutatorTypeOK
  <2>3. /\ SecretVolumeName(request) # CaVolumeName(request)
        /\ SecretVolumeName(request) \notin request.volumes /\ CaVolumeName(request) \notin request.volumes
    BY DEF Clashes, CAVolumes
  <2>4. Trusted => /\ HasInitContainer
                   /\ IsJVMEnabled(request)
                   /\ Truststore \notin request.volumes
                   /\ Truststore # SecretVolumeName(request) /\ Truststore # CaVolumeName(request)
    BY <2>1 DEF PhaseInv, JVMIsWanted, CAVolumes
  <2>5. ASSUME NEW v \in VolumeNames PROVE pod.volumes[v] <= 1
    BY <2>1, <2>3, <2>4, <2>5 DEF VolumesInv, Count
  <2>6. ASSUME HasInitContainer, NEW v \in CAVolumes(request) PROVE pod.volumes[v] = 1
    BY <2>1, <2>2, <2>3, <2>4, <2>6 DEF VolumesInv, Count, CAVolumes
  <2>7. ASSUME NEW s \in Present
        PROVE  /\ \A v \in VolumeNames : pod.containers[s].mounts[v] <= pod.volumes[v]
               /\ s \in Main /\ pod.containers[s].flags > 0 => pod.containers[s].jvmVar = "value"
    <3>1. Holds(s, pod.containers[s]) /\ pod.containers[s] \in Containers /\ s \in Slots
          /\ pod.containers[s].kind # "absent"
      BY <2>1, <2>7 DEF ContainersInv, MutatorTypeOK, Pods, Present
    <3>2. ASSUME NEW v \in VolumeNames PROVE pod.containers[s].mounts[v] <= pod.volumes[v]
      BY <2>1, <2>3, <2>4, <3>1, <3>2 DEF VolumesInv, Holds, Count
    <3>3. pod.containers[s].flags > 0 => Trusted /\ pod.containers[s].jvmVar # "absent"
      BY <3>1 DEF Holds, Count
    <3>4. Trusted => pod.containers[s].jvmVar # "valueFrom"
      BY <2>4, <3>1 DEF Clashes
    <3> QED
      BY <3>1, <3>2, <3>3, <3>4 DEF Containers, JVMVars
  <2> QED
    BY <2>5, <2>6, <2>7 DEF PodStaysValid, Main, Present
<1> QED
  BY <1>1, InvEver, PTL

(***************************************************************************)
(* Every container that was there when cain's came has each part once, and *)
(* no container that came later has any.                                   *)
(***************************************************************************)
THEOREM InjectedOnceEver == MutatorSpec => []InjectedOnce
<1>1. MutatorInv => InjectedOnce
  <2> SUFFICES ASSUME MutatorInv PROVE InjectedOnce
    OBVIOUS
  <2>1. MutatorTypeOK /\ PhaseInv /\ VolumesInv /\ ContainersInv
    BY DEF MutatorInv
  <2>2. CaVolumeName(request) \in VolumeNames /\ Truststore \in VolumeNames
    BY <2>1, RequestNames DEF MutatorTypeOK
  <2>3. pod.cain <= 1 /\ (injected => HasInitContainer)
    BY <2>1 DEF PhaseInv, Count
  <2>4. (Trusted <=> injected /\ JVMIsWanted) /\ (Trusted => Truststore # CaVolumeName(request))
    BY <2>1 DEF PhaseInv, JVMIsWanted, CAVolumes
  <2>5. ASSUME NEW s \in Present
        PROVE  LET c == pod.containers[s]
               IN  /\ c.mounts[CaVolumeName(request)] = Count(HasInitContainer /\ ~c.late)
                   /\ c.flags = Count(s \in Main /\ injected /\ JVMIsWanted /\ ~c.late)
                   /\ c.flags > 0 => c.mounts[Truststore] = 1
                   /\ c.python = Count(s \in Main /\ injected /\ IsPythonEnabled(request) /\ ~c.late)
    <3>1. Holds(s, pod.containers[s]) /\ pod.containers[s].kind # "absent"
          /\ (s \in Main <=> pod.containers[s].kind = "main")
      BY <2>1, <2>5 DEF ContainersInv, Present, Main
    <3> QED
      BY <2>2, <2>4, <3>1 DEF Holds, Count
  <2> QED
    BY <2>3, <2>5 DEF InjectedOnce
<1> QED
  BY <1>1, InvEver, PTL

(***************************************************************************)
(* The Secrets a pod mounts are those of one root, the one the validating  *)
(* webhook provides for, unless that root changed after it was looked up.  *)
(***************************************************************************)
THEOREM VolumesAgreeEver == MutatorSpec => []VolumesAgree
<1>1. MutatorInv => VolumesAgree
  <2> SUFFICES ASSUME PhaseInv, NamesInv PROVE VolumesAgree
    BY DEF MutatorInv
  <2>1. HasInitContainer <=> pod.ca # None
    BY DEF PhaseInv, HasInitContainer, Count
  <2>2. pod.truststore \notin {None, pod.ca} => "in a call" \in moved
    BY DEF NamesInv
  <2>3. {pod.ca, pod.truststore} \subseteq {None, root.name} \/ moved # {}
    BY DEF NamesInv
  <2> QED
    BY <2>1, <2>2, <2>3 DEF VolumesAgree
<1> QED
  BY <1>1, InvEver, PTL

\* the bytes of names, and the dots between them
Bytes == STRING \cup {"."}

LEMMA SingleByte ==
    ASSUME NEW S, NEW x \in S
    PROVE  <<x>> \in Seq(S)
  OBVIOUS

LEMMA MoreBytes ==
    ASSUME NEW s \in Seq(STRING), NEW S
    PROVE  s \in Seq(STRING \cup S)
  OBVIOUS

LEMMA JoinedNames ==
    ASSUME NEW S, NEW a \in Seq(S), NEW b \in Seq(S), NEW c \in Seq(S), NEW dot \in Seq(S)
    PROVE  a \o dot \o b \o dot \o c \in Seq(S)
<1>1. a \o dot \in Seq(S)
  OBVIOUS
<1>2. a \o dot \o b \in Seq(S)
  BY <1>1
<1>3. a \o dot \o b \o dot \in Seq(S)
  BY <1>2
<1> QED
  BY <1>3

LEMMA LastBytesFit ==
    ASSUME NEW S, NEW s \in Seq(S)
    PROVE  /\ Len(LastBytes(s)) <= MaxCNLength
           /\ Len(LastBytes(s)) < MaxCNLength => LastBytes(s) = s
           /\ \A i \in 1..Len(LastBytes(s)) : LastBytes(s)[i] = s[Len(s) - Len(LastBytes(s)) + i]
<1>1. CASE MaxCNLength < Len(s)
  BY <1>1, ExtractorAssumption DEF LastBytes
<1>2. CASE ~(MaxCNLength < Len(s))
  BY <1>2, ExtractorAssumption DEF LastBytes
<1> QED
  BY <1>1, <1>2

(***************************************************************************)
(* Whatever the names, a common name fits, is the end of what was asked    *)
(* for, and is cut only if that does not fit.                              *)
(***************************************************************************)
THEOREM CommonNameFitsEver == MutatorSpec => []CommonNameFits
<1>1. MutatorInv => CommonNameFits
  <2> SUFFICES ASSUME MutatorInv PROVE CommonNameFits
    OBVIOUS
  <2> DEFINE dot == <<".">>
             domain == IF DNSDomain = <<>> THEN Domain ELSE DNSDomain
             full == Value(request.annotations, "jvm-common-name",
                           DefaultCommonName(root.name, request.ns))
  <2>1. root.name \in Seq(STRING) /\ request.ns \in Seq(STRING)
    BY RootNames, NamesAssumption DEF MutatorInv, MutatorTypeOK, Names
  <2>2. DefaultCommonName(root.name, request.ns) \in Seq(Bytes)
    <3>1. dot \in Seq(Bytes)
      <4>1. "." \in Bytes
        BY DEF Bytes
      <4> QED
        BY <4>1, SingleByte
    <3>2. domain \in Seq(STRING)
      BY ExtractorAssumption
    <3>3. DefaultCommonName(root.name, request.ns) = root.name \o dot \o request.ns \o dot \o domain
      BY DEF DefaultCommonName
    <3> HIDE DEF dot, domain
    <3>4. root.name \in Seq(Bytes) /\ request.ns \in Seq(Bytes) /\ domain \in Seq(Bytes)
      BY <2>1, <3>2, MoreBytes DEF Bytes
    <3> QED
      BY <3>1, <3>3, <3>4, JoinedNames
  <2>3. full \in Seq(Bytes)
    <3>1. CASE "jvm-common-name" \in DOMAIN request.annotations
      <4>1. full = Value(request.annotations, "jvm-common-name", <<>>)
        BY <3>1 DEF Value
      <4>2. full \in Seq(STRING)
        BY <4>1, NamesAssumption DEF MutatorInv, MutatorTypeOK
      <4> QED
        BY <4>2, MoreBytes DEF Bytes
    <3>2. CASE "jvm-common-name" \notin DOMAIN request.annotations
      <4>1. full = DefaultCommonName(root.name, request.ns)
        BY <3>2 DEF Value
      <4> QED
        BY <2>2, <4>1
    <3> QED
      BY <3>1, <3>2
  <2> HIDE DEF full
  <2>4. JVMCommonName(request, root.name, request.ns) = LastBytes(full)
    BY DEF full, JVMCommonName
  <2>5. /\ Len(LastBytes(full)) <= MaxCNLength
        /\ Len(LastBytes(full)) < MaxCNLength => LastBytes(full) = full
        /\ \A i \in 1..Len(LastBytes(full)) :
              LastBytes(full)[i] = full[Len(full) - Len(LastBytes(full)) + i]
    BY <2>3, LastBytesFit
  <2> QED
    BY <2>4, <2>5 DEF full, CommonNameFits
<1> QED
  BY <1>1, InvEver, PTL

-----------------------------------------------------------------------------
(***************************************************************************)
(* Step by step, what all the actions together do to the names in the      *)
(* pod's volumes is what module Injection allows.                          *)
(***************************************************************************)
LEMMA NamesStep ==
    ASSUME MutatorInv, [MutatorNext]_mutatorVars
    PROVE  [I!Next]_(I!names)
<1> DEFINE p == "pod"
<1>1. /\ [q \in ThisPod |-> root.name][p] = root.name
      /\ [q \in ThisPod |-> pod.ca][p] = pod.ca
      /\ [q \in ThisPod |-> pod.truststore][p] = pod.truststore
      /\ [q \in ThisPod |-> Stage][p] = Stage
      /\ [q \in ThisPod |-> MovedInCall][p] = MovedInCall
  BY DEF ThisPod
<1>2. /\ [q \in ThisPod |-> root'.name][p] = root'.name
      /\ [q \in ThisPod |-> pod'.ca][p] = pod'.ca
      /\ [q \in ThisPod |-> pod'.truststore][p] = pod'.truststore
      /\ [q \in ThisPod |-> Stage'][p] = Stage'
      /\ [q \in ThisPod |-> MovedInCall'][p] = MovedInCall'
  BY DEF ThisPod
<1> SUFFICES \/ I!NamesCA(p) \/ I!NamesTruststore(p) \/ I!GivesUp(p) \/ I!RootMoves(p) \/ I!LeftAlone(p)
  BY DEF I!Next, ThisPod
<1>3. MutatorTypeOK /\ PhaseInv /\ pod.cain \in Nat
  BY DEF MutatorInv, MutatorTypeOK, Pods
<1>4. UNCHANGED moved => UNCHANGED MovedInCall
  BY DEF MovedInCall
<1>5. CASE UNCHANGED <<root, pod, calling, moved>>
  BY <1>1, <1>2, <1>4, <1>5 DEF I!LeftAlone, Stage, HasInitContainer
<1>6. CASE InjectsCA
  <2> DEFINE q == AddCASecretVolumes(pod, root.name)
  <2>1. q \in Pods /\ q.cain = pod.cain + 1 /\ q.ca = root.name /\ q.truststore = pod.truststore
    BY <1>3, CAEdit
  <2>2. /\ AddPythonEnv(q).cain = q.cain /\ AddPythonEnv(q).ca = q.ca
        /\ AddPythonEnv(q).truststore = q.truststore
    BY <2>1 DEF AddPythonEnv, Pods
  <2>3. ~calling /\ ~HasInitContainer /\ UNCHANGED <<root, moved>> /\ calling' \in BOOLEAN
    BY <1>6 DEF InjectsCA, Wants, ShouldAddJVM
  <2>4. pod' \in {q, AddPythonEnv(q)}
    BY <1>6 DEF InjectsCA
  <2> HIDE DEF q
  <2>5. pod'.ca = root.name /\ pod'.truststore = pod.truststore /\ pod'.cain = pod.cain + 1
    BY <2>1, <2>2, <2>4
  <2>6. Stage = "open" /\ Stage' \in {"half", "closed"}
    BY <1>3, <2>3, <2>5 DEF Stage, HasInitContainer
  <2> QED
    BY <1>1, <1>2, <1>4, <2>3, <2>5, <2>6 DEF I!NamesCA
<1>7. CASE InjectsTruststore
  <2> DEFINE q == AddJVMSecretAndEnv(pod, root.name)
  <2>1. q \in Pods /\ q.cain = pod.cain /\ q.ca = pod.ca /\ q.truststore = root.name
    BY <1>3, TruststoreEdit
  <2>2. /\ AddPythonEnv(q).cain = q.cain /\ AddPythonEnv(q).ca = q.ca
        /\ AddPythonEnv(q).truststore = q.truststore
    BY <2>1 DEF AddPythonEnv, Pods
  <2>3. calling /\ ~calling' /\ UNCHANGED <<root, moved>> /\ pod' = AddPythonEnv(q)
    BY <1>7 DEF InjectsTruststore
  <2> HIDE DEF q
  <2>4. HasInitContainer
    BY <1>3, <2>3 DEF PhaseInv
  <2>5. Stage = "half" /\ Stage' = "closed"
    BY <2>1, <2>2, <2>3, <2>4 DEF Stage, HasInitContainer
  <2> QED
    BY <1>1, <1>2, <1>4, <2>1, <2>2, <2>3, <2>5 DEF I!NamesTruststore
<1>8. CASE FailsAtTruststore
  <2>1. calling /\ ~calling' /\ UNCHANGED <<root, pod, moved>> /\ HasInitContainer
    BY <1>3, <1>8 DEF FailsAtTruststore, PhaseInv
  <2> QED
    BY <1>1, <1>2, <1>4, <2>1 DEF I!GivesUp, Stage, HasInitContainer
<1>9. CASE OtherWebhook
  <2>1. UNCHANGED <<root, calling, moved>> /\ pod'.ca = pod.ca /\ pod'.truststore = pod.truststore
        /\ pod'.cain = pod.cain
    BY <1>3, <1>9 DEF OtherWebhook, MutatorTypeOK, Pods
  <2> QED
    BY <1>1, <1>2, <1>4, <2>1 DEF I!LeftAlone, Stage, HasInitContainer
<1>10. ASSUME UNCHANGED <<pod, calling>>, NEW new, Moves(new)
      PROVE  I!RootMoves(p)
  <2>1. MovedInCall \/ calling => MovedInCall'
    BY <1>10 DEF Moves, MovedInCall
  <2>2. Stage = "half" => calling
    BY DEF Stage
  <2> QED
    BY <1>1, <1>2, <1>10, <2>1, <2>2 DEF I!RootMoves, Stage, HasInitContainer
<1>11. CASE RootChanges
  BY <1>10, <1>11 DEF RootChanges
<1>12. CASE Resubmitted
  BY <1>10, <1>12 DEF Resubmitted
<1> QED
  BY <1>5, <1>6, <1>7, <1>8, <1>9, <1>11, <1>12 DEF MutatorNext, CallMutate, ContextDone, Declines,
     FailsAtVolumes, PanicsAtExtra, Stored, mutatorVars

(***************************************************************************)
(* Mutator implements Injection: for any manifests, owners and number of   *)
(* calls, a volume is named once and after the root of that moment.        *)
(***************************************************************************)
THEOREM MutatorKeepsNames == MutatorSpec => KeepsNames
<1>1. MutatorInit => I!Init
  <2> SUFFICES ASSUME MutatorInit PROVE I!Init
    OBVIOUS
  <2>1. MovedInCall = FALSE
    BY DEF MutatorInit, MovedInCall
  <2>2. Stage = "open" /\ pod.ca = None /\ pod.truststore = None
    BY DEF MutatorInit, Stage, HasInitContainer
  <2> QED
    BY <2>1, <2>2 DEF I!Init
<1>2. MutatorInv /\ [MutatorNext]_mutatorVars => [I!Next]_(I!names)
  BY NamesStep
<1> QED
  BY <1>1, <1>2, InvEver, PTL DEF MutatorSpec, KeepsNames, I!Spec
=============================================================================
