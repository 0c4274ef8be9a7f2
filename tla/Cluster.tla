------------------------------- MODULE Cluster -------------------------------
(***************************************************************************)
(* The Kubernetes API server as cain sees it: the Secrets and Certificates *)
(* it stores, the pods it admits, the owners of those pods, the garbage    *)
(* collector and cert-manager.  It is not code of this repository: every   *)
(* definition is read off the calls cain makes (client-go, cert-manager's  *)
(* client) and the webhook configuration of its chart.                     *)
(*                                                                         *)
(* Pods are pod instances: two members of Pods whose manifests share a     *)
(* namespace and a name are a pod and its later re-creation (or a retry of *)
(* a rejected one).                                                        *)
(***************************************************************************)
EXTENDS Naturals, FiniteSets

CONSTANTS
    Pods,        \* pod instances
    Names,       \* object names
    Namespaces,
    Uids,        \* UIDs of owners
    Owners,      \* the objects that own pods, as references name them
    Passwords,   \* truststore passwords
    Manifest,    \* what each pod instance is submitted with
    Bundles,     \* what the default CA secret may hold
    NoUid,       \* the empty UID of a reference that names no object
    None,
    Faults       \* what may go wrong, a subset of AllFaults

AllFaults == {"api", "cancel", "reject", "ownerdel", "reparent",
              "rotate", "term", "task", "crash", "startup"}

OwnerRefs == [name: Names, uid: Uids \cup {NoUid}]

Manifests == [ns: Namespaces, name: Names, root: OwnerRefs,
              enabled: BOOLEAN, jvm: BOOLEAN, password: Passwords]

(***************************************************************************)
(* Resource names.  A name is "<CA secret>-<base>", "<base>-truststore-    *)
(* password" or "<base>" in the code; here the kind stands for the affix.  *)
(***************************************************************************)
ObjectIds == [ns: Namespaces, kind: {"ca", "password", "certificate"}, base: Names]
SecretName(ns, base) == [ns |-> ns, kind |-> "ca", base |-> base]
TruststorePasswordSecretName(ns, base) == [ns |-> ns, kind |-> "password", base |-> base]
CertificateName(ns, base) == [ns |-> ns, kind |-> "certificate", base |-> base]

(***************************************************************************)
(* base64.StdEncoding.Encode: bytes that are not the bytes it was given.   *)
(***************************************************************************)
Base64(password) == <<"base64", password>>

Data == Bundles \cup {None} \cup {Base64(w) : w \in Passwords}
Objects == [owner: Uids \cup {NoUid}, data: Data]
TruststoreIds == [ns: Namespaces, base: Names]

ASSUME ClusterAssumption ==
    /\ Faults \subseteq AllFaults
    /\ Owners \subseteq [name: Names, uid: Uids]
    /\ Manifest \in [Pods -> Manifests]
    /\ NoUid \notin Uids
    /\ None \notin Objects
    /\ None \notin OwnerRefs
    /\ None \notin Names
    /\ None \notin Pods
    \* rootOwner names a pod without an owner after the pod itself
    /\ \A p \in Pods : Manifest[p].root.uid = NoUid => Manifest[p].root.name = Manifest[p].name

VARIABLES
    objects,   \* stored Secrets and Certificates
    truststores,   \* the password of each truststore cert-manager made, None where there is none
    caSecret,  \* the default CA secret, in cain's own namespace
    pods,      \* pod instances, with the volumes the mutating webhook gave them
    root,      \* the root owner that following the pod's owner references reaches now
    dead       \* owners that were deleted

clusterVars == <<objects, truststores, caSecret, pods, root, dead>>

PodStates == {"new",       \* not submitted yet
              "mutating",  \* between the two walks of the mutating webhook
              "submitted", \* past the mutating webhook
              "reviewing", \* with the validating webhook
              "live",      \* persisted
              "gone"}      \* refused, or deleted

\* ca and truststore: the base name of the Secret each injected volume mounts
PodRecords == [st: PodStates, ca: Names \cup {None}, truststore: Names \cup {None}]

ClusterTypeOK ==
    /\ objects \in [ObjectIds -> Objects \cup {None}]
    /\ truststores \in [TruststoreIds -> Data]
    /\ caSecret \in Bundles
    /\ pods \in [Pods -> PodRecords]
    /\ root \in [Pods -> OwnerRefs]
    /\ dead \subseteq Uids

ClusterInit ==
    /\ objects = [i \in ObjectIds |-> None]
    /\ truststores = [t \in TruststoreIds |-> None]
    /\ caSecret \in Bundles
    /\ pods = [p \in Pods |-> [st |-> "new", ca |-> None, truststore |-> None]]
    /\ root = [p \in Pods |-> Manifest[p].root]
    /\ dead = {}

Ownerless(p) == Manifest[p].root.uid = NoUid
SameName(p, q) == Manifest[p].ns = Manifest[q].ns /\ Manifest[p].name = Manifest[q].name

Exists(i) == objects[i] # None

(***************************************************************************)
(* API operations.  A create and a delete happen at most once, and may     *)
(* take effect although the caller only sees an error.                     *)
(***************************************************************************)
Stores(i, o) == ~Exists(i) /\ objects' = [objects EXCEPT ![i] = o]
Removes(i) == Exists(i) /\ objects' = [objects EXCEPT ![i] = None]
MayStore(i, o) == objects' = objects \/ Stores(i, o)
MayRemove(i) == objects' = objects \/ Removes(i)

(***************************************************************************)
(* The owner of some pods is deleted; the garbage collector removes what   *)
(* it owned, when it gets to it.                                           *)
(***************************************************************************)
OwnerDeleted(u) ==
    /\ "ownerdel" \in Faults
    /\ u \notin dead
    /\ dead' = dead \cup {u}
    /\ UNCHANGED <<objects, truststores, caSecret, pods, root>>

CollectGarbage(i) ==
    /\ Exists(i)
    /\ objects[i].owner \in dead
    /\ Removes(i)
    /\ UNCHANGED <<truststores, caSecret, pods, root, dead>>

(***************************************************************************)
(* cert-manager makes the truststore of a Certificate, encrypted with what *)
(* the password Secret holds.  It waits for that Secret, and leaves the    *)
(* truststore alone afterwards, also when the Certificate is gone.         *)
(***************************************************************************)
IssueTruststore(t) ==
    /\ truststores[t] = None
    /\ Exists(CertificateName(t.ns, t.base))
    /\ Exists(TruststorePasswordSecretName(t.ns, t.base))
    /\ truststores' = [truststores EXCEPT ![t] = objects[TruststorePasswordSecretName(t.ns, t.base)].data]
    /\ UNCHANGED <<objects, caSecret, pods, root, dead>>

\* an operator replaces the default CA
RotateCA ==
    /\ "rotate" \in Faults
    /\ caSecret' \in Bundles \ {caSecret}
    /\ UNCHANGED <<objects, truststores, pods, root, dead>>

(***************************************************************************)
(* Someone edits the owner references between a pod and its root: the same *)
(* pod resolves to another owner from now on.  Bounded to one move a pod.  *)
(***************************************************************************)
Reparent(p, o) ==
    /\ "reparent" \in Faults
    /\ ~Ownerless(p)
    /\ root[p] = Manifest[p].root
    /\ o # root[p]
    /\ root' = [root EXCEPT ![p] = o]
    /\ UNCHANGED <<objects, truststores, caSecret, pods, dead>>
=============================================================================
