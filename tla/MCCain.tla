------------------------------- MODULE MCCain -------------------------------
(***************************************************************************)
(* Small instances of Cain.  A Deployment named web and pods without an    *)
(* owner are enough for the collisions the code allows: two pods of one    *)
(* root, a pod named like another pod's root, and a pod created again      *)
(* under its old name.                                                     *)
(***************************************************************************)
EXTENDS CainProperties, TLC

CONSTANTS p1, p2, p3, web, api, ns, u1, u2, pw1, pw2, b1, b2

OfDeployment(name, jvm, pw) ==
    [ns |-> ns, name |-> name, root |-> [name |-> web, uid |-> u1],
     enabled |-> TRUE, jvm |-> jvm, password |-> pw]
NoOwner(name, enabled) ==
    [ns |-> ns, name |-> name, root |-> [name |-> name, uid |-> NoUid],
     enabled |-> enabled, jvm |-> FALSE, password |-> pw1]

\* a JVM pod of the Deployment web, and a pod named web without an owner
MixedManifest == [p \in Pods |-> IF p = p1 THEN OfDeployment(api, TRUE, pw1) ELSE NoOwner(web, TRUE)]
\* a pod without an owner, created again under its name
RecreatedManifest == [p \in Pods |-> NoOwner(web, TRUE)]
\* the first two, and a labelled pod that declines injection
DecliningManifest == [p \in Pods |-> IF p = p3 THEN NoOwner(api, FALSE) ELSE MixedManifest[p]]

WebOwner == {[name |-> web, uid |-> u1]}
TwoOwners == WebOwner \cup {[name |-> api, uid |-> u2]}

Symmetry == Permutations(Reviews) \cup Permutations(Bundles)
=============================================================================
