------------------------------ MODULE MCMutator ------------------------------
(***************************************************************************)
(* Pods that ask for the parts of an injection in every combination, bring *)
(* volumes of their own, name cain's volumes, or are none of its business. *)
(* Common names are cut to five bytes: an owner with a name of one byte    *)
(* fits exactly, one with two does not.                                    *)
(***************************************************************************)
EXTENDS Mutator, TLC

CONSTANTS c1, c2, c3

Labelled == "enabled" :> "true"
Set(key, value) == {<<>>, key :> value}

Submitted(labels, annotations, volumes, ns) ==
    [name |-> <<"p">>, ns |-> ns, labels |-> labels, annotations |-> annotations, volumes |-> volumes]

WellFormed == <<<<"bundle", "ca.crt">>, <<"more", "ca.crt">>>>
Keyless == <<<<"bundle", "ca.crt">>, <<"more">>>>

Injections ==
    {Submitted(Labelled, jvm @@ python @@ names, volumes, <<"n">>) :
        jvm \in Set("jvm", "true"), python \in Set("python", "true"),
        names \in {<<>>, "ca-volume-name" :> "ca", "ca-volume-name" :> Truststore,
                   "secret-volume-name" :> "data"},
        volumes \in {{}, {Truststore}, {"data"}}}

Others ==
    {Submitted(labels, "jvm" :> "true", {}, <<"n">>) : labels \in {<<>>, "enabled" :> "false"}} \cup
    {Submitted(Labelled, ("jvm" :> "true") @@ ("extra-ca-secrets" :> secrets), {}, <<"n">>) :
        secrets \in {WellFormed, Keyless}} \cup
    {Submitted(Labelled, ("jvm" :> "true") @@ ("jvm-common-name" :> cn), {}, <<"n">>) :
        cn \in {<<>>, <<"w", "w", "w", ".", "d", "e">>}} \cup
    {Submitted(Labelled, "jvm" :> "true", {}, KubeSystem)}

MCRequests == Injections \cup Others
MCOwners == {<<"w">>, <<"w", "x">>}
MCDomain == <<"d">>
NoDomain == <<>>
MCVolumes == {"ca", "ca-certs", "data", Truststore}
MCSymmetry == Permutations(Slots)
=============================================================================
