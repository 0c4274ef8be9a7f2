------------------------------ MODULE Extractor ------------------------------
(***************************************************************************)
(* metadata/extractor.go: what the label and the annotations of a pod ask  *)
(* for.  A pod has labels and annotations, functions from the keys that    *)
(* are set to their values; a nil map is the empty function.  A key stands *)
(* for itself without the domain.  Values that cain takes apart are given  *)
(* as their parts: a list of secrets as a sequence of sequences (split at  *)
(* commas, then at slashes), a name as a sequence of bytes.  The values    *)
(* that are only copied into the pod or the Certificate (family, path,     *)
(* password) are left out.                                                 *)
(***************************************************************************)
EXTENDS Naturals, Sequences

CONSTANTS
    MaxCNLength,         \* 63 in the code
    Domain,              \* METADATA_DOMAIN, the domain of the label and the annotations
    DNSDomain            \* <<>> where it is not configured

ASSUME ExtractorAssumption ==
    MaxCNLength \in Nat /\ Domain \in Seq(STRING) /\ DNSDomain \in Seq(STRING)

\* value, ok := map[key], and what is returned if not ok
Value(map, key, default) == IF key \in DOMAIN map THEN map[key] ELSE default

IsInjectionEnabled(obj) == Value(obj.labels, "enabled", "") = "true"
IsJVMEnabled(obj) == Value(obj.annotations, "jvm", "") = "true"
IsPythonEnabled(obj) == Value(obj.annotations, "python", "") = "true"

GetExtraSecretsToInject(obj) == Value(obj.annotations, "extra-ca-secrets", <<>>)

CaVolumeName(obj) == Value(obj.annotations, "ca-volume-name", "ca-certs")
SecretVolumeName(obj) == Value(obj.annotations, "secret-volume-name", "ca")

-----------------------------------------------------------------------------
\* mutant: one byte too many stays
LastBytesAndOne(s) ==
    IF MaxCNLength < Len(s) THEN SubSeq(s, Len(s) - MaxCNLength, Len(s)) ELSE s

\* s[len(s)-maxCNLength:] of what is longer than maxCNLength
LastBytes(s) ==
    IF MaxCNLength < Len(s) THEN SubSeq(s, Len(s) - MaxCNLength + 1, Len(s)) ELSE s

DefaultCommonName(rootName, rootNS) ==
    rootName \o <<".">> \o rootNS \o <<".">> \o (IF DNSDomain = <<>> THEN Domain ELSE DNSDomain)

JVMCommonName(obj, rootName, rootNS) ==
    LastBytes(Value(obj.annotations, "jvm-common-name", DefaultCommonName(rootName, rootNS)))
=============================================================================
