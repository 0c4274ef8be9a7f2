----------------------------- MODULE CertCreator -----------------------------
(***************************************************************************)
(* certificates/certcreator.go: one goroutine that takes certificate       *)
(* requests from an unbuffered channel, asks the secret creator for the    *)
(* Secret with the truststore's password, and then asks the API server for *)
(* the Certificate.                                                        *)
(***************************************************************************)
EXTENDS SecretDeleter

VARIABLE certCreator

Infos == [ns: Namespaces, name: Names, owner: Uids \cup {NoUid}, password: Passwords]

CertCreatorTypeOK ==
    /\ certCreator \in [pc: {"receive", "send", "call", "exit", "panicked"}, info: Infos \cup {None}]
    /\ certCreator.pc \in {"send", "call"} => certCreator.info \in Infos

CertCreatorIdle == [pc |-> "receive", info |-> None]
CertCreatorInit == certCreator = CertCreatorIdle

\* mutant: the password is not asked for
CertCreatorSkipsPassword(info) ==
    /\ "cert" \notin closed
    /\ certCreator.pc = "receive"
    /\ certCreator' = [pc |-> "call", info |-> info]

CertCreatorReceives(info) ==
    /\ "cert" \notin closed
    /\ certCreator.pc = "receive"
    /\ certCreator' = [pc |-> "send", info |-> info]

\* what it asks of the secret creator: the password, encoded
PasswordRequest(info) == [id    |-> TruststorePasswordSecretName(info.ns, info.name),
                          owner |-> info.owner,
                          data  |-> Base64(info.password)]

\* what it asks of the API server
CertificateId(info) == CertificateName(info.ns, info.name)
NewCertificate(info) == [owner |-> info.owner, data |-> None]

SendPassword ==
    /\ certCreator.pc = "send"
    /\ CreatorReceives(PasswordRequest(certCreator.info))
    /\ certCreator' = [certCreator EXCEPT !.pc = "call"]
    /\ UNCHANGED <<objects, metrics, ctx, dropped>>

(***************************************************************************)
(* Sending on a closed channel panics.  The pool cancels its context and   *)
(* keeps the panic until Wait.                                             *)
(***************************************************************************)
SendPanics ==
    /\ certCreator.pc = "send"
    /\ "secret" \in closed
    /\ certCreator' = [pc |-> "panicked", info |-> None]
    /\ dropped' = dropped \cup {PasswordRequest(certCreator.info).id, CertificateId(certCreator.info)}
    /\ CancelOnError
    /\ UNCHANGED <<objects, metrics, creator>>

CertificateCreated ==
    /\ certCreator.pc = "call"
    /\ Stores(CertificateId(certCreator.info), NewCertificate(certCreator.info))
    /\ Count("Created", certCreator.info.ns, "Certificate")
    /\ certCreator' = CertCreatorIdle
    /\ UNCHANGED <<ctx, creator, dropped>>

CertificateFound ==
    /\ certCreator.pc = "call"
    /\ Exists(CertificateId(certCreator.info))
    /\ Count("AlreadyExists", certCreator.info.ns, "Certificate")
    /\ certCreator' = CertCreatorIdle
    /\ UNCHANGED <<objects, ctx, creator, dropped>>

\* a status error is counted as a Certificate that already exists
CertificateRefused ==
    /\ certCreator.pc = "call"
    /\ "api" \in Faults
    /\ Count("AlreadyExists", certCreator.info.ns, "Certificate")
    /\ certCreator' = CertCreatorIdle
    /\ dropped' = dropped \cup {CertificateId(certCreator.info)}
    /\ UNCHANGED <<objects, ctx, creator>>

CertificateInterrupted ==
    /\ certCreator.pc = "call"
    /\ "api" \in Faults \/ CtxDone
    /\ MayStore(CertificateId(certCreator.info), NewCertificate(certCreator.info))
    /\ Count("CreateError", certCreator.info.ns, "Certificate")
    /\ certCreator' = CertCreatorIdle
    /\ dropped' = dropped \cup {CertificateId(certCreator.info)}
    /\ UNCHANGED <<ctx, creator>>

CertCreatorExits ==
    /\ certCreator.pc = "receive"
    /\ "cert" \in closed
    /\ certCreator' = [pc |-> "exit", info |-> None]
    /\ UNCHANGED <<objects, metrics, ctx, creator, dropped>>

CertCreatorStep == \/ SendPassword \/ SendPanics
                   \/ CertificateCreated \/ CertificateFound
                   \/ CertificateRefused \/ CertificateInterrupted
                   \/ CertCreatorExits
=============================================================================
