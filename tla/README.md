# cain in TLA+

cain is a Kubernetes admission controller. A mutating webhook adds an init container, volumes,
mounts and environment variables to the pods that ask for them, so that their containers trust a
private certificate authority. A validating webhook makes sure that what those volumes mount
exists: a Secret with the CA bundle and, for JVM pods, a Secret with a truststore password and a
cert-manager Certificate whose keystore is the truststore.

The modules here model that program, TLC checks them on small instances, and TLAPS proves the
safety properties of the whole system, of one pod and of one walk to the root owner, and that the
models implement two abstract contracts, for every value of the constants.

    tlc -workers 2 -config Serving.cfg MCCain      # a run: see "Runs" for the module of each cfg
    tlapm CainProofs.tla                           # proofs: also ContractProofs, CountersProofs,
                                                   # ProvisioningProofs, MutatorProofs, InjectionProofs,
                                                   # RootOwnerProofs and AnswerProofs

## The system

| Part | Code | State | Operations |
| --- | --- | --- | --- |
| process | `cain.go` `run` | the CA bundle read at start-up, the pool's context, the webhook server, three channels | start or fail to, signal, a goroutine fails, shut down, wait |
| mutating webhook | `webhook/mutator.go` | none; it edits the pod it is given, between two walks to the root owner | `Mutate` |
| validating webhook | `webhook/validator.go` | none but its goroutine's variables, one goroutine per request | `Validate`, `deleteOperation`, `createResources` |
| root owner | `webhook/utils.go` `rootOwner` | a recursion over API reads | the walk |
| secret creator | `secrets/creator.go` | the request in hand | `Start` |
| secret deleter | `secrets/deleter.go` | the request in hand | `Start` |
| certificate creator | `certificates/certcreator.go` | the request in hand | `Start` |
| metrics | `metrics/prometheus.go` | six counters by namespace and kind | one function each |
| metadata extractor | `metadata/extractor.go` | configuration | accessors of labels and annotations |
| API server, garbage collector, kubelet | external | objects, pods, owners | create, delete, collect, restart |
| cert-manager | external | the truststore's Secret | issues it from Certificate and password |
| init containers, Helm chart, log adapter | `init-container/`, `deploy/`, `webhook/log.go` | none | |

How they interact. The API server calls the mutating webhook and then the validating one over
HTTP; `net/http` runs each call in a goroutine. A validating handler sends a request to the secret
creator, then for a JVM pod one to the certificate creator; for the deletion of a pod without
owners it sends one to the deleter. The three channels are unbuffered and each worker is one
goroutine, so a send is a rendezvous. The certificate creator sends to the secret creator in turn.
The workers call the API server with the pool's context, once per request, and forget the request
whatever the answer. The handler has answered by then. The channels are closed by a validating
handler whose own HTTP request is already done; nothing else closes them.

What is hard here: everything above is asynchronous and nothing is persisted. A pod is let in
before what it mounts is created; other admission steps may refuse it afterwards; both webhooks
resolve the pod's root owner on their own, three times in all, while owners change; names are the only link between a
pod and its Secret; and shutdown relies on channels that shutdown does not close. PROJECT.json
lists each hazard at its line with the properties that cover it.

What makes each part correct:

- validating webhook: nothing is created or deleted that no real (not dry-run) review of a pod
  with injection asked for; every request is answered;
- workers: each request ends in the object, a counter and an error log line, never in silence;
  only what should go is deleted;
- mutating webhook: the pod stays acceptable to the API server, gets each part once, however
  often the webhook is called, and its volumes name one root;
- root owner: the answer is a root the pod really had; the walk ends, also where owners own each
  other;
- metadata extractor: a common name fits into a certificate and keeps what fits of its end;
- process: it stops when told to, and does not stop serving otherwise; it creates nothing with
  the CA bundle of a process before it;
- all together: what an admitted pod mounts exists, or there is a trace of why not.

## Modules

`Cain` is one state machine in layers. Each component's module EXTENDS the one below and declares
its own variables, type invariant, initial state and steps; `Cain` composes the steps and frames
them.

| Module | Models | Notes |
| --- | --- | --- |
| `Cluster` | API server, owners, garbage collector, cert-manager (external) | `objects`, `truststores` (their passwords), `caSecret`, `pods`, `root` (the root the owner references lead to now), `dead` owners |
| `Runtime` | `cain.go`, `prometheus.go` | `process`, `ctx`, `server`, `closed`, `bundle`, `metrics`; what `run()` builds is `Fresh` |
| `SecretCreator` | `secrets/creator.go` | `creator`; `dropped` is what the error log lists, or a process took along, kept across restarts |
| `SecretDeleter` | `secrets/deleter.go` | `deleter` |
| `CertCreator` | `certificates/certcreator.go` | `certCreator` |
| `Validator` | `webhook/validator.go` | `reviews`: one record per HTTP request with its program counter |
| `Cain` | the composition, the API server's side of a review, process death and restart | `Next`, `Spec`, `Fairness` |
| `CainProperties` | what the system promises, and what its documentation says that it does not do | |
| `Provisioning` | the contract: what a user of cain may rely on, without webhooks, goroutines and processes | `owed`, `pending`, `stored`, `logged`, `recalled` |
| `Injection` | the contract for names: what the mutating webhook may name a pod's volumes after, and when | `root`, `ca`, `truststore`, `stage`, `moved`, by pod |
| `MCCain` | small instances of `Cain` | pods, owners, symmetry |
| `RootOwner`, `MCRootOwner` | `rootOwner` in `webhook/utils.go`, one API read per step | the recursion is a stack, `calls` |
| `Extractor` | `metadata/extractor.go` | operators over labels and annotations |
| `Mutator`, `MCMutator` | `Mutate` in `webhook/mutator.go`, walk by walk | `request`, `pod`, `root`, `calling` |
| `CainProofs`, `ContractProofs`, `CountersProofs` | theorems about `Cain` | invariants; refinements; metrics |
| `ProvisioningProofs`, `InjectionProofs`, `MutatorProofs`, `RootOwnerProofs` | theorems about the module of that name | |
| `AnswerProofs` | the theorem about the answer of `RootOwner` | |

Conventions of the translation:

- A send on an unbuffered channel is one step of sender and receiver together: `SendSecret`
  conjoins `CreatorReceives`. A send on a closed channel panics: in a handler `net/http` recovers
  it and drops the connection (`HandlerPanics`), in the certificate creator it ends the goroutine
  and the pool cancels its context (`SendPanics`).
- An API call is one step with every outcome: done; found or not found; refused; or failed for
  the caller while it may or may not have happened (`MayStore`, `MayRemove`).
- A resource name is a record of namespace, kind and base name. The kind stands for the affix
  (`<CA secret>-`, `-truststore-password`), so that the names of two kinds never coincide: a name
  chosen to imitate an affix is left out.
- A pod instance is one submission of a manifest. Two instances with one namespace and name are a
  pod and its re-creation, or a rejected try and the next.
- `Base64` is an injective wrapper and not the identity: the finding about passwords depends on it.
- `Cain` reads the root owner in one step. `RootOwner` is where that read is taken apart, and
  `AnswerWasRoot` says when it may count as one step.
- `Mutate` appears twice. In `Cain` it is two steps, `Submit` and `AddTruststore`, one per walk to
  the root owner: they keep the names in the volumes and run next to everything else. `Mutator`
  has one pod and all that is done to it: containers, mounts, variables, volumes and names.
- Labels and annotations are functions from the keys that are set. A value that cain takes apart is
  given as its parts: a list of secrets is split at its commas and slashes, and a name is a
  sequence of bytes, because common names are cut to a number of bytes.
- In `Mutator` a container counts what was added to it (mounts per volume, flags, variables), so
  that adding twice shows.

What other software does is read off how cain uses it, and these assumptions matter: `net/http`
cancels a request's context when its caller hangs up and recovers a handler's panic;
kubewebhook answers with the in-place edits of the pod it handed to `Mutate`, also when
`MutatedObject` is nil, and takes the old object of a DELETE review; the chart's webhook
configuration has `failurePolicy: Fail`, `sideEffects: NoneOnDryRun`, and a `reinvocationPolicy`
that is `Never` by default and may be set to `IfNeeded`, under which the mutating webhook is called
again (`Mutator` allows both); the garbage collector removes what a deleted owner
owned; cert-manager issues a truststore once the Certificate and the password Secret it refers to
exist, and does not take it away with them.

### State and code, for the core

| Variable | In the code |
| --- | --- |
| `reviews[r].pc` | where the goroutine of one `Validate` call is; `allowed`, `denied`, `failed` are its answers: a verdict, a refusal, an error or panic |
| `reviews[r].waiting` | the request's context is not done |
| `creator`, `deleter`, `certCreator` | what the worker received from its channel and is working on |
| `closed` | which of the three channels were closed |
| `ctx` | the pool's context: live, ended by a signal, or by a failing goroutine |
| `server` | the webhook's `http.Server`: serving, in `Shutdown`, past it |
| `bundle` | `caSecretData`, read from `caSecret` at start-up and copied into each creation request |
| `pods[p]` | a submission's stage, and the root owner's name in its CA and truststore volumes |
| `metrics` | the counter vectors |
| `dropped` | the error log: creation requests given up; and those a dying process held |

For `Mutator` and `RootOwner`:

| Variable | In the code |
| --- | --- |
| `pod` | the `corev1.Pod` that `Mutate` edits in place |
| `calling` | a call is past `addCASecretVolumes` and has the truststore to add |
| `root` | what `rootOwner` would answer now, and whether that takes reads of the API server |
| `injected`, `moved` | history: a call got to its end; the root changed, in a call or after one |
| `calls[i]` | a call of `rootOwner`: references still to follow, the reference it was called with, the last one found |
| `seen`, `cyclic` | history: the roots the pod had since the walk began; whether owners owned each other |

### The contract

`Provisioning` states in 40 lines what the rest is for. Something pods wait for is *owed*; it is
*pending* when somebody has taken it on, *stored*, *logged* as given up, or *recalled* (asked to be
deleted, or its owner was). A pod may be let in only when all it will wait for is in one of the
four; what is pending may be served or given up, and only what is recalled is removed.
`CainProperties` maps `Cain` to it (`P == INSTANCE Provisioning WITH ...`): owed is what live pods
mount whose owners were left alone, pending what the two creators hold, stored the API server's
objects, logged `dropped`, recalled what deletions and dead owners account for. `KeepsContract` is
`P!Spec` under that mapping.

### The contract for names

Both models of `Mutate` are about the same code, so both implement `Injection`. Each pod is on its
own there: its CA volume is named once, after the root it has at that moment; the truststore's
may follow once, after the root of *that* moment; or it is given up; and a root may move at any
time. `CainProperties` maps the stage of a pod to it, `Mutator` whether a call is between its walks
and whether the init container is there; `KeepsNames` is `I!Spec` under each mapping. `NamesAgree`
and `NamedOnce`, proved of `Injection`, then hold of both.

## Runs

| Run (cfg) | Module | Asks | Size |
| --- | --- | --- | --- |
| `Serving` | `MCCain` | with nothing failing: types, `NothingUnasked`, `OnlyAskedDeletions`, `CountersAddUp`, and `EventuallyProvisioned` under fairness | 28,557 states |
| `Shutdown` | `MCCain` | under fairness, with signals, failing goroutines and hang-ups: `DownstreamStops`, `CancelledRequestLetsStop`, `EveryReviewAnswered`, `EventuallyProvisioned` | 35,249 states |
| `ApiFaults` | `MCCain` | with failing API calls, deleted owners, moved pods: `AdmittedIsProvisioned`, `CertificateHasPassword`, `EveryRequestCounted`, `KeepsContract`, `KeepsNames` | 319,472 states |
| `Restarts` | `MCCain` | with hang-ups, refusals, rotations of the CA, crashes and one start that may fail: `AdmittedIsProvisioned`, `NothingUnasked`, `NobodyWaitsInVain`, `KeepsContract`, `CreatedWithBundle` | 251,746 states |
| `RootOwner` | `MCRootOwner` | all owner graphs within the bounds, cycles included: `RootOwnerTypeOK`, `AnswerWasRoot`, `DeepOnlyInCycles`, `WalkEnds` | 286,606 states |
| `Mutator` | `MCMutator` | manifests of every kind: `MutatorTypeOK`, `PodStaysValid`, `InjectedOnce`, `VolumesAgree`, `CommonNameFits`, `KeepsNames` | 589,368 states |
| `ShutdownHangs` ... `Password` | `MCCain` | one documented claim each, refuted (see Findings) | |

The properties, and what would break them:

- `NothingUnasked`: every object and everything a worker holds comes from a CREATE review that
  asked for it and was not a dry run, with that pod's namespace and root, the owner's UID and the
  right data. The worker acts long after the review and the request may have passed two channels. A
  truststore, which cert-manager makes of a Certificate and a password that may stem from two
  pods, has the password of one of its root's JVM pods.
- `AdmittedIsProvisioned`: for a live pod with a CA or truststore volume, the Secret, the password
  and the Certificate behind it each exist, are in a worker's hand, are in the error log, or were
  legitimately removed (a deletion asked for, an owner gone). The pod's root must not have changed:
  the two webhooks resolve it separately, and that window is the code's.
- `KeepsContract`: the same and more, as a refinement: besides that nothing is forgotten, what is
  in hand is only ever served or given up with a trace, and nothing is removed that was not
  recalled.
- `CreatedWithBundle`: a CA Secret is created with the bundle of the process that creates it, though
  the bundle travels through a channel and a worker, the CA may be replaced at any time and the
  process may die and start again.
- `CertificateHasPassword`: an existing Certificate's password Secret is accounted for, although
  another goroutine creates it.
- `OnlyAskedDeletions`: only the garbage collector and permitted DELETE reviews of pods without
  owners remove anything.
- `EveryRequestCounted`: what was handed to each worker is what it counted and what it has in hand,
  whatever the API server answered. It relates three goroutines and any number of handlers: a JVM
  pod's second Secret is counted by the secret creator on behalf of the certificate creator. It
  speaks of the first process, which saw every request, until channels are closed.
- `CountersAddUp`: created minus deleted is what is stored. Only without faults: with them the
  deleter counts lost calls as deletions (`deleter.go:93`).
- `NobodyWaitsInVain`: while one handler closes the three channels one by one, others send on them
  and workers leave their loops, nobody is stuck for good: a worker is gone only if its channel is
  closed or its closing under way, whoever closed one channel closes the rest, and nobody closes one
  before that handler gets to it. It is what the liveness of handlers and workers rests on.
- `KeepsNames`, in both models: every volume is named once and after the root of that moment.
- `EveryReviewAnswered`, `DownstreamStops`: the liveness of handlers and workers, also when
  channels close under them.
- `CancelledRequestLetsStop`: what is left of a graceful shutdown. A process that was told to stop
  ends by itself if some request was cancelled, since that is the only thing that closes the
  channels its workers wait on; `ShutdownCompletes`, without that condition, is refuted.
- `EventuallyProvisioned`: an admitted pod gets its Secret, and a JVM pod its truststore, by way of
  two workers and cert-manager; or the log says why not.
- `AnswerWasRoot`: although the owners are read one by one, the answer is a root the pod had at
  some moment of the walk, if no more than one owner changed (`changes > 1`). `RootIn` is the
  reference definition, of the root in one unchanging cluster. In a
  cycle an owner is read several times, and a single change may then mislead the walk.
- `DeepOnlyInCycles`, `WalkEnds`: the recursion has no bound of its own; unless owners own each
  other it is no deeper than there are owners, also when one of them changes during the walk; in a
  cycle the caller's timeout ends it.
- `PodStaysValid`: no volume twice, no mount twice in a container, no mount without a volume, no
  variable with both a value and a source. Manifests that cain makes invalid by adding to them are
  named in `Clashes`: the two CA volumes have one name, or the pod's own volume has the name of one
  of them (`mutator.go:320` does not look), or a JVM variable has a source (`mutator.go:444` gives
  it a value as well). The API server refuses those pods.
- `InjectedOnce`: every container present at injection has each part once, and no other has any.
- `VolumesAgree`: the CA and the truststore a pod mounts are those of one root, and of its present
  one, unless the root changed between the two walks or after them. A resubmitted manifest that
  already has the init container keeps its former root's volumes: that is the "later" of `moved`.
- `CommonNameFits`: a common name is at most `MaxCNLength` bytes, the end of what was asked for,
  and whole if it fits.

### Bounds

Constants in the cfgs, and what they are large enough for:

- Pods: two or three. A JVM pod of the Deployment `web` next to a bare pod called `web` shares its
  Secret, which is the collision the naming allows; two instances of a bare pod are a re-creation;
  a third pod declines injection. More pods only repeat these pairs.
- Bundles: two in `Restarts`, the old and the new CA; one elsewhere.
- Reviews: two or three at once. Handlers interact through one worker of each kind and through
  `closed`; with three, one holds the worker, one waits and one hangs up. `Reviews` and
  `Bundles` are symmetry sets in `Restarts` only, which has no liveness property.
- `Faults`: which kinds of fault a run has. They are split over the runs because every pair of
  groups multiplies the states; the theorems are about any subset of them.
- `MaxRestarts = 1`: nothing but `dropped`, the cluster and finished reviews survives a restart, so
  a second one starts from no new kind of state.
- `MaxChanges = 1` in `RootOwner` is all that `AnswerWasRoot` and `DeepOnlyInCycles` speak of: they
  say themselves that they promise nothing after a second change (`changes > 1`), and with two
  changes the answer need not have been the root at any moment. A Job is read, loses its own owner by that
  owner's orphan deletion, and the answer puts together an old and a new reference.
- Owner lists have at most two references (`Lists`), and the owner graph at most four levels, enough
  for a reference that counts after one that does not at every level. A ReplicaSet and a Deployment
  may own each other.
- `MaxDepth = 5` calls: one more than there are owners and the pod, so that a walk in a cycle gets
  past the limit that `DeepOnlyInCycles` is about. There it waits for the timeout, as the code
  would one level deeper.
- `MaxSteps = 5` steps of webhooks and owners in `Mutator`: a call takes two, so that a partial
  failure, a sidecar, a reinvocation, a resubmission and another complete call fit in all their orders.
  Three `Slots` for containers (symmetric): two that differ when cain comes, and one that is added
  later.
- `MaxCNLength = 5` with names of one and two bytes: one fits exactly, the other is too long by one.
- One re-parenting per pod (`Reparent`); every review is sent once.

Deadlock is checked in every run on `Cain`: `Rest` is the one step that changes nothing, and it is
enabled only when no handler and no worker is in the middle of anything, so a handler that waits
for a worker that never comes would be reported. A walk and the story of one pod end, and the cfgs
of `RootOwner` and `Mutator` say so.

### Fairness

Weak fairness of each handler, each worker, the shutdown steps, the return of `Wait` and the
restart: the Go scheduler runs what can run, API calls return, the kubelet restarts containers,
cert-manager gets to every Certificate. In
`RootOwner`, of the walk and of the request's timeout, which the API server's `timeoutSeconds`
sets. Weak fairness is enough for a blocked send because Go's channels queue their waiters, and in the
model a handler competes with finitely many reviews. Nothing is assumed of users, faults, kills or
the garbage collector.

## Findings

Each is a run that TLC ends with a counterexample to something the repository says of itself.

| Run | The code | What it says |
| --- | --- | --- |
| `ShutdownHangs` | workers range over channels that shutdown does not close, so `Wait` does not return after SIGTERM or a failed goroutine | `cain.go:204` a pool "for shutting down the various goroutines" |
| `CancelledRequest` | one caller that hangs up before `Validate` starts closes the channels of a process that goes on serving | `validator.go:61-65` "indicating to the downhill goroutines to stop" |
| `Miscount` | any status error of a Certificate's creation counts as one that already exists | `prometheus.go:29` |
| `Recreated` | the deletion for an old pod runs after its re-creation found the Secret there | `README.md:17-19` |
| `NameCollision` | a bare pod named like a Deployment shares, and on deletion removes, its Secret | `deleter.go:39`, `creator.go:35` "unique within the namespace" |
| `Password` | the password is base64-encoded twice, so the truststore has another one than the JVM is given | `certcreator.go:55` |

`DownstreamStops` shows the other side of `CancelledRequest`: once channels are closed all three
workers do stop, whatever they were doing, and `EveryReviewAnswered` that no handler stays blocked.

## Proofs

### The whole system

`CainProofs`, `ContractProofs` and `CountersProofs` prove, from the assumptions `ClusterAssumption`,
`RuntimeAssumption` and `ValidatorAssumption` on the constants and nothing else, for any pods,
names, owners, reviews, bundles, faults and number of restarts:

| Theorem | Says |
| --- | --- |
| `TypeCorrect` | `Spec => []TypeOK` |
| `NothingUnaskedEver` | `Spec => []NothingUnasked` |
| `OnlyAskedDeletionsEver` | `Spec => OnlyAskedDeletions`, an action property |
| `AdmittedIsProvisionedEver` | `Spec => []AdmittedIsProvisioned` |
| `CertificateHasPasswordEver` | `Spec => []CertificateHasPassword` |
| `NobodyWaitsInVainEver` | `Spec => []NobodyWaitsInVain` |
| `EveryRequestCountedEver` | `Spec => []EveryRequestCounted` |
| `CountersAddUpEver` | `Spec => []CountersAddUp` |
| `CreatedWithBundleEver` | `Spec => CreatedWithBundle`, an action property |
| `KeepsContractEver` | `Spec => KeepsContract`: Cain implements Provisioning |
| `KeepsNamesEver` | `Spec => KeepsNames`: Cain implements Injection |
| `CainNamesAgree`, `CainNamesOnce` | what Injection promises, of the pods of Cain |

The inductive invariant is a conjunction of parts, each shown to be kept with the help of the
ones before it:

1. `TypeOK` also says that a busy worker holds a well-formed request and a sending handler a root.
2. `HandlerInv`: what a handler's program counter implies about its review: at a send of a creation
   it is a CREATE with injection, past the root owner and no dry run, at `sendDelete` the DELETE of a
   pod without owners, and a review that has not resolved yet has no root.
3. `NothingUnasked` itself. It needs `HandlerInv`, because a request enters a worker by a handler's
   step, and it is kept later because what a review asked for never changes (`WantedStays`).
4. `SentInv`: what a handler past its sends has handed over is under way or accounted for. The step
   that needs care is every way a worker lets go of a request, a crash included: the object exists
   then, or `dropped` or `Orphaned` or `DeletionWanted` says why not (`UnderWayStays`,
   `AccountedStays`). Losing an object needs `NothingUnasked`: what the garbage collector takes was
   created for an owner that some review named.
5. `PodInv`: a live pod was let in by an allowed CREATE review that was not a dry run; and while the
   pod's owners are left alone, its reviews and its volumes name the root of its manifest. A pod that
   is unmoved after a step was so before it, since `Reparent` only moves away from that root
   (`UnmovedWas`, `RootRead`).
6. `CreatorInv` (in `ContractProofs`): the creator is idle while the process is down, never holds a
   Certificate, and the CA Secret it holds has the running process's bundle.
7. For `CertificateHasPassword` its own statement, and that the password of what the certificate
   creator holds past its send is accounted for.

`ProvisionedFromParts` puts 4 and 5 together to `AdmittedIsProvisioned`. `OnlyAskedDeletionsEver`
follows from 1 and 3, step by step, `CreatedWithBundleEver` from 6. `KeepsContractEver` maps every
action of `Next` to an action of the contract or a stutter: a handler's sends to `Ask`, an admission
to `Admit` (where 4 and 5 are needed), what ends a pod's wait to `Leave`, the workers' answers to
`Serve` and `GiveUp`, a crash to `GiveUp` of all that was in hand, deletions of owners and
permitted reviews to `Recall`, and the deleter and the garbage collector to `Remove` (where 3 is).

`NobodyWaitsInVain` needs `ChannelsInv`, which adds that the handler in the middle of closing has
closed the first channel already, and that a process that is down has neither such a handler nor a
worker that left its loop. Two lemmas say who can close (`ClosingSteps`) and who can leave
(`WorkersLeave`); the step that needs care is the first close, where every other handler must be
shown not to be closing.

The counters need sets that grow. `CountersProofs` adds that the sets of reviews behind them are
finite, with the same for what is stored (`FiniteInv`); shows which of those sets a step can
extend, and by how many (`Balanced`, for each namespace); and for `CountersAddUp` that a step that
stores or removes an object moves just one counter (`AddsUp`).

`KeepsNamesEver` maps the two steps of the mutating webhook to the two names, and everything else
that happens to a pod to giving up, a move of its root, or nothing (`OthersStay`, `RootStays`). It
needs that a pod has no name yet in a stage that has yet to give it (`UnnamedInv`).
`CainNamesAgree` and `CainNamesOnce` are instances of the theorems of `InjectionProofs`.

`ProvisioningProofs` proves of the contract alone that nothing owed is ever forgotten
(`NothingForgottenEver`).

### One pod, one walk

`MutatorProofs` proves all properties of its run, for any manifests, containers, names and
limits, from `ExtractorAssumption`, `VolumesAssumption`, `NamesAssumption` and
`MaxStepsAssumption`: `MutatorTypeCorrect`, `PodStaysValidEver`, `InjectedOnceEver`,
`VolumesAgreeEver`, `CommonNameFitsEver`, and `MutatorKeepsNames`, that Mutator implements
Injection. The inductive invariant says what the pod is made of at
any time: `PhaseInv` relates the init container, the truststore's volume and the stage of the call
(a truststore is there only after a complete injection), `VolumesInv` and `ContainersInv` count
every volume, mount, flag and variable as a function of those, and `NamesInv` follows the two names
through the two walks. None of the properties is inductive without the counts: that a part is
added once rests on what was there before.

`RootOwnerProofs` proves `RootOwnerTypeCorrect`: the stack of calls keeps its shape, and an answer is
never nil. The invariant adds that the stack is a sequence of calls with references of the
right type left, which the returns and the recursion preserve.

It also proves `DeepOnlyInCyclesEver`, from `RootOwnerAssumption` and `NoneAssumption` and for any
number of owners. `PathInv` keeps the owners as they were before the one change, and says that each
call under way was reached along a reference of the old graph up to some call, and of the new one
from there. If more calls are under way than there are owners, two calls are of one owner (by
counting, `DeepCycles`), and the part of the stack between them is a cycle in the old or in the
new graph, because only one owner's references differ.

`AnswerProofs` proves `AnswerWasRootEver` under the same assumptions. What a walk in an unchanging
cluster finds is given by `Roots`, a function that iterates once per owner; the proof shows by
counting the owners that have an answer that this is enough, so that `Roots` is a fixpoint
(`RootsFixed`). The invariant gives for every call under way the value it will yield (`Yield`), from
the references it has left and the one it found, in the graph it started in or the present one, and
keeps that equal to the root before or after the change (`AnswerInv`). The step that needs care is
the change itself, in the middle of a walk: without a cycle no owner above the changed one leads
back to it, so every call that has passed it keeps its old answer and every call below it gets either
the old or the new root, never a mixture (`Alike`, `RootsBelow`, `CallsChange`). Induction over
numbers, which the library offers only with an operator parameter, is derived there in first-order
form from the well-foundedness of the naturals (`Induction`).

### Only model-checked

- Liveness: `EventuallyProvisioned`, `EveryReviewAnswered`, `DownstreamStops`,
  `CancelledRequestLetsStop`, `WalkEnds`. Fairness and ENABLED are out of the prover's reach.

Everything else the passing runs check is a theorem. The runs that end in a counterexample are
TLC's alone.

## Not modelled

- `Family`, `TruststorePassword` and `JVMPath` in `metadata/extractor.go`, images, resources and
  mount paths: cain copies them. So two things that can go wrong with paths are listed as hazards
  without a property: a container that has a mount of its own where the bundle goes, and a
  `jvm-path` whose file name is not the key cert-manager uses.
- Pods without owners and with `generateName`: which name the mutating webhook sees is up to the API
  server. Every pod of the models has its name from the start.
- The order of init containers; only what each has is counted.
- cert-manager's issuers, renewals and failures. The metrics server: nothing depends on it.
- Several replicas of cain: their workers would only race where two reviews already do, with the
  API server as arbiter, but counters and leader election are not examined.
- A name chosen to imitate an affix (`x-truststore-password`), and names longer than Kubernetes
  allows after an affix was added.
- The init containers' scripts, the chart's templates, logging (`webhook/log.go`): no state.

## Plan

Written in order of importance.

Done: the pipeline from review to worker to API server with its faults and restarts; `RootOwner`;
`Mutator` with its names; `Extractor`; cert-manager and CA rotation; the contract and the proof that
Cain implements it; the contract for names and the proofs that Cain and Mutator implement it; proofs
of every safety property that a passing run checks.

Left:

1. `generateName`: a name that appears between the two webhooks, and what it does to
   `AdmittedIsProvisioned`.
2. Two replicas with one API server.
3. The safety half of what the liveness runs show of one pod: that each step on the way to its
   Secret, once taken, is not undone.
