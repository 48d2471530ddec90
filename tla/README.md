# Verification of the elastic-env-operator

TLA+ modules, TLC configurations and TLAPS proofs for the Kubernetes operator in
`src/`. The operator watches `SQBApplication`, `SQBPlane` and `SQBDeployment` custom
resources and keeps the Deployments, Services, Ingresses, volume claims and scrapes they
stand for. One idea runs through all of its code: **nothing is torn down unless a user put
the right checksum into the delete annotation** (`IsDeleted`, `handler.go:128-137`).

Contents: [inventory](#inventory), [modules](#modules-and-how-they-correspond-to-the-code),
[runs](#runs), [proofs](#proofs), [what the code does not keep](#findings),
[limits](#what-is-not-modelled), [plan](#plan).

## Inventory

| component (source) | state it keeps | operations | what makes it correct |
|---|---|---|---|
| reconcile loop (`domain/handler/handler.go`) | none; reads the informer cache, writes to the API server | `HandleReconcile`, `CreateOrUpdate`, `UpdateStatus`, `Delete`, `IsDeleted` | the gate lets nobody through unconfigured; a conflict or an error is retried; nothing is lost by writing from an old copy |
| controllers (`controllers/*.go`) | one work queue and one worker per kind | event filters (`predicate`) | no event is filtered that somebody needs |
| SQBApplication, SQBPlane (`sqbapplication_handler.go`, `sqbplane_handler.go`, `sqbdeploymentlist_handler.go`) | `status.mirrors`, `status.errorInfo` | cascade of the delete annotation, istio switch, deletion | cascade before owner; only marked objects go |
| SQBDeployment (`sqbdeployment_handler.go`) | initialized and istio annotations | initialization, its Deployment, deletion | has its Deployment while it lives, none afterwards |
| Deployment: life cycle (`deployment_handler.go:38-49, 403-511`) | finalizer | statuses of the owners, then the finalizer | a status never names a Deployment that is gone, and lists all that run |
| Deployment: pod template (`deployment_handler.go:50-400`) | template fields that stay because the update starts from the live object | `CreateOrUpdate` | shows what users wrote; pods are rolled only for a reason; a selector never changes |
| global configuration (`sqbconfigmap_entity.go`, `configmap_controller.go`) | settings, `initialized`, `ready`, an `RWMutex`, one timer per load before readiness | `FromMap`, the getters | the last content of the ConfigMap is in force; getters never block for ever |
| process start (`main.go`) | a 60 s timer | `initConfig` | panics only if there is no configuration |
| ingresses (`ingress_handler.go`) | Ingress objects, written by two controllers | create, update, delete | one rule per application, plane and host; public entries only while asked for |
| volume claims (`pvc_handler.go`) | PersistentVolumeClaims | create, delete | claims live as long as their SQBDeployment |
| services, scrapes (`service_handler.go`, `vmservice_scrape_handler.go`) | one object per application | create, update, delete | the Service selects the pods; the scrape follows the annotation |
| special route (`special_virtualservice_handler.go`) | a VirtualService | create, update, delete | a route per public entry |
| dead handlers (`virtualservice_handler.go`, `destinationrule_handler.go`, `service_monitor_handler.go`) | – | not called by any `Operate` | – |
| types and `Merge` (`api/v1alpha1`) | – | merge of deploy specs, called by tests only | – |
| webhook (`sqbdeployment_webhook.go`) | – | validators that log and return nil | – |
| generated clients, manifests | – | – | – |

Interactions. Users, the operator's four workers and the API server share the custom
resources. A worker hears of a change when the watch event has reached its kind's informer:
caches of different kinds are of different ages. Every update carries the resource version
of the copy it was made from, so an old copy is refused; *deletions carry none*. The
handlers of one kind write objects of another (application → SQBDeployment → Deployment →
statuses of application and plane), which queues the next worker. All workers ask the
global configuration, which the ConfigMap controller replaces behind a lock.

What is hard here: caches that lag; conflicts in the middle of a list of writes; deletions
that travel over four controllers; a process that dies in between and on its return *drops*
every event until it is ready; a lock taken twice; timers that race a load; and two ways to
stop without a word: an error whose text says "invalid" ends a reconcile for good
(`IgnoreInvalidError`, `handler.go:85-90`), and an object with KubeVela's label is neither
updated nor deleted, which counts as done (`handler.go:100-102, 118-120`). `PROJECT.json`
lists each hazard with its line and the properties that look at it.

## Modules and how they correspond to the code

**`Lifecycle`** – custom resources and Deployments, from the users' writes to the finalizer.

| module | code |
|---|---|
| `api`, `watch`, `cache` | API server, watch streams and informer caches (external, as `src/` uses them) |
| `queue`, `w` | work queue and worker of each controller; `w[k].fresh` is the set of objects whose copy in this reconcile has the API server's resource version |
| `phase` | `boot` (not initialized), `waiting` (initialized, not ready), `ready` |
| `hist` | history: what was ever created, what a user ever marked, and whose key was dropped for good (before readiness, or by an error that is not retried) and has not been queued since |
| `DropEvent`, `Begin` | the gate of `HandleReconcile` and `GetInstance` |
| `Fail`, `GiveUp`, `Report` | an error: `ReconcileFail` writes it to the status if it can, then the key is retried, or not (`IgnoreInvalidError`) |
| `HandlerFails` | any API call of the handlers fails, those of services, ingresses and claims included |
| `Put`, `LeftAlone`, `Update` | `CreateOrUpdate` of an object that exists: the write or its conflict; the silent return for KubeVela's label; either |
| `List`, `Item`, `Panic` | `sqbDeploymentListHandler` for applications and planes |
| `SdDefaults`, `SdInitialize`, `SdDeploy`, `SdUndeploy` | `IsInitialized`, `deploymentHandler.CreateOrUpdate` and `.Delete` |
| `DepList`, `DepStatus`, `DepFinish` | `Operate` of the Deployment controller (`deployment_handler.go:423-508`): list, status of application and plane, finalizer |
| `RejectMark`, `Finish` | the ends of the three `Operate` functions |
| `Deliver`, `Resync`, `Crash`/`Restart` | informers, the 10 h resync, the process |

One action is one write, or one read whose result later steps use; everything else can
happen in between. The data is cut down to what the life cycle depends on: the delete
annotation (absent, right, anything else), the initialized and injection flags, the mirrors
and error of a status, deletion timestamp and finalizer of a Deployment. Labels and
selectors are constants (`Labelled`, `AppOf`, `PlaneOf`), because the code never changes them.
KubeVela's label is the constant `Vela`: an object of it *may* carry the label at any call
that asks (`LeftAlone` beside `Put` in `Update`, and beside the deletion in `Finish`), whoever
puts it on or takes it off; any other object never does. That is wider than any one history
of the label, so what holds here holds of all. A Deployment is made with its SQBDeployment's
labels, hence `VelaAssumption`. Status updates do not ask for the label.

**`Readiness`** – the process from its start to the first reconcile that works: the
ConfigMap controller (`Get`, `Lock`, `FromMap`, `Log`), one timer per load (`Timer`),
`initConfig` (`Poll`, `Read`, `Second`, `Deadline`, `Panic`) and the reconciles as sequences
of getters. A getter is two actions, the read lock (`Enter`) and the rest, so a writer can
come in between; a *waiting* writer keeps readers out, as `sync.RWMutex` does. `ready` is
written by the timer without the lock: on a one-word boolean that is a write at some later
moment, which is what a timer action that may come late already is. What a reconcile does
after its questions is `Lifecycle`'s subject; what `Lifecycle` calls `Initialized` and
`Ready` are `FromMap` and `Timer` here.

**`IngressSync`** – the ingresses of one application, which two controllers write. It
composes the two ends that `Lifecycle` leaves as calls that may fail.

| module | code |
|---|---|
| `app`, `sd`, `ing`; `appSeen`, `sdSeen`, `seen` | the API server's objects; the informer caches of three kinds |
| `late`, `lateIng` | the objects whose events are under way; each arrives at a moment of its own |
| `Closed`, `Public` | the conditions of `Handle` (`ingress_handler.go:245-265`) |
| `AppPut`, `AppList`, `AppKeep`, `AppDelete` | `CreateOrUpdateForSqbapplication`: write the domains, list the ingresses, list the SQBDeployments, delete the difference; `DeleteForSqbapplication`: list and delete |
| `AppFinish` | the cascade of a marked application and its deletion, in one step (`Lifecycle` has it in pieces) |
| `SdPut`, `SdDelete`, `SdBlocked`, `SdFinish` | `CreateOrUpdateForSqbdeployment`, `DeleteForSqbdeployment`, the handlers before them without an application, the deletion |
| `AppRefused`, `SdRefused` | an error that is not retried, from any call of the two reconciles: the Service's before the ingresses, a refused Deployment's before the entry's (`Refused`, `GiveUp`) |
| `PutFails`, `Put`, `Remove`, `Take`, `Fail` | `CreateOrUpdate` and `Delete` of `handler.go` against a cache that may be behind, the retry, and what KubeVela's label keeps |

Users create, change and mark objects, or delete them without a mark. An ingress is its name:
application, class and host. A domain stands for the pair of its class
and host; the host of an entry is made from the SQBDeployment's own name. Deleting an
ingress is by name, writing it goes through the cache: it fails when the cache is behind.
An entry's ingress has all labels of its SQBDeployment, so KubeVela's can be on it: `VelaIng`
are the ingresses, `Vela` the custom resources that may carry it at a call, as in `Lifecycle`.
`hist.lost` are the keys whose last reconcile ended in an error that is not retried.

**`SdObjects`** – volume claims and the special route, which only the SQBDeployments' worker
writes.

| module | code |
|---|---|
| `claims`, `claimsSeen` | claims (`none`, `bound`, `going` while a pod still uses it) and those in the cache |
| `routes`, `routesSeen` | the VirtualServices, one per SQBDeployment at most |
| `settings` | `pvcEnable` and `istioEnable` of the ConfigMap; a change queues nobody |
| `app`, `Blocked`, `Passed` | whether the cache has the application (users make and delete it): without it the handlers of Deployment and ingress fail, and are retried |
| `ClaimList`, `MakeOne`/`Make`, `MakeDone`, `Drop`, `DropFails`, `DropDone` | `pvcHandler`: list by labels; per volume skip, find or create; delete the rest of the list, or all of it; the error that is lost |
| `RouteSkip`, `RoutePut`, `RouteLeftAlone`, `RouteDelete` | `specialVirtualServiceHandler.Handle` |
| `HandlerFails`, `Fail`, `GiveUp`, `Finish` | a failing API call anywhere in `Operate`, its retry, or none for an error that names something invalid; the deletion by name |
| `hist` | history: the claims that were ever dropped, the claims a clean-up did not see or could not delete (`hist.missed`: the cache did not hold them yet, their deletion failed, or KubeVela's label kept them), the SQBDeployments removed without the mark, the keys dropped by an error that is not retried or an update that the label kept back (`hist.lost`) |

**`Settings`** – `FromMap`, as a pure function of the settings before and the ConfigMap's data:
`FromData` gives the settings that follow the data whatever they were, `FromMap` adds the two
that outlive their key (`domainPostfix`, gateways). Data is a function from the keys that are
there; a number that does not parse is `<<>>`, which becomes the default. There is one
record field per field of `configMapData`; the flags `initialized` and `ready` beside it are
`Readiness`'s.

**`Rendering`** – what one application and one SQBDeployment look like in the cluster: the
Deployment with its template, the Service, the scrape, under a configuration that changes.

| module | code |
|---|---|
| `data`, `st` | the ConfigMap's data and the settings in force (`Settings!FromMap`) |
| `sd`, `app`, `seen`, `news`, `queue` | the custom resources, the copies the operator has, events on the way, keys waiting |
| `dep`, `svc`, `scrape` | the live objects |
| `last`, `hist` | history: what the last reconcile of the SQBDeployment worked from and how it ended; what was there before the operator, made anew, switched or lost |
| `Render`, with `Volumes`, `Mounts`, `Probes`, `InitContainers`, `NodeAffinity`, `Apart`, `Account`, `Strategy`, `Additional`, `Selector` | `deploymentHandler.CreateOrUpdate` and its helpers |
| `Defaulted`, `Acceptable` | what the API server adds to a new Deployment and what it refuses (external) |
| `SdDelete`, `SdGiveUp`, `SdSkip`, `SdWrite` | the reconcile of an SQBDeployment: deletion, an update that is refused and not retried, KubeVela's label, the write |
| `RenderService`, `RenderScrape`, `ScrapeFor`, `AppDelete`, `AppWrite` | `serviceHandler` and `vmserviceScrapeHandler`, in the application's reconcile |
| `Passes`, `EditSd`, `EditApp`, `EditData`, `Load`, `Resync`, `Restart` | users and filters, the ConfigMap's controller, the resync, a new process |

A reconcile is one action here, because between two of its steps nothing happens that the
steps would not see again at the next: an update from an old copy conflicts and is retried
(the steps are `Lifecycle`'s). What *is* kept is that a render starts from the live object:
a field is replaced, merged, filled if empty, or left alone, and `Render` says which for each.
`image` stands for all fields that are simply replaced (command, args, environment, resources,
hooks, replicas, host aliases); `grace` for a field that `deploymentSpec` may fill and the API
server defaults. `"bad"` is a text that is no JSON. `Namespace` is the one namespace modelled:
`deploymentSpec` applies in `sqb` only (`Extra`). KubeVela's label is data here: it comes with
an SQBDeployment's labels and stays in the live Deployment.

**`Deletion`** – the promise of the delete annotation, as an abstract specification: the operator
marks and removes only what was asked for, ends a workload before its
SQBDeployment goes, and lets none vanish that a status still lists. `Lifecycle` implements it
(`D`, `ImplementsDeletion`): `there` and `marked` are the API server's objects and their
annotations, `deps` the Deployments (`running`; `ending` with a deletion timestamp), `listed`
the mirrors of the owners' statuses, `asked` the history of users' marks. Caches, queues and
workers are hidden.

**`MCLifecycle`, `MCReadiness`, `MCIngressSync`, `MCSdObjects`, `MCRendering`** – names and
sets for TLC. **`LifecycleProofs`, `CascadeProofs`, `DeletionProofs`, `RestProofs`,
`ReadinessProofs`, `IngressProofs`, `SdObjectsProofs`, `RenderingProofs`** – the proofs.

## Runs

`tlc -config <run>.cfg <module>`; the small print of each is in its `.cfg`.

| run | instance | shows |
|---|---|---|
| `lifecycle_safety` | one application, plane, SQBDeployment, the Deployment with KubeVela's label at any moment or none; three user actions of any kind | `TypeOK`, `ExplicitDeletion`, `OperatorDeletes`, `MarkSurvives`, `StatusNamesDeployments`; `ImplementsDeletion`: all of it refines `Deletion` |
| `lifecycle_live` | as the first, with fairness, no resync, owners there from the start; two user actions of any kind but making something anew; the plane may carry KubeVela's label | `DeploymentsSettle`, `DeletionsSettle`, `StatusesSettle`, `CascadeReachesKnown`: events and retries alone are enough; `DeploymentsAtRest`, `StatusesAtRest`: every state in which nothing is left to do (`AtRest`) is one the operator should stop in |
| `lifecycle_crash` | an application with its SQBDeployment and Deployment, one user action (a mark, or the istio switch), one failing call and one crash anywhere, with the resync | `CascadeBeforeOwner`: a cascade that is cut anywhere never lets the owner go; `CrashedDeletionsSettle`: a half-done deletion of an application survives the crash and the dropped events; `DeletionsAtRest`: whenever no event is on its way, no key waits and no worker works, only a dropped key leaves a deletion half done. Nothing has KubeVela's label here |
| `readiness` | the reconciles of an application and of an SQBDeployment, whose ingress has a default host; two configurations, two edits, one panic | `ConfiguredFirst`, `DecisionIsCurrent`, `BecomesReady`; `EditsAppliedOrNested`, `ReconcilesEndOrNested`: nothing but the nested read lock (see `configlock`) keeps a configuration from being loaded or a reconcile from ending |
| `ingress` | one application, one domain, one SQBDeployment, two classes, two user actions or refused calls; SQBDeployments start with the first class; the application, and the entry in the second class, may carry KubeVela's label | `EntryKept`: the clean-up never takes a standing public entry for a stray; `EntriesSettle`, `DomainsSettle`: what is wanted is made; `StraysGo`: what is not, goes; `IngressesAtRest`: whenever nothing is left to do, everything wanted is there, without the resync. A stray may have to wait for it. Excepted by name: an entry whose SQBDeployment's last reconcile ended in an error that is not retried (`Due`), an ingress with KubeVela's label (`VelaIng`) |
| `sdobjects` | one SQBDeployment, two claims, two user actions, one failing call of either kind; the claims switched on at first; the SQBDeployment and both claims may carry KubeVela's label | `ClaimKept`: a steadily wanted claim is never deleted; `ClaimsGo`, in every state: a deleted SQBDeployment has left only claims that its clean-up did not see or could not delete, and gets no new one; `ClaimsSettle`: wanted claims are bound, whatever call failed and was retried; `RoutesSettle`: a route if and only if there is a public entry, and none left of what was marked. Both are about SQBDeployments that are `Due`, and about an application that is there |
| `rendering` | one application, one SQBDeployment, six contents for it and four for the application, three ConfigMaps; objects from before the operator, or everything rendered by a fresh process; three edits, deletions or restarts | `RestartIsNeutral`: a restart changes no setting but the two that outlive their key; `ServiceSelectsPods`; `RollsForAReason`: the same inputs leave the pods alone; `RefusedForCause`: what a new Deployment could be, the old one can become, with one named exception; `DefaultsAreForNew`; `SpecReaches`, `ScrapeFollows`: what users write arrives |
| `recreate`, `cascade`, `istio`, `configlock`, `entry` | the smallest that show it | the five disagreements under [Findings](#findings) |

Deadlock is not checked (`CHECK_DEADLOCK FALSE`): an operator with nothing to do rests, and
the bounded users stop. That nobody waits for ever is a liveness property instead
(`ReconcilesEndOrNested`, the `Settle` properties).

Bounds, and why they are enough. `MaxOps` counts user actions (in `IngressSync` the refused
calls too: one of two is an edit and a refusal of what it asks for): two or three are what the
stories need (create and mark; mark the owner while the child is marked; delete and create
again while the first is still going). `MaxLag` bounds the undelivered events of one kind; a
write waits when it is reached, so with 1 every cache is at most one write behind its server,
with 2 a worker can act on a copy two writes old. Caches of different kinds lag
independently in each. `MaxFaults` and `MaxCrashes` are one: a second fault in the same
reconcile finds the state the first one left. One application, plane and SQBDeployment
contain every pair of workers that share an object; with more, only a list of writes could
be cut in the middle, and for the safety of that the proofs of `CascadeProofs` hold for any
number. In `Readiness` two readers and the
writer are what the lock tells apart, and a third configuration would differ from the two
only by name: of those istio asks about, one is enabled and one would inject if it were.
In `IngressSync` and `SdObjects` an object is behind or not: any number of undelivered
events comes down to one bit, because the cache only ever shows the latest that arrived, and
a skipped intermediate version is one the cache never held. Two user actions are an edit and
its reversal, or a creation and its end; names do not interact except through the lists, and
the proofs of `IngressProofs` cover any number of them. `NginxInit` fixes the class of the
initial SQBDeployments, `FirstInit` which claim one with a single claim has: no definition
tells one class or claim from another. `NginxInit` also starts an application with its domain,
`FirstInit` with claims switched on and the application there: the other starts are an edit
away. In `SdObjects` two
claims let a list of writes stop half way. One SQBDeployment is the instance `ClaimKept` is
about, with two on the same labels it is false (see hazards).
In `Rendering` three actions are what the longest story needs: ask for something, stop
asking, change something else (the init container whose volume goes); the contents hold
each kind of field once (replaced, merged, filled, conditional, invalid), and two application
labels tell old objects from new ones.
KubeVela's label is a set of objects, each of which may or may not have it at each call, so one
run covers every moment of putting it on or off; the runs give it to an object whose other
properties stay worth asking (the Deployment in `lifecycle_safety`, where no property excepts
it; the plane beside an application without in `lifecycle_live`; the entry of one class of two
in `ingress`), and the theorems hold for every choice.
The proofs show that for the safety properties they cover the bounds do not matter.

Fairness. `Lifecycle`: every informer delivers and every worker goes on
(`WF_vars(Deliver(k))`, `WF_vars(Work(k))`), because each is a goroutine of its own with a
rate-limited but never abandoned queue; the ConfigMap is loaded and the delay passes; where
`Resyncs` is TRUE the informers' periodic resync (controller-runtime's default, 10 hours)
comes round. Users, faults and crashes are not fair. `Readiness`: the ConfigMap worker,
running timers, `initConfig` and each reconcile that has begun go on; edits, new events and
the deadline need not come. `IngressSync`: the informers, both workers, and the resync of the
application; SQBDeployments have none, because their filter drops an event without a new
generation or annotation (`controllers.go:11-26`). `SdObjects`: the informers, the worker, and
pods that let go of a deleted claim; no resync at all. `Rendering`: the informers, the load of
the ConfigMap, both workers; its resync may come but need not. Weak fairness of a step that
waits for the lock is the scheduler's: it is not enabled while the lock is taken.

## Proofs

Checked by TLAPS, for every value of the constants that meets the assumptions
(`RefAssumption`: selectors name applications and planes, and what exists at the start is
consistent; `NilAssumption`: the value for "no object" is no object; `VelaAssumption`: what has KubeVela's
label is an object of the model, and what is made with an SQBDeployment's labels has it if the
SQBDeployment has; `BoundAssumption`: the
bounds are numbers; `ConfigAssumption`: the same for `Readiness`; `NameAssumption`: the key of
the application is not an SQBDeployment's; `LegacyAssumption`: nor are the objects from before
the operator "no object"; `SpecAssumption`: the contents users write have the fields that the
properties read). Some theorems have a hypothesis of their own: `NoCreation`, that no user
creates anything; `NoRecreation`, that none creates something again that was there before;
`OneForTheLabels`, that no two SQBDeployments have the same labels, which in `SdObjects`,
where all have them, means one SQBDeployment; and `NilIsNoObject`, that what is rendered is
not `Nil`.

* `LifecycleProofs!TypeCorrect`: `Spec => []TypeOK`. Type correctness is not inductive: an
  update made by a worker takes the API server's object, whose kind is known only because the
  worker's copy is *current*. The invariant `TInv` adds that a current copy is of an object
  that exists and equal to it, that a cache with no event on the way holds the server's
  object, and that the last event on the way for an object carries its present value.
* `LifecycleProofs!DeletionIsExplicit`: `Spec => []ExplicitDeletion`, and `RemovalIsAsked`:
  `Spec => OperatorDeletes`. `SInv` says of *every* copy of an object – at the server, in a
  cache, in an event, in a worker's hands, in a list still to write – that it asks for its
  deletion only if a user did, for it or for an owner whose label it carries, and that the
  terminating Deployments belong to such. It is preserved because requests are never forgotten
  (`hist.asked` grows) and because a worker that writes a mark holds a marked owner. So the
  checksum protects against any number of lagging caches, conflicts, failures and crashes; a
  deletion by name of a recreated object is covered by the request for its predecessor (see
  hazards).
* `CascadeProofs`. `MarksStay` (`MarkSurvives`): most writes are made from copies that may be
  old. `CopyInv` says that a copy in a worker's hands *that may still be used for a write*
  (its version is the server's) has the server's delete annotation, so writing it back cannot
  take a mark away. `CascadeCovers` says how far a cascade reaches where users may create
  anything: for any set of SQBDeployments that a marked owner's list finds in the cache if
  they are there, and that nobody makes while the list is written (`Foreseen`, a condition on
  each step), the owner goes only when all of them are marked or gone. `Covered` is the
  invariant: while the worker of a marked owner goes through its list, each child is marked,
  gone, or still on the list; an owner is removed only with an empty list. A child that the
  cache does not hold yet is left, so the condition is the code's, not the proof's.
  Nor is one with KubeVela's label marked: its update returns nil without a write, the loop
  goes on, and the owner goes all the same; both theorems except `Vela`.
  `CascadeFirst` (`CascadeBeforeOwner`, under `NoCreation`): then all SQBDeployments are
  foreseen, because the cache holds every one that exists, and no event on its way takes one
  out (`KnownInv`).
* `DeletionProofs!StatusesAreTrue`: `Spec => []StatusNamesDeployments`. `NInv` follows the
  finalizer: every Deployment has it (`HasFinalizer`); of one that is gone neither cache nor
  events show more than a terminating copy, which no list counts (`GoneIsKnown`); what a
  status names exists (`Named`); an owner whose status names something is in the cache
  (`ListedIsKnown`), so its status is not skipped; and the worker that holds a current
  terminating copy has its Deployment in no status it has passed (`DepWorker`). There is one
  worker for Deployments, which is what the argument rests on: with `MaxConcurrentReconciles`
  above one two lists could overtake each other.
* `DeletionProofs!DeletionIsImplemented`: `Spec => ImplementsDeletion`, the refinement, from
  all the invariants above (`AllInv`) and `Ended`: a worker about to remove an SQBDeployment
  has ended its Deployment. `OneWrite` says that a step of the operator changes at most one
  object at the API server, so each maps to one step of `Deletion` or to none (`SdStep`,
  `OwnerStep`, `WorkloadStep`); `UserMaps` and `InitMaps` do the rest.
* `RestProofs`: `DeletionsRest`, `DeploymentsRest` and `StatusesRest` (`DeletionsAtRest`,
  `DeploymentsAtRest`, `StatusesAtRest`): a system that stops stops in the right state. This
  is the safe half of the `Settle` properties, without their fairness and for any number of
  objects, faults and crashes; the other half, that it does stop, is TLC's. `RInv` says of
  every object in a cache, at any moment, that it is *due* (its key waits, or an event is
  under way that its filter lets pass *from what the cache shows now*), or in the hands of a
  worker that has read what matters of it, or lost (`hist.lost`), or `Settled`. Of an
  object of `Vela` it says nothing, and the theorems except it: with the label a marked object
  stays, and a terminating Deployment keeps its finalizer. `StatusesRest` excepts none: statuses are written past the label. The filters
  compare two versions, so an event that passes now could be stopped after another is
  delivered; `FilterChain` is why that cannot happen: what a filter stops, it does not tell
  apart from what was there. `LatestComes` makes the last event on the way the present value,
  so that a write of one's own is due to be seen. This is enough for `DeletionsRest`, which
  has no hypothesis. The other two assume `NoRecreation`, that no custom resource is made
  twice under its name: the code violates `RecreatedIsDeployed`. Then a marked SQBDeployment
  stays marked in every copy newer than the first that shows it (`MarkInv`), so no worker with
  an old copy makes a Deployment that a newer one is tearing down, and events show a
  Deployment that begins to terminate only terminating or gone from there on (`TermInv`,
  `Ordered`). `ViewInv` and `StatusInv` say the same of a list half made and of a status as
  `RInv` of an object: what they say of a Deployment is what the cache says, or its key is
  due, or its worker will still list. `CountsCourse` is the lemma about the filter: it stops
  no event that changes a list.
* `RenderingProofs`: `RestartChangesNothing` (`RestartIsNeutral`, from `SettingsInv`),
  `ServiceFollowsPods` (`ServiceSelectsPods`), `LaterDefaultsOnly` (`DefaultsAreForNew`),
  `PodsRestUnasked` (`RollsForAReason`), `RefusalsHaveACause` (`RefusedForCause`) and
  `RenderingTyped`. `LiveInv` says what holds of live objects whoever made them: a
  Deployment's pods carry its selector, and the selectors of Deployment and Service are both
  the application's or both from before the operator, until `hist` says that one of them was
  made anew. `RollInv` says that the live Deployment is what the inputs of the last accepted
  reconcile make of it; the lemma behind it is `RenderAgain`: rendering on top of what was
  just rendered, with the API server's defaults filled in or not, gives the same template,
  field by field. It would fail for a helper that appends (`InitContainersAdd`). `ShapeInv`
  bounds the init containers by one, which is what the exception of `RefusedForCause` needs.
  `ContentRests` and `ScrapeRests` (`SpecAtRest`, `ScrapeAtRest`, stated there): when no event
  is to come and no key waits, the Deployment shows what users wrote and the scrape is there
  if asked for. The worker's copy is the object, or an event for it is under way, or was lost
  to a restart, or the two differ in what `GenerationAnnotationPredicate` does not look at;
  and an object that does not show its copy has its key waiting.
* `SdObjectsProofs`: `SdObjectsTyped` and `WantedClaimsStay` (`ClaimKept`, under
  `OneForTheLabels`). `CInv` orders the copies of an SQBDeployment by age: a claim that was
  not dropped is wanted by every copy newer than one that wants it (`Newer`), a claim that
  exists or is in the cache is wanted by the cache's copy and the worker's (`MadeIsWanted`),
  and so what the worker has listed and does not want was dropped (`Lists`). It does not
  matter that the list of claims is older or newer than the copy. `ClaimsGoBefore`
  (`ClaimsGo`): `LeftBehind` says that past the list of a marked SQBDeployment's clean-up the
  only bound claims are those still to drop and those it missed, and that this stays so once
  it is gone, because by then no key waits and no event of it is under way that would bring a
  worker with an older copy (`MarkedOnce`). `RoutesRest` and `WantedClaimsRest`
  (`RoutesAtRest`, `ClaimsAtRest`, stated there) are of the same kind: a copy in the cache is
  served (`RouteRight`, `ClaimRight`), or its key waits, or the worker is still on the way to
  it, or its last reconcile left a step out for good (`hist.lost`): it ended in an error that
  is not retried, of the Deployment's handler between claims and route, say, or it took a
  route for updated that KubeVela's label had kept from it. What the next event of the
  SQBDeployment brings is a new attempt, and the exception ends with it (`Begin`).
  `RoutesRest` has no hypothesis.
* `ReadinessProofs`: `GateIsConfigured` (`ConfiguredFirst`), `InjectIsCurrent`
  (`DecisionIsCurrent`), `ReadinessTyped`. `RInv` adds that whoever loads holds a ConfigMap,
  that a loaded configuration is never unloaded, that `main` holds the lock exactly while it
  reads, and that a reconcile inside `IsIstioInject` has witnessed the configuration in force.
  The lemma `OneWorker` reduces each step of a reconcile to what it does to its own worker.
  `LastContentRests` (`LoadedAtRest`, stated there): with no event under way and the
  controller idle, the last content is in force and readiness is there or has a timer.
  `NestedLockAlone` (`OnlyNestedBlocks`) is the safe half of `EditsAppliedOrNested`: while
  `FromMap` waits for the lock, somebody can take the step that brings it closer, except
  before the second lock of `GetDomainNameByClass`. So the deadlock of `configlock` is the
  only one, for any number of reconciles. `LockInv` says that nobody holds two locks
  elsewhere.
* `IngressProofs`: `IngressTyped` and `StandingEntriesStay` (`Spec => EntryKept`). The
  clean-up compares two lists from caches of different ages. `KInv` says why that is safe: an
  ingress of an entry only comes from a copy of its SQBDeployment that the cache held before
  (`MadeKnown`), and while the entry stands the cache cannot forget it (`SeenStands`,
  `ClosedIsNew`). So whoever finds the ingress in his list finds the entry in the *later* list
  of SQBDeployments, and spares it (`SparesKnown`). With the lists in the other order the
  argument, and the property, would break. `KInv` is inductive relative to `TInv` (types, who
  holds a copy, and a cache without events under way is right). `WantedIngressesRest`
  (`IngressesAtRest`): a domain of an open application, or a standing entry of one that was
  never closed, has its ingress whenever nothing is left to do, but for a key whose last
  reconcile ended in an error that is not retried (`hist.lost`) and for an ingress that may
  carry KubeVela's label (`VelaIng`). `WInv` says it of every
  moment: the ingress is there, or the worker still has it on its list, or its key waits, or
  an event that will queue it is under way, or the key is lost. The application's clean-up, which could take the
  entry's ingress meanwhile, is `KInv`'s case. It says nothing of strays: one that both
  workers missed may wait for the resync, as `StraysGo` does.

Only model-checked: all liveness, and with it every `Settle`, `Reaches` and `Follows`
property, `StraysGo`, `BecomesReady` and the two `OrNested`. Of most, a theorem has the part
that is safety: that a system which stops, stops in the right state (`RestProofs`, and the
`…Rest` theorems of the other modules); that it does stop is TLC's. Five of these states at
rest (`RoutesAtRest`, `ClaimsAtRest`, `SpecAtRest`, `ScrapeAtRest`, `LoadedAtRest`) are stated
in the proof modules and are no run's properties: the liveness property beside each is.
Liveness under fairness is out of the prover's reach, like `ENABLED` and induction over data.
Every safety property of the passing runs is proved.

## Findings

Each is a run that TLC refutes.

* `recreate` – README.md says to delete and recreate an SQBDeployment to change its selector.
  Recreated while the old Deployment terminates, it ends without one: the worker updates the
  terminating Deployment, and its removal is an event the filter drops.
* `cascade` – the cascade writes to the annotation map of an SQBDeployment that has none;
  the process panics, and the restarted one drops the event.
* `istio` – an SQBDeployment initialized from an old copy of its application keeps the old
  injection flag, because the switch skips what is not initialized.
* `configlock` – `GetDomainNameByClass` takes the read lock twice; a ConfigMap change
  between the two stops configuration and reconciles for good. `readiness` shows that this
  is the only such place: in every behaviour that never gets there, everything ends.
* `entry` – an application without a domain, or with its ingress switched off, deletes every
  generated ingress with its label, the public entries of its SQBDeployments included, at every
  resync; README.md:190 says that `public-entry` alone opens an entry, and the clean-up of an
  application *with* domains keeps them.

More that the models show, and that no run refutes, because no line of the repository
denies it or because there is no code to model:

* The 60 s timer of `initConfig` panics also when the configuration was loaded within the last
  second (`Readiness`: `Panic` with `initialized`).
* The list of a status is written by the reconcile of a Deployment only: a plane or application
  created after its Deployments has an empty list until one of them comes or goes
  (`StatusesAtRest` speaks of those that were there from the start).
* A claim outlives its SQBDeployment when its deletion fails once (`SdObjects`: `DropFails`) or
  when the cache did not hold it yet (`Unlisted`).
* An init container that nothing asks for any more is left alone, and still mounts every
  volume it did; if one of these goes, the API server refuses the update, and every
  later one (the exception in `RefusedForCause`).
* A text in `deploymentSpec` that is no JSON, or a volume without a source, ends the
  reconcile for good: the error is not retried, and correcting the ConfigMap or the
  application's port queues no SQBDeployment (`last.end` in `SpecReaches`).
* The filter of SQBDeployments looks at generation and annotations: an edit of its
  labels alone reaches nothing (`SameButLabels`).
* README.md:230 says that a new configuration is for services created later. That
  holds of fields the API server fills (`DefaultsAreForNew`); pull secrets, the init container's image
  and the volumes of claims reach existing Deployments at their next reconcile.
* The rolling update's 25 % of a new Deployment becomes 0 at its first update (`Strategy`).
* An object with KubeVela's label is neither updated nor deleted, and every caller takes that
  for done (`Lifecycle!LeftAlone`). An SQBDeployment with it is never initialized in the API
  server; the cascade passes it over and its owner goes; marked, it stays for ever. A marked
  owner with it stays after its cascade. The label stays in a live Deployment for good,
  because labels are only merged, and a Deployment with it that is deleted goes on
  terminating: the controller takes it out of the statuses, but the update that would remove
  the finalizer is not made, and no resync makes it (`Lifecycle!DepFinish`,
  `Rendering!SdDelete`); it holds the name against a new one.
* An error whose text says "invalid" ends a reconcile for good (`GiveUp`). The handlers of an
  SQBDeployment run in order, so a Deployment that is refused keeps its ingress and its route
  from being made as well, and correcting the application does not bring them
  (`IngressSync!SdRefused`, `hist.lost` in `EntriesSettle` and `RoutesSettle`).
* Two SQBDeployments of one application and plane delete each other's claims: the clean-up
  goes by the two labels, the names it keeps are those of one (`OneForTheLabels`).
* A Service from before the operator keeps its app label as selector; if its Deployment is made
  anew, or the other way round, it selects nothing (the condition in `ServiceSelectsPods`).
* README.md:23 says that a Deployment inherits its application's deploy section; nothing
  outside the tests calls `Merge`. README.md:19 speaks of owner references, which the code does
  not set, and README.md:191 of an annotation `init-container-image`, which it does not read.

## What is not modelled

* `Merge` and its sisters (`api/v1alpha1`), which only tests call: a model of them would say
  nothing about the program.
* The webhook, whose validators log and return nil.
* The dead handlers, and the gray ones in `service_handler.go` and
  `vmservice_scrape_handler.go`: commented out in every `Operate`.
* The rules and annotations of an ingress, the storage of a claim and the HTTP rules of a
  route: only the objects' existence. Of the pod template, the fields that are replaced as
  they are share one field.
* A composition of `Rendering` with the steps of `Lifecycle`: a reconcile of `Rendering` is
  one step (see there).
* The work queue's rate limiter (a retry may come at any time), and leader election (one
  process at a time; `initConfig` starts when elected).
* Flags, scheme and manager set-up in `main.go`: library calls.
* Admission, authorization and the API server beyond resource versions, finalizers, defaults,
  the refusals in `Acceptable` and watch events in order.
* Generated code (deep copies, clients) and manifests.

## Plan

Done: `Lifecycle`, `Readiness`, `IngressSync`, `SdObjects`, `Settings`, `Rendering`, `Deletion` and the
refinement; the theorems above. Left, in this order:

1. `ClaimKept` and `RoutesSettle` for SQBDeployments that share their labels: what is lost then,
   stated as a property.
2. Lemmas on `Volumes` and `FromMap` against a declarative definition (which source wins, which
   key decides).
3. If `Merge` or the dead handlers come back into use: a module for each, against a reference
   definition.
