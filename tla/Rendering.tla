------------------------------ MODULE Rendering ------------------------------
(***************************************************************************)
(* What the operator renders for one application and one SQBDeployment:    *)
(* the Deployment with its pod template, the Service and the scrape.  Each *)
(* starts from the live object, of which it replaces some fields, extends  *)
(* others and leaves the rest, so what runs depends on what ran before.    *)
(*                                                                         *)
(* A reconcile is one action here: until the worker's cache has the last   *)
(* write, its update conflicts and is retried (Lifecycle has the steps,    *)
(* and the cascade, the statuses and the finalizer, which are left out).   *)
(***************************************************************************)
EXTENDS Settings

CONSTANTS
    App,            \* the application's name, the value of the app label
    Ack,            \* the app label of objects that were there before the operator
    Nil,            \* no object, no value
    Specs,          \* what users write into the SQBDeployment
    AppSpecs,       \* what users write into the application
    Contents,       \* what administrators write into the ConfigMap
    Namespace,      \* where application and SQBDeployment are
    MaxOps          \* bound on user actions and restarts

\* Where a volume may come from, in the order getVolumeAndVolumeMounts asks.
Sources == <<"emptyDir", "hostPath", "configMap", "secret", "claim", "downwardAPI">>

ASSUME BoundAssumption == MaxOps \in Nat
ASSUME NilAssumption ==
    Nil \notin Specs /\ Nil \notin AppSpecs /\ Nil # App /\ Nil # Ack /\ Nil # "30s"
ASSUME SpecAssumption ==
    \A o \in Specs : {"podAnnotations", "image", "delay", "near"} \subseteq DOMAIN o

VARIABLES
    data,       \* the ConfigMap's data
    sd, app,    \* the custom resources: [mark : BOOLEAN, spec] or Nil
    seen,       \* the worker's copies: of sd, app and data
    news,       \* changes of sd and app whose event will pass the filter
    queue,      \* "sd" and "app" while they wait for their worker
    st,         \* the settings in force
    dep,        \* the live Deployment
    svc,        \* the live Service
    scrape,     \* the live VMServiceScrape
    last,       \* what the last reconcile of the SQBDeployment worked from, and its end
    hist,       \* legacy: there were objects before the operator; renewed: one of them, or
                \* a later one, was deleted; switched: the ConfigMap was edited; lost: which
                \* of "sd" and "app" had its event dropped or went without the mark
    ops         \* user actions and restarts so far

resources == <<data, sd, app>>
live == <<dep, svc, scrape>>
vars == <<data, sd, app, seen, news, queue, st, dep, svc, scrape, last, hist, ops>>

-----------------------------------------------------------------------------
(* The pod template *)

\* MergeStringMap: the second wins.
MergeStringMap(f, g) ==
    [k \in DOMAIN f \cup DOMAIN g |-> IF k \in DOMAIN g THEN g[k] ELSE f[k]]

Without(f, k) == [x \in DOMAIN f \ {k} |-> f[x]]
Subsumes(f, g) == DOMAIN g \subseteq DOMAIN f /\ \A k \in DOMAIN g : f[k] = g[k]

\* The sources a volume has: a claim without a name gets one from pvcHandler, if that is on.
Given(v, s) == {x \in v.from : x = "claim" => v.named \/ s.pvcEnable}

Source(v, s) == Sources[CHOOSE i \in DOMAIN Sources :
                            /\ Sources[i] \in Given(v, s)
                            /\ \A j \in 1 .. i - 1 : Sources[j] \notin Given(v, s)]

\* getVolumeAndVolumeMounts: each volume is mounted, those with a source are there.
Volumes(o, s) == [i \in {i \in DOMAIN o.volumes : Given(o.volumes[i], s) # {}} |->
                     Source(o.volumes[i], s)]

\* The application's container is spared /etc/podinfo.
Mounts(o) == {i \in DOMAIN o.volumes : ~o.volumes[i].podinfo}

\* addStartupProbe, for a health check with this initial delay.
Probes(delay) ==
    IF delay = Nil THEN Nil
    ELSE [first |-> delay, tries |-> (IF delay > 180 THEN delay ELSE 180) \div 10, delay |-> 10]

WantsInit(o, s) == o.init # Nil \/ s.initContainerImage # ""

InitContainer(o, s) ==
    [image |-> IF s.initContainerImage = "" THEN "busybox" ELSE s.initContainerImage,
     command |-> o.init, mounts |-> DOMAIN o.volumes]

\* Mutant: the init container is added to those that are there.
InitContainersAdd(o, s, old) == IF WantsInit(o, s) THEN Append(old, InitContainer(o, s)) ELSE old

\* The init container is made anew while something asks for it, and otherwise left alone.
InitContainers(o, s, old) == IF WantsInit(o, s) THEN <<InitContainer(o, s)>> ELSE old

\* addNodeAffinity: what the SQBDeployment asks for, none included, replaces what is there.
NodeAffinity(o) == o.near

\* addPodAntiAffinity: away from pods with the same app label, unless something is there.
Apart(old, podLabels) == IF old = Nil THEN Or(podLabels, "app", "") ELSE old

\* addVaultConfig: the group's account.
Account(o) == Or(o.labels, "group", "default")

\* configRollingUpdate: the API server's default, once it is there, becomes none unavailable.
Strategy(unavailable) == IF unavailable = "25%" THEN "0" ELSE unavailable

\* deploymentSpec is for one namespace.
Extra(s) == IF Namespace = "sqb" THEN s.deploymentSpec ELSE ""

\* Mutant: additionalSpec overrides what is there.
AdditionalOver(old, s) == IF Extra(s) = "" THEN old ELSE Extra(s)

\* additionalSpec: mergo fills what is empty.
Additional(old, s) == IF old = Nil /\ Extra(s) # "" THEN Extra(s) ELSE old

NoDeployment ==
    [labels |-> <<>>, selector |-> Nil, podLabels |-> <<>>, podAnnotations |-> Nil,
     image |-> Nil, port |-> 0, probes |-> Nil, volumes |-> <<>>, mounts |-> {}, secrets |-> {},
     inits |-> <<>>, near |-> Nil, apart |-> Nil, account |-> "default", grace |-> Nil,
     unavailable |-> Nil]

NoService == [port |-> 0, selector |-> <<>>, annotations |-> Nil, labels |-> <<>>]

\* What the API server adds to a new Deployment.
Defaulted(d) ==
    [d EXCEPT !.grace = IF @ = Nil THEN "30s" ELSE @,
              !.unavailable = IF @ = Nil THEN "25%" ELSE @]

\* Objects from before the operator: another app label, and the plane in the selector.
LegacyLabels == [k \in {"app", "version"} |-> IF k = "app" THEN Ack ELSE "base"]

LegacyDeployment ==
    Defaulted([NoDeployment EXCEPT
        !.labels = LegacyLabels, !.selector = LegacyLabels, !.podLabels = LegacyLabels,
        !.image = "legacy", !.port = 80])

LegacyService == [NoService EXCEPT !.port = 80, !.selector = LegacyLabels]

ASSUME LegacyAssumption == Nil # LegacyLabels /\ Nil # LegacyDeployment /\ Nil # LegacyService

\* Mutant: the selector follows the SQBDeployment.
SelectorAnew(old) == [k \in {"app"} |-> App]

\* The selector of a Deployment is immutable: one that is there stays.
Selector(old) == IF old.selector = Nil THEN [k \in {"app"} |-> App] ELSE old.selector

\* deploymentHandler.CreateOrUpdate: the object it hands to the API server.  image stands for
\* all that is replaced likewise: command, args, env, resources, hooks, replicas, host aliases.
Render(old, o, a, s) ==
    LET labels == MergeStringMap(old.labels, o.labels)
        podLabels == MergeStringMap(labels, Selector(old))
    IN [labels |-> Without(labels, "jaeger"), selector |-> Selector(old),
        podLabels |-> Without(podLabels, "jaeger"), podAnnotations |-> o.podAnnotations,
        image |-> o.image, port |-> a.port, probes |-> Probes(o.delay),
        volumes |-> Volumes(o, s), mounts |-> Mounts(o), secrets |-> s.imagePullSecrets,
        inits |-> InitContainers(o, s, old.inits),
        near |-> NodeAffinity(o), apart |-> Apart(old.apart, podLabels),
        account |-> Account(o),
        grace |-> Additional(old.grace, s),
        unavailable |-> Strategy(old.unavailable)]

\* What the API server accepts: an image, ports, mounts of volumes that are there, a selector that
\* selects the pods and never changes.
Acceptable(old, d) ==
    /\ d.image # Nil /\ d.port # 0
    /\ d.mounts \subseteq DOMAIN d.volumes
    /\ \A i \in DOMAIN d.inits : d.inits[i].mounts \subseteq DOMAIN d.volumes
    /\ Subsumes(d.podLabels, d.selector)
    /\ old # Nil => d.selector = old.selector

\* The part of a Deployment whose change rolls its pods.
Template(d) == IF d = Nil THEN Nil ELSE [d EXCEPT !.labels = <<>>, !.unavailable = Nil]

-----------------------------------------------------------------------------
(* Users, administrators, informers, the process *)

Init ==
    /\ data \in Contents /\ st = FromMap(Unloaded, data)
    /\ sd = Nil /\ app = Nil
    /\ seen = [sd |-> Nil, app |-> Nil, data |-> data]
    /\ news = {} /\ queue = {} /\ scrape = Nil /\ last = Nil
    /\ \/ dep = Nil /\ svc = Nil
       \/ dep = LegacyDeployment /\ svc = LegacyService
    /\ hist = [legacy |-> dep # Nil, renewed |-> FALSE, switched |-> FALSE, lost |-> {}]
    /\ ops = 0

UserStep == ops < MaxOps /\ ops' = ops + 1 /\ UNCHANGED <<live, seen, queue, st, last>>

\* Mutant: the filter looks at the generation only, which annotations do not change.
PassesGeneration(old, new) ==
    \/ old = Nil \/ new = Nil
    \/ [old.spec EXCEPT !.labels = <<>>, !.podAnnotations = Nil]
           # [new.spec EXCEPT !.labels = <<>>, !.podAnnotations = Nil]

\* The event filter of SQBDeployments: the labels are in neither generation nor annotations.
Passes(old, new) ==
    \/ old = Nil \/ new = Nil \/ old.mark # new.mark
    \/ [old.spec EXCEPT !.labels = <<>>] # [new.spec EXCEPT !.labels = <<>>]

\* Created, changed, marked for deletion, or deleted without the mark.
EditSd(o) ==
    /\ UserStep /\ sd' = o /\ o # sd
    /\ sd = Nil => ~o.mark
    /\ sd # Nil /\ o # Nil => ~sd.mark
    /\ news' = IF Passes(sd, o) THEN news \cup {"sd"} ELSE news
    /\ hist' = IF Passes(sd, o) THEN [hist EXCEPT !.lost = @ \ {"sd"}] ELSE hist
    /\ UNCHANGED <<data, app>>

EditApp(a) ==
    /\ UserStep /\ app' = a /\ a # app
    /\ app = Nil => ~a.mark
    /\ app # Nil /\ a # Nil => ~app.mark
    /\ news' = news \cup {"app"}
    /\ hist' = [hist EXCEPT !.lost = IF a = Nil THEN @ \cup {"app"} ELSE @ \ {"app"}]
    /\ UNCHANGED <<data, sd>>

EditData(c) ==
    /\ UserStep /\ data' = c /\ c # data
    /\ hist' = [hist EXCEPT !.switched = TRUE]
    /\ UNCHANGED <<sd, app, news>>

DeliverSd ==
    /\ seen.sd # sd \/ "sd" \in news
    /\ seen' = [seen EXCEPT !.sd = sd] /\ news' = news \ {"sd"}
    /\ queue' = queue \cup (news \cap {"sd"})
    /\ UNCHANGED <<resources, st, live, last, hist, ops>>

DeliverApp ==
    /\ "app" \in news
    /\ seen' = [seen EXCEPT !.app = app] /\ news' = news \ {"app"}
    /\ queue' = queue \cup {"app"}
    /\ UNCHANGED <<resources, st, live, last, hist, ops>>

\* The ConfigMap's controller; nobody is queued.
Load ==
    /\ seen.data # data /\ seen' = [seen EXCEPT !.data = data]
    /\ st' = FromMap(st, data)
    /\ UNCHANGED <<resources, news, queue, live, last, hist, ops>>

\* The periodic resync passes the filter of applications only.
Resync ==
    /\ seen.app # Nil /\ queue' = queue \cup {"app"}
    /\ UNCHANGED <<resources, seen, news, st, live, last, hist, ops>>

\* A new process: caches from a list, settings from the ConfigMap; any of the first events
\* are dropped, because they come before the operator is ready.
Restart ==
    /\ ops < MaxOps /\ ops' = ops + 1
    /\ st' = FromMap(Unloaded, data)
    /\ seen' = [sd |-> sd, app |-> app, data |-> data]
    /\ news' = {} /\ queue' \in SUBSET {k \in {"sd", "app"} : seen'[k] # Nil}
    /\ hist' = [hist EXCEPT !.lost = {"sd", "app"} \ queue']
    /\ UNCHANGED <<resources, live, last>>

-----------------------------------------------------------------------------
(* The SQBDeployment's worker *)

Frame == UNCHANGED <<data, app, seen, news, st, svc, scrape, ops>>
Done(k) == queue' = queue \ {k}

\* The last reconcile: what it worked from, and whether its Deployment was taken.
Outcome(end) ==
    last' = [spec |-> seen.sd.spec, app |-> seen.app.spec, st |-> st, end |-> end]

\* The label that keeps the operator from updating an object, not from creating one.
KubeVela(x) == "kubevela" \in DOMAIN x.labels

\* The SQBDeployment is gone.
SdGone ==
    /\ "sd" \in queue /\ seen.sd = Nil
    /\ Done("sd") /\ UNCHANGED <<sd, dep, last, hist>> /\ Frame

\* A marked one goes with its Deployment, which is deleted by name, whatever labels it has; but
\* with KubeVela's label neither is the SQBDeployment deleted nor the Deployment's finalizer
\* removed: it stays, terminating, and is as far from updates as before.
SdDelete ==
    /\ "sd" \in queue /\ seen.sd # Nil /\ seen.sd.mark
    /\ Done("sd")
    /\ dep' = IF dep # Nil /\ KubeVela(dep) THEN dep ELSE Nil
    /\ sd' = IF KubeVela(seen.sd.spec) THEN sd ELSE Nil
    /\ news' = IF sd' = sd THEN news ELSE news \cup {"sd"}
    /\ hist' = [hist EXCEPT !.renewed = @ \/ dep # dep']
    /\ UNCHANGED <<data, app, seen, st, svc, scrape, ops, last>>

\* Without the application in the cache, the reconcile fails and is retried.
Renders == "sd" \in queue /\ seen.sd # Nil /\ ~seen.sd.mark /\ seen.app # Nil

Rendered == Render(IF dep = Nil THEN NoDeployment ELSE dep, seen.sd.spec, seen.app.spec, st)

\* An update that would bring KubeVela's label is not made; a Deployment created with the label
\* keeps it.
Protected == dep # Nil /\ KubeVela(Rendered)

SdRefused == Extra(st) = "bad" \/ (~Protected /\ ~Acceptable(dep, Rendered))

\* The error names something invalid: it is not retried, and the handlers after it do not run.
SdGiveUp ==
    /\ Renders /\ SdRefused
    /\ Done("sd") /\ Outcome("refused") /\ UNCHANGED <<sd, dep, hist>> /\ Frame

SdSkip ==
    /\ Renders /\ ~SdRefused /\ Protected
    /\ Done("sd") /\ Outcome("skipped") /\ UNCHANGED <<sd, dep, hist>> /\ Frame

SdWrite ==
    /\ Renders /\ ~SdRefused /\ ~Protected
    /\ dep' = IF dep = Nil THEN Defaulted(Rendered) ELSE Rendered
    /\ Done("sd") /\ Outcome("taken") /\ UNCHANGED <<sd, hist>> /\ Frame

-----------------------------------------------------------------------------
(* The application's worker: Service and scrape *)

AppFrame == UNCHANGED <<data, seen, st, dep, last, ops>>

\* CreateOrUpdate of an object that is not refused.
Updated(old, new) == IF old # Nil /\ KubeVela(new) THEN old ELSE new

\* Mutant: the selector is made anew.
ServiceSelectorAnew(old) == [k \in {"app"} |-> App]

\* A selector that is there stays, without the plane.
ServiceSelector(old) ==
    Without(MergeStringMap([k \in {"app"} |-> App], old.selector), "version")

\* serviceHandler.CreateOrUpdate
RenderService(old, a) ==
    [port |-> a.port, selector |-> ServiceSelector(old), annotations |-> a.note,
     labels |-> MergeStringMap(old.labels, a.labels)]

\* vmserviceScrapeHandler.CreateOrUpdate
RenderScrape(old, a) ==
    [group |-> Or(a.labels, "group", ""), endpoints |-> a.monitor,
     labels |-> MergeStringMap(IF old = Nil THEN <<>> ELSE old.labels, a.labels)]

\* Mutant: nothing is deleted for an annotation that is gone.
ScrapeForMade(a) ==
    IF a.monitor \in {"", "bad"} THEN scrape ELSE Updated(scrape, RenderScrape(scrape, a))

\* vmserviceScrapeHandler.Handle: no endpoints, no scrape; endpoints that are no JSON are an
\* error, which is not retried.
ScrapeFor(a) == CASE a.monitor = "" -> Nil
                  [] a.monitor = "bad" -> scrape
                  [] OTHER -> Updated(scrape, RenderScrape(scrape, a))

AppGone ==
    /\ "app" \in queue /\ seen.app = Nil
    /\ Done("app") /\ UNCHANGED <<sd, app, news, svc, scrape, hist>> /\ AppFrame

\* deleteByLabel marks the SQBDeployment it lists, by its labels; an old copy conflicts and
\* the reconcile is retried.
Listed ==
    /\ seen.sd # Nil /\ Or(seen.sd.spec.labels, "app", "") = App
    /\ ~KubeVela(seen.sd.spec)

AppDelete ==
    /\ "app" \in queue /\ seen.app # Nil /\ seen.app.mark
    /\ Listed => sd = seen.sd
    /\ Done("app") /\ svc' = Nil
    /\ sd' = IF Listed THEN [seen.sd EXCEPT !.mark = TRUE] ELSE sd
    /\ app' = IF KubeVela(seen.app.spec) THEN app ELSE Nil
    /\ news' = news \cup (IF sd' = sd THEN {} ELSE {"sd"})
                    \cup (IF app' = app THEN {} ELSE {"app"})
    /\ scrape' = IF st.victoriaMetricsEnable THEN Nil ELSE scrape
    /\ hist' = [hist EXCEPT !.renewed = @ \/ svc # Nil]
    /\ AppFrame

AppWrite ==
    /\ "app" \in queue /\ seen.app # Nil /\ ~seen.app.mark
    /\ Done("app")
    /\ svc' = Updated(svc, RenderService(IF svc = Nil THEN NoService ELSE svc, seen.app.spec))
    /\ scrape' = IF st.victoriaMetricsEnable THEN ScrapeFor(seen.app.spec) ELSE scrape
    /\ UNCHANGED <<sd, app, news, hist>> /\ AppFrame

-----------------------------------------------------------------------------
Marked(S) == [mark : BOOLEAN, spec : S] \cup {Nil}

Work == SdGone \/ SdDelete \/ SdGiveUp \/ SdSkip \/ SdWrite
AppWork == AppGone \/ AppDelete \/ AppWrite

Next ==
    \/ \E o \in Marked(Specs) : EditSd(o)
    \/ \E a \in Marked(AppSpecs) : EditApp(a)
    \/ \E c \in Contents : EditData(c)
    \/ DeliverSd \/ DeliverApp \/ Load \/ Resync \/ Restart
    \/ Work \/ AppWork

Spec == Init /\ [][Next]_vars

\* Informers and workers keep running.
Fairness ==
    /\ WF_vars(DeliverSd) /\ WF_vars(DeliverApp) /\ WF_vars(Load)
    /\ WF_vars(Work) /\ WF_vars(AppWork)

LiveSpec == Spec /\ Fairness

-----------------------------------------------------------------------------
(* Properties *)

\* The types, and what the API server has taken stays acceptable: pods match their
\* Deployment's selector and mount what is there (deploymentHandler.CreateOrUpdate).
TypeOK ==
    /\ data \in Contents /\ seen.data \in Contents
    /\ {sd, seen.sd} \subseteq Marked(Specs) /\ {app, seen.app} \subseteq Marked(AppSpecs)
    /\ news \subseteq {"sd", "app"} /\ queue \subseteq {"sd", "app"}
    /\ dep # Nil => DOMAIN dep = DOMAIN NoDeployment /\ Len(dep.inits) \in {0, 1}
    /\ ops \in 0 .. MaxOps

\* What the settings in force say, a restart on the same ConfigMap would say too, but for the
\* domains and the gateways, which outlive their key (FromMap).
RestartIsNeutral ==
    seen.data = data =>
        LET f == FromMap(Unloaded, data) IN
        \A k \in DOMAIN f \ {"domainPostfix", "istioGateways"} : st[k] = f[k]

\* Pods are rolled only for a reason: a reconcile that works from the content, application and
\* settings of the last accepted one leaves the pod template alone, after a restart too
\* (the sticky and the rebuilt fields of deploymentHandler.CreateOrUpdate).
RollsForAReason ==
    [][/\ dep # Nil /\ dep' # Nil /\ Template(dep') # Template(dep)
       /\ last # Nil /\ last.end = "taken"
       => last' # last]_vars

\* A content that would do for a new Deployment does for the one that is there, whatever was
\* rendered before, with one exception: an init container that nothing asks for any more
\* still mounts volumes that are gone, and the update is refused for good.
RefusedForCause ==
    [][last' # last /\ last'.end = "refused" =>
        \/ Extra(st) = "bad"
        \/ ~Acceptable(Nil, Render(NoDeployment, seen.sd.spec, seen.app.spec, st))
        \/ /\ ~WantsInit(seen.sd.spec, st)
           /\ dep # Nil /\ dep.inits # <<>>
           /\ ~(dep.inits[1].mounts \subseteq DOMAIN Volumes(seen.sd.spec, st))]_vars

\* A default from deploymentSpec is for Deployments that are created later (README.md, on the
\* ConfigMap): the API server has filled the field of those that are there.
DefaultsAreForNew ==
    [][dep # Nil /\ dep' # Nil => dep'.grace = dep.grace]_vars

\* The Service selects the SQBDeployment's pods; two objects from before the operator stay
\* matched as long as neither is made anew (serviceHandler, deploymentHandler.CreateOrUpdate).
ServiceSelectsPods ==
    svc # Nil /\ dep # Nil /\ (hist.legacy => ~hist.renewed) =>
        Subsumes(dep.podLabels, Without(svc.selector, "version"))

\* In the end the Deployment shows what users wrote, unless the API server refused it, KubeVela
\* has the Deployment, or a restart lost the event: whatever is edited while a reconcile is
\* due or the ConfigMap changes (GenerationAnnotationPredicate, CreateOrUpdate).
Shows(d, o) ==
    /\ d # Nil /\ d.image = o.image /\ d.near = o.near /\ d.probes = Probes(o.delay)
    /\ d.podAnnotations = o.podAnnotations

SameButLabels(o, p) == [o EXCEPT !.labels = <<>>] = [p EXCEPT !.labels = <<>>]

SpecReaches ==
    <>[](/\ sd # Nil /\ ~sd.mark /\ app # Nil /\ ~app.mark /\ "sd" \notin hist.lost
         => \/ Shows(dep, sd.spec)
            \/ last # Nil /\ last.end # "taken" /\ SameButLabels(last.spec, sd.spec))

\* The scrape follows the application's annotation, once VictoriaMetrics is on and stays on,
\* and goes with the application (vmserviceScrapeHandler.Handle).
ScrapeFollows ==
    <>[](st.victoriaMetricsEnable /\ ~hist.switched /\ "app" \notin hist.lost =>
            /\ app # Nil /\ ~app.mark /\ app.spec.monitor # "bad" =>
                   (scrape # Nil <=> app.spec.monitor # "")
            /\ app = Nil => scrape = Nil)
=============================================================================
