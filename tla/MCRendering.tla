----------------------------- MODULE MCRendering -----------------------------
(* Instances of Rendering for TLC. *)
EXTENDS Rendering

LabelsOf(ks) == [k \in ks \cup {"app"} |-> IF k = "app" THEN App ELSE "x"]
Volume(from, named, podinfo) == [from |-> from, named |-> named, podinfo |-> podinfo]

Plain == [labels |-> LabelsOf({}), podAnnotations |-> Nil, image |-> "v1", delay |-> Nil,
          volumes |-> <<>>, init |-> Nil, near |-> Nil]

\* Nothing special, a label and an annotation more, volumes under an init container, a claim
\* that waits for its name, one without an image, one of KubeVela's.
SomeSpecs ==
    {Plain,
     [Plain EXCEPT !.labels = LabelsOf({"group"}), !.podAnnotations = "note"],
     [Plain EXCEPT !.image = "v2", !.delay = 300, !.init = "cmd", !.near = "ssd",
                   !.volumes = <<Volume({"emptyDir", "secret"}, TRUE, TRUE),
                                 Volume({"claim"}, TRUE, FALSE)>>],
     [Plain EXCEPT !.delay = 20, !.volumes = <<Volume({"claim"}, FALSE, FALSE)>>],
     [Plain EXCEPT !.image = Nil],
     [Plain EXCEPT !.labels = LabelsOf({"kubevela"})]}

Usual == [port |-> 80, labels |-> LabelsOf({"group"}), note |-> Nil, monitor |-> ""]

SomeAppSpecs ==
    {Usual,
     [Usual EXCEPT !.monitor = "good"],
     [Usual EXCEPT !.monitor = "bad", !.note = "note"],
     [Usual EXCEPT !.port = 0, !.labels = LabelsOf({"kubevela"}), !.monitor = "good"]}

SomeContents ==
    {[k \in {"victoriaMetricsEnable", "pvcEnable"} |-> "true"],
     [k \in {"deploymentSpec", "initContainerImage", "istioTimeout"} |->
         CASE k = "deploymentSpec" -> "60s" [] k = "initContainerImage" -> "agent"
           [] OTHER -> <<>>],
     [k \in {"deploymentSpec", "domainPostfix", "victoriaMetricsEnable"} |->
         CASE k = "deploymentSpec" -> "bad" [] k = "domainPostfix" -> {"d1"}
           [] OTHER -> "true"]}

\* Everything is there and rendered, by a process that has just started.
Running(x, a) ==
    /\ data \in Contents /\ st = FromMap(Unloaded, data) /\ st.deploymentSpec # "bad"
    /\ sd = [mark |-> FALSE, spec |-> x] /\ app = [mark |-> FALSE, spec |-> a]
    /\ seen = [sd |-> sd, app |-> app, data |-> data]
    /\ news = {} /\ queue = {}
    /\ Acceptable(Nil, Render(NoDeployment, x, a, st))
    /\ dep = Defaulted(Render(NoDeployment, x, a, st))
    /\ svc = RenderService(NoService, a)
    /\ scrape = IF st.victoriaMetricsEnable THEN RenderScrape(Nil, a) ELSE Nil
    /\ last = [spec |-> x, app |-> a, st |-> st, end |-> "taken"]
    /\ hist = [legacy |-> FALSE, renewed |-> FALSE, switched |-> FALSE, lost |-> {}]
    /\ ops = 0

RunningSpec ==
    /\ \/ Init /\ dep # Nil
       \/ \E x \in {y \in Specs : y.volumes # <<>>}, a \in {b \in AppSpecs : b.monitor = "good"} :
              Running(x, a)
    /\ [][Next]_vars /\ Fairness
=============================================================================
