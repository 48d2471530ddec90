--------------------------- MODULE RenderingProofs ---------------------------
(***************************************************************************)
(* Theorems about Rendering, for all specs, contents and bounds.           *)
(***************************************************************************)
EXTENDS Rendering, TLAPS

-----------------------------------------------------------------------------
(* A restart changes no setting but the domains and the gateways.          *)

\* The settings s are what the content c says.
Agree(s, c) ==
    \A k \in DOMAIN FromData(c) \ {"domainPostfix", "istioGateways"} : s[k] = FromData(c)[k]

\* The settings in force are those of the content that was loaded last.
SettingsInv ==
    /\ seen = [sd |-> seen.sd, app |-> seen.app, data |-> seen.data]
    /\ Agree(st, seen.data)

LEMMA FromMapAgrees ==
    ASSUME NEW old, NEW c
    PROVE  DOMAIN FromMap(old, c) = DOMAIN FromData(c) /\ Agree(FromMap(old, c), c)
<1> DEFINE d == FromData(c)
<1>1. d = [k \in DOMAIN d |-> d[k]] BY Zenon DEF FromData
<1>2. FromMap(old, c) =
          [d EXCEPT !.domainPostfix = Or(c, "domainPostfix", old.domainPostfix),
                    !.istioGateways = Gateways(Or(c, "istioGateways", old.istioGateways))]
  BY DEF FromMap
<1> HIDE DEF d
<1>3. /\ DOMAIN FromMap(old, c) = DOMAIN d
      /\ \A k \in DOMAIN d \ {"domainPostfix", "istioGateways"} : FromMap(old, c)[k] = d[k]
  BY <1>1, <1>2
<1> QED BY <1>3 DEF d, Agree

LEMMA SettingsInit == Init => SettingsInv
<1> SUFFICES ASSUME Init PROVE SettingsInv OBVIOUS
<1>1. seen = [sd |-> Nil, app |-> Nil, data |-> data] /\ st = FromMap(Unloaded, data)
  BY DEF Init
<1>2. Agree(st, data) BY <1>1, FromMapAgrees
<1> QED BY <1>1, <1>2 DEF SettingsInv

LEMMA SettingsNext == ASSUME SettingsInv, [Next]_vars PROVE SettingsInv'
<1>1. CASE UNCHANGED <<st, seen>> BY <1>1 DEF SettingsInv, Agree
<1>2. CASE Load \/ Restart
  <2>1. PICK old : st' = FromMap(old, data) BY <1>2 DEF Load, Restart
  <2>2. seen' = [sd |-> seen'.sd, app |-> seen'.app, data |-> data]
    BY <1>2 DEF Load, Restart, SettingsInv
  <2>3. Agree(st', data) BY <2>1, FromMapAgrees
  <2> QED BY <2>2, <2>3 DEF SettingsInv, Agree
<1>3. CASE DeliverSd \/ DeliverApp
  <2>1. st' = st /\ seen' = [sd |-> seen'.sd, app |-> seen'.app, data |-> seen.data]
    BY <1>3 DEF DeliverSd, DeliverApp, SettingsInv
  <2> QED BY <2>1 DEF SettingsInv, Agree
<1> QED
  BY <1>1, <1>2, <1>3
  DEF Next, vars, EditSd, EditApp, EditData, UserStep, Resync, Work, SdGone, SdDelete, SdGiveUp,
      SdSkip, SdWrite, Frame, AppWork, AppGone, AppDelete, AppWrite, AppFrame

\* In every reachable state the settings in force are those a new process would have, but for
\* the domains and the gateways, which outlive their key (FromMap).
THEOREM RestartChangesNothing == Spec => []RestartIsNeutral
<1>1. SettingsInv => RestartIsNeutral
  BY FromMapAgrees DEF SettingsInv, RestartIsNeutral, Agree
<1> QED BY <1>1, SettingsInit, SettingsNext, PTL DEF Spec

-----------------------------------------------------------------------------
(* What is live: selectors, labels of the pods, and the defaulted field.   *)

Own == [k \in {"app"} |-> App]
Legacy == [k \in {"app"} |-> Ack]

HistInv ==
    /\ hist = [legacy |-> hist.legacy, renewed |-> hist.renewed, switched |-> hist.switched,
               lost |-> hist.lost]
    /\ hist.legacy \in BOOLEAN /\ hist.renewed \in BOOLEAN

\* A live Deployment: its field has a value, and its pods are selected.
DepOK(d) ==
    d.grace # Nil /\ Subsumes(d.podLabels, d.selector) /\ d.selector \in {Own, LegacyLabels}

\* Both selectors say the same, as long as both objects are of the same time.
Matched ==
    /\ ~hist.legacy => /\ dep # Nil => dep.selector = Own
                       /\ svc # Nil => svc.selector = Own
    /\ hist.legacy /\ ~hist.renewed =>
           /\ dep # Nil /\ dep.selector = LegacyLabels
           /\ svc # Nil /\ Without(svc.selector, "version") = Legacy

LiveInv == HistInv /\ (dep # Nil => DepOK(dep)) /\ Matched

LEMMA SelectorNames ==
    /\ DOMAIN Own = {"app"} /\ Own["app"] = App
    /\ DOMAIN Legacy = {"app"} /\ Legacy["app"] = Ack
    /\ DOMAIN LegacyLabels = {"app", "version"}
    /\ LegacyLabels["app"] = Ack /\ LegacyLabels["version"] = "base"
  BY DEF Own, Legacy, LegacyLabels

\* The labels of the pods end with the selector.
LEMMA RenderOK ==
    ASSUME NEW old, NEW o, NEW a, NEW s, Selector(old) \in {Own, LegacyLabels}
    PROVE  /\ Render(old, o, a, s).selector = Selector(old)
           /\ Render(old, o, a, s).grace = Additional(old.grace, s)
           /\ Subsumes(Render(old, o, a, s).podLabels, Selector(old))
<1> DEFINE d == Render(old, o, a, s)
           sel == Selector(old)
           labels == MergeStringMap(old.labels, o.labels)
           pods == MergeStringMap(labels, sel)
<1>1. d.selector = sel /\ d.grace = Additional(old.grace, s) /\ d.podLabels = Without(pods, "jaeger")
  BY DEF Render
<1>2. "jaeger" \notin DOMAIN sel BY SelectorNames
<1> HIDE DEF sel, labels
<1>3. \A k \in DOMAIN sel : k \in DOMAIN pods /\ pods[k] = sel[k] BY DEF MergeStringMap
<1> HIDE DEF pods
<1>4. Subsumes(Without(pods, "jaeger"), sel) BY <1>2, <1>3 DEF Subsumes, Without
<1> QED BY <1>1, <1>4 DEF sel

LEMMA DefaultedOK ==
    ASSUME NEW old, NEW o, NEW a, NEW s
    PROVE  LET d == Render(old, o, a, s) IN
           /\ Defaulted(d).selector = d.selector /\ Defaulted(d).podLabels = d.podLabels
           /\ Defaulted(d).grace # Nil
<1> DEFINE d == Render(old, o, a, s)
<1>1. d = [k \in DOMAIN d |-> d[k]] /\ {"selector", "podLabels", "grace", "unavailable"} \subseteq DOMAIN d
  BY Zenon DEF Render
<1>2. DOMAIN d = DOMAIN d OBVIOUS
<1> HIDE DEF d
<1>3. Defaulted(d) = [d EXCEPT !.grace = IF @ = Nil THEN "30s" ELSE @,
                               !.unavailable = IF @ = Nil THEN "25%" ELSE @]
  BY DEF Defaulted
<1>4. /\ Defaulted(d).selector = d.selector /\ Defaulted(d).podLabels = d.podLabels
      /\ Defaulted(d).grace = IF d.grace = Nil THEN "30s" ELSE d.grace
  BY <1>1, <1>3
<1>5. Defaulted(d).grace # Nil BY <1>4, NilAssumption
<1> QED BY <1>4, <1>5 DEF d

\* The objects from before the operator.
LEMMA LegacyOK ==
    /\ LegacyDeployment # Nil => DepOK(LegacyDeployment) /\ LegacyDeployment.selector = LegacyLabels
    /\ LegacyService # Nil => Without(LegacyService.selector, "version") = Legacy
<1> DEFINE d == [NoDeployment EXCEPT
                   !.labels = LegacyLabels, !.selector = LegacyLabels, !.podLabels = LegacyLabels,
                   !.image = "legacy", !.port = 80]
<1>1. /\ d = [k \in DOMAIN d |-> d[k]] /\ {"selector", "podLabels", "grace", "unavailable"} \subseteq DOMAIN d
      /\ d.selector = LegacyLabels /\ d.podLabels = LegacyLabels
  BY DEF NoDeployment
<1> HIDE DEF d
<1>2. LegacyDeployment = [d EXCEPT !.grace = IF @ = Nil THEN "30s" ELSE @,
                                   !.unavailable = IF @ = Nil THEN "25%" ELSE @]
  BY Zenon DEF LegacyDeployment, Defaulted, d
<1>3. /\ LegacyDeployment.selector = LegacyLabels /\ LegacyDeployment.podLabels = LegacyLabels
      /\ LegacyDeployment.grace = IF d.grace = Nil THEN "30s" ELSE d.grace
  BY <1>1, <1>2
<1>4. DepOK(LegacyDeployment) BY <1>3, NilAssumption DEF DepOK, Subsumes
<1>5. LegacyService.selector = LegacyLabels BY DEF LegacyService, NoService
<1>6. Without(LegacyLabels, "version") = Legacy BY SelectorNames DEF Without, Legacy, LegacyLabels
<1> QED BY <1>3, <1>4, <1>5, <1>6

\* What becomes of the selector of a Service.
LEMMA ServiceSelectorOK ==
    ASSUME NEW old
    PROVE  /\ old.selector \in {Own, <<>>} => ServiceSelector(old) = Own
           /\ Without(old.selector, "version") = Legacy =>
                  Without(ServiceSelector(old), "version") = Legacy
<1> DEFINE f == old.selector
           m == MergeStringMap(Own, f)
<1>1. ServiceSelector(old) = Without(m, "version") BY DEF ServiceSelector, Own
<1>2. /\ m = [k \in {"app"} \cup DOMAIN f |-> IF k \in DOMAIN f THEN f[k] ELSE Own[k]]
  BY SelectorNames DEF MergeStringMap
<1> HIDE DEF f, m
<1>6. DOMAIN m \ {"version"} = {"app"} /\ m["app"] = App => Without(m, "version") = Own
  BY DEF Without, Own
<1>3. ASSUME f = <<>> PROVE ServiceSelector(old) = Own
  <2>1. DOMAIN f = {} BY <1>3
  <2>2. DOMAIN m \ {"version"} = {"app"} /\ m["app"] = App
    BY <1>2, <2>1, SelectorNames
  <2> QED BY <1>1, <1>6, <2>2
<1>4. ASSUME f = Own PROVE ServiceSelector(old) = Own
  <2>1. DOMAIN m \ {"version"} = {"app"} /\ m["app"] = App
    BY <1>2, <1>4, SelectorNames
  <2> QED BY <1>1, <1>6, <2>1
<1>5. ASSUME Without(f, "version") = Legacy
      PROVE  Without(Without(m, "version"), "version") = Legacy
  <2>1. DOMAIN f \ {"version"} = {"app"} /\ f["app"] = Ack
    BY <1>5, SelectorNames DEF Without
  <2>2. DOMAIN m \ {"version"} = {"app"} /\ m["app"] = Ack BY <1>2, <2>1
  <2>3. Without(m, "version") = Legacy BY <2>2 DEF Without, Legacy
  <2>4. Without(Legacy, "version") = Legacy BY DEF Without, Legacy
  <2> QED BY <2>3, <2>4
<1> QED
  <2>1. (f = Own \/ f = <<>>) => ServiceSelector(old) = Own BY <1>3, <1>4
  <2>2. Without(f, "version") = Legacy => Without(ServiceSelector(old), "version") = Legacy
    BY <1>1, <1>5
  <2> QED BY <2>1, <2>2 DEF f

LEMMA LiveInit == Init => LiveInv
<1> SUFFICES ASSUME Init PROVE LiveInv OBVIOUS
<1>1. hist = [legacy |-> dep # Nil, renewed |-> FALSE, switched |-> FALSE, lost |-> {}] BY DEF Init
<1>2. HistInv /\ hist.legacy = (dep # Nil) BY <1>1 DEF HistInv
<1>3. CASE dep = Nil /\ svc = Nil BY <1>2, <1>3 DEF LiveInv, Matched
<1>4. CASE dep = LegacyDeployment /\ svc = LegacyService
  <2>1. LegacyService # Nil /\ LegacyDeployment # Nil BY LegacyAssumption
  <2> QED BY <1>2, <1>4, <2>1, LegacyOK DEF LiveInv, Matched
<1> QED BY <1>3, <1>4 DEF Init

\* One object stays, is made anew when the other's time is over, or is rendered on what it was.
LEMMA MatchedStays ==
    ASSUME LiveInv, HistInv', hist'.legacy = hist.legacy, hist.renewed => hist'.renewed,
           \/ dep' = dep
           \/ /\ hist.legacy => hist'.renewed
              /\ ~hist.legacy /\ dep' # Nil => dep'.selector = Own
           \/ dep # Nil /\ dep' # Nil /\ dep'.selector = dep.selector,
           \/ svc' = svc
           \/ /\ hist.legacy => hist'.renewed
              /\ ~hist.legacy /\ svc' # Nil => svc'.selector = Own
           \/ svc # Nil /\ svc' # Nil /\ svc'.selector = ServiceSelector(svc)
    PROVE  Matched'
  BY ServiceSelectorOK DEF LiveInv, Matched, HistInv

\* The history only grows.
LEMMA HistStep ==
    ASSUME HistInv, [Next]_vars
    PROVE  /\ HistInv' /\ hist'.legacy = hist.legacy /\ (hist.renewed => hist'.renewed)
           /\ SdDelete => dep' = dep \/ (dep' = Nil /\ hist'.renewed)
           /\ AppDelete /\ svc # Nil => hist'.renewed
<1>1. \/ UNCHANGED hist
      \/ \E x : hist' = [hist EXCEPT !.lost = x]
      \/ hist' = [hist EXCEPT !.switched = TRUE]
      \/ hist' = [hist EXCEPT !.renewed = @ \/ dep # dep']
      \/ hist' = [hist EXCEPT !.renewed = @ \/ svc # Nil]
  BY DEF Next, vars, EditSd, EditApp, EditData, DeliverSd, DeliverApp, Load, Resync, Restart,
         Work, SdGone, SdDelete, SdGiveUp, SdSkip, SdWrite, AppWork, AppGone, AppDelete, AppWrite
<1>2. /\ HistInv' /\ hist'.legacy = hist.legacy /\ (hist.renewed => hist'.renewed)
  BY <1>1 DEF HistInv
<1>3. SdDelete => dep' = dep \/ (dep' = Nil /\ hist'.renewed) BY DEF SdDelete, HistInv
<1>4. AppDelete /\ svc # Nil => hist'.renewed BY DEF AppDelete, HistInv
<1> QED BY <1>2, <1>3, <1>4

\* What the handlers make is an object.
NilIsNoObject ==
    \A old, o, a, s :
        /\ RenderService(old, a) # Nil /\ RenderScrape(old, a) # Nil
        /\ Render(old, o, a, s) # Nil /\ Defaulted(Render(old, o, a, s)) # Nil
        /\ \A e : [spec |-> o, app |-> a, st |-> s, end |-> e] # Nil

LEMMA SdWriteLive ==
    ASSUME LiveInv, NilIsNoObject, SdWrite
    PROVE  /\ dep' # Nil => DepOK(dep')
           /\ dep = Nil => (hist.legacy => hist.renewed) /\ dep'.selector = Own
           /\ dep # Nil => /\ dep'.selector = dep.selector /\ dep'.grace = dep.grace
                          /\ dep' # Nil
<1> DEFINE o == seen.sd.spec
           a == seen.app.spec
<1>1. CASE dep = Nil
  <2>1. hist.legacy => hist.renewed BY <1>1 DEF LiveInv, Matched, HistInv
  <2>2. dep' = Defaulted(Render(NoDeployment, o, a, st)) BY <1>1 DEF SdWrite, Rendered
  <2>3. Selector(NoDeployment) = Own BY DEF Selector, NoDeployment, Own
  <2>4. dep'.selector = Own /\ DepOK(dep') BY <2>2, <2>3, RenderOK, DefaultedOK DEF DepOK
  <2> QED BY <1>1, <2>1, <2>4
<1>2. CASE dep # Nil
  <2>1. dep' = Render(dep, o, a, st) BY <1>2 DEF SdWrite, Rendered
  <2>2. DepOK(dep) BY <1>2 DEF LiveInv
  <2>3. Selector(dep) = dep.selector /\ Selector(dep) \in {Own, LegacyLabels}
    BY <2>2, LegacyAssumption DEF Selector, Own, DepOK
  <2>4. Additional(dep.grace, st) = dep.grace BY <2>2 DEF Additional, DepOK
  <2>5. dep' # Nil BY <2>1 DEF NilIsNoObject
  <2> QED BY <1>2, <2>1, <2>2, <2>3, <2>4, <2>5, RenderOK DEF DepOK
<1> QED BY <1>1, <1>2

\* The Deployment: nobody else writes it.
LEMMA DepNext ==
    ASSUME LiveInv, NilIsNoObject, [Next]_vars
    PROVE  /\ dep' # Nil => DepOK(dep')
           /\ \/ dep' = dep
              \/ /\ hist.legacy => hist'.renewed
                 /\ dep' # Nil => dep = Nil /\ dep'.selector = Own
              \/ /\ dep # Nil /\ dep'.selector = dep.selector /\ dep'.grace = dep.grace
                 /\ dep' # Nil
<1>1. CASE SdWrite BY <1>1, SdWriteLive DEF SdWrite
<1>2. CASE SdDelete
  <2>1. dep' = dep \/ (dep' = Nil /\ hist'.renewed) BY <1>2, HistStep DEF LiveInv
  <2> QED BY <2>1 DEF LiveInv
<1>3. CASE dep' = dep BY <1>3 DEF LiveInv
<1> QED
  BY <1>1, <1>2, <1>3
  DEF Next, vars, live, EditSd, EditApp, EditData, UserStep, DeliverSd, DeliverApp, Load, Resync,
      Restart, Work, SdGone, SdGiveUp, SdSkip, AppWork, AppGone, AppDelete, AppWrite, AppFrame

LEMMA SvcNext ==
    ASSUME LiveInv, NilIsNoObject, [Next]_vars
    PROVE  \/ svc' = svc
           \/ /\ hist.legacy => hist'.renewed
              /\ ~hist.legacy /\ svc' # Nil => svc'.selector = Own
           \/ svc # Nil /\ svc' # Nil /\ svc'.selector = ServiceSelector(svc)
<1>1. CASE AppWrite
  <2> DEFINE old == IF svc = Nil THEN NoService ELSE svc
             new == RenderService(old, seen.app.spec)
  <2>1. svc' = svc \/ svc' = new BY <1>1 DEF AppWrite, Updated
  <2>2. new.selector = ServiceSelector(old) BY DEF RenderService
  <2>3. CASE svc = Nil
    <3>1. old.selector = <<>> BY <2>3 DEF NoService
    <3>2. new.selector = Own BY <2>2, <3>1, ServiceSelectorOK
    <3>3. hist.legacy => hist'.renewed
      BY <1>1, <2>3 DEF LiveInv, Matched, HistInv, AppWrite
    <3> QED BY <2>1, <3>2, <3>3
  <2>4. CASE svc # Nil
    <3>1. new # Nil BY DEF NilIsNoObject
    <3> HIDE DEF new
    <3> QED BY <2>1, <2>2, <2>4, <3>1
  <2> QED BY <2>3, <2>4
<1>2. CASE AppDelete
  <2>1. svc' = Nil BY <1>2 DEF AppDelete
  <2>2. hist.legacy => hist'.renewed \/ svc' = svc
    BY <1>2, <2>1, HistStep DEF LiveInv
  <2> QED BY <2>1, <2>2
<1>3. CASE svc' = svc BY <1>3
<1> QED
  BY <1>1, <1>2, <1>3
  DEF Next, vars, live, EditSd, EditApp, EditData, UserStep, DeliverSd, DeliverApp, Load, Resync,
      Restart, Work, SdGone, SdDelete, SdGiveUp, SdSkip, SdWrite, Frame, AppWork, AppGone

LEMMA LiveNext ==
    ASSUME LiveInv, NilIsNoObject, [Next]_vars
    PROVE  LiveInv'
<1>1. HistInv' /\ hist'.legacy = hist.legacy /\ (hist.renewed => hist'.renewed)
  BY HistStep DEF LiveInv
<1>2. dep' # Nil => DepOK(dep') BY DepNext
<1>3. \/ dep' = dep
      \/ /\ hist.legacy => hist'.renewed
         /\ ~hist.legacy /\ dep' # Nil => dep'.selector = Own
      \/ dep # Nil /\ dep' # Nil /\ dep'.selector = dep.selector
  BY DepNext
<1>4. Matched' BY <1>1, <1>3, SvcNext, MatchedStays
<1> QED BY <1>1, <1>2, <1>4 DEF LiveInv

LEMMA SelectsPods == LiveInv => ServiceSelectsPods
<1> SUFFICES ASSUME LiveInv, svc # Nil, dep # Nil, hist.legacy => ~hist.renewed
             PROVE  Subsumes(dep.podLabels, Without(svc.selector, "version"))
  BY DEF ServiceSelectsPods
<1>1. Subsumes(dep.podLabels, dep.selector) BY DEF LiveInv, DepOK
<1>2. CASE ~hist.legacy
  <2>1. dep.selector = Own /\ svc.selector = Own BY <1>2 DEF LiveInv, Matched
  <2>2. Without(Own, "version") = Own BY DEF Without, Own
  <2> QED BY <1>1, <2>1, <2>2
<1>3. CASE hist.legacy
  <2>1. dep.selector = LegacyLabels /\ Without(svc.selector, "version") = Legacy
    BY <1>3 DEF LiveInv, Matched
  <2> QED BY <1>1, <2>1, SelectorNames DEF Subsumes
<1> QED BY <1>2, <1>3 DEF LiveInv, HistInv

\* The Service selects the pods of the SQBDeployment, whatever labels users write and whatever
\* was there before the operator, until one of two objects of the same time is made anew
\* (serviceHandler, deploymentHandler.CreateOrUpdate).
THEOREM ServiceFollowsPods == ASSUME NilIsNoObject PROVE Spec => []ServiceSelectsPods
<1>1. LiveInv /\ [Next]_vars => LiveInv' BY LiveNext
<1> QED BY <1>1, LiveInit, SelectsPods, PTL DEF Spec

\* A default of deploymentSpec reaches no Deployment that is there (README.md, on the ConfigMap).
THEOREM LaterDefaultsOnly == ASSUME NilIsNoObject PROVE Spec => DefaultsAreForNew
<1>1. LiveInv /\ [Next]_vars => LiveInv' BY LiveNext
<1>2. LiveInv /\ [Next]_vars => [dep # Nil /\ dep' # Nil => dep'.grace = dep.grace]_vars
  BY DepNext
<1> QED BY <1>1, <1>2, LiveInit, PTL DEF Spec, DefaultsAreForNew

-----------------------------------------------------------------------------
(* Rendering twice is rendering once: pods are rolled only for a reason.   *)

Fields ==
    {"labels", "selector", "podLabels", "podAnnotations", "image", "port", "probes", "volumes",
     "mounts", "secrets", "inits", "near", "apart", "account", "grace", "unavailable"}

LEMMA RenderFields ==
    ASSUME NEW old, NEW o, NEW a, NEW s
    PROVE  LET d == Render(old, o, a, s)
               labels == MergeStringMap(old.labels, o.labels)
               podLabels == MergeStringMap(labels, Selector(old))
           IN /\ d = [k \in Fields |-> d[k]]
              /\ d.labels = Without(labels, "jaeger") /\ d.selector = Selector(old)
              /\ d.podLabels = Without(podLabels, "jaeger")
              /\ d.podAnnotations = o.podAnnotations /\ d.image = o.image /\ d.port = a.port
              /\ d.probes = Probes(o.delay) /\ d.volumes = Volumes(o, s) /\ d.mounts = Mounts(o)
              /\ d.secrets = s.imagePullSecrets /\ d.inits = InitContainers(o, s, old.inits)
              /\ d.near = NodeAffinity(o) /\ d.apart = Apart(old.apart, podLabels)
              /\ d.account = Account(o) /\ d.grace = Additional(old.grace, s)
  BY DEF Render, Fields

\* d with the API server's defaults.
LEMMA DefaultedFields ==
    ASSUME NEW d, d = [k \in Fields |-> d[k]]
    PROVE  /\ Defaulted(d) = [k \in Fields |-> Defaulted(d)[k]]
           /\ \A k \in Fields \ {"grace", "unavailable"} : Defaulted(d)[k] = d[k]
           /\ Defaulted(d).grace = IF d.grace = Nil THEN "30s" ELSE d.grace
<1>1. /\ DOMAIN d = Fields /\ "grace" \in Fields /\ "unavailable" \in Fields
      /\ "grace" # "unavailable"
  BY DEF Fields
<1>2. Defaulted(d) = [d EXCEPT !.grace = IF @ = Nil THEN "30s" ELSE @,
                               !.unavailable = IF @ = Nil THEN "25%" ELSE @]
  BY DEF Defaulted
<1> HIDE DEF Fields
<1> QED BY <1>1, <1>2

\* The template is everything but the Deployment's own labels and the strategy.
LEMMA SameTemplate ==
    ASSUME NEW c, NEW d, c = [k \in Fields |-> c[k]], d = [k \in Fields |-> d[k]],
           c # Nil, d # Nil, \A k \in Fields \ {"labels", "unavailable"} : c[k] = d[k]
    PROVE  Template(c) = Template(d)
<1> DEFINE T(x) == [k \in Fields |-> IF k = "labels" THEN <<>> ELSE
                                     IF k = "unavailable" THEN Nil ELSE x[k]]
<1>1. "labels" \in Fields /\ "unavailable" \in Fields BY DEF Fields
<1>2. ASSUME NEW x, x # Nil, x = [k \in Fields |-> x[k]] PROVE Template(x) = T(x)
  <2>1. Template(x) = [x EXCEPT !.labels = <<>>, !.unavailable = Nil] BY <1>2 DEF Template
  <2> QED BY <1>1, <1>2, <2>1
<1>3. T(c) = T(d) OBVIOUS
<1> QED BY <1>2, <1>3

AppLabel(f) == Or(f, "app", "")

LEMMA ApartLabel ==
    \A old, f : Apart(old, f) = IF old = Nil THEN AppLabel(f) ELSE old
  BY Zenon DEF Apart, AppLabel

\* Merging the same labels again adds none.
LEMMA MergeAgain ==
    ASSUME NEW f, NEW g, NEW h
    PROVE  LET once == Without(MergeStringMap(f, g), "jaeger") IN
           /\ Without(MergeStringMap(MergeStringMap(once, g), h), "jaeger")
                  = Without(MergeStringMap(MergeStringMap(f, g), h), "jaeger")
           /\ AppLabel(MergeStringMap(MergeStringMap(once, g), h))
                  = AppLabel(MergeStringMap(MergeStringMap(f, g), h))
<1> DEFINE once == Without(MergeStringMap(f, g), "jaeger")
           p == MergeStringMap(MergeStringMap(f, g), h)
           q == MergeStringMap(MergeStringMap(once, g), h)
<1>1. /\ DOMAIN p = DOMAIN f \cup DOMAIN g \cup DOMAIN h
      /\ \A k \in DOMAIN p : p[k] = IF k \in DOMAIN h THEN h[k] ELSE
                                    IF k \in DOMAIN g THEN g[k] ELSE f[k]
  BY DEF MergeStringMap
<1>2. /\ DOMAIN once = (DOMAIN f \cup DOMAIN g) \ {"jaeger"}
      /\ \A k \in DOMAIN once : once[k] = IF k \in DOMAIN g THEN g[k] ELSE f[k]
  BY DEF MergeStringMap, Without
<1> HIDE DEF once
<1>3. /\ DOMAIN q = DOMAIN once \cup DOMAIN g \cup DOMAIN h
      /\ \A k \in DOMAIN q : q[k] = IF k \in DOMAIN h THEN h[k] ELSE
                                    IF k \in DOMAIN g THEN g[k] ELSE once[k]
  BY DEF MergeStringMap
<1> HIDE DEF p, q
<1>4. /\ DOMAIN q \ {"jaeger"} = DOMAIN p \ {"jaeger"}
      /\ \A k \in DOMAIN q \ {"jaeger"} : q[k] = p[k]
  BY <1>1, <1>2, <1>3
<1>5. Without(q, "jaeger") = Without(p, "jaeger") BY <1>4 DEF Without
<1>6. AppLabel(q) = AppLabel(p)
  <2>1. ("app" \in DOMAIN q) = ("app" \in DOMAIN p) /\ ("app" \in DOMAIN q => q["app"] = p["app"])
    BY <1>4
  <2> QED BY <2>1, Zenon DEF AppLabel, Or
<1> QED BY <1>5, <1>6 DEF once, p, q

\* What has just been rendered, with the server's defaults or without, is rendered the same.
LEMMA RenderAgain ==
    ASSUME NilIsNoObject, NEW old, NEW o, NEW a, NEW s,
           NEW x \in {Render(old, o, a, s), Defaulted(Render(old, o, a, s))}, x # Nil
    PROVE  Template(Render(x, o, a, s)) = Template(x)
<1> DEFINE d == Render(old, o, a, s)
           e == Render(x, o, a, s)
           labels == MergeStringMap(old.labels, o.labels)
           again == MergeStringMap(x.labels, o.labels)
<1>1. d = [k \in Fields |-> d[k]] BY RenderFields
<1>2. /\ x = [k \in Fields |-> x[k]]
      /\ \A k \in Fields \ {"grace", "unavailable"} : x[k] = d[k]
      /\ x.grace = d.grace \/ (d.grace = Nil /\ x.grace = "30s")
  <2> HIDE DEF d
  <2>1. CASE x = d BY <1>1, <2>1
  <2>2. CASE x = Defaulted(d) BY <1>1, <2>2, DefaultedFields
  <2> QED BY <2>1, <2>2 DEF d
<1>3. e = [k \in Fields |-> e[k]] /\ e # Nil BY RenderFields DEF NilIsNoObject
<1>4. /\ x.labels = d.labels /\ x.selector = d.selector /\ x.podLabels = d.podLabels
      /\ x.podAnnotations = d.podAnnotations /\ x.image = d.image /\ x.port = d.port
      /\ x.probes = d.probes /\ x.volumes = d.volumes /\ x.mounts = d.mounts
      /\ x.secrets = d.secrets /\ x.inits = d.inits /\ x.near = d.near /\ x.apart = d.apart
      /\ x.account = d.account
  <2> HIDE DEF d
  <2> QED BY <1>2 DEF Fields
<1>5. e.selector = x.selector
  <2>1. d.selector = Selector(old) /\ e.selector = Selector(x) BY RenderFields
  <2> QED BY <1>4, <2>1 DEF Selector
<1>6. x.labels = Without(labels, "jaeger") /\ Selector(x) = Selector(old)
  BY <1>4, <1>5, RenderFields
<1>7. /\ Without(MergeStringMap(again, Selector(old)), "jaeger")
             = Without(MergeStringMap(labels, Selector(old)), "jaeger")
      /\ AppLabel(MergeStringMap(again, Selector(old)))
             = AppLabel(MergeStringMap(labels, Selector(old)))
  BY <1>6, MergeAgain
<1>8. e.podLabels = x.podLabels
  <2>1. /\ d.podLabels = Without(MergeStringMap(labels, Selector(old)), "jaeger")
        /\ e.podLabels = Without(MergeStringMap(again, Selector(x)), "jaeger")
    BY RenderFields
  <2> QED BY <1>4, <1>6, <1>7, <2>1
<1>9. e.apart = x.apart
  <2>1. /\ d.apart = Apart(old.apart, MergeStringMap(labels, Selector(old)))
        /\ e.apart = Apart(x.apart, MergeStringMap(again, Selector(x)))
    BY RenderFields
  <2> QED BY <1>4, <1>6, <1>7, <2>1, ApartLabel
<1>10. e.inits = x.inits
  <2>1. d.inits = InitContainers(o, s, old.inits) /\ e.inits = InitContainers(o, s, x.inits)
    BY RenderFields
  <2> QED BY <1>4, <2>1 DEF InitContainers
<1>11. e.grace = x.grace
  <2>1. d.grace = Additional(old.grace, s) /\ e.grace = Additional(x.grace, s) BY RenderFields
  <2> HIDE DEF d, e
  <2> QED BY <1>2, <2>1, NilAssumption DEF Additional
<1>12. /\ e.podAnnotations = x.podAnnotations /\ e.image = x.image /\ e.port = x.port
       /\ e.probes = x.probes /\ e.volumes = x.volumes /\ e.mounts = x.mounts
       /\ e.secrets = x.secrets /\ e.near = x.near /\ e.account = x.account
  <2>1. /\ d.podAnnotations = e.podAnnotations /\ d.image = e.image /\ d.port = e.port
        /\ d.probes = e.probes /\ d.volumes = e.volumes /\ d.mounts = e.mounts
        /\ d.secrets = e.secrets /\ d.near = e.near /\ d.account = e.account
    BY RenderFields
  <2> HIDE DEF d, e
  <2> QED BY <1>4, <2>1
<1> HIDE DEF d, e
<1>13. \A k \in Fields \ {"labels", "unavailable"} : e[k] = x[k]
  BY <1>5, <1>8, <1>9, <1>10, <1>11, <1>12 DEF Fields
<1> QED BY <1>2, <1>3, <1>13, SameTemplate DEF e

\* The live Deployment is what the inputs of the last accepted reconcile make of it.
RollInv ==
    last # Nil /\ last.end = "taken" /\ dep # Nil =>
        Template(Render(dep, last.spec, last.app, last.st)) = Template(dep)

LEMMA RollNext == ASSUME NilIsNoObject, RollInv, [Next]_vars PROVE RollInv'
<1>1. CASE SdWrite
  <2> DEFINE o == seen.sd.spec
             a == seen.app.spec
             old == IF dep = Nil THEN NoDeployment ELSE dep
  <2>1. dep' \in {Render(old, o, a, st), Defaulted(Render(old, o, a, st))}
    BY <1>1 DEF SdWrite, Rendered
  <2>2. last'.spec = o /\ last'.app = a /\ last'.st = st BY <1>1 DEF SdWrite, Outcome
  <2> HIDE DEF o, a, old
  <2>3. dep' # Nil => Template(Render(dep', o, a, st)) = Template(dep')
    BY <2>1, RenderAgain
  <2> QED BY <2>2, <2>3 DEF RollInv
<1>2. CASE SdDelete BY <1>2 DEF SdDelete, RollInv
<1>3. CASE SdGiveUp \/ SdSkip BY <1>3 DEF SdGiveUp, SdSkip, Outcome, RollInv
<1>4. CASE UNCHANGED <<dep, last>> BY <1>4 DEF RollInv
<1> QED
  BY <1>1, <1>2, <1>3, <1>4
  DEF Next, vars, live, EditSd, EditApp, EditData, UserStep, DeliverSd, DeliverApp, Load, Resync,
      Restart, Work, SdGone, AppWork, AppGone, AppDelete, AppWrite, AppFrame

LEMMA RollStep ==
    ASSUME RollInv, [Next]_vars, dep # Nil, dep' # Nil, last # Nil, last.end = "taken", last' = last
    PROVE  Template(dep') = Template(dep)
<1>1. CASE SdWrite
  <2>1. dep' = Render(dep, seen.sd.spec, seen.app.spec, st) BY <1>1 DEF SdWrite, Rendered
  <2>2. /\ last'.spec = seen.sd.spec /\ last'.app = seen.app.spec /\ last'.st = st
    BY <1>1 DEF SdWrite, Outcome
  <2> QED BY <2>1, <2>2 DEF RollInv
<1>2. CASE SdDelete BY <1>2 DEF SdDelete
<1>3. CASE dep' = dep BY <1>3
<1> QED
  BY <1>1, <1>2, <1>3
  DEF Next, vars, live, EditSd, EditApp, EditData, UserStep, DeliverSd, DeliverApp, Load, Resync,
      Restart, Work, SdGone, SdGiveUp, SdSkip, AppWork, AppGone, AppDelete, AppWrite, AppFrame

\* A reconcile with the inputs of the last accepted one leaves the pod template alone, whatever
\* was rendered before that and whether the process is still the same (CreateOrUpdate).
THEOREM PodsRestUnasked == ASSUME NilIsNoObject PROVE Spec => RollsForAReason
<1>1. Init => RollInv BY DEF Init, RollInv
<1>2. RollInv /\ [Next]_vars => RollInv' BY RollNext
<1>3. RollInv /\ [Next]_vars =>
          [/\ dep # Nil /\ dep' # Nil /\ Template(dep') # Template(dep)
           /\ last # Nil /\ last.end = "taken"
           => last' # last]_vars
  BY RollStep
<1> QED BY <1>1, <1>2, <1>3, PTL DEF Spec, RollsForAReason

-----------------------------------------------------------------------------
(* Refused updates, and the types.                                         *)

AtMostOne(f) == f = <<>> \/ \E x : f = <<x>>

Shaped(d) == d = [k \in Fields |-> d[k]] /\ AtMostOne(d.inits)

ShapeInv == dep # Nil => Shaped(dep)

LEMMA RenderShaped ==
    ASSUME NEW old, AtMostOne(old.inits), NEW o, NEW a, NEW s
    PROVE  Shaped(Render(old, o, a, s)) /\ Shaped(Defaulted(Render(old, o, a, s)))
<1> DEFINE d == Render(old, o, a, s)
<1>1. d = [k \in Fields |-> d[k]] BY RenderFields
<1>2. AtMostOne(d.inits)
  <2>1. d.inits = InitContainers(o, s, old.inits) BY RenderFields
  <2>2. InitContainers(o, s, old.inits) = <<InitContainer(o, s)>>
        \/ InitContainers(o, s, old.inits) = old.inits
    BY DEF InitContainers
  <2> HIDE DEF d
  <2> QED BY <2>1, <2>2 DEF AtMostOne
<1> HIDE DEF d
<1>3. "inits" \in Fields \ {"grace", "unavailable"} BY DEF Fields
<1>4. /\ Defaulted(d) = [k \in Fields |-> Defaulted(d)[k]]
      /\ Defaulted(d).inits = d.inits
  BY <1>1, <1>3, DefaultedFields
<1> QED BY <1>1, <1>2, <1>4 DEF Shaped, d

LEMMA ShapeInit == Init => ShapeInv
<1> SUFFICES ASSUME Init, dep # Nil PROVE Shaped(dep) BY DEF ShapeInv
<1> DEFINE d == [NoDeployment EXCEPT
                   !.labels = LegacyLabels, !.selector = LegacyLabels, !.podLabels = LegacyLabels,
                   !.image = "legacy", !.port = 80]
<1>1. dep = Defaulted(d) BY DEF Init, LegacyDeployment
<1>2. d = [k \in Fields |-> d[k]] /\ d.inits = <<>> BY DEF NoDeployment, Fields
<1> HIDE DEF d
<1>3. "inits" \in Fields \ {"grace", "unavailable"} BY DEF Fields
<1>4. dep = [k \in Fields |-> dep[k]] /\ dep.inits = d.inits
  BY <1>1, <1>2, <1>3, DefaultedFields
<1> QED BY <1>2, <1>4 DEF Shaped, AtMostOne

LEMMA ShapeNext == ASSUME ShapeInv, [Next]_vars PROVE ShapeInv'
<1>1. CASE SdWrite
  <2> DEFINE old == IF dep = Nil THEN NoDeployment ELSE dep
  <2>1. AtMostOne(old.inits)
    <3>1. NoDeployment.inits = <<>> BY DEF NoDeployment
    <3> QED BY <3>1 DEF ShapeInv, Shaped, AtMostOne
  <2>2. PICK o, a : dep' \in {Render(old, o, a, st), Defaulted(Render(old, o, a, st))}
    BY <1>1 DEF SdWrite, Rendered
  <2> HIDE DEF old
  <2>3. Shaped(dep') BY <2>1, <2>2, RenderShaped
  <2> QED BY <2>3 DEF ShapeInv
<1>2. CASE SdDelete BY <1>2 DEF SdDelete, ShapeInv
<1>3. CASE dep' = dep BY <1>3 DEF ShapeInv
<1> QED
  BY <1>1, <1>2, <1>3
  DEF Next, vars, live, EditSd, EditApp, EditData, UserStep, DeliverSd, DeliverApp, Load, Resync,
      Restart, Work, SdGone, SdGiveUp, SdSkip, AppWork, AppGone, AppDelete, AppWrite, AppFrame

\* What is refused on top of dep would be refused anyway, or dep has an init container that
\* nobody wants any more.
LEMMA RefusedOnTop ==
    ASSUME LiveInv, ShapeInv, dep # Nil, NEW o, NEW a, NEW s,
           Acceptable(Nil, Render(NoDeployment, o, a, s)), ~Acceptable(dep, Render(dep, o, a, s))
    PROVE  /\ ~WantsInit(o, s) /\ dep.inits # <<>>
           /\ ~(dep.inits[1].mounts \subseteq DOMAIN Volumes(o, s))
<1> DEFINE d == Render(dep, o, a, s)
           n == Render(NoDeployment, o, a, s)
<1>1. Selector(dep) = dep.selector /\ Selector(dep) \in {Own, LegacyLabels}
  BY LegacyAssumption DEF LiveInv, DepOK, Selector, Own
<1>2. d.selector = dep.selector /\ Subsumes(d.podLabels, d.selector) BY <1>1, RenderOK
<1>3. d.image = n.image /\ d.port = n.port /\ d.mounts = n.mounts /\ d.volumes = n.volumes
  <2>1. /\ d.image = o.image /\ d.port = a.port /\ d.mounts = Mounts(o)
        /\ d.volumes = Volumes(o, s)
    BY RenderFields
  <2>2. /\ n.image = o.image /\ n.port = a.port /\ n.mounts = Mounts(o)
        /\ n.volumes = Volumes(o, s)
    BY RenderFields
  <2> HIDE DEF d, n
  <2> QED BY <2>1, <2>2
<1>4. /\ d.volumes = Volumes(o, s)
      /\ d.inits = InitContainers(o, s, dep.inits)
      /\ n.inits = InitContainers(o, s, NoDeployment.inits)
  BY RenderFields
<1> HIDE DEF d, n
<1>5. PICK i \in DOMAIN d.inits : ~(d.inits[i].mounts \subseteq DOMAIN d.volumes)
  BY <1>2, <1>3 DEF Acceptable, d, n
<1>6. ~WantsInit(o, s)
  <2> SUFFICES ASSUME WantsInit(o, s) PROVE FALSE OBVIOUS
  <2>1. d.inits = n.inits BY <1>4 DEF InitContainers
  <2> QED BY <1>3, <1>5, <2>1 DEF Acceptable, n
<1>7. d.inits = dep.inits BY <1>4, <1>6 DEF InitContainers
<1>8. i = 1 /\ dep.inits # <<>>
  BY <1>5, <1>7 DEF ShapeInv, Shaped, AtMostOne
<1> QED BY <1>4, <1>5, <1>6, <1>7, <1>8

\* An update is refused for what a new Deployment would be refused for, and otherwise only
\* for the volumes of an init container that stayed (CreateOrUpdate).
THEOREM RefusalsHaveACause == ASSUME NilIsNoObject PROVE Spec => RefusedForCause
<1> DEFINE Cause ==
        last' # last /\ last'.end = "refused" =>
            \/ Extra(st) = "bad"
            \/ ~Acceptable(Nil, Render(NoDeployment, seen.sd.spec, seen.app.spec, st))
            \/ /\ ~WantsInit(seen.sd.spec, st)
               /\ dep # Nil /\ dep.inits # <<>>
               /\ ~(dep.inits[1].mounts \subseteq DOMAIN Volumes(seen.sd.spec, st))
<1>1. LiveInv /\ [Next]_vars => LiveInv' BY LiveNext
<1>2. ShapeInv /\ [Next]_vars => ShapeInv' BY ShapeNext
<1>3. ASSUME LiveInv, ShapeInv, [Next]_vars PROVE Cause
  <2>1. CASE SdGiveUp
    <3>1. Extra(st) = "bad" \/ ~Acceptable(dep, Rendered)
      BY <2>1 DEF SdGiveUp, SdRefused
    <3>2. CASE dep = Nil BY <3>1, <3>2 DEF Rendered
    <3>3. CASE dep # Nil
      <4>1. Rendered = Render(dep, seen.sd.spec, seen.app.spec, st) BY <3>3 DEF Rendered
      <4> QED BY <1>3, <3>1, <3>3, <4>1, RefusedOnTop
    <3> QED BY <3>2, <3>3
  <2>2. CASE SdWrite \/ SdSkip BY <2>2 DEF SdWrite, SdSkip, Outcome
  <2>3. CASE last' = last BY <2>3
  <2> QED
    BY <1>3, <2>1, <2>2, <2>3
    DEF Next, vars, EditSd, EditApp, EditData, UserStep, DeliverSd, DeliverApp, Load, Resync,
        Restart, Work, SdGone, SdDelete, AppWork, AppGone, AppDelete, AppWrite, AppFrame
<1>4. LiveInv /\ ShapeInv /\ [Next]_vars => [Cause]_vars BY <1>3
<1> QED BY <1>1, <1>2, <1>4, LiveInit, ShapeInit, PTL DEF Spec, RefusedForCause

\* Types that are inductive, and what they need of the copies.
TInv ==
    /\ data \in Contents /\ seen = [sd |-> seen.sd, app |-> seen.app, data |-> seen.data]
    /\ seen.data \in Contents
    /\ sd \in Marked(Specs) /\ seen.sd \in Marked(Specs)
    /\ app \in Marked(AppSpecs) /\ seen.app \in Marked(AppSpecs)
    /\ news \in SUBSET {"sd", "app"} /\ queue \in SUBSET {"sd", "app"}
    /\ ops \in 0 .. MaxOps

LEMMA MarkTyped ==
    ASSUME NEW S, NEW o \in Marked(S), o # Nil
    PROVE  [o EXCEPT !.mark = TRUE] \in Marked(S)
  BY DEF Marked

LEMMA TypesNext == ASSUME TInv, [Next]_vars PROVE TInv'
<1> USE DEF TInv
<1>1. CASE \E o \in Marked(Specs) : EditSd(o) BY <1>1, BoundAssumption DEF EditSd, UserStep
<1>2. CASE \E a \in Marked(AppSpecs) : EditApp(a) BY <1>2, BoundAssumption DEF EditApp, UserStep
<1>3. CASE \E c \in Contents : EditData(c) BY <1>3, BoundAssumption DEF EditData, UserStep
<1>4. CASE DeliverSd BY <1>4 DEF DeliverSd, resources
<1>5. CASE DeliverApp BY <1>5 DEF DeliverApp, resources
<1>6. CASE Load BY <1>6 DEF Load, resources
<1>7. CASE Resync BY <1>7 DEF Resync, resources
<1>8. CASE Restart BY <1>8, BoundAssumption DEF Restart, resources
<1>9. CASE SdDelete BY <1>9 DEF SdDelete, Done, Marked
<1>10. CASE SdGone \/ SdGiveUp \/ SdSkip \/ SdWrite
  BY <1>10 DEF SdGone, SdGiveUp, SdSkip, SdWrite, Done, Frame
<1>11. CASE AppGone \/ AppWrite BY <1>11 DEF AppGone, AppWrite, AppFrame, Done
<1>12. CASE AppDelete
  <2>1. seen.sd # Nil => [seen.sd EXCEPT !.mark = TRUE] \in Marked(Specs) BY MarkTyped
  <2>2. Nil \in Marked(AppSpecs) BY DEF Marked
  <2>3. /\ queue' = queue \ {"app"} /\ UNCHANGED <<data, seen, ops>>
        /\ news' \in SUBSET {"sd", "app"}
    BY <1>12 DEF AppDelete, Done, AppFrame
  <2>4. sd' \in Marked(Specs) /\ app' \in Marked(AppSpecs)
    BY <1>12, <2>1, <2>2 DEF AppDelete, Listed
  <2> QED BY <2>3, <2>4
<1>13. CASE UNCHANGED vars BY <1>13 DEF vars
<1> QED
  BY <1>1, <1>2, <1>3, <1>4, <1>5, <1>6, <1>7, <1>8, <1>9, <1>10, <1>11, <1>12, <1>13
  DEF Next, Work, AppWork

\* Every variable keeps its type, and the live Deployment its fields and one init container at
\* most, however often it is rendered on itself (CreateOrUpdate).
THEOREM RenderingTyped == Spec => []TypeOK
<1>1. Init => TInv BY BoundAssumption DEF Init, TInv, Marked
<1>2. TInv /\ [Next]_vars => TInv' BY TypesNext
<1>3. ShapeInv /\ [Next]_vars => ShapeInv' BY ShapeNext
<1>4. TInv /\ ShapeInv => TypeOK
  <2> SUFFICES ASSUME TInv, ShapeInv PROVE TypeOK OBVIOUS
  <2>1. DOMAIN NoDeployment = Fields BY DEF NoDeployment, Fields
  <2>2. ASSUME dep # Nil PROVE DOMAIN dep = Fields /\ Len(dep.inits) \in {0, 1}
    <3>1. dep = [k \in Fields |-> dep[k]] /\ AtMostOne(dep.inits)
      BY <2>2 DEF ShapeInv, Shaped
    <3>2. DOMAIN dep = Fields BY <3>1
    <3>3. CASE dep.inits = <<>> BY <3>2, <3>3
    <3>4. CASE \E x : dep.inits = <<x>>
      <4>1. PICK x : dep.inits = <<x>> BY <3>4
      <4> QED BY <3>2, <4>1
    <3> QED BY <3>1, <3>3, <3>4 DEF AtMostOne
  <2> QED BY <2>1, <2>2 DEF TInv, TypeOK
<1> QED BY <1>1, <1>2, <1>3, <1>4, ShapeInit, PTL DEF Spec

-----------------------------------------------------------------------------
(* At rest: what users wrote is what is there.                             *)

AtRest == news = {} /\ queue = {}

\* The Deployment shows what users wrote, or the last reconcile took it up and did not write.
Right(o) ==
    Shows(dep, o) \/ (last # Nil /\ last.end # "taken" /\ SameButLabels(last.spec, o))

\* The cached copy, if no event is to come, differs from the SQBDeployment in labels only.
SeenAlike ==
    "sd" \notin news =>
        \/ seen.sd = sd
        \/ /\ sd # Nil /\ seen.sd # Nil /\ (sd.mark <=> seen.sd.mark)
           /\ SameButLabels(sd.spec, seen.sd.spec)

SpecRight ==
    seen.sd # Nil /\ ~seen.sd.mark /\ "sd" \notin hist.lost =>
        "sd" \in queue \/ "sd" \in news \/ Right(seen.sd.spec)

SameSpec == {"podAnnotations", "image", "delay", "near"}

LEMMA AlikeShows ==
    ASSUME NEW o \in Specs, NEW p \in Specs, SameButLabels(o, p), Right(p)
    PROVE  Right(o)
<1>1. SameSpec \subseteq DOMAIN o /\ SameSpec \subseteq DOMAIN p BY SpecAssumption DEF SameSpec
<1>2. [o EXCEPT !.labels = <<>>] = [p EXCEPT !.labels = <<>>] BY DEF SameButLabels
<1>3. \A k \in SameSpec : /\ [o EXCEPT !.labels = <<>>][k] = o[k]
                          /\ [p EXCEPT !.labels = <<>>][k] = p[k]
  BY <1>1 DEF SameSpec
<1>4. \A k \in SameSpec : o[k] = p[k] BY <1>2, <1>3
<1>5. /\ o.podAnnotations = p.podAnnotations /\ o.image = p.image /\ o.delay = p.delay
      /\ o.near = p.near
  BY <1>4 DEF SameSpec
<1> QED BY <1>5 DEF Right, Shows, SameButLabels

LEMMA AlikeIsTransitive ==
    ASSUME NEW o, NEW p, NEW q, SameButLabels(o, p), SameButLabels(p, q)
    PROVE  SameButLabels(o, q) /\ SameButLabels(p, o)
  BY DEF SameButLabels

LEMMA SeenAlikeNext == ASSUME TInv, HistInv, SeenAlike, [Next]_vars PROVE SeenAlike'
<1>1. CASE UNCHANGED <<sd, seen>> /\ news \subseteq news' BY <1>1 DEF SeenAlike
<1>2. CASE \E o \in Marked(Specs) : EditSd(o)
  <2>1. PICK o \in Marked(Specs) : EditSd(o) BY <1>2
  <2>2. seen' = seen /\ sd' = o /\ (Passes(sd, o) => "sd" \in news') /\ news \subseteq news'
    BY <2>1 DEF EditSd, UserStep
  <2>3. CASE ~Passes(sd, o)
    <3>1. sd # Nil /\ o # Nil /\ sd.mark = o.mark /\ SameButLabels(o.spec, sd.spec)
      BY <2>3 DEF Passes, SameButLabels
    <3> QED BY <2>2, <3>1, AlikeIsTransitive DEF SeenAlike
  <2> QED BY <2>2, <2>3 DEF SeenAlike
<1>3. CASE DeliverSd \/ Restart BY <1>3 DEF DeliverSd, Restart, resources, SeenAlike, TInv
<1>4. CASE DeliverApp \/ Load BY <1>4 DEF DeliverApp, Load, resources, SeenAlike, TInv
<1>5. CASE SdDelete \/ AppDelete
  BY <1>5 DEF SdDelete, AppDelete, AppFrame, SeenAlike
<1> QED
  BY <1>1, <1>2, <1>3, <1>4, <1>5
  DEF Next, vars, EditApp, EditData, UserStep, Resync, resources, Work, SdGone, SdGiveUp, SdSkip,
      SdWrite, Frame, AppWork, AppGone, AppWrite, AppFrame

LEMMA WriteShows ==
    ASSUME NilIsNoObject, SdWrite
    PROVE  Shows(dep', seen.sd.spec)
<1> DEFINE old == IF dep = Nil THEN NoDeployment ELSE dep
           d == Render(old, seen.sd.spec, seen.app.spec, st)
<1>1. dep' = d \/ dep' = Defaulted(d) BY DEF SdWrite, Rendered
<1>2. d = [k \in Fields |-> d[k]] /\ dep' # Nil BY <1>1, RenderFields DEF NilIsNoObject
<1>3. /\ d.podAnnotations = seen.sd.spec.podAnnotations /\ d.image = seen.sd.spec.image
      /\ d.probes = Probes(seen.sd.spec.delay) /\ d.near = seen.sd.spec.near
  BY RenderFields DEF NodeAffinity
<1> HIDE DEF d
<1>4. \A k \in Fields \ {"grace", "unavailable"} : dep'[k] = d[k]
  BY <1>1, <1>2, DefaultedFields
<1>5. /\ dep'.podAnnotations = d.podAnnotations /\ dep'.image = d.image
      /\ dep'.probes = d.probes /\ dep'.near = d.near
  BY <1>4 DEF Fields
<1> QED BY <1>2, <1>3, <1>5 DEF Shows

LEMMA SpecRightNext ==
    ASSUME NilIsNoObject, TInv, HistInv, SeenAlike, SpecRight, [Next]_vars
    PROVE  SpecRight'
<1> SUFFICES ASSUME seen'.sd # Nil, ~seen'.sd.mark, "sd" \notin hist'.lost,
                    "sd" \notin queue', "sd" \notin news'
             PROVE  \/ Shows(dep', seen'.sd.spec)
                    \/ /\ last' # Nil /\ last'.end # "taken"
                       /\ SameButLabels(last'.spec, seen'.sd.spec)
  BY DEF SpecRight, Right, Shows, SameButLabels
<1>1. CASE UNCHANGED <<seen, dep, last>> /\ hist'.lost = hist.lost /\ news \subseteq news'
           /\ queue \subseteq queue' \cup {"app"}
  BY <1>1 DEF SpecRight, Right
<1>2. CASE \E o \in Marked(Specs) : EditSd(o)
  <2>1. PICK o \in Marked(Specs) : EditSd(o) BY <1>2
  <2>2. UNCHANGED <<seen, dep, last, queue>> /\ news' = news /\ hist' = hist
    BY <2>1 DEF EditSd, UserStep, live
  <2> QED BY <2>2 DEF SpecRight, Right
<1>3. CASE \E a \in Marked(AppSpecs) : EditApp(a)
  <2>1. UNCHANGED <<seen, dep, last, queue>> /\ news \subseteq news'
        /\ ("sd" \in hist.lost <=> "sd" \in hist'.lost)
    BY <1>3 DEF EditApp, UserStep, live, HistInv
  <2> QED BY <2>1 DEF SpecRight, Right
<1>4. CASE DeliverSd
  <2>1. UNCHANGED <<dep, last, hist>> /\ seen'.sd = sd /\ "sd" \notin news /\ queue \subseteq queue'
    BY <1>4 DEF DeliverSd, live, TInv
  <2>2. CASE seen.sd = sd BY <2>1, <2>2 DEF SpecRight, Right
  <2>3. CASE /\ sd # Nil /\ seen.sd # Nil /\ (sd.mark <=> seen.sd.mark)
             /\ SameButLabels(sd.spec, seen.sd.spec)
    <3>1. Right(seen.sd.spec) BY <2>1, <2>3 DEF SpecRight
    <3>2. sd.spec \in Specs /\ seen.sd.spec \in Specs BY <2>3 DEF TInv, Marked
    <3>3. Right(sd.spec) BY <2>3, <3>1, <3>2, AlikeShows
    <3> QED BY <2>1, <3>3 DEF Right
  <2> QED BY <2>1, <2>2, <2>3 DEF SeenAlike
<1>5. CASE DeliverApp \/ Load
  <2>1. UNCHANGED <<dep, last, hist>> /\ seen'.sd = seen.sd /\ queue \subseteq queue'
        /\ news \ {"app"} \subseteq news'
    BY <1>5 DEF DeliverApp, Load, live, TInv
  <2> QED BY <2>1 DEF SpecRight, Right
<1>6. CASE Restart
  <2>1. "sd" \in hist'.lost BY <1>6 DEF Restart, HistInv
  <2> QED BY <2>1
<1>7. CASE SdWrite BY <1>7, WriteShows DEF SdWrite, Frame
<1>8. CASE SdGiveUp \/ SdSkip
  <2>1. last'.end # "taken" /\ last'.spec = seen'.sd.spec
    BY <1>8 DEF SdGiveUp, SdSkip, Frame, Outcome
  <2>2. last' # Nil BY <1>8 DEF SdGiveUp, SdSkip, Outcome, NilIsNoObject
  <2> QED BY <2>1, <2>2 DEF SameButLabels
<1>9. CASE SdGone \/ SdDelete BY <1>9 DEF SdGone, SdDelete, Frame
<1>10. CASE AppDelete
  <2>1. UNCHANGED <<seen, dep, last>> /\ news \subseteq news' /\ queue' = queue \ {"app"}
        /\ hist'.lost = hist.lost
    BY <1>10 DEF AppDelete, AppFrame, Done, HistInv
  <2> QED BY <1>1, <2>1
<1>11. CASE AppGone \/ AppWrite
  <2>1. UNCHANGED <<seen, dep, last, news, hist>> /\ queue' = queue \ {"app"}
    BY <1>11 DEF AppGone, AppWrite, AppFrame, Done
  <2> QED BY <1>1, <2>1
<1>12. CASE UNCHANGED vars BY <1>1, <1>12 DEF vars
<1>13. CASE Resync BY <1>1, <1>13 DEF Resync, live
<1>14. CASE \E c \in Contents : EditData(c)
  <2>1. UNCHANGED <<seen, dep, last, queue, news>> /\ hist'.lost = hist.lost
    BY <1>14 DEF EditData, UserStep, live, HistInv
  <2> QED BY <1>1, <2>1
<1> QED
  BY <1>2, <1>3, <1>4, <1>5, <1>6, <1>7, <1>8, <1>9, <1>10, <1>11, <1>12, <1>13, <1>14
  DEF Next, Work, AppWork

\* Whenever no event is to come and no key waits, the Deployment shows what users wrote, or
\* the last reconcile had this content and did not write it, because the API server refused
\* it or KubeVela has the Deployment; all but an SQBDeployment whose event a restart lost
\* (GenerationAnnotationPredicate, CreateOrUpdate).
SpecAtRest ==
    AtRest /\ sd # Nil /\ ~sd.mark /\ "sd" \notin hist.lost => Right(sd.spec)

\* For all contents, orders of edits and deliveries, configurations and restarts: no edit that
\* the filter lets through is left half done, and one that it drops leaves the show as it is.
THEOREM ContentRests == ASSUME NilIsNoObject PROVE Spec => []SpecAtRest
<1>1. Init => TInv /\ HistInv /\ SeenAlike /\ SpecRight
  BY BoundAssumption DEF Init, TInv, Marked, HistInv, SeenAlike, SpecRight
<1>2. TInv /\ [Next]_vars => TInv' BY TypesNext
<1>3. TInv /\ HistInv /\ SeenAlike /\ [Next]_vars => SeenAlike' BY SeenAlikeNext
<1>4. TInv /\ HistInv /\ SeenAlike /\ SpecRight /\ [Next]_vars => SpecRight' BY SpecRightNext
<1>5. TInv /\ SeenAlike /\ SpecRight => SpecAtRest
  <2> SUFFICES ASSUME TInv, SeenAlike, SpecRight, AtRest, sd # Nil, ~sd.mark, "sd" \notin hist.lost
               PROVE  Right(sd.spec)
    BY DEF SpecAtRest
  <2>1. seen.sd # Nil /\ ~seen.sd.mark BY DEF SeenAlike, AtRest
  <2>2. Right(seen.sd.spec) BY <2>1 DEF SpecRight, AtRest
  <2>3. sd.spec \in Specs /\ seen.sd.spec \in Specs BY <2>1 DEF TInv, Marked
  <2> QED BY <2>2, <2>3, AlikeShows DEF SeenAlike, AtRest
<1>6. HistInv /\ [Next]_vars => HistInv' BY HistStep
<1> QED BY <1>1, <1>2, <1>3, <1>4, <1>5, <1>6, PTL DEF Spec

\* VictoriaMetrics is on and always was.
ScrapesOn == st.victoriaMetricsEnable /\ ~hist.switched

\* Without an event to come the cached application is the application; without an edit the
\* content that was loaded is the ConfigMap's.
SeenApp ==
    /\ "app" \notin news => seen.app = app
    /\ ~hist.switched => seen.data = data

\* The scrape is as the cached application asks, or a reconcile is to come; an application
\* that went by the mark took it along, and no unmarked copy of it is left.
ScrapeRight ==
    ScrapesOn /\ "app" \notin hist.lost =>
        /\ seen.app # Nil /\ ~seen.app.mark /\ seen.app.spec.monitor # "bad" =>
              "app" \in queue \/ "app" \in news \/ (scrape # Nil <=> seen.app.spec.monitor # "")
        /\ app = Nil => scrape = Nil /\ (seen.app = Nil \/ seen.app.mark)

LEMMA SeenAppNext ==
    ASSUME TInv, HistInv, SeenApp, [Next]_vars
    PROVE  SeenApp' /\ (~hist'.switched => ~hist.switched /\ UNCHANGED data)
<1>1. ~hist'.switched => ~hist.switched /\ UNCHANGED data
  <2>1. CASE \E c \in Contents : EditData(c) BY <2>1 DEF EditData, HistInv
  <2>2. CASE UNCHANGED data /\ hist'.switched = hist.switched BY <2>2
  <2> QED
    BY <2>1, <2>2
    DEF Next, vars, EditSd, EditApp, DeliverSd, DeliverApp, Load, Resync, Restart, resources, Work,
        SdGone, SdDelete, SdGiveUp, SdSkip, SdWrite, Frame, AppWork, AppGone, AppDelete, AppWrite,
        AppFrame, HistInv
<1>2. ~hist'.switched => seen'.data = data'
  <2>1. seen'.data = seen.data \/ seen'.data = data
    BY DEF Next, vars, EditSd, EditApp, EditData, UserStep, DeliverSd, DeliverApp, Load, Resync,
           Restart, Work, SdGone, SdDelete, SdGiveUp, SdSkip, SdWrite, Frame, AppWork, AppGone,
           AppDelete, AppWrite, AppFrame, TInv
  <2> QED BY <1>1, <2>1 DEF SeenApp
<1>3. "app" \notin news' => seen'.app = app'
  <2>1. CASE \E a \in Marked(AppSpecs) : EditApp(a) BY <2>1 DEF EditApp
  <2>2. CASE DeliverApp \/ Restart BY <2>2 DEF DeliverApp, Restart, resources, TInv
  <2>3. CASE AppDelete BY <2>3 DEF AppDelete, AppFrame, SeenApp
  <2>4. CASE DeliverSd \/ Load BY <2>4 DEF DeliverSd, Load, resources, SeenApp, TInv
  <2>5. CASE SdDelete BY <2>5 DEF SdDelete, SeenApp
  <2>6. CASE UNCHANGED <<seen, app>> /\ news \subseteq news' BY <2>6 DEF SeenApp
  <2> QED
    BY <2>1, <2>2, <2>3, <2>4, <2>5, <2>6
    DEF Next, vars, EditSd, EditData, UserStep, Resync, resources, Work, SdGone, SdGiveUp, SdSkip,
        SdWrite, Frame, AppWork, AppGone, AppWrite, AppFrame
<1> QED BY <1>1, <1>2, <1>3 DEF SeenApp

\* While nobody edits the ConfigMap, neither loading it nor a restart switches VictoriaMetrics.
LEMMA ScrapesStay ==
    ASSUME TInv, HistInv, SettingsInv, SeenApp, [Next]_vars, ScrapesOn'
    PROVE  ScrapesOn
<1>1. ~hist'.switched /\ ~hist.switched /\ UNCHANGED data
  BY SeenAppNext DEF ScrapesOn
<1>2. SettingsInv' /\ SeenApp' BY SettingsNext, SeenAppNext
<1>3. seen.data = data /\ seen'.data = data BY <1>1, <1>2 DEF SeenApp
<1>4. "victoriaMetricsEnable" \in DOMAIN FromData(data) \ {"domainPostfix", "istioGateways"}
  BY DEF FromData
<1>5. Agree(st, data) BY <1>3 DEF SettingsInv
<1>6. Agree(st', data) BY <1>2, <1>3 DEF SettingsInv, Agree
<1>7. st'.victoriaMetricsEnable = st.victoriaMetricsEnable BY <1>4, <1>5, <1>6 DEF Agree
<1> QED BY <1>1, <1>7 DEF ScrapesOn

LEMMA ScrapeRightNext ==
    ASSUME NilIsNoObject, TInv, HistInv, SettingsInv, SeenApp, ScrapeRight, [Next]_vars
    PROVE  ScrapeRight'
<1> SUFFICES ASSUME ScrapesOn', "app" \notin hist'.lost
             PROVE  /\ seen'.app # Nil /\ ~seen'.app.mark /\ seen'.app.spec.monitor # "bad" =>
                         \/ "app" \in queue' \/ "app" \in news'
                         \/ (scrape' # Nil <=> seen'.app.spec.monitor # "")
                    /\ app' = Nil => scrape' = Nil /\ (seen'.app = Nil \/ seen'.app.mark)
  BY DEF ScrapeRight
<1>0. ScrapesOn BY ScrapesStay
<1>1. CASE UNCHANGED <<scrape, app>> /\ seen'.app = seen.app /\ hist'.lost \cap {"app"} = hist.lost \cap {"app"}
           /\ queue \cap {"app"} \subseteq queue' /\ news \subseteq news' \cup {"sd"}
  BY <1>0, <1>1 DEF ScrapeRight
<1>2. CASE \E a \in Marked(AppSpecs) : EditApp(a)
  <2>1. PICK a \in Marked(AppSpecs) : EditApp(a) BY <1>2
  <2>2. "app" \in news' /\ app' = a BY <2>1 DEF EditApp
  <2>3. a # Nil BY <2>1 DEF EditApp, HistInv
  <2> QED BY <2>2, <2>3
<1>3. CASE DeliverApp
  <2>1. "app" \in queue' /\ UNCHANGED <<app, scrape, hist>> /\ seen'.app = app
    BY <1>3 DEF DeliverApp, resources, live, TInv
  <2> QED BY <1>0, <2>1 DEF ScrapeRight
<1>4. CASE Restart
  <2>1. "app" \in queue' BY <1>4 DEF Restart, HistInv
  <2>2. app' # Nil BY <1>4, <2>1 DEF Restart, resources
  <2> QED BY <2>1, <2>2
<1>5. CASE AppDelete
  <2>1. /\ scrape' = Nil /\ seen' = seen /\ seen.app.mark
    BY <1>0, <1>5 DEF AppDelete, AppFrame, ScrapesOn
  <2> QED BY <2>1
<1>6. CASE AppWrite
  <2>1. /\ seen' = seen /\ seen.app # Nil /\ ~seen.app.mark /\ UNCHANGED <<app, hist>>
        /\ scrape' = ScrapeFor(seen.app.spec)
    BY <1>0, <1>6 DEF AppWrite, AppFrame, ScrapesOn
  <2>2. app # Nil BY <1>0, <2>1 DEF ScrapeRight
  <2>3. CASE seen.app.spec.monitor = "" BY <2>1, <2>2, <2>3 DEF ScrapeFor
  <2>4. CASE seen.app.spec.monitor \notin {"", "bad"}
    <3>1. scrape' = Updated(scrape, RenderScrape(scrape, seen.app.spec))
      BY <2>1, <2>4 DEF ScrapeFor
    <3>2. scrape' # Nil BY <3>1 DEF Updated, NilIsNoObject
    <3> QED BY <2>1, <2>2, <2>4, <3>2
  <2> QED BY <2>1, <2>2, <2>3, <2>4
<1>7. CASE AppGone
  <2>1. seen' = seen /\ seen.app = Nil /\ UNCHANGED <<app, hist, scrape>>
    BY <1>7 DEF AppGone, AppFrame
  <2> QED BY <1>0, <2>1 DEF ScrapeRight
<1>8. CASE \E o \in Marked(Specs) : EditSd(o)
  <2>1. UNCHANGED <<scrape, app, seen, queue>> /\ news \subseteq news'
        /\ hist'.lost \cap {"app"} = hist.lost \cap {"app"}
    BY <1>8 DEF EditSd, UserStep, live, HistInv
  <2> QED BY <1>1, <2>1
<1>9. CASE \E c \in Contents : EditData(c)
  <2>1. UNCHANGED <<scrape, app, seen, queue, news>> /\ hist'.lost = hist.lost
    BY <1>9 DEF EditData, UserStep, live, HistInv
  <2> QED BY <1>1, <2>1
<1>10. CASE DeliverSd \/ Load
  <2>1. /\ UNCHANGED <<scrape, app, hist>> /\ seen'.app = seen.app
        /\ queue \subseteq queue' /\ news \subseteq news' \cup {"sd"}
    BY <1>10 DEF DeliverSd, Load, resources, live, TInv
  <2> QED BY <1>1, <2>1
<1>11. CASE Resync BY <1>1, <1>11 DEF Resync, resources, live
<1>12. CASE SdDelete
  <2>1. /\ UNCHANGED <<scrape, app, seen>> /\ hist'.lost = hist.lost
        /\ queue' = queue \ {"sd"} /\ news \subseteq news'
    BY <1>12 DEF SdDelete, Done, HistInv
  <2> QED BY <1>1, <2>1
<1>13. CASE SdGone \/ SdGiveUp \/ SdSkip \/ SdWrite
  <2>1. UNCHANGED <<scrape, app, seen, hist, news>> /\ queue' = queue \ {"sd"}
    BY <1>13 DEF SdGone, SdGiveUp, SdSkip, SdWrite, Frame, Done
  <2> QED BY <1>1, <2>1
<1>14. CASE UNCHANGED vars BY <1>1, <1>14 DEF vars
<1> QED
  BY <1>2, <1>3, <1>4, <1>5, <1>6, <1>7, <1>8, <1>9, <1>10, <1>11, <1>12, <1>13, <1>14
  DEF Next, Work, AppWork

\* With VictoriaMetrics on from the start, whenever no event is to come and no key waits, there
\* is a scrape if and only if the application asks for one, and none if the application is
\* gone (vmserviceScrapeHandler.Handle), but for one whose event a restart lost, or that went
\* without the mark.
ScrapeAtRest ==
    AtRest /\ ScrapesOn /\ "app" \notin hist.lost =>
        /\ app # Nil /\ ~app.mark /\ app.spec.monitor # "bad" =>
              (scrape # Nil <=> app.spec.monitor # "")
        /\ app = Nil => scrape = Nil

\* For all applications, orders of edits and deliveries, and restarts.
THEOREM ScrapeRests == ASSUME NilIsNoObject PROVE Spec => []ScrapeAtRest
<1>1. Init => TInv /\ HistInv /\ SeenApp /\ ScrapeRight
  BY BoundAssumption DEF Init, TInv, Marked, HistInv, SeenApp, ScrapeRight
<1>2. TInv /\ [Next]_vars => TInv' BY TypesNext
<1>3. HistInv /\ [Next]_vars => HistInv' BY HistStep
<1>4. TInv /\ HistInv /\ SeenApp /\ [Next]_vars => SeenApp' BY SeenAppNext
<1>5. TInv /\ HistInv /\ SettingsInv /\ SeenApp /\ ScrapeRight /\ [Next]_vars => ScrapeRight'
  BY ScrapeRightNext
<1>6. SeenApp /\ ScrapeRight => ScrapeAtRest BY DEF SeenApp, ScrapeRight, ScrapeAtRest, AtRest
<1> QED BY <1>1, <1>2, <1>3, <1>4, <1>5, <1>6, SettingsInit, SettingsNext, PTL DEF Spec

=============================================================================
