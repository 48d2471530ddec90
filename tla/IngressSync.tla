----------------------------- MODULE IngressSync -----------------------------
(***************************************************************************)
(* The ingresses of one application.  Two controllers write them: the      *)
(* application's, one ingress for each of its domains, and the             *)
(* SQBDeployments', one for each SQBDeployment with a public entry.  The   *)
(* application's also deletes what it finds and nobody seems to want.      *)
(* Each decides on informer caches of three kinds, which lag behind the    *)
(* API server one object at a time.                                        *)
(*                                                                         *)
(* An ingress is named by application, class and host; only its existence  *)
(* is kept here, rules and annotations are left out.                       *)
(***************************************************************************)
EXTENDS Naturals, FiniteSets

CONSTANTS
    Domains,    \* class and host of a domain
    SDs,        \* the SQBDeployments of the application, with its label
    Classes,    \* ingress classes of a public entry
    Nil,        \* no object
    Vela,       \* the custom resources that carry KubeVela's label at some time
    VelaIng,    \* and the ingresses
    MaxOps      \* bound on user actions and failing calls, together

ASSUME NameAssumption == "app" \notin SDs
ASSUME BoundAssumption == MaxOps \in Nat

\* An SQBDeployment's host is made from its own name, so no two of them, and no
\* domain, share an ingress.
Names == ({"domain"} \X Domains) \cup ({"entry"} \X (SDs \X Classes))

\* The ingress of an entry takes over the labels of its SQBDeployment.
ASSUME VelaAssumption ==
    /\ Vela \subseteq {"app"} \cup SDs /\ VelaIng \subseteq Names
    /\ \A s \in SDs \cap Vela, c \in Classes : <<"entry", <<s, c>>>> \in VelaIng

AppObj == [open : BOOLEAN, domains : SUBSET Domains, mark : BOOLEAN]
SdObj == [public : BOOLEAN, class : Classes, mark : BOOLEAN]

ASSUME NilAssumption == Nil \notin AppObj \cup SdObj

VARIABLES
    app, sd,            \* custom resources at the API server
    appSeen, sdSeen,    \* and in the informer caches
    ing, seen,          \* the ingresses there are, and those in the cache
    late, lateIng,      \* custom resources and ingresses whose events are under way
    queue,              \* keys waiting for their worker
    appW, sdW,          \* the two workers
    hist,               \* SQBDeployments whose entry was ever withdrawn, whether the
                        \* application ever closed, and the keys whose last reconcile
                        \* ended in an error that is not retried
    ops                 \* user actions and failing calls so far

vars == <<app, sd, appSeen, sdSeen, ing, seen, late, lateIng, queue, appW, sdW, hist, ops>>

crs == <<app, sd, late>>
caches == <<appSeen, sdSeen, seen>>

\* getIngressName
DomainName(d) == <<"domain", d>>
EntryName(s, o) == <<"entry", <<s, o.class>>>>

\* Handle: a marked application, one without domains or not open has no ingresses.
Closed(a) == a.mark \/ a.domains = {} \/ ~a.open

\* Handle: whether an SQBDeployment has a public entry.
Public(o) == o # Nil /\ o.public /\ ~o.mark

Resting == [pc |-> "idle", in |-> Nil, todo |-> {}]
SdResting == [pc |-> "idle", key |-> Nil, in |-> Nil]

Init ==
    /\ app \in {a \in AppObj : ~a.mark} \cup {Nil} /\ appSeen = app
    /\ sd \in [SDs -> {o \in SdObj : ~o.mark} \cup {Nil}] /\ sdSeen = sd
    /\ ing = {} /\ seen = {} /\ late = {} /\ lateIng = {}
    /\ queue = {"app"} \cup SDs
    /\ appW = Resting /\ sdW = SdResting
    /\ hist = [withdrawn |-> {}, closed |-> app # Nil /\ Closed(app), lost |-> {}]
    /\ ops = 0

-----------------------------------------------------------------------------
(* Users, informers *)

Counted == ops < MaxOps /\ ops' = ops + 1

UserStep == Counted /\ UNCHANGED <<caches, ing, lateIng, queue, appW, sdW>>

\* The application is created, changed, marked for deletion, or deleted at once.
EditApp(a) ==
    /\ UserStep /\ app' = a /\ a # app
    /\ IF app = Nil THEN ~a.mark ELSE a = Nil \/ ~app.mark
    /\ late' = late \cup {"app"}
    /\ hist' = [hist EXCEPT !.closed = @ \/ (a # Nil /\ Closed(a))]
    /\ UNCHANGED sd

\* The same for an SQBDeployment; a public entry is withdrawn when it closes, moves or goes.
EditSd(s, o) ==
    /\ UserStep /\ sd' = [sd EXCEPT ![s] = o] /\ o # sd[s]
    /\ IF sd[s] = Nil THEN ~o.mark ELSE o = Nil \/ ~sd[s].mark
    /\ late' = late \cup {s}
    /\ hist' = IF Public(sd[s]) /\ ~(Public(o) /\ o.class = sd[s].class)
               THEN [hist EXCEPT !.withdrawn = @ \cup {s}] ELSE hist
    /\ UNCHANGED app

\* The events of a custom resource arrive, and its key is queued.
Deliver(x) ==
    /\ x \in late /\ late' = late \ {x}
    /\ appSeen' = IF x = "app" THEN app ELSE appSeen
    /\ sdSeen' = IF x \in SDs THEN [sdSeen EXCEPT ![x] = sd[x]] ELSE sdSeen
    /\ queue' = queue \cup {x}
    /\ UNCHANGED <<app, sd, ing, seen, lateIng, appW, sdW, hist, ops>>

\* Those of an ingress: no controller watches them.
DeliverIngress(n) ==
    /\ n \in lateIng /\ lateIng' = lateIng \ {n}
    /\ seen' = IF n \in ing THEN seen \cup {n} ELSE seen \ {n}
    /\ UNCHANGED <<crs, appSeen, sdSeen, ing, queue, appW, sdW, hist, ops>>

\* A resync, or a new status: for the application alone, the filter of the
\* SQBDeployments wants a new generation or new annotations.
Resync ==
    /\ appSeen # Nil /\ queue' = queue \cup {"app"}
    /\ UNCHANGED <<crs, caches, ing, lateIng, appW, sdW, hist, ops>>

-----------------------------------------------------------------------------
(* CreateOrUpdate and Delete of an ingress *)

\* Get from the cache, then create or update: a conflict, AlreadyExists or NotFound if
\* the cache is behind.
PutFails(n) == IF n \in seen THEN n \in lateIng ELSE n \in ing
Stay == UNCHANGED <<ing, lateIng>>

\* A copy with KubeVela's label is neither updated nor deleted, and that is no error.
LeftAlone(n) == n \in VelaIng /\ Stay

Put(n) ==
    \/ n \in seen /\ LeftAlone(n)
    \/ /\ ~PutFails(n) /\ ing' = ing \cup {n}
       /\ lateIng' = IF n \in ing THEN lateIng ELSE lateIng \cup {n}

\* Delete of a listed or read copy, by name.
Remove(n) ==
    \/ LeftAlone(n)
    \/ ing' = ing \ {n} /\ lateIng' = IF n \in ing THEN lateIng \cup {n} ELSE lateIng

\* Mutant: an error is not retried.
FailForget(k) == UNCHANGED queue

\* HandleReconcile on an error: the key is put back ...
Fail(k) == queue' = queue \cup {k}

\* ... unless the error says that something is invalid: nothing comes back to the key.
GiveUp(k) == UNCHANGED queue /\ hist' = [hist EXCEPT !.lost = @ \cup {k}]

\* A call of the handlers fails, those before the ingresses' included: the Service of an
\* application, the claims or the Deployment of an SQBDeployment may be refused.
Refused(k) ==
    /\ Counted
    /\ (Fail(k) /\ UNCHANGED hist) \/ GiveUp(k)
    /\ Stay

\* The key is taken up.
Take(k) == queue' = queue \ {k} /\ hist' = [hist EXCEPT !.lost = @ \ {k}]

-----------------------------------------------------------------------------
(* The application's worker *)

AppFrame == UNCHANGED <<caches, sdW, ops>>

AppFails == Fail("app") /\ appW' = Resting /\ Stay

AppRefused ==
    /\ appW.pc # "idle" /\ Refused("app") /\ appW' = Resting
    /\ UNCHANGED <<crs, caches, sdW>>

\* Mutant: hosts where ingress names belong.
AppBeginHosts ==
    /\ appW.pc = "idle" /\ "app" \in queue /\ Take("app")
    /\ appW' = IF appSeen = Nil THEN Resting
               ELSE [pc |-> "ingress", in |-> appSeen,
                     todo |-> IF Closed(appSeen) THEN {} ELSE appSeen.domains]
    /\ Stay /\ UNCHANGED crs /\ AppFrame

\* GetInstance; the domains to write unless there shall be none.
AppBegin ==
    /\ appW.pc = "idle" /\ "app" \in queue /\ Take("app")
    /\ appW' = IF appSeen = Nil THEN Resting
               ELSE [pc |-> "ingress", in |-> appSeen,
                     todo |-> IF Closed(appSeen) THEN {} ELSE {DomainName(d) : d \in appSeen.domains}]
    /\ Stay /\ UNCHANGED crs /\ AppFrame

\* CreateOrUpdateForSqbapplication: the ingress of one domain.
AppPut ==
    /\ appW.pc = "ingress"
    /\ \E n \in appW.todo :
         \/ Put(n) /\ appW' = [appW EXCEPT !.todo = @ \ {n}] /\ UNCHANGED queue
         \/ PutFails(n) /\ AppFails
    /\ UNCHANGED <<crs, hist>> /\ AppFrame

\* Mutant: isAutoIngress knows only the names of domains.
AppListDomains ==
    /\ appW.pc = "ingress" /\ appW.todo = {}
    /\ appW' = [appW EXCEPT !.pc = IF Closed(appW.in) THEN "delete" ELSE "sds",
                            !.todo = {n \in seen : n[1] = "domain"}]
    /\ Stay /\ UNCHANGED <<crs, queue, hist>> /\ AppFrame

\* List the ingresses, all of them generated; DeleteForSqbapplication deletes each.
AppList ==
    /\ appW.pc = "ingress" /\ appW.todo = {}
    /\ appW' = [appW EXCEPT !.pc = IF Closed(appW.in) THEN "delete" ELSE "sds",
                            !.todo = seen]
    /\ Stay /\ UNCHANGED <<crs, queue, hist>> /\ AppFrame

Entries(objs) == {EntryName(s, objs[s]) : s \in {t \in SDs : objs[t] # Nil /\ objs[t].public}}

\* Mutants: one half of the names to keep is forgotten.
KeepDomains(a, objs) == {DomainName(d) : d \in a.domains}
KeepEntries(a, objs) == Entries(objs)

\* ingressNames: the domains and the entries of the SQBDeployments.
Keep(a, objs) == {DomainName(d) : d \in a.domains} \cup Entries(objs)

\* CreateOrUpdateForSqbapplication lists the SQBDeployments after the ingresses.
AppKeep ==
    /\ appW.pc = "sds"
    /\ appW' = [appW EXCEPT !.pc = "delete", !.todo = @ \ Keep(appW.in, sdSeen)]
    /\ Stay /\ UNCHANGED <<crs, queue, hist>> /\ AppFrame

AppDelete ==
    /\ appW.pc = "delete"
    /\ \E n \in appW.todo : Remove(n) /\ appW' = [appW EXCEPT !.todo = @ \ {n}]
    /\ UNCHANGED <<crs, queue, hist>> /\ AppFrame

\* A marked application marks its SQBDeployments and goes (in one step; see Lifecycle),
\* other than those, and unless it is one, with KubeVela's label.
AppFinish ==
    /\ appW.pc = "delete" /\ appW.todo = {}
    /\ \/ ~appW.in.mark /\ appW' = Resting /\ Stay /\ UNCHANGED <<crs, queue, hist>>
       \/ /\ appW.in.mark
          /\ \E known \in SUBSET {s \in SDs : sdSeen[s] # Nil} :
               /\ {s \in SDs : sdSeen[s] # Nil} \ known \subseteq Vela
               /\ \/ known \cap late # {} /\ AppFails /\ UNCHANGED <<crs, hist>>
                  \/ /\ known \cap late = {} /\ appW' = Resting
                     /\ sd' = [s \in SDs |-> IF s \in known THEN [sd[s] EXCEPT !.mark = TRUE]
                                                             ELSE sd[s]]
                     /\ LET marked == {s \in known : ~sd[s].mark} IN
                          \/ app' = Nil /\ late' = late \cup {"app"} \cup marked
                          \/ "app" \in Vela /\ UNCHANGED app /\ late' = late \cup marked
                     /\ hist' = [hist EXCEPT !.withdrawn = @ \cup known]
                     /\ UNCHANGED <<ing, lateIng, queue>>
    /\ AppFrame

AppWork == AppBegin \/ AppPut \/ AppList \/ AppKeep \/ AppDelete \/ AppFinish

-----------------------------------------------------------------------------
(* The SQBDeployments' worker *)

SdFrame == UNCHANGED <<caches, app, appW, ops>>

SdRefused ==
    /\ sdW.pc # "idle" /\ Refused(sdW.key) /\ sdW' = SdResting
    /\ UNCHANGED <<crs, caches, appW>>

SdBegin ==
    /\ sdW.pc = "idle"
    /\ \E s \in SDs \cap queue :
         /\ Take(s)
         /\ sdW' = IF sdSeen[s] = Nil THEN SdResting
                   ELSE [pc |-> "ingress", key |-> s, in |-> sdSeen[s]]
    /\ Stay /\ UNCHANGED <<sd, late>> /\ SdFrame

\* What follows the ingress: a marked SQBDeployment is deleted.
SdNext == sdW' = IF sdW.in.mark THEN [sdW EXCEPT !.pc = "finish"] ELSE SdResting

\* Without its application the Deployment's handler fails, unless it is being deleted.
SdBlocked ==
    /\ sdW.pc = "ingress" /\ ~sdW.in.mark /\ appSeen = Nil
    /\ Fail(sdW.key) /\ sdW' = SdResting /\ Stay
    /\ UNCHANGED <<sd, late, hist>> /\ SdFrame

\* CreateOrUpdateForSqbdeployment
SdPut ==
    /\ sdW.pc = "ingress" /\ Public(sdW.in) /\ appSeen # Nil
    /\ LET n == EntryName(sdW.key, sdW.in) IN
         \/ Put(n) /\ SdNext /\ UNCHANGED queue
         \/ PutFails(n) /\ Fail(sdW.key) /\ sdW' = SdResting /\ Stay
    /\ UNCHANGED <<sd, late, hist>> /\ SdFrame

\* DeleteForSqbdeployment: nothing to do if the cache does not hold the ingress.
SdDelete ==
    /\ sdW.pc = "ingress" /\ ~Public(sdW.in) /\ (appSeen # Nil \/ sdW.in.mark)
    /\ LET n == EntryName(sdW.key, sdW.in) IN IF n \in seen THEN Remove(n) ELSE Stay
    /\ SdNext /\ UNCHANGED <<sd, late, queue, hist>> /\ SdFrame

SdFinish ==
    /\ sdW.pc = "finish" /\ sdW' = SdResting
    /\ \/ sdW.key \in Vela /\ UNCHANGED <<sd, late, hist>>
       \/ /\ sd' = [sd EXCEPT ![sdW.key] = Nil] /\ late' = late \cup {sdW.key}
          /\ hist' = [hist EXCEPT !.withdrawn = @ \cup {sdW.key}]
    /\ UNCHANGED <<ing, lateIng, queue>> /\ SdFrame

SdWork == SdBegin \/ SdBlocked \/ SdPut \/ SdDelete \/ SdFinish

-----------------------------------------------------------------------------
Next ==
    \/ \E a \in AppObj \cup {Nil} : EditApp(a)
    \/ \E s \in SDs, o \in SdObj \cup {Nil} : EditSd(s, o)
    \/ \E x \in {"app"} \cup SDs : Deliver(x)
    \/ \E n \in Names : DeliverIngress(n)
    \/ Resync \/ AppWork \/ AppRefused \/ SdWork \/ SdRefused

Spec == Init /\ [][Next]_vars

\* Informers and workers keep running, and the resync comes round.
Fairness ==
    /\ \A x \in {"app"} \cup SDs : WF_vars(Deliver(x))
    /\ \A n \in Names : WF_vars(DeliverIngress(n))
    /\ WF_vars(Resync) /\ WF_vars(AppWork) /\ WF_vars(SdWork)

LiveSpec == Spec /\ Fairness

-----------------------------------------------------------------------------
(* Properties *)

\* Every variable has its type, and where no event is under way the cache is right.
TypeOK ==
    /\ app \in AppObj \cup {Nil} /\ appSeen \in AppObj \cup {Nil}
    /\ sd \in [SDs -> SdObj \cup {Nil}] /\ sdSeen \in [SDs -> SdObj \cup {Nil}]
    /\ ing \subseteq Names /\ seen \subseteq Names
    /\ late \subseteq {"app"} \cup SDs /\ lateIng \subseteq Names
    /\ queue \subseteq {"app"} \cup SDs
    /\ appW \in [pc : {"idle", "ingress", "sds", "delete"}, in : AppObj \cup {Nil},
                 todo : SUBSET Names]
    /\ sdW \in [pc : {"idle", "ingress", "finish"}, key : SDs \cup {Nil}, in : SdObj \cup {Nil}]
    /\ hist \in [withdrawn : SUBSET SDs, closed : BOOLEAN, lost : SUBSET ({"app"} \cup SDs)]
    /\ ops \in Nat
    /\ \A n \in Names \ lateIng : n \in seen <=> n \in ing

\* A public entry whose SQBDeployment was never marked or deleted, and which was never
\* withdrawn or moved, since it first opened.
Firm(s) == Public(sd[s]) /\ s \notin hist.withdrawn

\* The application's clean-up never cuts a standing public entry: whatever the ages of
\* the two lists it compares, the ingress of such an entry goes only where all of
\* the application's do (CreateOrUpdateForSqbapplication lists ingresses, then
\* SQBDeployments; the other order would not do).
EntryKept ==
    [][\A s \in SDs : Firm(s) /\ EntryName(s, sd[s]) \in ing \ ing'
                      => appW.pc = "delete" /\ Closed(appW.in)]_vars

\* An entry the worker is bound to serve: the last reconcile of its SQBDeployment did not
\* end in an error that is not retried (a refused Deployment comes before the ingress),
\* and its ingress never carries KubeVela's label.
Due(s) == Firm(s) /\ s \notin hist.lost /\ EntryName(s, sd[s]) \notin VelaIng

\* A standing public entry of an application that was always open has its ingress in
\* the end, even if the SQBDeployment came first (CreateOrUpdateForSqbdeployment, retries;
\* an error that is not retried leaves it to the next event of the SQBDeployment).
EntriesSettle ==
    <>[](app # Nil /\ ~hist.closed =>
            \A s \in SDs : Due(s) => EntryName(s, sd[s]) \in ing)

\* The ingresses of the application's domains, those with KubeVela's label left out.
WantedDomains == {DomainName(d) : d \in app.domains} \ VelaIng

\* An open application ends with the ingresses of its domains, although its own clean-up
\* and stale copies of it run in between (CreateOrUpdateForSqbapplication; the resync comes
\* back to an application whatever error ended its last reconcile).
DomainsSettle ==
    <>[](app # Nil /\ ~Closed(app) => WantedDomains \subseteq ing)

\* No ingress outlives its reason while the application is there: those of dropped
\* domains, of entries withdrawn, moved or deleted, and those the SQBDeployment's worker
\* missed because its cache did not hold them yet (the clean-up, at the next resync; it
\* spares what has KubeVela's label, and the entry of an SQBDeployment whose deletion
\* ended in an error that is not retried).
StraysGo ==
    <>[](app # Nil =>
            ing \subseteq (IF Closed(app) THEN {} ELSE {DomainName(d) : d \in app.domains})
                          \cup {EntryName(s, sd[s]) : s \in {t \in SDs : Public(sd[t])}}
                          \cup {EntryName(s, sd[s]) : s \in {t \in SDs \cap hist.lost : sd[t] # Nil}}
                          \cup VelaIng)

\* Nothing is left to do: no event under way, no key waiting, no worker at work.
AtRest ==
    /\ queue = {} /\ late = {} /\ lateIng = {}
    /\ appW.pc = "idle" /\ sdW.pc = "idle"

\* Whenever nothing is left to do, an open application has the ingresses of its domains,
\* and one that was never closed those of every standing public entry: nothing that is
\* wanted waits for a resync, other than after an error that is not retried and for an
\* ingress with KubeVela's label.  (A stray may: StraysGo.)
IngressesAtRest ==
    AtRest /\ app # Nil =>
        /\ ~Closed(app) /\ "app" \notin hist.lost => WantedDomains \subseteq ing
        /\ ~hist.closed => \A s \in SDs : Due(s) => EntryName(s, sd[s]) \in ing

\* "public-entry: whether to open the entry" (README.md): a standing public entry has
\* its ingress in the end, as long as the application is there and its ingress switch
\* is on.
EntryStays ==
    <>[](app # Nil /\ ~app.mark /\ app.open
            => \A s \in SDs : Firm(s) => EntryName(s, sd[s]) \in ing)
=============================================================================
