------------------------------ MODULE SdObjects ------------------------------
(***************************************************************************)
(* Volume claims and special routes, the objects that only the             *)
(* SQBDeployments' worker writes.  The claims of all SQBDeployments with   *)
(* one application and plane label are listed and cleaned up together; the *)
(* route is an object of its own, with the SQBDeployment's name.  Informer *)
(* caches lag behind the API server one object at a time.                  *)
(*                                                                         *)
(* A claim is its name: given by the user, or made from the mount path and *)
(* the SQBDeployment's creation time.  Storage class and routing rules are *)
(* left out; the handlers in between only matter when they fail, for want  *)
(* of the application for instance.                                        *)
(***************************************************************************)
EXTENDS Naturals, FiniteSets

CONSTANTS
    SDs,        \* the SQBDeployments with the labels of one application and plane
    Claims,     \* claim names
    Nil,        \* no object
    Vela,       \* the SQBDeployments that carry KubeVela's label at some time
    VelaClaims, \* and the claims
    MaxOps,     \* bound on user actions
    MaxFaults   \* bound on failing API calls

SdObj == [want : SUBSET Claims, public : BOOLEAN, mark : BOOLEAN]

ASSUME BoundAssumption == MaxOps \in Nat /\ MaxFaults \in Nat
ASSUME NilAssumption == Nil \notin SDs /\ Nil \notin SdObj

\* A claim takes over the labels of its SQBDeployment.
ASSUME VelaAssumption ==
    /\ Vela \subseteq SDs /\ VelaClaims \subseteq Claims
    /\ Vela # {} => VelaClaims = Claims

VARIABLES
    sd, sdSeen,         \* SQBDeployments at the API server and in the cache
    claims, claimsSeen, \* claims: "none", "bound", "going"; those the cache holds
    routes, routesSeen, \* SQBDeployments with a route, there and in the cache
    late,               \* <<kind, name>>: changed, and the cache does not know yet
    settings,           \* switches that are on: "claims" (pvcEnable), "routes" (istioEnable)
    app,                \* whether the cache holds the application
    queue,              \* SQBDeployments waiting for the worker
    w,                  \* the worker
    hist,               \* claims ever dropped, SQBDeployments ever deleted without the mark,
                        \* claims a deletion left behind, whether a setting ever changed, and
                        \* the SQBDeployments whose last reconcile left out a step for good
    count               \* user actions and faults so far

vars == <<sd, sdSeen, claims, claimsSeen, routes, routesSeen, late, settings, app, queue,
          w, hist, count>>

objects == <<claims, routes>>
caches == <<sdSeen, claimsSeen, routesSeen>>

Resting == [pc |-> "idle", key |-> Nil, in |-> Nil, exists |-> {}, todo |-> {}]

Init ==
    /\ sd \in [SDs -> {o \in SdObj : ~o.mark} \cup {Nil}] /\ sdSeen = sd
    /\ claims = [n \in Claims |-> "none"] /\ claimsSeen = {}
    /\ routes = {} /\ routesSeen = {} /\ late = {}
    /\ settings \in SUBSET {"claims", "routes"} /\ app \in BOOLEAN
    /\ queue = {s \in SDs : sd[s] # Nil}
    /\ w = Resting
    /\ hist = [dropped |-> {}, unmarked |-> {}, missed |-> {}, switched |-> FALSE,
               lost |-> {}]
    /\ count = [ops |-> 0, faults |-> 0]

Wanting(o) == o # Nil /\ ~o.mark
Live(s) == Wanting(sd[s])

-----------------------------------------------------------------------------
(* Users, pods, informers *)

UserStep ==
    /\ count.ops < MaxOps /\ count' = [count EXCEPT !.ops = @ + 1]
    /\ UNCHANGED <<objects, caches, queue, w>>

\* An SQBDeployment is created, changed, marked for deletion, or deleted at once.
EditSd(s, o) ==
    /\ UserStep /\ sd' = [sd EXCEPT ![s] = o] /\ o # sd[s]
    /\ IF sd[s] = Nil THEN ~o.mark ELSE o = Nil \/ ~sd[s].mark
    /\ late' = late \cup {<<"sd", s>>}
    /\ hist' = IF sd[s] = Nil THEN hist
               ELSE [hist EXCEPT !.dropped = @ \cup (IF Wanting(o) THEN sd[s].want \ o.want
                                                     ELSE sd[s].want),
                                 !.unmarked = IF o = Nil THEN @ \cup {s} ELSE @]
    /\ UNCHANGED <<settings, app>>

\* The ConfigMap changes a switch; no SQBDeployment is queued.
EditSettings(x) ==
    /\ UserStep
    /\ settings' = IF x \in settings THEN settings \ {x} ELSE settings \cup {x}
    /\ hist' = [hist EXCEPT !.switched = TRUE]
    /\ UNCHANGED <<sd, late, app>>

\* The cache gets or loses the application; that queues none either.
EditApp == UserStep /\ app' = ~app /\ UNCHANGED <<sd, late, settings, hist>>

\* A deleted claim is gone once no pod uses it.
Vanish(n) ==
    /\ claims[n] = "going" /\ claims' = [claims EXCEPT ![n] = "none"]
    /\ late' = late \cup {<<"claim", n>>}
    /\ UNCHANGED <<sd, caches, routes, settings, app, queue, w, hist, count>>

\* The events of an object arrive; only those of SQBDeployments queue anything.
DeliverSd(s) ==
    /\ <<"sd", s>> \in late /\ late' = late \ {<<"sd", s>>}
    /\ sdSeen' = [sdSeen EXCEPT ![s] = sd[s]] /\ queue' = queue \cup {s}
    /\ UNCHANGED <<sd, objects, claimsSeen, routesSeen, settings, app, w, hist, count>>

DeliverClaim(n) ==
    /\ <<"claim", n>> \in late /\ late' = late \ {<<"claim", n>>}
    /\ claimsSeen' = IF claims[n] = "none" THEN claimsSeen \ {n} ELSE claimsSeen \cup {n}
    /\ UNCHANGED <<sd, objects, sdSeen, routesSeen, settings, app, queue, w, hist, count>>

DeliverRoute(s) ==
    /\ <<"route", s>> \in late /\ late' = late \ {<<"route", s>>}
    /\ routesSeen' = IF s \in routes THEN routesSeen \cup {s} ELSE routesSeen \ {s}
    /\ UNCHANGED <<sd, objects, sdSeen, claimsSeen, settings, app, queue, w, hist, count>>

-----------------------------------------------------------------------------
(* The worker *)

Frame == UNCHANGED <<caches, settings, app>>
Keep == UNCHANGED <<sd, objects, late, hist>>

\* The claims that a list from the cache leaves out.
Unlisted == {n \in Claims : claims[n] = "bound"} \ claimsSeen

\* Mutants: an error is not retried; the worker's lists survive the failed reconcile.
FailForget == UNCHANGED queue /\ w' = Resting
FailLeak == queue' = queue \cup {w.key} /\ w' = [w EXCEPT !.pc = "idle"]

\* HandleReconcile on an error: the key is put back ...
Fail == queue' = queue \cup {w.key} /\ w' = Resting

\* ... unless the error says that something is invalid: nothing comes back to the key.
GiveUp == w' = Resting /\ hist' = [hist EXCEPT !.lost = @ \cup {w.key}] /\ UNCHANGED queue

\* GetInstance, from the cache.
Begin ==
    /\ w.pc = "idle"
    /\ \E s \in queue :
         /\ queue' = queue \ {s}
         /\ w' = IF sdSeen[s] = Nil THEN Resting
                 ELSE [Resting EXCEPT !.pc = "claims", !.key = s, !.in = sdSeen[s]]
         /\ hist' = [hist EXCEPT !.lost = @ \ {s}]
    /\ UNCHANGED <<sd, objects, late, count>> /\ Frame

\* Any API call of the handlers fails, that of the Deployment's included, which comes
\* between claims and route; not that of a claim's deletion in Delete.
HandlerFails ==
    /\ w.pc \notin {"idle", "drop"} /\ count.faults < MaxFaults
    /\ count' = [count EXCEPT !.faults = @ + 1]
    /\ (Fail /\ UNCHANGED hist) \/ GiveUp
    /\ UNCHANGED <<sd, objects, late>> /\ Frame

\* Without the application, an SQBDeployment is not initialized if it was not before (at
\* "claims"), and the Deployment's handler fails unless it is being deleted (at "route").
Blocked ==
    /\ ~app
    /\ w.pc = "claims" \/ (w.pc = "route" /\ ~w.in.mark)
    /\ Fail /\ Keep /\ UNCHANGED count /\ Frame

\* The handlers before the route's are through.
Passed == app \/ w.in.mark

\* Mutant: Delete takes only the claims the SQBDeployment names now.
ClaimListOwn ==
    /\ w.pc = "claims"
    /\ w' = CASE "claims" \notin settings -> [w EXCEPT !.pc = "route"]
              [] "claims" \in settings /\ w.in.mark ->
                    [w EXCEPT !.pc = "drop", !.todo = claimsSeen \cap w.in.want]
              [] OTHER -> [w EXCEPT !.pc = "make", !.todo = w.in.want, !.exists = claimsSeen]
    /\ hist' = IF w'.pc = "drop" THEN [hist EXCEPT !.missed = @ \cup Unlisted] ELSE hist
    /\ UNCHANGED <<sd, objects, late, queue, count>> /\ Frame

\* pvcHandler.Handle and getPVCList
ClaimList ==
    /\ w.pc = "claims"
    /\ w' = CASE "claims" \notin settings -> [w EXCEPT !.pc = "route"]
              [] "claims" \in settings /\ w.in.mark ->
                    [w EXCEPT !.pc = "drop", !.todo = claimsSeen]
              [] OTHER -> [w EXCEPT !.pc = "make", !.todo = w.in.want, !.exists = claimsSeen]
    /\ hist' = IF w'.pc = "drop" THEN [hist EXCEPT !.missed = @ \cup Unlisted] ELSE hist
    /\ UNCHANGED <<sd, objects, late, queue, count>> /\ Frame

\* Mutant: a claim that is there stays on the list of those to delete.
MakeNoneKept(n) ==
    IF n \in w.exists \/ n \in claimsSeen
    THEN w' = [w EXCEPT !.todo = @ \ {n}] /\ UNCHANGED <<queue, claims, late>>
    ELSE IF claims[n] # "none" THEN Fail /\ UNCHANGED <<claims, late>>
    ELSE /\ claims' = [claims EXCEPT ![n] = "bound"] /\ late' = late \cup {<<"claim", n>>}
         /\ w' = [w EXCEPT !.todo = @ \ {n}] /\ UNCHANGED queue

\* One claim of CreateOrUpdate: listed, found by Get, or created (AlreadyExists if the
\* cache is behind).
MakeOne(n) ==
    IF n \in w.exists \/ n \in claimsSeen
    THEN /\ w' = [w EXCEPT !.todo = @ \ {n}, !.exists = @ \ {n}]
         /\ UNCHANGED <<queue, claims, late>>
    ELSE IF claims[n] # "none" THEN Fail /\ UNCHANGED <<claims, late>>
    ELSE /\ claims' = [claims EXCEPT ![n] = "bound"] /\ late' = late \cup {<<"claim", n>>}
         /\ w' = [w EXCEPT !.todo = @ \ {n}] /\ UNCHANGED queue

Make ==
    /\ w.pc = "make" /\ \E n \in w.todo : MakeOne(n)
    /\ UNCHANGED <<sd, routes, hist, count>> /\ Frame

MakeDone ==
    /\ w.pc = "make" /\ w.todo = {}
    /\ w' = [w EXCEPT !.pc = "strays", !.todo = w.exists, !.exists = {}]
    /\ Keep /\ UNCHANGED <<queue, count>> /\ Frame

\* Delete, by name: a bound claim is on its way out.
Remove(n) ==
    IF claims[n] = "bound"
    THEN claims' = [claims EXCEPT ![n] = "going"] /\ late' = late \cup {<<"claim", n>>}
    ELSE UNCHANGED <<claims, late>>

\* CreateOrUpdate deletes, by name, what is listed and not wanted; Delete all that is
\* listed, by the listed copies, and none that has KubeVela's label.
Drop ==
    /\ w.pc \in {"strays", "drop"}
    /\ \E n \in w.todo :
         /\ \/ Remove(n) /\ UNCHANGED hist
            \/ /\ w.pc = "drop" /\ n \in VelaClaims /\ UNCHANGED <<claims, late>>
               /\ hist' = [hist EXCEPT !.missed = @ \cup {n}]
         /\ w' = [w EXCEPT !.todo = @ \ {n}]
    /\ UNCHANGED <<sd, routes, queue, count>> /\ Frame

\* pvcHandler.Delete returns the List's error, which is nil, when a deletion fails.
DropFails ==
    /\ w.pc = "drop" /\ w.todo # {} /\ count.faults < MaxFaults
    /\ count' = [count EXCEPT !.faults = @ + 1]
    /\ w' = [w EXCEPT !.pc = "route", !.todo = {}]
    /\ hist' = [hist EXCEPT !.missed = @ \cup w.todo]
    /\ UNCHANGED <<sd, objects, late, queue>> /\ Frame

DropDone ==
    /\ w.pc \in {"strays", "drop"} /\ w.todo = {}
    /\ w' = [w EXCEPT !.pc = "route"]
    /\ Keep /\ UNCHANGED <<queue, count>> /\ Frame

\* Mutant: the route is looked up in the cache before it is deleted.
RouteDeleteIfSeen ==
    /\ w.pc = "route" /\ Passed /\ "routes" \in settings /\ (w.in.mark \/ ~w.in.public)
    /\ w' = [w EXCEPT !.pc = "finish"]
    /\ IF w.key \in routes \cap routesSeen
       THEN routes' = routes \ {w.key} /\ late' = late \cup {<<"route", w.key>>}
       ELSE UNCHANGED <<routes, late>>
    /\ UNCHANGED <<sd, claims, queue, hist, count>> /\ Frame

\* specialVirtualServiceHandler: nothing without istio; a route for a public entry
\* (created if the cache has none, else updated; fails if the cache is behind) ...
RouteSkip ==
    /\ w.pc = "route" /\ Passed /\ "routes" \notin settings
    /\ w' = [w EXCEPT !.pc = "finish"]
    /\ Keep /\ UNCHANGED <<queue, count>> /\ Frame

RoutePut ==
    /\ w.pc = "route" /\ Passed /\ "routes" \in settings /\ w.in.public /\ ~w.in.mark
    /\ IF <<"route", w.key>> \in late /\ (w.key \in routesSeen \/ w.key \in routes)
       THEN Fail /\ UNCHANGED <<routes, late>>
       ELSE /\ w' = [w EXCEPT !.pc = "finish"] /\ UNCHANGED queue
            /\ routes' = routes \cup {w.key}
            /\ late' = IF w.key \in routes THEN late ELSE late \cup {<<"route", w.key>>}
    /\ UNCHANGED <<sd, claims, hist, count>> /\ Frame

\* A cached route that takes KubeVela's label from its SQBDeployment is not updated, and
\* nobody hears that it is gone.
RouteLeftAlone ==
    /\ w.pc = "route" /\ Passed /\ "routes" \in settings /\ w.in.public /\ ~w.in.mark
    /\ w.key \in Vela \cap routesSeen
    /\ w' = [w EXCEPT !.pc = "finish"]
    /\ hist' = IF w.key \in routes THEN hist ELSE [hist EXCEPT !.lost = @ \cup {w.key}]
    /\ UNCHANGED <<sd, objects, late, queue, count>> /\ Frame

\* ... and without one, its deletion by name.
RouteDelete ==
    /\ w.pc = "route" /\ Passed /\ "routes" \in settings /\ (w.in.mark \/ ~w.in.public)
    /\ w' = [w EXCEPT !.pc = "finish"]
    /\ IF w.key \in routes
       THEN routes' = routes \ {w.key} /\ late' = late \cup {<<"route", w.key>>}
       ELSE UNCHANGED <<routes, late>>
    /\ UNCHANGED <<sd, claims, queue, hist, count>> /\ Frame

\* A marked SQBDeployment is deleted, by name, unless it has KubeVela's label.
Finish ==
    /\ w.pc = "finish" /\ w' = Resting
    /\ \/ /\ w.in.mark /\ sd[w.key] # Nil
          /\ sd' = [sd EXCEPT ![w.key] = Nil] /\ late' = late \cup {<<"sd", w.key>>}
          /\ hist' = [hist EXCEPT !.dropped = @ \cup sd[w.key].want]
       \/ /\ ~w.in.mark \/ sd[w.key] = Nil \/ w.key \in Vela
          /\ UNCHANGED <<sd, late, hist>>
    /\ UNCHANGED <<objects, queue, count>> /\ Frame

Work ==
    \/ Begin \/ Blocked \/ ClaimList \/ Make \/ MakeDone \/ Drop \/ DropDone
    \/ RouteSkip \/ RoutePut \/ RouteLeftAlone \/ RouteDelete \/ Finish

-----------------------------------------------------------------------------
Next ==
    \/ \E s \in SDs, o \in SdObj \cup {Nil} : EditSd(s, o)
    \/ \E x \in {"claims", "routes"} : EditSettings(x)
    \/ EditApp
    \/ \E n \in Claims : Vanish(n) \/ DeliverClaim(n)
    \/ \E s \in SDs : DeliverSd(s) \/ DeliverRoute(s)
    \/ HandlerFails \/ DropFails \/ Work

Spec == Init /\ [][Next]_vars

\* Informers and the worker keep running; pods let go of deleted claims.
Fairness ==
    /\ \A n \in Claims : WF_vars(Vanish(n)) /\ WF_vars(DeliverClaim(n))
    /\ \A s \in SDs : WF_vars(DeliverSd(s)) /\ WF_vars(DeliverRoute(s))
    /\ WF_vars(Work)

LiveSpec == Spec /\ Fairness

-----------------------------------------------------------------------------
(* Properties *)

\* The types, and that an idle worker carries nothing over into its next reconcile
\* (HandleReconcile makes its handlers anew).
TypeOK ==
    /\ \A s \in SDs : {sd[s], sdSeen[s]} \subseteq SdObj \cup {Nil}
    /\ claims \in [Claims -> {"none", "bound", "going"}] /\ claimsSeen \subseteq Claims
    /\ routes \subseteq SDs /\ routesSeen \subseteq SDs
    /\ late \subseteq {"sd", "route"} \X SDs \cup {"claim"} \X Claims
    /\ settings \subseteq {"claims", "routes"} /\ app \in BOOLEAN
    /\ queue \subseteq SDs
    /\ w \in [pc : {"idle", "claims", "make", "strays", "drop", "route", "finish"},
              key : SDs \cup {Nil}, in : SdObj \cup {Nil},
              exists : SUBSET Claims, todo : SUBSET Claims]
    /\ w.pc = "idle" => w = Resting
    /\ hist \in [dropped : SUBSET Claims, unmarked : SUBSET SDs,
                 missed : SUBSET Claims, switched : BOOLEAN, lost : SUBSET SDs]
    /\ count.ops \in 0 .. MaxOps /\ count.faults \in 0 .. MaxFaults

\* A claim that its SQBDeployment wants, and has wanted ever since it was bound, is not
\* deleted: not as a stray by a reconcile of an older copy, not when a list from the
\* cache lacks it, not by a retry (pvcHandler.CreateOrUpdate and Delete).  The instance
\* has one SQBDeployment for the labels; two of them would delete each other's claims.
ClaimKept ==
    [][\A n \in Claims :
         /\ claims[n] = "bound" /\ n \notin hist.dropped
         /\ \E s \in SDs : Live(s) /\ n \in sd[s].want
         => claims'[n] = "bound"]_vars

\* A live SQBDeployment that the worker is bound to serve: its last reconcile neither ended
\* in an error that is not retried (a refused Deployment comes before the route), nor took
\* an update that KubeVela's label kept back for one that was made.
Due(s) == Live(s) /\ s \notin hist.lost

\* Once the application is there, every claim such an SQBDeployment wants, and never gave up,
\* is bound in the end, whatever other calls failed and however late the cache is: a retry
\* completes a list of claims of which some are made already (HandleReconcile,
\* pvcHandler.CreateOrUpdate).
ClaimsSettle ==
    <>[]("claims" \in settings /\ ~hist.switched /\ app =>
            \A s \in SDs : Due(s) => \A n \in sd[s].want \ hist.dropped : claims[n] = "bound")

\* The claims go before their SQBDeployment: of one deleted by way of the mark only those
\* are bound that the list from the cache did not hold yet, whose deletion failed, which
\* Delete forgets, or which had KubeVela's label; not one made by an earlier reconcile,
\* found on an earlier try, or given up by an edit, nor one made after it went
\* (pvcHandler.Delete and CreateOrUpdate).
ClaimsGo ==
    "claims" \in settings /\ ~hist.switched =>
        \A s \in SDs : sd[s] = Nil /\ s \notin hist.unmarked =>
            \A n \in Claims : claims[n] = "bound" => n \in hist.missed

\* With istio on and the application there, a live SQBDeployment that is due has a route in
\* the end if and only if it has a public entry, and none is left of one that went by way of
\* the mark, although no cache is asked before the deletion
\* (specialVirtualServiceHandler.Handle).
RoutesSettle ==
    <>[]("routes" \in settings /\ ~hist.switched =>
            \A s \in SDs : /\ app /\ Due(s) => (s \in routes <=> sd[s].public)
                           /\ sd[s] = Nil /\ s \in routes => s \in hist.unmarked)
=============================================================================
