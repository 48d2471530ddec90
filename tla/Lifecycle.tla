------------------------------ MODULE Lifecycle ------------------------------
(***************************************************************************)
(* The life of the operator's objects: SQBApplications, SQBPlanes,         *)
(* SQBDeployments and the Deployments made from them.                      *)
(*                                                                         *)
(* Four controllers (one worker each) reconcile the four kinds.  A worker  *)
(* reads the informer cache, which lags behind the API server, and writes  *)
(* to the API server, which refuses an update made from an old copy.  One  *)
(* action is one write (or one read that later steps depend on), so the    *)
(* users, the informers, a crash and the other workers run in between.     *)
(***************************************************************************)
EXTENDS Naturals, Sequences, FiniteSets

CONSTANTS
    Apps, Planes, SDs,      \* names of SQBApplications, SQBPlanes, SQBDeployments
    AppOf, PlaneOf,         \* spec.selector of an SQBDeployment
    Labelled,               \* SQBDeployments whose labels repeat the selector
    Annotated,              \* SQBDeployments created with some annotation
    Vela,                   \* objects that carry KubeVela's label at some time
    Nil,                    \* no object
    Existing,               \* custom resources there at the start, and reconciled
    UserMay,                \* the kinds of user action of the instance
    Resyncs,                \* whether the instance is long enough for a periodic resync
    MaxOps,                 \* bound on user actions
    MaxFaults,              \* bound on transient failures inside a reconcile
    MaxCrashes,             \* bound on crashes of the operator
    MaxLag                  \* bound on undelivered watch events of a kind

Kinds == {"app", "plane", "sd", "dep"}

\* Namespaced names, one name space per kind; a Deployment has the name of its SQBDeployment.
Ref == ({"app"} \X Apps) \cup ({"plane"} \X Planes) \cup ({"sd", "dep"} \X SDs)

\* The delete annotation: absent, the checksum of the name, anything else.
Marks == {"none", "ok", "wrong"}

AppObj == [mark : Marks, istio : BOOLEAN, mirrors : SUBSET SDs, err : BOOLEAN]
PlaneObj == [mark : Marks, mirrors : SUBSET SDs, err : BOOLEAN]
SdObj == [mark : Marks, init : BOOLEAN, istio : BOOLEAN, err : BOOLEAN]
DepObj == [istio : BOOLEAN, term : BOOLEAN, fin : BOOLEAN]

ObjOf(k) == CASE k = "app" -> AppObj
              [] k = "plane" -> PlaneObj
              [] k = "sd" -> SdObj
              [] OTHER -> DepObj

AnyObj == AppObj \cup PlaneObj \cup SdObj \cup DepObj

UserActions == {"create", "recreate", "mark", "mismark", "delete", "toggle"}

ASSUME RefAssumption ==
    /\ AppOf \in [SDs -> Apps] /\ PlaneOf \in [SDs -> Planes]
    /\ Labelled \subseteq SDs /\ Annotated \subseteq SDs
    /\ Existing \subseteq Ref
    /\ \A s \in SDs : <<"dep", s>> \in Existing <=> <<"sd", s>> \in Existing
    /\ \A s \in SDs : <<"sd", s>> \in Existing => <<"app", AppOf[s]>> \in Existing
ASSUME VelaAssumption ==    \* a Deployment is made with the labels of its SQBDeployment
    /\ Vela \subseteq Ref
    /\ \A s \in SDs : <<"sd", s>> \in Vela => <<"dep", s>> \in Vela
ASSUME NilAssumption ==
    Nil \notin Ref \cup AnyObj
ASSUME BoundAssumption ==
    /\ MaxOps \in Nat /\ MaxFaults \in Nat /\ MaxCrashes \in Nat /\ MaxLag \in Nat \ {0}
    /\ UserMay \subseteq UserActions /\ Resyncs \in BOOLEAN

VARIABLES
    api,        \* the API server: Ref -> object or Nil
    watch,      \* per kind, the events sent and not yet delivered
    cache,      \* the informer caches: Ref -> object or Nil
    queue,      \* the work queues: the keys waiting for a worker
    w,          \* the worker of each controller
    phase,      \* of the operator: boot -> waiting -> ready
    budget,     \* user actions, faults and crashes so far
    hist        \* refs ever created, refs a user ever marked for deletion, and refs whose
                \* key was dropped and has not been worked on since

vars == <<api, watch, cache, queue, w, phase, budget, hist>>

-----------------------------------------------------------------------------
(* Objects and what the code asks of them *)

\* Mutant: any delete annotation will do.
IsDeletedAny(o) == o.mark # "none"

\* IsDeleted: the annotation holds the right checksum; a wrong one is an error.
IsDeleted(o) == o.mark = "ok"
WrongMark(o) == o.mark = "wrong"

\* A user's SQBDeployment has a nil annotation map until something annotates it.
NilAnnotations(s, o) == s \notin Annotated /\ ~o.init /\ o.mark = "none"

\* The SQBDeployments a label selector on an application or a plane finds.
Selects(r, s) ==
    /\ s \in Labelled
    /\ \/ r[1] = "app" /\ AppOf[s] = r[2]
       \/ r[1] = "plane" /\ PlaneOf[s] = r[2]

\* handleIstio: an initialized SQBDeployment follows the application's injection flag.
NeedsIstio(a, o) == o.init /\ o.istio # a.istio

\* Mutant: terminating Deployments count.
CountsAll(d) == d # Nil

\* A Deployment counts in a status while it has no deletion timestamp.
Counts(d) == d # Nil /\ ~d.term

\* What a delete call leaves: a finalizer keeps a Deployment, terminating.
AfterDelete(k, o) == IF k = "dep" /\ o # Nil /\ o.fin THEN [o EXCEPT !.term = TRUE] ELSE Nil

\* Mutant: AddFinalizer forgotten.
NewDeploymentBare(o) == [istio |-> o.istio, term |-> FALSE, fin |-> FALSE]

\* What CreateOrUpdate makes of an SQBDeployment that has no Deployment yet.
NewDeployment(o) == [istio |-> o.istio, term |-> FALSE, fin |-> TRUE]

\* Mutants: no update of a Deployment passes; annotations are not looked at; an
\* application's resync does not pass.
PassesNoTerm(k, old, new) ==
    IF k = "dep" THEN old = Nil /\ new # Nil ELSE TRUE
PassesNoAnnotations(k, old, new) ==
    IF k \in {"plane", "sd"} THEN old = Nil \/ new = Nil ELSE k = "app" \/ old = Nil
PassesChangedApp(k, old, new) ==
    CASE k = "app" -> old # new
      [] k = "dep" -> new # Nil /\ (old = Nil \/ new.term)
      [] OTHER -> old # new

\* The event filters of the controllers, on the cached and the delivered object.
Passes(k, old, new) ==
    IF old = Nil THEN new # Nil
    ELSE IF new = Nil THEN k # "dep"
    ELSE CASE k = "app" -> TRUE
           [] k = "plane" -> old.mark # new.mark
           [] k = "sd" -> <<old.mark, old.init, old.istio>> # <<new.mark, new.init, new.istio>>
           [] OTHER -> new.term

-----------------------------------------------------------------------------
(* The API server, the watches and the workers *)

Event == {e \in [ref : Ref, obj : AnyObj \cup {Nil}] : e.obj \in ObjOf(e.ref[1]) \cup {Nil}}

\* A reconcile: its place in the handlers, the request's key, the object read, the
\* listed objects still to write, the listed names, the refs whose copy is current.
Worker == [pc : {"idle", "operate", "init", "items", "finish",
                 "appStatus", "plane", "planeStatus"},
           key : Ref \cup {Nil},
           in : AnyObj \cup {Nil},
           todo : SUBSET (SDs \X SdObj),
           view : SUBSET SDs,
           fresh : SUBSET Ref]

Idle == [pc |-> "idle", key |-> Nil, in |-> Nil, todo |-> {}, view |-> {}, fresh |-> {}]

Pending(r) == \E i \in DOMAIN watch[r[1]] : watch[r[1]][i].ref = r

\* The refs of rs whose cached copy has the resource version of the API server's.
Fresh(rs) == {r \in rs : ~Pending(r)}

\* A write to r by worker k, which goes on as next: every copy of r held elsewhere is old now.
Write(k, r, o, next) ==
    /\ Len(watch[r[1]]) < MaxLag
    /\ api' = [api EXCEPT ![r] = o]
    /\ IF o = api[r]
       THEN /\ w' = [c \in Kinds |-> IF c = k THEN next ELSE w[c]]
            /\ UNCHANGED watch
       ELSE /\ w' = [c \in Kinds |-> IF c = k THEN next
                                     ELSE [w[c] EXCEPT !.fresh = @ \ {r}]]
            /\ watch' = [watch EXCEPT ![r[1]] = Append(@, [ref |-> r, obj |-> o])]

\* Worker k goes on as next without a write.
Step(k, next) == w' = [w EXCEPT ![k] = next] /\ UNCHANGED <<api, watch>>

\* Mutant: an update that carries no resource version.
CurrentBlind(k, r) == api[r] # Nil

\* The copy of r worker k holds is the API server's object.
Current(k, r) == r \in w[k].fresh

\* ReconcileFail: the status gets the error if that write succeeds; the reconcile is over.
Report(k) ==
    \/ /\ k # "dep" /\ Current(k, w[k].key)
       /\ Write(k, w[k].key, [api[w[k].key] EXCEPT !.err = TRUE], Idle)
    \/ Step(k, Idle)

\* Mutant: no error is retried.
FailForget(k) == UNCHANGED queue /\ Report(k)

\* The reconcile ends in an error and the key is retried ...
Fail(k) == queue' = queue \cup {w[k].key} /\ Report(k)

\* ... unless the text of the error says that something is invalid.
GiveUp(k) == UNCHANGED queue /\ Report(k)

\* UpdateStatus of r to o by worker k: made if its copy is current, a conflict otherwise.
Put(k, r, o, next) ==
    \/ Current(k, r) /\ Write(k, r, o, next) /\ UNCHANGED queue
    \/ ~Current(k, r) /\ Fail(k)

\* An object with KubeVela's label is neither updated nor deleted, and that is no error.
\* The label comes and goes by other hands: an object of Vela may carry it at any call.
LeftAlone(k, r, next) == r \in Vela /\ Step(k, next) /\ UNCHANGED queue

\* CreateOrUpdate of an object that is there.
Update(k, r, o, next) == LeftAlone(k, r, next) \/ Put(k, r, o, next)

\* What a user creates: the specs are left out, istio is the application's annotation.
NewObj(k) ==
    CASE k = "app" -> [mark |-> "none", istio |-> FALSE, mirrors |-> {}, err |-> FALSE]
      [] k = "plane" -> [mark |-> "none", mirrors |-> {}, err |-> FALSE]
      [] OTHER -> [mark |-> "none", init |-> FALSE, istio |-> FALSE, err |-> FALSE]

\* The same once the operator has reconciled it, and nothing has changed since.
SettledObj(r) ==
    CASE r[1] \in {"app", "plane"} ->
            [NewObj(r[1]) EXCEPT !.mirrors = {s \in SDs : <<"dep", s>> \in Existing /\ Selects(r, s)}]
      [] r[1] = "sd" -> [NewObj("sd") EXCEPT !.init = TRUE]
      [] OTHER -> NewDeployment(NewObj("sd"))

Init ==
    /\ api = [r \in Ref |-> IF r \in Existing THEN SettledObj(r) ELSE Nil]
    /\ cache = api
    /\ watch = [k \in Kinds |-> <<>>]
    /\ queue = {}
    /\ w = [k \in Kinds |-> Idle]
    /\ phase \in {"boot", "ready"}
    /\ budget = [ops |-> 0, faults |-> 0, crashes |-> 0]
    /\ hist = [born |-> Existing, asked |-> {}, lost |-> {}]

-----------------------------------------------------------------------------
(* Users *)

UserWrite(act, r, o) ==
    /\ act \in UserMay /\ budget.ops < MaxOps
    /\ budget' = [budget EXCEPT !.ops = @ + 1]
    /\ Write("user", r, o, Idle)
    /\ UNCHANGED <<cache, queue, phase>>

UserCreate(r) ==
    /\ r[1] # "dep" /\ api[r] = Nil
    /\ UserWrite(IF r \in hist.born THEN "recreate" ELSE "create", r, NewObj(r[1]))
    /\ hist' = [hist EXCEPT !.born = @ \cup {r}]

\* kubectl annotate: the right checksum asks for the deletion, a wrong one is a mistake.
UserMark(r) ==
    /\ r[1] # "dep" /\ api[r] # Nil /\ api[r].mark # "ok"
    /\ UserWrite("mark", r, [api[r] EXCEPT !.mark = "ok"])
    /\ hist' = [hist EXCEPT !.asked = @ \cup {r}]

UserMismark(r) ==
    /\ r[1] # "dep" /\ api[r] # Nil /\ api[r].mark = "none"
    /\ UserWrite("mismark", r, [api[r] EXCEPT !.mark = "wrong"])
    /\ UNCHANGED hist

\* kubectl delete of a custom resource, without the checksum.
UserDelete(r) ==
    /\ r[1] # "dep" /\ api[r] # Nil
    /\ UserWrite("delete", r, Nil)
    /\ UNCHANGED hist

UserToggleIstio(r) ==
    /\ r[1] = "app" /\ api[r] # Nil
    /\ UserWrite("toggle", r, [api[r] EXCEPT !.istio = ~@])
    /\ UNCHANGED hist

User == \E r \in Ref : UserCreate(r) \/ UserMark(r) \/ UserMismark(r)
                       \/ UserDelete(r) \/ UserToggleIstio(r)

-----------------------------------------------------------------------------
(* Informers and the operator process *)

\* The cache takes the next event of the kind; a filter decides whether the key is queued.
Deliver(k) ==
    /\ watch[k] # <<>>
    /\ LET e == Head(watch[k]) IN
         /\ cache' = [cache EXCEPT ![e.ref] = e.obj]
         /\ queue' = IF Passes(k, cache[e.ref], e.obj) THEN queue \cup {e.ref} ELSE queue
    /\ watch' = [watch EXCEPT ![k] = Tail(@)]
    /\ UNCHANGED <<api, w, phase, budget, hist>>

\* The informers' periodic resync: an update event whose old and new object are equal.
Resync ==
    /\ Resyncs
    /\ queue' = queue \cup {r \in Ref : cache[r] # Nil /\ Passes(r[1], cache[r], cache[r])}
    /\ UNCHANGED <<api, watch, cache, w, phase, budget, hist>>

\* A new process: empty workers, caches filled by a list, one create event per object.
Restart ==
    /\ cache' = api
    /\ watch' = [k \in Kinds |-> <<>>]
    /\ queue' = {r \in Ref : api[r] # Nil}
    /\ w' = [k \in Kinds |-> Idle]
    /\ phase' = "boot"
    /\ UNCHANGED <<api, hist>>

Crash ==
    /\ budget.crashes < MaxCrashes
    /\ budget' = [budget EXCEPT !.crashes = @ + 1]
    /\ Restart

\* FromMap: the ConfigMap is read, operatorDelay seconds later the operator is ready.
Initialized ==
    /\ phase = "boot" /\ phase' = "waiting"
    /\ UNCHANGED <<api, watch, cache, queue, w, budget, hist>>

Ready ==
    /\ phase = "waiting" /\ phase' = "ready"
    /\ UNCHANGED <<api, watch, cache, queue, w, budget, hist>>

-----------------------------------------------------------------------------
(* HandleReconcile *)

Frame == UNCHANGED <<cache, phase, budget, hist>>

\* Initialized and not ready: the event is dropped.  (In boot it is put back a second later.)
DropEvent(k) ==
    /\ phase = "waiting" /\ w[k].pc = "idle"
    /\ \E r \in queue :
         /\ r[1] = k /\ queue' = queue \ {r}
         /\ hist' = [hist EXCEPT !.lost = @ \cup {r}]
    /\ Step(k, w[k]) /\ UNCHANGED <<cache, phase, budget>>

\* GetInstance, from the cache; NotFound ends the reconcile.
Begin(k) ==
    /\ phase = "ready" /\ w[k].pc = "idle"
    /\ \E r \in queue :
         /\ r[1] = k /\ queue' = queue \ {r}
         /\ hist' = [hist EXCEPT !.lost = @ \ {r}]
         /\ IF cache[r] = Nil
            THEN Step(k, Idle)
            ELSE Step(k, [Idle EXCEPT !.pc = "operate", !.key = r, !.in = cache[r],
                                      !.fresh = Fresh({r})])
    /\ UNCHANGED <<cache, phase, budget>>

\* Mutant: the loop over the listed objects goes on after an error.
HandlerFailsSwallow(k) ==
    /\ budget.faults < MaxFaults
    /\ budget' = [budget EXCEPT !.faults = @ + 1]
    /\ \E t \in w[k].todo : Step(k, [w[k] EXCEPT !.todo = @ \ {t}])
    /\ UNCHANGED <<cache, queue, phase, hist>>

\* Any API call of the handlers may fail, those for services, ingresses, volumes included.
HandlerFails(k) ==
    /\ w[k].pc # "idle" /\ budget.faults < MaxFaults
    /\ budget' = [budget EXCEPT !.faults = @ + 1]
    /\ \/ Fail(k) /\ UNCHANGED hist
       \/ GiveUp(k) /\ hist' = [hist EXCEPT !.lost = @ \cup {w[k].key}]
    /\ UNCHANGED <<cache, phase>>

\* Operate of the custom resources: a wrong checksum is an error, retried for ever.
RejectMark(k) ==
    /\ w[k].pc = "operate" /\ k # "dep"
    /\ k = "sd" => w[k].in.init
    /\ WrongMark(w[k].in)
    /\ Fail(k) /\ Frame

\* The end of Operate: delete the marked object by name, unless the copy read has
\* KubeVela's label; else clear a recorded error in the status.
Finish(k) ==
    /\ \/ k \in {"app", "plane"} /\ w[k].pc = "items" /\ w[k].todo = {}
       \/ k = "sd" /\ w[k].pc = "finish"
    /\ IF IsDeleted(w[k].in)
       THEN \/ LeftAlone(k, w[k].key, Idle)
            \/ Write(k, w[k].key, Nil, Idle) /\ UNCHANGED queue
       ELSE IF w[k].in.err
       THEN Put(k, w[k].key, [api[w[k].key] EXCEPT !.err = FALSE], Idle)
       ELSE Step(k, Idle) /\ UNCHANGED queue
    /\ Frame

-----------------------------------------------------------------------------
(* SQBApplication and SQBPlane: sqbDeploymentListHandler *)

Found(k) == {s \in SDs : Selects(w[k].key, s) /\ cache[<<"sd", s>>] # Nil}

\* The listed SQBDeployments to write: all of them to delete, else those istio has to change on.
Affected(k) ==
    {s \in Found(k) : \/ IsDeleted(w[k].in)
                      \/ k = "app" /\ NeedsIstio(w[k].in, cache[<<"sd", s>>])}

List(k) ==
    /\ k \in {"app", "plane"} /\ w[k].pc = "operate" /\ ~WrongMark(w[k].in)
    /\ Step(k, [w[k] EXCEPT !.pc = "items",
                            !.todo = {<<s, cache[<<"sd", s>>]>> : s \in Affected(k)},
                            !.fresh = @ \cup Fresh({<<"sd", s>> : s \in Affected(k)})])
    /\ UNCHANGED queue /\ Frame

\* What the handlers write to a listed SQBDeployment.
Rewritten(k, o) == IF IsDeleted(w[k].in) THEN [o EXCEPT !.mark = "ok"]
                                         ELSE [o EXCEPT !.istio = w[k].in.istio]

\* One SQBDeployment of the list: the delete annotation or the istio flag.
Item(k) ==
    /\ k \in {"app", "plane"} /\ w[k].pc = "items"
    /\ \E t \in w[k].todo :
         /\ ~(IsDeleted(w[k].in) /\ NilAnnotations(t[1], t[2]))
         /\ Update(k, <<"sd", t[1]>>, Rewritten(k, t[2]),
                   [w[k] EXCEPT !.todo = @ \ {t}, !.fresh = @ \ {<<"sd", t[1]>>}])
    /\ Frame

\* deleteByLabel assigns to the nil annotation map of an SQBDeployment: the process dies.
Panic(k) ==
    /\ k \in {"app", "plane"} /\ w[k].pc = "items" /\ IsDeleted(w[k].in)
    /\ \E t \in w[k].todo : NilAnnotations(t[1], t[2])
    /\ Restart
    /\ UNCHANGED budget

-----------------------------------------------------------------------------
(* SQBDeployment *)

AppRef(s) == <<"app", AppOf[s]>>
PlaneRef(s) == <<"plane", PlaneOf[s]>>

\* IsInitialized reads the application, which gives the istio default ...
SdDefaults ==
    /\ w["sd"].pc = "operate" /\ ~w["sd"].in.init
    /\ LET a == cache[AppRef(w["sd"].key[2])] IN
         IF a = Nil
         THEN Fail("sd")
         ELSE /\ Step("sd", [w["sd"] EXCEPT !.pc = "init",
                                            !.in = [@ EXCEPT !.init = TRUE, !.istio = a.istio]])
              /\ UNCHANGED queue
    /\ Frame

\* ... and writes the annotations; the reconcile goes on with this copy, which an
\* SQBDeployment with KubeVela's label keeps to itself.
SdInitialize ==
    /\ w["sd"].pc = "init"
    /\ Update("sd", w["sd"].key, w["sd"].in, [w["sd"] EXCEPT !.pc = "operate"])
    /\ Frame

\* deploymentHandler.CreateOrUpdate: needs the application, creates or updates by the cache.
SdDeploy ==
    /\ w["sd"].pc = "operate" /\ w["sd"].in.init /\ w["sd"].in.mark = "none"
    /\ LET s == w["sd"].key[2]
           r == <<"dep", s>>
           next == [w["sd"] EXCEPT !.pc = "finish"]
       IN \/ cache[AppRef(s)] = Nil /\ Fail("sd")
          \/ /\ cache[AppRef(s)] # Nil
             /\ IF cache[r] = Nil
                THEN IF api[r] = Nil
                     THEN Write("sd", r, NewDeployment(w["sd"].in), next) /\ UNCHANGED queue
                     ELSE Fail("sd")
                ELSE \/ LeftAlone("sd", r, next)
                     \/ /\ ~Pending(r)
                        /\ Write("sd", r, [cache[r] EXCEPT !.istio = w["sd"].in.istio,
                                                           !.fin = TRUE], next)
                        /\ UNCHANGED queue
                     \/ Pending(r) /\ Fail("sd")
    /\ Frame

\* deploymentHandler.Delete: by name, with a fresh object.
SdUndeploy ==
    /\ w["sd"].pc = "operate" /\ w["sd"].in.init /\ IsDeleted(w["sd"].in)
    /\ LET r == <<"dep", w["sd"].key[2]>> IN
         Write("sd", r, AfterDelete("dep", api[r]), [w["sd"] EXCEPT !.pc = "finish"])
    /\ UNCHANGED queue /\ Frame

-----------------------------------------------------------------------------
(* Deployment: the statuses of its application and plane, then the finalizer *)

\* Mutant: the names of the planes where those of the Deployments belong.
MirrorsPlanes(r) == {PlaneOf[s] : s \in {t \in SDs : Selects(r, t) /\ Counts(cache[<<"dep", t>>])}}

\* The Deployments with the label of r's application or plane, those being deleted left out.
Mirrors(r) == {s \in SDs : Selects(r, s) /\ Counts(cache[<<"dep", s>>])}

Owner(pc, s) == IF pc \in {"operate", "appStatus"} THEN AppRef(s) ELSE PlaneRef(s)

DepList ==
    /\ w["dep"].pc \in {"operate", "plane"}
    /\ LET s == w["dep"].key[2] IN
         Step("dep", IF s \in Labelled
                     THEN [w["dep"] EXCEPT !.pc = IF @ = "operate" THEN "appStatus" ELSE "planeStatus",
                                           !.view = Mirrors(Owner(w["dep"].pc, s))]
                     ELSE [w["dep"] EXCEPT !.pc = "finish"])
    /\ UNCHANGED queue /\ Frame

\* Mutant: a lost status update does not stop the reconcile.
DepStatusSwallow ==
    /\ w["dep"].pc \in {"appStatus", "planeStatus"}
    /\ LET r == Owner(w["dep"].pc, w["dep"].key[2])
           next == [w["dep"] EXCEPT !.pc = IF @ = "appStatus" THEN "plane" ELSE "finish",
                                    !.view = {}]
       IN IF cache[r] = Nil \/ Pending(r)
          THEN Step("dep", next)
          ELSE Write("dep", r, [cache[r] EXCEPT !.mirrors = w["dep"].view, !.err = FALSE], next)
    /\ UNCHANGED queue /\ Frame

\* Get from the cache and update the status; the owner may be gone.
DepStatus ==
    /\ w["dep"].pc \in {"appStatus", "planeStatus"}
    /\ LET r == Owner(w["dep"].pc, w["dep"].key[2])
           next == [w["dep"] EXCEPT !.pc = IF @ = "appStatus" THEN "plane" ELSE "finish",
                                    !.view = {}]
       IN IF cache[r] = Nil
          THEN Step("dep", next) /\ UNCHANGED queue
          ELSE IF Pending(r)
          THEN Fail("dep")
          ELSE /\ Write("dep", r, [cache[r] EXCEPT !.mirrors = w["dep"].view, !.err = FALSE], next)
               /\ UNCHANGED queue
    /\ Frame

\* A terminating Deployment loses the finalizer, and with it its existence; one with
\* KubeVela's label keeps it, and a resync finds it so again.
DepFinish ==
    /\ w["dep"].pc = "finish"
    /\ IF w["dep"].in.term
       THEN Update("dep", w["dep"].key, Nil, Idle)
       ELSE Step("dep", Idle) /\ UNCHANGED queue
    /\ Frame

-----------------------------------------------------------------------------
\* Whatever the worker of the controller of kind k does next.
Work(k) ==
    \/ DropEvent(k) \/ Begin(k) \/ RejectMark(k) \/ Finish(k)
    \/ List(k) \/ Item(k) \/ Panic(k)
    \/ k = "sd" /\ (SdDefaults \/ SdInitialize \/ SdDeploy \/ SdUndeploy)
    \/ k = "dep" /\ (DepList \/ DepStatus \/ DepFinish)

Next ==
    \/ User \/ Crash \/ Initialized \/ Ready \/ Resync
    \/ \E k \in Kinds : Deliver(k) \/ HandlerFails(k) \/ Work(k)

Spec == Init /\ [][Next]_vars

\* Informers and workers keep running; users, failures and crashes need not happen.
Fairness ==
    /\ WF_vars(Initialized \/ Ready) /\ WF_vars(Resync)
    /\ \A k \in Kinds : WF_vars(Deliver(k)) /\ WF_vars(Work(k))

-----------------------------------------------------------------------------
(* Properties *)

Objects == {f \in [Ref -> AnyObj \cup {Nil}] : \A r \in Ref : f[r] \in ObjOf(r[1]) \cup {Nil}}

\* A busy worker of kind k holds an object of its kind.
Busy(k, x) == x.pc # "idle" => x.key \in Ref /\ x.key[1] = k /\ x.in \in ObjOf(k)

\* Every variable has its type: caches and events hold objects of their kind,
\* and a busy worker an object and a key of its controller.
TypeOK ==
    /\ api \in Objects /\ cache \in Objects
    /\ watch \in [Kinds -> Seq(Event)]
    /\ queue \subseteq Ref
    /\ w \in [Kinds -> Worker] /\ \A k \in Kinds : Busy(k, w[k])
    /\ phase \in {"boot", "waiting", "ready"}
    /\ budget \in [ops : Nat, faults : Nat, crashes : Nat]
    /\ hist \in [born : SUBSET Ref, asked : SUBSET Ref, lost : SUBSET Ref]

\* A user asked for the deletion of the SQBDeployment s, or of an owner whose label it carries.
Asked(s) ==
    \/ <<"sd", s>> \in hist.asked
    \/ \E r \in hist.asked : Selects(r, s)

\* Nothing is torn down that nobody asked to delete: an SQBDeployment gets the
\* delete annotation, and a Deployment is deleted, only if a user put the right
\* checksum on the SQBDeployment, its application or its plane
\* (IsDeleted, deleteByLabel, deploymentHandler.Delete).
ExplicitDeletion ==
    \A s \in SDs :
        \/ api[<<"sd", s>>] # Nil /\ IsDeleted(api[<<"sd", s>>])
        \/ api[<<"dep", s>>] # Nil /\ api[<<"dep", s>>].term
        => Asked(s)

\* The operator removes a custom resource only if somebody asked for it with the
\* right checksum (the last lines of the three Operate functions).
OperatorDeletes ==
    [][budget'.ops = budget.ops =>
         \A r \in Ref : r[1] # "dep" /\ api[r] # Nil /\ api'[r] = Nil =>
             r \in hist.asked \/ (r[1] = "sd" /\ Asked(r[2]))]_vars

\* The operator never takes a delete annotation back: its writes of the istio
\* flag, the defaults and the statuses come from copies that may be old
\* (CreateOrUpdate and UpdateStatus, saved by the resource version).
MarkSurvives ==
    [][budget'.ops = budget.ops =>
         \A r \in Ref : r[1] # "dep" /\ api[r] # Nil /\ api'[r] # Nil /\ IsDeleted(api[r])
                        => IsDeleted(api'[r])]_vars

\* A marked application or plane goes only after its cascade: when the operator
\* deletes it, every SQBDeployment with its label is marked or gone, whatever failed
\* or conflicted half way through the list (deleteByLabel; no SQBDeployment is
\* created in the run, one born after the listing is not covered, and one with KubeVela's
\* label is passed over without an error).
CascadeBeforeOwner ==
    [][budget'.ops = budget.ops =>
         \A r \in Ref : r[1] \in {"app", "plane"} /\ api[r] # Nil /\ api'[r] = Nil =>
             \A s \in SDs : Selects(r, s) /\ api[<<"sd", s>>] # Nil
                            => IsDeleted(api[<<"sd", s>>]) \/ <<"sd", s>> \in Vela]_vars

\* A status never names a Deployment that is gone: the finalizer holds a
\* terminating Deployment until the application's and the plane's status have
\* dropped it (deploymentHandler.Operate, "first update the status, then delete").
StatusNamesDeployments ==
    \A r \in Ref : r[1] \in {"app", "plane"} /\ api[r] # Nil =>
        \A s \in api[r].mirrors : api[<<"dep", s>>] # Nil

\* What the promise of module Deletion is about: owners, children and their labels.
Owners == {r \in Ref : r[1] \in {"app", "plane"}}
Children == {"sd"} \X SDs
Owns == {p \in Owners \X Children : Selects(p[1], p[2][2])}

Workload(d) == IF d = Nil THEN "none" ELSE IF d.term THEN "ending" ELSE "running"

D == INSTANCE Deletion WITH
    there <- {r \in Owners \cup Children : api[r] # Nil},
    marked <- {r \in Owners \cup Children : api[r] # Nil /\ IsDeleted(api[r])},
    deps <- [c \in Children |-> Workload(api[<<"dep", c[2]>>])],
    listed <- [r \in Owners |-> IF api[r] = Nil THEN {} ELSE {"sd"} \X api[r].mirrors],
    asked <- hist.asked,
    users <- budget.ops

\* The operator keeps the promise of the delete annotation, behind its caches and between
\* its workers: what it marks, ends and removes was asked for, a Deployment is ending before
\* its SQBDeployment goes, and it is in no status any more when its finalizer goes.
ImplementsDeletion == D!Spec

\* Nothing is left to do: no event on the way, no key waiting, no worker at work.
AtRest == queue = {} /\ \A k \in Kinds : watch[k] = <<>> /\ w[k].pc = "idle"

\* s has a Deployment, running and with its istio flag.
Deployed(s) ==
    LET o == api[<<"sd", s>>]  d == api[<<"dep", s>>] IN
    o.init /\ Counts(d) /\ d.istio = o.istio

\* Whenever nothing is left to do, every SQBDeployment that nobody asks to delete has its
\* Deployment: no event that matters was filtered, no conflict or failure forgotten, nothing
\* overtaken (the filters of controllers.go, HandleReconcile, deploymentHandler.CreateOrUpdate).
\* Nothing is recreated in the run; a key dropped before readiness, or by an error that is not
\* retried, waits for the next event; a Deployment with KubeVela's label is left as it is.
DeploymentsAtRest ==
    AtRest => \A s \in SDs :
        \/ <<"sd", s>> \in hist.lost \/ <<"dep", s>> \in Vela
        \/ api[<<"sd", s>>] = Nil
        \/ api[<<"sd", s>>].mark # "none" \/ Deployed(s)

\* Whenever nothing is left to do, nothing is marked any more, rightly or wrongly, and no
\* Deployment terminates: no deletion stops half way between the four controllers (but at an
\* object with KubeVela's label, which is neither deleted nor rid of its finalizer).
DeletionsAtRest ==
    AtRest => \A r \in Ref \ (hist.lost \cup Vela) :
        api[r] # Nil => IF r[1] = "dep" THEN ~api[r].term ELSE api[r].mark = "none"

\* The Deployments a status should list.
Running(r) == {s \in SDs : Selects(r, s) /\ Counts(api[<<"dep", s>>])}

\* Whenever nothing is left to do, the status of an application or plane that was there from
\* the start lists exactly its running Deployments: the filter of Deployments, which lets only
\* creations and deletions pass, hides no change of the list.  (One created later has no
\* status until the next Deployment comes or goes.)
StatusesAtRest ==
    AtRest => \A r \in Existing :
        r[1] \in {"app", "plane"} /\ api[r] # Nil =>
            \A s \in SDs : Selects(r, s) /\ <<"dep", s>> \notin hist.lost
                           => (s \in api[r].mirrors <=> s \in Running(r))

\* Once the users stop, every SQBDeployment that nobody asks to delete has its
\* Deployment, running and with the SQBDeployment's istio flag, as long as its
\* application is there (deploymentHandler.CreateOrUpdate, behind a lagging
\* cache and update conflicts), unless the Deployment has KubeVela's label.
DeploymentsSettle ==
    <>[] \A s \in SDs :
        \/ <<"dep", s>> \in Vela
        \/ api[AppRef(s)] = Nil \/ api[<<"sd", s>>] = Nil
        \/ api[<<"sd", s>>].mark # "none" \/ Deployed(s)

\* A deletion asked for runs to its end: no marked application or plane stays, no
\* marked and initialized SQBDeployment, and no terminating Deployment, other than
\* those with KubeVela's label.
DeletionsSettle ==
    <>[] \A r \in Ref \ Vela :
        api[r] # Nil => IF r[1] = "dep" THEN ~api[r].term
                        ELSE (r[1] = "sd" => api[r].init) => ~IsDeleted(api[r])

\* A deletion asked for on an application survives a crash: the restarted operator
\* drops the events that arrive before it is ready, the resync brings the
\* application and the terminating Deployments back (neither filter stops it; the
\* operator deletes none that has KubeVela's label).
CrashedDeletionsSettle ==
    <>[] \A r \in Ref \ Vela :
        api[r] # Nil => /\ r[1] = "app" => ~IsDeleted(api[r])
                        /\ r[1] = "dep" => ~api[r].term

\* The statuses end up listing exactly the running Deployments, although each
\* write may lose to another writer of the object (deploymentHandler.Operate).
StatusesSettle ==
    <>[] \A r \in Ref : r[1] \in {"app", "plane"} /\ api[r] # Nil =>
        api[r].mirrors = Running(r)

\* The cascade misses no SQBDeployment it could know of: once a marked application
\* or plane is in the cache and its worker has not listed yet, every initialized
\* SQBDeployment in the cache ends deleted.  (One with KubeVela's label is passed over; an
\* owner with it stays after the cascade, so that it may have listed before.  In the run
\* nobody takes the owner away in between.)
CascadeReachesKnown ==
    \A s \in {t \in SDs : <<"sd", t>> \notin Vela} :
        (/\ cache[<<"sd", s>>] # Nil /\ cache[<<"sd", s>>].init
         /\ \E r \in Ref \ Vela :
              /\ Selects(r, s) /\ api[r] # Nil /\ w[r[1]].pc # "items"
              /\ cache[r] # Nil /\ IsDeleted(cache[r]))
        ~> (api[<<"sd", s>>] = Nil)

\* "Delete the sqbdeployment and create it again": the documented way to change a
\* selector (README.md).  The recreated SQBDeployment gets a Deployment.
RecreatedIsDeployed ==
    <>[] \A s \in SDs :
        LET o == api[<<"sd", s>>] IN
        o # Nil /\ o.mark = "none" /\ o.init /\ api[AppRef(s)] # Nil => Counts(api[<<"dep", s>>])

\* Deleting an application with the checksum deletes its SQBDeployments
\* (the test "delete sqbapplication with password").
CascadeDeletes ==
    \A s \in SDs :
        (/\ AppRef(s) \in hist.asked /\ cache[AppRef(s)] # Nil /\ IsDeleted(cache[AppRef(s)])
         /\ w["app"].pc = "idle" /\ api[AppRef(s)] # Nil /\ cache[<<"sd", s>>] # Nil)
        ~> (api[<<"sd", s>>] = Nil)

\* Switching a setting of an application on or off reaches all its SQBDeployments
\* (the comment in CreateOrUpdateForSqbapplication).
IstioReachesAll ==
    <>[] \A s \in SDs :
        LET a == api[AppRef(s)]  o == api[<<"sd", s>>] IN
        a # Nil /\ o # Nil /\ o.init => o.istio = a.istio

=============================================================================
