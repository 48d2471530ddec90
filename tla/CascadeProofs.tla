---------------------------- MODULE CascadeProofs ----------------------------
(***************************************************************************)
(* A delete annotation is never taken back, and a marked owner goes only   *)
(* after its cascade, for all instances of Lifecycle.  Both rest on what a *)
(* current copy is worth: a worker that may write an object (its copy has  *)
(* the API server's resource version) knows the object's delete annotation.*)
(***************************************************************************)
EXTENDS LifecycleProofs

\* Worker x of kind k next to the objects a: the object it reconciles and those it has
\* listed are what it holds, as far as its copies are current.
CopyOK(k, x, a) ==
    x.pc # "idle" =>
        /\ k # "dep" /\ x.key \in x.fresh => a[x.key].mark = x.in.mark
        /\ k \in {"app", "plane"} =>
               /\ x.pc = "operate" => x.fresh \subseteq {x.key}
               /\ \A t \in x.todo : <<"sd", t[1]>> \in x.fresh => a[<<"sd", t[1]>>] = t[2]

CopyInv == \A k \in Kinds : CopyOK(k, w[k], api)

\* No custom resource is made, and no annotation is taken back.
Tame ==
    \A r \in Ref : r[1] # "dep" /\ api'[r] # Nil =>
        api[r] # Nil /\ (IsDeleted(api[r]) => IsDeleted(api'[r]))

\* A step of worker k (or of a user): the others only lose current copies, all those of
\* objects that change.
Effect(k) ==
    \A c \in Kinds : c # k =>
        /\ w'[c].pc = w[c].pc /\ w'[c].key = w[c].key /\ w'[c].in = w[c].in
        /\ w'[c].todo = w[c].todo /\ w'[c].view = w[c].view /\ w'[c].fresh \subseteq w[c].fresh
        /\ \A r \in w'[c].fresh : api'[r] = api[r]

\* An event is sent of what there is.
Sends ==
    \A i \in 1 .. Len(watch'["sd"]) :
        \/ \E j \in 1 .. Len(watch["sd"]) : watch'["sd"][i] = watch["sd"][j]
        \/ watch'["sd"][i].obj = api'[watch'["sd"][i].ref]

\* The worker is about to delete the marked owner r: its list is done.
Last(k, r) ==
    r = w[k].key /\ w[k].pc = "items" /\ w[k].todo = {} /\ IsDeleted(w[k].in)

-----------------------------------------------------------------------------
(* What Write, Step and their uses do. *)

LEMMA IdleCopy == \A k, a : CopyOK(k, Idle, a)
  BY DEF CopyOK, Idle

LEMMA WriteEffect ==
    ASSUME StoreInv, NEW k, NEW r \in Ref, NEW o \in ObjOf(r[1]) \cup {Nil}, NEW next,
           Write(k, r, o, next)
    PROVE  /\ Effect(k) /\ Sends
           /\ api' = [api EXCEPT ![r] = o] /\ (k \in Kinds => w'[k] = next)
<1>1. api' = [api EXCEPT ![r] = o] /\ (k \in Kinds => w'[k] = next) BY DEF Write
<1>2. ASSUME NEW c \in Kinds, c # k
      PROVE  /\ w'[c].pc = w[c].pc /\ w'[c].key = w[c].key /\ w'[c].in = w[c].in
             /\ w'[c].todo = w[c].todo /\ w'[c].view = w[c].view /\ w'[c].fresh \subseteq w[c].fresh
             /\ \A z \in w'[c].fresh : api'[z] = api[z]
  <2>1. w[c] \in Worker /\ w[c].fresh \subseteq Ref /\ api \in [Ref -> AnyObj \cup {Nil}]
    BY DEF StoreInv, WorkerOK, Worker, Objects
  <2>2. CASE o = api[r]
    <3>1. w'[c] = w[c] /\ api' = api BY <1>1, <1>2, <2>1, <2>2 DEF Write
    <3> QED BY <3>1
  <2>3. CASE o # api[r]
    <3>1. w'[c] = [w[c] EXCEPT !.fresh = @ \ {r}] BY <1>2, <2>3 DEF Write
    <3>2. /\ w'[c].pc = w[c].pc /\ w'[c].key = w[c].key /\ w'[c].in = w[c].in
          /\ w'[c].todo = w[c].todo /\ w'[c].view = w[c].view /\ w'[c].fresh = w[c].fresh \ {r}
      BY <2>1, <3>1 DEF Worker
    <3> QED BY <1>1, <2>1, <3>2
  <2> QED BY <2>2, <2>3
<1>3. Sends
  <2>1. "sd" \in Kinds /\ watch["sd"] \in Seq(Event) /\ watch \in [Kinds -> Seq(Event)]
        /\ r[1] \in Kinds
    BY RefKind DEF StoreInv, Kinds
  <2>2. CASE watch'["sd"] = watch["sd"] BY <2>2 DEF Sends
  <2>3. CASE watch'["sd"] # watch["sd"]
    <3> DEFINE e == [ref |-> r, obj |-> o]
    <3>1. watch' = [watch EXCEPT ![r[1]] = Append(@, e)] BY <2>3 DEF Write
    <3>2. r[1] = "sd" /\ watch'["sd"] = Append(watch["sd"], e) BY <2>1, <2>3, <3>1
    <3>3. e \in Event BY RefKind, ObjKind DEF Event
    <3>4. api'[r] = o BY <1>1 DEF StoreInv, Objects
    <3>5. e.ref = r /\ e.obj = o OBVIOUS
    <3> HIDE DEF e
    <3>6. \A i \in 1 .. Len(Append(watch["sd"], e)) :
             \/ \E j \in 1 .. Len(watch["sd"]) : Append(watch["sd"], e)[i] = watch["sd"][j]
             \/ Append(watch["sd"], e)[i] = e
      BY <2>1, <3>3
    <3> QED BY <3>2, <3>4, <3>5, <3>6 DEF Sends
  <2> QED BY <2>2, <2>3
<1> QED BY <1>1, <1>2, <1>3 DEF Effect

LEMMA StepEffect ==
    ASSUME StoreInv, NEW k \in Kinds, NEW next, Step(k, next)
    PROVE  Effect(k) /\ Tame /\ Sends /\ api' = api /\ w'[k] = next
<1>1. api' = api /\ watch' = watch /\ w' = [w EXCEPT ![k] = next] BY DEF Step
<1>2. w'[k] = next /\ \A c \in Kinds : c # k => w'[c] = w[c] BY <1>1 DEF StoreInv
<1>3. Effect(k) BY <1>1, <1>2 DEF Effect
<1>4. Sends BY <1>1 DEF Sends
<1> QED BY <1>1, <1>2, <1>3, <1>4 DEF Tame

\* The others' copies are still what they were; so the invariant is about one worker.
LEMMA EffectCopies ==
    ASSUME TInv, CopyInv, NEW k, Effect(k), k \in Kinds => CopyOK(k, w'[k], api')
    PROVE  CopyInv'
<1> SUFFICES ASSUME NEW c \in Kinds, c # k PROVE CopyOK(c, w'[c], api') BY DEF CopyInv
<1>1. CopyOK(c, w[c], api) BY DEF CopyInv
<1> QED BY <1>1 DEF CopyOK, Effect

\* What a write has to be.
Harmless(r, o) ==
    r[1] = "dep" \/ o = Nil \/ (api[r] # Nil /\ (IsDeleted(api[r]) => IsDeleted(o)))

LEMMA HarmlessTame ==
    ASSUME StoreInv, NEW r \in Ref, NEW o, api' = [api EXCEPT ![r] = o], Harmless(r, o)
    PROVE  Tame
<1> SUFFICES ASSUME NEW z \in Ref, z[1] # "dep", api'[z] # Nil
             PROVE  api[z] # Nil /\ (IsDeleted(api[z]) => IsDeleted(api'[z]))
  BY DEF Tame
<1>1. api \in [Ref -> AnyObj \cup {Nil}] BY DEF StoreInv, Objects
<1>2. CASE z = r BY <1>1, <1>2 DEF Harmless
<1>3. CASE z # r BY <1>1, <1>3
<1> QED BY <1>2, <1>3

\* The fields a worker writes in place.
LEMMA ErrMark ==
    ASSUME NEW k \in Kinds, k # "dep", NEW o \in ObjOf(k), NEW b
    PROVE  [o EXCEPT !.err = b].mark = o.mark
  BY ObjKind DEF Kinds, AppObj, PlaneObj, SdObj

\* A step of worker k that keeps the invariant, is tame, and deletes an owner at the end of
\* its list only.
Good(k) ==
    /\ Effect(k) /\ Tame /\ Sends /\ CopyOK(k, w'[k], api')
    /\ w'[k].pc = "items" => List(k) \/ Item(k)
    /\ \A r \in Ref : r[1] \in {"app", "plane"} /\ api[r] # Nil /\ api'[r] = Nil => Last(k, r)

LEMMA WriteGood ==
    ASSUME TInv, NEW k \in Kinds, NEW r \in Ref, NEW o \in ObjOf(r[1]) \cup {Nil}, NEW next,
           Write(k, r, o, next), Harmless(r, o), CopyOK(k, next, [api EXCEPT ![r] = o]),
           next.pc = "items" => Item(k),
           r[1] \in {"app", "plane"} /\ o = Nil => Last(k, r)
    PROVE  Good(k)
<1>1. StoreInv /\ api \in [Ref -> AnyObj \cup {Nil}] BY DEF TInv, StoreInv, Objects
<1>2. Effect(k) /\ Sends /\ api' = [api EXCEPT ![r] = o] /\ w'[k] = next
  BY <1>1, WriteEffect
<1>3. Tame BY <1>1, <1>2, HarmlessTame
<1>4. \A z \in Ref : z # r => api'[z] = api[z] BY <1>1, <1>2
<1>5. api'[r] = o BY <1>1, <1>2
<1> QED BY <1>2, <1>3, <1>4, <1>5 DEF Good

LEMMA StepGood ==
    ASSUME TInv, NEW k \in Kinds, NEW next, Step(k, next), CopyOK(k, next, api),
           next.pc = "items" => List(k) \/ Item(k)
    PROVE  Good(k)
<1>1. StoreInv BY DEF TInv
<1> QED BY <1>1, StepEffect DEF Good

LEMMA IdleStepGood ==
    ASSUME TInv, NEW k \in Kinds, Step(k, Idle)
    PROVE  Good(k)
<1>1. Idle.pc # "items" BY DEF Idle
<1> QED BY <1>1, IdleCopy, StepGood

\* The error field, written through a current copy.
LEMMA ErrGood ==
    ASSUME TInv, NEW k \in Kinds, w[k].pc # "idle", k # "dep", Current(k, w[k].key),
           NEW b \in BOOLEAN, Write(k, w[k].key, [api[w[k].key] EXCEPT !.err = b], Idle)
    PROVE  Good(k)
<1> DEFINE r == w[k].key
           o == [api[r] EXCEPT !.err = b]
<1>1. StoreInv /\ r \in Ref /\ r[1] = k BY BusyOK DEF TInv
<1>2. api[r] \in ObjOf(k) /\ api[r] # Nil BY <1>1, BusyOK, ObjKind DEF Current
<1>3. o.mark = api[r].mark BY <1>2, ErrMark
<1>4. o \in ObjOf(r[1]) /\ o # Nil BY <1>1, <1>2, FieldKind, ObjKind
<1>5. Harmless(r, o) BY <1>2, <1>3 DEF Harmless, IsDeleted
<1>6. Write(k, r, o, Idle) /\ Idle.pc # "items" BY DEF Idle
<1> HIDE DEF o, r
<1> QED BY <1>1, <1>4, <1>5, <1>6, IdleCopy, WriteGood

LEMMA ReportIdle ==
    ASSUME StoreInv, NEW k \in Kinds, Report(k)
    PROVE  w'[k] = Idle
  BY DEF Report, Step, Write, StoreInv

LEMMA FailGood ==
    ASSUME TInv, NEW k \in Kinds, w[k].pc # "idle", Fail(k) \/ GiveUp(k)
    PROVE  Good(k)
<1>1. Report(k) BY DEF Fail, GiveUp
<1> QED BY <1>1, IdleStepGood, ErrGood DEF Report

-----------------------------------------------------------------------------
(* The workers. *)

LEMMA DropEventGood == ASSUME TInv, CopyInv, NEW k \in Kinds, DropEvent(k) PROVE Good(k)
<1>1. Step(k, w[k]) /\ w[k].pc = "idle" BY DEF DropEvent
<1>2. CopyOK(k, w[k], api) BY DEF CopyInv
<1> QED BY <1>1, <1>2, StepGood

LEMMA BeginGood == ASSUME TInv, NEW k \in Kinds, Begin(k) PROVE Good(k)
<1>1. PICK r \in queue :
        /\ r[1] = k /\ queue' = queue \ {r}
        /\ IF cache[r] = Nil
           THEN Step(k, Idle)
           ELSE Step(k, [Idle EXCEPT !.pc = "operate", !.key = r, !.in = cache[r],
                                     !.fresh = Fresh({r})])
  BY DEF Begin
<1>2. CASE Step(k, Idle) BY <1>2, IdleStepGood
<1> DEFINE x == [Idle EXCEPT !.pc = "operate", !.key = r, !.in = cache[r], !.fresh = Fresh({r})]
<1>3. CASE Step(k, x)
  <2>1. /\ x.pc = "operate" /\ x.key = r /\ x.in = cache[r] /\ x.todo = {}
        /\ x.fresh = Fresh({r})
    BY DEF Idle
  <2>2. r \in Ref BY DEF TInv, RestType
  <2>3. Fresh({r}) \subseteq {r} /\ (r \in Fresh({r}) => api[r] = cache[r])
    BY <2>2 DEF Fresh, TInv, StoreInv, InSync
  <2>4. Step(k, x) BY <1>3
  <2> HIDE DEF x
  <2>5. CopyOK(k, x, api) BY <2>1, <2>3 DEF CopyOK
  <2> QED BY <2>1, <2>4, <2>5, StepGood
<1> QED BY <1>1, <1>2, <1>3

LEMMA FinishGood == ASSUME TInv, NEW k \in Kinds, Finish(k) PROVE Good(k)
<1> DEFINE r == w[k].key
<1>1. w[k].pc # "idle" /\ k # "dep" BY DEF Finish
<1>2. r \in Ref /\ r[1] = k BY <1>1, BusyOK DEF TInv
<1>3. CASE IsDeleted(w[k].in) /\ Write(k, r, Nil, Idle)
  <2>1. Write(k, r, Nil, Idle) BY <1>3
  <2>2. r[1] \in {"app", "plane"} => Last(k, r) BY <1>2, <1>3 DEF Finish, Last
  <2>3. Harmless(r, Nil) /\ Idle.pc # "items" BY DEF Harmless, Idle
  <2> QED BY <1>2, <2>1, <2>2, <2>3, IdleCopy, WriteGood
<1>4. CASE Put(k, r, [api[r] EXCEPT !.err = FALSE], Idle)
  BY <1>1, <1>4, ErrGood, FailGood DEF Put
<1>5. CASE Step(k, Idle) BY <1>5, IdleStepGood
<1> QED BY <1>3, <1>4, <1>5 DEF Finish, LeftAlone

LEMMA ListGood == ASSUME TInv, CopyInv, NEW k \in Kinds, List(k) PROVE Good(k)
<1> DEFINE T == {<<s, cache[<<"sd", s>>]>> : s \in Affected(k)}
           F == Fresh({<<"sd", s>> : s \in Affected(k)})
           x == [w[k] EXCEPT !.pc = "items", !.todo = T, !.fresh = @ \cup F]
<1>1. /\ w[k].pc = "operate" /\ k \in {"app", "plane"} /\ w[k] \in Worker
      /\ w[k].key \in Ref /\ w[k].key[1] = k /\ CopyOK(k, w[k], api)
  BY BusyOK DEF List, TInv, CopyInv
<1>2. /\ x.pc = "items" /\ x.key = w[k].key /\ x.in = w[k].in /\ x.todo = T
      /\ x.fresh = w[k].fresh \cup F
  BY <1>1 DEF Worker
<1>3. \A r \in F : r \in Ref /\ r[1] = "sd" /\ api[r] = cache[r]
  <2> TAKE r \in F
  <2>1. PICK s \in Affected(k) : r = <<"sd", s>> BY DEF Fresh
  <2>2. r \in Ref BY <2>1, RefKind DEF Affected, Found
  <2> QED BY <2>1, <2>2 DEF Fresh, TInv, StoreInv, InSync
<1>4. Step(k, x) BY DEF List
<1>5. \A t \in T : t[2] = cache[<<"sd", t[1]>>]
  <2> TAKE t \in T
  <2>1. PICK s \in Affected(k) : t = <<s, cache[<<"sd", s>>]>> OBVIOUS
  <2> QED BY <2>1
<1> HIDE DEF x, T, F
<1>6. w[k].fresh \subseteq {w[k].key} BY <1>1 DEF CopyOK
<1>7. w[k].key \in x.fresh => w[k].key \in w[k].fresh BY <1>1, <1>2, <1>3
<1>8. ASSUME NEW t \in T, <<"sd", t[1]>> \in x.fresh PROVE api[<<"sd", t[1]>>] = t[2]
  <2>1. <<"sd", t[1]>> \in F BY <1>1, <1>2, <1>6, <1>8
  <2> QED BY <1>3, <1>5, <2>1
<1>9. CopyOK(k, x, api) BY <1>1, <1>2, <1>7, <1>8 DEF CopyOK
<1> QED BY <1>4, <1>9, StepGood

\* What is written to a listed SQBDeployment keeps the annotation it has.
LEMMA RewrittenMark ==
    ASSUME NEW k, NEW o \in SdObj
    PROVE  IsDeleted(o) => IsDeleted(Rewritten(k, o))
<1>1. [o EXCEPT !.mark = "ok"].mark = "ok" BY DEF SdObj
<1>2. [o EXCEPT !.istio = w[k].in.istio].mark = o.mark BY DEF SdObj
<1> QED BY <1>1, <1>2 DEF Rewritten, IsDeleted

LEMMA ItemGood == ASSUME TInv, CopyInv, NEW k \in Kinds, Item(k) PROVE Good(k)
<1>1. k \in {"app", "plane"} /\ w[k].pc = "items" BY DEF Item
<1>2. PICK t \in w[k].todo :
        Update(k, <<"sd", t[1]>>, Rewritten(k, t[2]),
               [w[k] EXCEPT !.todo = @ \ {t}, !.fresh = @ \ {<<"sd", t[1]>>}])
  BY DEF Item
<1> DEFINE r == <<"sd", t[1]>>
           o == Rewritten(k, t[2])
           x == [w[k] EXCEPT !.todo = @ \ {t}, !.fresh = @ \ {r}]
<1>3. CASE Fail(k) BY <1>1, <1>3, FailGood
<1>4. CASE Current(k, r) /\ Write(k, r, o, x)
  <2>1. /\ r \in Ref /\ r[1] = "sd" /\ o \in ObjOf(r[1]) /\ t[2] \in SdObj
        /\ w[k] \in Worker /\ w[k].key[1] = k /\ w[k].fresh \subseteq Ref
    <3>1. w[k] \in Worker /\ w[k].key[1] = k BY <1>1, BusyOK DEF TInv
    <3> QED BY <1>1, <3>1, RewrittenKind, RefKind, ObjKind DEF Worker
  <2>2. /\ x.key = w[k].key /\ x.in = w[k].in /\ x.pc = "items"
        /\ x.todo = w[k].todo \ {t} /\ x.fresh = w[k].fresh \ {r}
    BY <1>1, <2>1 DEF Worker
  <2>3. CopyOK(k, w[k], api) BY DEF CopyInv
  <2>4. api[r] = t[2] /\ api[r] # Nil
    BY <1>1, <1>4, <2>1, <2>3, ObjKind DEF CopyOK, Current, Kinds
  <2>5. IsDeleted(t[2]) => IsDeleted(o) BY <2>1, RewrittenMark
  <2>6. Write(k, r, o, x) BY <1>4
  <2> HIDE DEF o, x
  <2>7. Harmless(r, o) BY <2>4, <2>5 DEF Harmless
  <2>8. api \in [Ref -> AnyObj \cup {Nil}] BY DEF TInv, StoreInv, Objects
  <2>9. \A z \in x.fresh : [api EXCEPT ![r] = o][z] = api[z] /\ z \in w[k].fresh
    BY <2>1, <2>2, <2>8
  <2>10. CopyOK(k, x, [api EXCEPT ![r] = o])
    BY <1>1, <2>2, <2>3, <2>9 DEF CopyOK
  <2> QED BY <2>1, <2>6, <2>7, <2>10, WriteGood
<1>5. CASE Step(k, x)
  <2>1. w[k] \in Worker BY <1>1, BusyOK DEF TInv
  <2>2. /\ x.key = w[k].key /\ x.in = w[k].in /\ x.pc = "items"
        /\ x.todo = w[k].todo \ {t} /\ x.fresh = w[k].fresh \ {r}
    BY <1>1, <2>1 DEF Worker
  <2>3. CopyOK(k, w[k], api) BY DEF CopyInv
  <2> HIDE DEF o, x
  <2>4. CopyOK(k, x, api) BY <1>1, <2>2, <2>3 DEF CopyOK
  <2> QED BY <1>5, <2>4, StepGood
<1> QED BY <1>2, <1>3, <1>4, <1>5 DEF Update, Put, LeftAlone

LEMMA SdDefaultsGood == ASSUME TInv, CopyInv, SdDefaults PROVE Good("sd")
<1> DEFINE a == cache[AppRef(w["sd"].key[2])]
           i == [w["sd"].in EXCEPT !.init = TRUE, !.istio = a.istio]
           x == [w["sd"] EXCEPT !.pc = "init", !.in = i]
<1>1. "sd" \in Kinds /\ w["sd"].pc = "operate" BY DEF Kinds, SdDefaults
<1>2. Fail("sd") \/ Step("sd", x) BY DEF SdDefaults
<1>3. w["sd"] \in Worker /\ w["sd"].in \in SdObj BY <1>1, BusyOK, ObjKind DEF TInv
<1>4. CopyOK("sd", w["sd"], api) BY <1>1 DEF CopyInv
<1> HIDE DEF a
<1>5. i.mark = w["sd"].in.mark BY <1>3 DEF SdObj
<1> HIDE DEF i
<1>6. x.pc = "init" /\ x.key = w["sd"].key /\ x.in = i /\ x.fresh = w["sd"].fresh
  BY <1>3 DEF Worker
<1> HIDE DEF x
<1>7. CopyOK("sd", x, api) BY <1>1, <1>4, <1>5, <1>6 DEF CopyOK
<1> QED BY <1>1, <1>2, <1>6, <1>7, FailGood, StepGood

LEMMA SdInitializeGood == ASSUME TInv, CopyInv, SdInitialize PROVE Good("sd")
<1> DEFINE r == w["sd"].key
           o == w["sd"].in
           x == [w["sd"] EXCEPT !.pc = "operate"]
<1>1. "sd" \in Kinds /\ w["sd"].pc = "init" BY DEF Kinds, SdInitialize
<1>2. CASE Fail("sd") BY <1>1, <1>2, FailGood
<1>3. CASE Current("sd", r) /\ Write("sd", r, o, x)
  <2>1. /\ w["sd"] \in Worker /\ r \in Ref /\ r[1] = "sd" /\ o \in ObjOf(r[1])
        /\ api[r] \in ObjOf(r[1])
    BY <1>1, <1>3, BusyOK DEF TInv, Current
  <2>2. x.pc = "operate" /\ x.key = r /\ x.in = o /\ x.fresh = w["sd"].fresh
    BY <2>1 DEF Worker
  <2>3. CopyOK("sd", w["sd"], api) BY <1>1 DEF CopyInv
  <2>4. api[r].mark = o.mark BY <1>1, <1>3, <2>3 DEF CopyOK, Current
  <2>5. api[r] # Nil /\ o # Nil BY <1>1, <2>1, ObjKind
  <2>6. Harmless(r, o) BY <2>4, <2>5 DEF Harmless, IsDeleted
  <2>7. Write("sd", r, o, x) BY <1>3
  <2> HIDE DEF x
  <2>8. [api EXCEPT ![r] = o][r] = o BY <2>1 DEF TInv, StoreInv, Objects
  <2> HIDE DEF r, o
  <2>9. CopyOK("sd", x, [api EXCEPT ![r] = o]) BY <2>2, <2>8 DEF CopyOK
  <2> QED BY <1>1, <2>1, <2>2, <2>5, <2>6, <2>7, <2>9, WriteGood
<1>4. CASE Step("sd", x)
  <2>1. w["sd"] \in Worker BY <1>1, BusyOK DEF TInv
  <2>2. x.pc = "operate" /\ x.key = r /\ x.in = o /\ x.fresh = w["sd"].fresh
    BY <2>1 DEF Worker
  <2>3. CopyOK("sd", w["sd"], api) BY <1>1 DEF CopyInv
  <2> HIDE DEF x
  <2>4. CopyOK("sd", x, api) BY <1>1, <2>2, <2>3 DEF CopyOK
  <2> QED BY <1>1, <1>4, <2>2, <2>4, StepGood
<1> QED BY <1>2, <1>3, <1>4 DEF SdInitialize, Update, Put, LeftAlone

\* Writing the Deployment.
LEMMA SdWriteGood ==
    ASSUME TInv, CopyInv, w["sd"].pc # "idle", NEW s \in SDs, NEW o \in DepObj \cup {Nil},
           Write("sd", <<"dep", s>>, o, [w["sd"] EXCEPT !.pc = "finish"])
    PROVE  Good("sd")
<1> DEFINE r == <<"dep", s>>
           x == [w["sd"] EXCEPT !.pc = "finish"]
<1>1. "sd" \in Kinds /\ r \in Ref /\ r[1] = "dep" /\ o \in ObjOf("dep") \cup {Nil}
  BY RefKind, ObjKind DEF Kinds
<1>2. w["sd"] \in Worker /\ w["sd"].key[1] = "sd" /\ w["sd"].key \in Ref
  BY <1>1, BusyOK DEF TInv
<1>3. x.pc = "finish" /\ x.key = w["sd"].key /\ x.in = w["sd"].in /\ x.fresh = w["sd"].fresh
  BY <1>2 DEF Worker
<1>4. Write("sd", r, o, x) OBVIOUS
<1>5. CopyOK("sd", w["sd"], api) BY <1>1 DEF CopyInv
<1>6. [api EXCEPT ![r] = o][w["sd"].key] = api[w["sd"].key]
  BY <1>1, <1>2 DEF TInv, StoreInv, Objects
<1> HIDE DEF x
<1>7. CopyOK("sd", x, [api EXCEPT ![r] = o]) BY <1>3, <1>5, <1>6 DEF CopyOK
<1>8. Harmless(r, o) BY <1>1 DEF Harmless
<1> QED BY <1>1, <1>3, <1>4, <1>7, <1>8, WriteGood

LEMMA SdDeployGood == ASSUME TInv, CopyInv, SdDeploy PROVE Good("sd")
<1> DEFINE s == w["sd"].key[2]
           r == <<"dep", s>>
           x == [w["sd"] EXCEPT !.pc = "finish"]
<1>1. "sd" \in Kinds /\ w["sd"].pc = "operate" BY DEF Kinds, SdDeploy
<1>2. s \in SDs /\ w["sd"].in \in SdObj
  <2>1. w["sd"].key \in Ref /\ w["sd"].key[1] = "sd" /\ w["sd"].in \in ObjOf("sd")
    BY <1>1, BusyOK DEF TInv
  <2> QED BY <2>1, RefKind, ObjKind
<1>3. r \in Ref /\ r[1] = "dep" BY <1>2, RefKind
<1>4. CASE Fail("sd") BY <1>1, <1>4, FailGood
<1>5. CASE Write("sd", r, NewDeployment(w["sd"].in), x)
  <2>1. NewDeployment(w["sd"].in) \in DepObj BY <1>2 DEF NewDeployment, SdObj, DepObj
  <2> QED BY <1>1, <1>2, <1>5, <2>1, SdWriteGood
<1>6. CASE /\ cache[r] # Nil
           /\ Write("sd", r, [cache[r] EXCEPT !.istio = w["sd"].in.istio, !.fin = TRUE], x)
  <2> DEFINE o == [cache[r] EXCEPT !.istio = w["sd"].in.istio, !.fin = TRUE]
  <2>1. cache[r] \in DepObj BY <1>3, <1>6, ObjKind DEF TInv, StoreInv, Objects
  <2>2. o \in DepObj BY <1>2, <2>1 DEF SdObj, DepObj
  <2>3. Write("sd", r, o, x) BY <1>6
  <2> HIDE DEF o
  <2> QED BY <1>1, <1>2, <2>2, <2>3, SdWriteGood
<1>7. CASE LeftAlone("sd", r, x)
  <2>1. w["sd"] \in Worker BY <1>1, BusyOK DEF TInv
  <2>2. /\ x.pc = "finish" /\ x.key = w["sd"].key /\ x.in = w["sd"].in
        /\ x.fresh = w["sd"].fresh
    BY <2>1 DEF Worker
  <2>3. CopyOK("sd", w["sd"], api) BY <1>1 DEF CopyInv
  <2>4. Step("sd", x) BY <1>7 DEF LeftAlone
  <2> HIDE DEF x
  <2>5. CopyOK("sd", x, api) BY <1>1, <2>2, <2>3 DEF CopyOK
  <2> QED BY <1>1, <2>2, <2>4, <2>5, StepGood
<1> QED BY <1>4, <1>5, <1>6, <1>7 DEF SdDeploy

LEMMA SdUndeployGood == ASSUME TInv, CopyInv, SdUndeploy PROVE Good("sd")
<1> DEFINE s == w["sd"].key[2]
           r == <<"dep", s>>
<1>1. "sd" \in Kinds /\ w["sd"].pc = "operate" BY DEF Kinds, SdUndeploy
<1>2. s \in SDs
  <2>1. w["sd"].key \in Ref /\ w["sd"].key[1] = "sd" BY <1>1, BusyOK DEF TInv
  <2> QED BY <2>1, RefKind
<1>3. api[r] \in DepObj \cup {Nil}
  <2>1. r \in Ref /\ r[1] = "dep" BY <1>2, RefKind
  <2> QED BY <2>1, ObjKind DEF TInv, StoreInv, Objects
<1>4. AfterDelete("dep", api[r]) \in DepObj \cup {Nil}
  <2>1. api[r] \in DepObj => [api[r] EXCEPT !.term = TRUE] \in DepObj BY DEF DepObj
  <2> QED BY <1>3, <2>1 DEF AfterDelete
<1>5. Write("sd", r, AfterDelete("dep", api[r]), [w["sd"] EXCEPT !.pc = "finish"])
  BY DEF SdUndeploy
<1> QED BY <1>1, <1>2, <1>4, <1>5, SdWriteGood

\* The worker of Deployments holds no copy that counts.
LEMMA DepCopy == \A x, a : CopyOK("dep", x, a)
  BY DEF CopyOK

LEMMA DepListGood == ASSUME TInv, DepList PROVE Good("dep")
<1> DEFINE v == Mirrors(Owner(w["dep"].pc, w["dep"].key[2]))
           p == IF w["dep"].pc = "operate" THEN "appStatus" ELSE "planeStatus"
           x == [w["dep"] EXCEPT !.pc = p, !.view = v]
           y == [w["dep"] EXCEPT !.pc = "finish"]
<1>1. "dep" \in Kinds /\ w["dep"].pc # "idle" BY DEF Kinds, DepList
<1>2. w["dep"] \in Worker BY <1>1, BusyOK DEF TInv
<1>3. Step("dep", x) \/ Step("dep", y) BY DEF DepList
<1> HIDE DEF v
<1>4. x.pc # "items" /\ y.pc # "items" BY <1>2 DEF Worker
<1> QED BY <1>1, <1>3, <1>4, DepCopy, StepGood

LEMMA DepStatusGood == ASSUME TInv, DepStatus PROVE Good("dep")
<1> DEFINE s == w["dep"].key[2]
           r == Owner(w["dep"].pc, s)
           o == [cache[r] EXCEPT !.mirrors = w["dep"].view, !.err = FALSE]
           p == IF w["dep"].pc = "appStatus" THEN "plane" ELSE "finish"
           x == [w["dep"] EXCEPT !.pc = p, !.view = {}]
<1>1. "dep" \in Kinds /\ w["dep"].pc # "idle" BY DEF Kinds, DepStatus
<1>2. w["dep"] \in Worker /\ w["dep"].key \in Ref /\ w["dep"].key[1] = "dep"
  BY <1>1, BusyOK DEF TInv
<1>3. s \in SDs BY <1>2, RefKind
<1>4. r \in Ref /\ r[1] \in {"app", "plane"} BY <1>3, RefKind DEF Owner, AppRef, PlaneRef
<1>5. \/ Step("dep", x)
      \/ Fail("dep")
      \/ cache[r] # Nil /\ ~Pending(r) /\ Write("dep", r, o, x)
  BY DEF DepStatus
<1>6. x.pc # "items" BY <1>2 DEF Worker
<1>7. CASE cache[r] # Nil /\ ~Pending(r) /\ Write("dep", r, o, x)
  <2>1. w["dep"].view \in SUBSET SDs BY <1>2 DEF Worker
  <2> HIDE DEF r, x
  <2>2. cache[r] \in ObjOf(r[1]) /\ api[r] = cache[r]
    BY <1>4, <1>7 DEF TInv, StoreInv, Objects, InSync
  <2>3. o \in ObjOf(r[1]) BY <1>4, <2>1, <2>2, StatusKind
  <2>4. o.mark = cache[r].mark BY <1>4, <2>2, ObjKind DEF AppObj, PlaneObj
  <2>5. o # Nil BY <1>4, <2>3, RefKind, ObjKind
  <2>6. Harmless(r, o) BY <1>7, <2>2, <2>4 DEF Harmless, IsDeleted
  <2>7. Write("dep", r, o, x) BY <1>7
  <2> HIDE DEF o
  <2> QED BY <1>1, <1>4, <1>6, <2>3, <2>5, <2>6, <2>7, DepCopy, WriteGood
<1> HIDE DEF x
<1> QED BY <1>1, <1>5, <1>6, <1>7, DepCopy, StepGood, FailGood

LEMMA DepFinishGood == ASSUME TInv, DepFinish PROVE Good("dep")
<1> DEFINE r == w["dep"].key
<1>1. "dep" \in Kinds /\ w["dep"].pc # "idle" BY DEF Kinds, DepFinish
<1>2. r \in Ref /\ r[1] = "dep" BY <1>1, BusyOK DEF TInv
<1>3. CASE Write("dep", r, Nil, Idle)
  <2>1. Harmless(r, Nil) /\ Idle.pc # "items" BY <1>2 DEF Harmless, Idle
  <2> QED BY <1>1, <1>2, <1>3, <2>1, DepCopy, WriteGood
<1> QED BY <1>1, <1>3, FailGood, IdleStepGood DEF DepFinish, Update, Put, LeftAlone

LEMMA WorkGood ==
    ASSUME TInv, CopyInv, NEW k \in Kinds, HandlerFails(k) \/ Work(k)
    PROVE  Good(k) \/ Restart
<1>1. CASE HandlerFails(k) \/ RejectMark(k) BY <1>1, FailGood DEF HandlerFails, RejectMark
<1>2. CASE Panic(k) BY <1>2 DEF Panic
<1> QED BY <1>1, <1>2, DropEventGood, BeginGood, FinishGood, ListGood, ItemGood,
           SdDefaultsGood, SdInitializeGood, SdDeployGood, SdUndeployGood,
           DepListGood, DepStatusGood, DepFinishGood
        DEF Work

-----------------------------------------------------------------------------
(* The delete annotation is never taken back. *)

LEMMA RestartTame == Restart => Tame /\ CopyInv'
  BY IdleCopy DEF Restart, Tame, CopyInv

LEMMA UserEffect ==
    ASSUME TInv, User
    PROVE  Effect("user") /\ Sends /\ budget'.ops # budget.ops
<1>1. PICK r \in Ref : \/ UserCreate(r) \/ UserMark(r) \/ UserMismark(r)
                       \/ UserDelete(r) \/ UserToggleIstio(r)
  BY DEF User
<1>2. ASSUME NEW act, NEW o \in ObjOf(r[1]) \cup {Nil}, UserWrite(act, r, o)
      PROVE  Effect("user") /\ Sends /\ budget'.ops # budget.ops
  <2>1. StoreInv BY DEF TInv
  <2>2. budget' = [budget EXCEPT !.ops = @ + 1] /\ Write("user", r, o, Idle) BY <1>2 DEF UserWrite
  <2>3. budget'.ops # budget.ops BY <2>2 DEF TInv, RestType
  <2>4. Effect("user") /\ Sends BY <2>1, <2>2, WriteEffect
  <2> QED BY <2>3, <2>4
<1>3. r[1] \in Kinds /\ api[r] \in ObjOf(r[1]) \cup {Nil} BY RefKind DEF TInv, StoreInv, Objects
<1>4. ASSUME r[1] # "dep", api[r] # Nil, NEW m \in Marks
      PROVE  [api[r] EXCEPT !.mark = m] \in ObjOf(r[1])
  BY <1>3, <1>4, FieldKind
<1>5. CASE UserCreate(r) BY <1>2, <1>3, <1>5, NewObjKind DEF UserCreate
<1>6. CASE UserMark(r) BY <1>2, <1>4, <1>6 DEF UserMark, Marks
<1>7. CASE UserMismark(r) BY <1>2, <1>4, <1>7 DEF UserMismark, Marks
<1>8. CASE UserDelete(r) BY <1>2, <1>8 DEF UserDelete
<1>9. CASE UserToggleIstio(r)
  <2>1. [api[r] EXCEPT !.istio = ~@] \in AppObj
    BY <1>3, <1>9, ObjKind DEF UserToggleIstio, AppObj
  <2> QED BY <1>2, <1>9, <2>1, ObjKind DEF UserToggleIstio
<1> QED BY <1>1, <1>5, <1>6, <1>7, <1>8, <1>9

\* A step of the operator that is none of a worker changes no object.
LEMMA QuietTame ==
    ASSUME UNCHANGED <<api, w>>
    PROVE  Tame /\ (CopyInv => CopyInv')
  BY DEF Tame, CopyInv

LEMMA CopiesStay ==
    ASSUME TInv, CopyInv, [Next]_vars
    PROVE  CopyInv' /\ (budget'.ops = budget.ops => Tame)
<1>1. CASE User
  <2>1. "user" \notin Kinds BY DEF Kinds
  <2> QED BY <1>1, <2>1, UserEffect, EffectCopies
<1>2. CASE Crash BY <1>2, RestartTame DEF Crash
<1>3. CASE Initialized \/ Ready \/ Resync \/ UNCHANGED vars
  BY <1>3, QuietTame DEF Initialized, Ready, Resync, vars
<1>4. ASSUME NEW k \in Kinds, Deliver(k) PROVE CopyInv' /\ Tame
  BY <1>4, QuietTame DEF Deliver
<1>5. ASSUME NEW k \in Kinds, HandlerFails(k) \/ Work(k) PROVE CopyInv' /\ Tame
  BY <1>5, WorkGood, RestartTame, EffectCopies DEF Good
<1> QED BY <1>1, <1>2, <1>3, <1>4, <1>5 DEF Next

LEMMA InitCopies == Init => CopyInv
  BY IdleCopy DEF Init, CopyInv

LEMMA Copies == Spec => [](TInv /\ CopyInv)
<1>1. TInv /\ CopyInv /\ [Next]_vars => (TInv /\ CopyInv)'
  BY NextInv, CopiesStay
<1>2. Init => TInv /\ CopyInv BY InitInv, InitCopies
<1> QED BY <1>1, <1>2, PTL DEF Spec

\* No write of the operator takes a delete annotation back, whatever copies it is made
\* from, and for any number of objects, faults and crashes (CreateOrUpdate, UpdateStatus).
THEOREM MarksStay == Spec => MarkSurvives
<1>1. TInv /\ CopyInv /\ [Next]_vars =>
        [budget'.ops = budget.ops =>
           \A r \in Ref : r[1] # "dep" /\ api[r] # Nil /\ api'[r] # Nil /\ IsDeleted(api[r])
                          => IsDeleted(api'[r])]_vars
  BY CopiesStay DEF Tame
<1> QED BY <1>1, Copies, PTL DEF Spec, MarkSurvives

-----------------------------------------------------------------------------
(* The cascade comes before the owner's end. *)

\* What a marked owner has still to mark, of the SQBDeployments S, is in its worker's list;
\* one with KubeVela's label may have been passed over.
Covered(S, k, x, a) ==
    k \in {"app", "plane"} /\ x.pc = "items" /\ IsDeleted(x.in) =>
        \A s \in S : Selects(x.key, s) /\ a[<<"sd", s>>] # Nil =>
            \/ IsDeleted(a[<<"sd", s>>]) \/ <<"sd", s>> \in Vela
            \/ \E t \in x.todo : t[1] = s

CascadeInv(S) == \A k \in Kinds : Covered(S, k, w[k], api)

\* A marked owner's list shows those of S it selects, as far as they are there, and none of
\* them is made while the list is written: what the operator can know of.
Foreseen(S) ==
    \A k \in {"app", "plane"}, s \in S :
        w[k].pc \in {"operate", "items"} /\ IsDeleted(w[k].in) /\ Selects(w[k].key, s) =>
            /\ List(k) /\ api[<<"sd", s>>] # Nil => cache[<<"sd", s>>] # Nil
            /\ w[k].pc = "items" /\ api[<<"sd", s>>] = Nil => api'[<<"sd", s>>] = Nil

\* The delete annotation stays, whatever else is made.
Keeps ==
    \A s \in SDs : api'[<<"sd", s>>] # Nil /\ api[<<"sd", s>>] # Nil /\ IsDeleted(api[<<"sd", s>>])
                   => IsDeleted(api'[<<"sd", s>>])

LEMMA TameKeeps == Tame => Keeps
<1> SUFFICES ASSUME Tame, NEW s \in SDs, api'[<<"sd", s>>] # Nil, IsDeleted(api[<<"sd", s>>])
             PROVE  IsDeleted(api'[<<"sd", s>>])
  BY DEF Keeps
<1>1. <<"sd", s>> \in Ref /\ <<"sd", s>>[1] # "dep" BY RefKind
<1> QED BY <1>1 DEF Tame

LEMMA EffectCovered ==
    ASSUME NEW S \in SUBSET SDs, CascadeInv(S), Foreseen(S), NEW k, Effect(k), Keeps
    PROVE  \A c \in Kinds : c # k => Covered(S, c, w'[c], api')
<1> SUFFICES ASSUME NEW c \in Kinds, c # k, c \in {"app", "plane"}, w'[c].pc = "items",
                    IsDeleted(w'[c].in), NEW s \in S, Selects(w'[c].key, s),
                    api'[<<"sd", s>>] # Nil, <<"sd", s>> \notin Vela
             PROVE  IsDeleted(api'[<<"sd", s>>]) \/ \E t \in w'[c].todo : t[1] = s
  BY DEF Covered
<1>1. /\ w[c].pc = "items" /\ w[c].in = w'[c].in /\ w[c].key = w'[c].key
      /\ w[c].todo = w'[c].todo
  BY DEF Effect
<1>2. api[<<"sd", s>>] # Nil BY <1>1 DEF Foreseen
<1>3. IsDeleted(api[<<"sd", s>>]) => IsDeleted(api'[<<"sd", s>>]) BY <1>2 DEF Keeps
<1>4. Covered(S, c, w[c], api) BY DEF CascadeInv
<1> QED BY <1>1, <1>2, <1>3, <1>4 DEF Covered

\* The list of a marked owner holds whatever it selects and the cache shows.
LEMMA ListCovers ==
    ASSUME TInv, NEW S \in SUBSET SDs, Foreseen(S), NEW k \in Kinds, List(k)
    PROVE  Covered(S, k, w'[k], api')
<1> DEFINE T == {<<s, cache[<<"sd", s>>]>> : s \in Affected(k)}
           F == Fresh({<<"sd", s>> : s \in Affected(k)})
           x == [w[k] EXCEPT !.pc = "items", !.todo = T, !.fresh = @ \cup F]
<1>1. w[k] \in Worker /\ w[k].pc = "operate" /\ k \in {"app", "plane"} BY BusyOK DEF List, TInv
<1>2. Step(k, x) BY DEF List
<1>3. x.key = w[k].key /\ x.in = w[k].in /\ x.todo = T BY <1>1 DEF Worker
<1>4. ASSUME IsDeleted(w[k].in), NEW s \in S, Selects(w[k].key, s), api[<<"sd", s>>] # Nil
      PROVE  \E t \in T : t[1] = s
  <2>0. cache[<<"sd", s>>] # Nil BY <1>1, <1>4 DEF Foreseen
  <2>1. s \in Affected(k) BY <1>4, <2>0 DEF Affected, Found
  <2>2. <<s, cache[<<"sd", s>>]>> \in T /\ <<s, cache[<<"sd", s>>]>>[1] = s BY <2>1
  <2> QED BY <2>2
<1> HIDE DEF x, T, F
<1>5. w'[k] = x /\ api' = api BY <1>2, StepEffect DEF TInv
<1> QED BY <1>3, <1>4, <1>5 DEF Covered

\* What leaves the list is marked, or passed over with KubeVela's label.
LEMMA ItemCovers ==
    ASSUME TInv, CopyInv, NEW S \in SUBSET SDs, CascadeInv(S), NEW k \in Kinds, Item(k)
    PROVE  Covered(S, k, w'[k], api')
<1>1. k \in {"app", "plane"} /\ w[k].pc = "items" /\ StoreInv BY DEF Item, TInv
<1>2. PICK t \in w[k].todo :
        Update(k, <<"sd", t[1]>>, Rewritten(k, t[2]),
               [w[k] EXCEPT !.todo = @ \ {t}, !.fresh = @ \ {<<"sd", t[1]>>}])
  BY DEF Item
<1> DEFINE r == <<"sd", t[1]>>
           o == Rewritten(k, t[2])
           x == [w[k] EXCEPT !.todo = @ \ {t}, !.fresh = @ \ {r}]
<1>3. CASE Fail(k)
  <2>1. w'[k] = Idle BY <1>1, <1>3, ReportIdle DEF Fail
  <2> QED BY <2>1 DEF Covered, Idle
<1>4. CASE Write(k, r, o, x)
  <2>1. /\ r \in Ref /\ o \in ObjOf(r[1]) /\ t[2] \in SdObj /\ w[k] \in Worker
    <3>1. w[k] \in Worker BY <1>1, BusyOK
    <3> QED BY <1>1, <3>1, RewrittenKind, RefKind, ObjKind DEF Worker
  <2>2. x.key = w[k].key /\ x.in = w[k].in /\ x.todo = w[k].todo \ {t}
    BY <2>1 DEF Worker
  <2>3. IsDeleted(w[k].in) => IsDeleted(o)
    <3>1. [t[2] EXCEPT !.mark = "ok"].mark = "ok" BY <2>1 DEF SdObj
    <3> QED BY <3>1 DEF Rewritten, IsDeleted
  <2> HIDE DEF o, x
  <2>4. api' = [api EXCEPT ![r] = o] /\ w'[k] = x BY <1>1, <1>4, <2>1, WriteEffect
  <2>5. api \in [Ref -> AnyObj \cup {Nil}] BY <1>1 DEF StoreInv, Objects
  <2>6. ASSUME IsDeleted(w[k].in), NEW s \in S, Selects(w[k].key, s), api'[<<"sd", s>>] # Nil,
               <<"sd", s>> \notin Vela
        PROVE  IsDeleted(api'[<<"sd", s>>]) \/ \E z \in w[k].todo \ {t} : z[1] = s
    <3>1. CASE s = t[1] BY <2>1, <2>3, <2>4, <2>5, <2>6, <3>1
    <3>2. CASE s # t[1]
      <4>1. <<"sd", s>> \in Ref /\ <<"sd", s>> # r BY <3>2, RefKind
      <4>2. api'[<<"sd", s>>] = api[<<"sd", s>>] BY <2>4, <2>5, <4>1
      <4>3. Covered(S, k, w[k], api) BY DEF CascadeInv
      <4> QED BY <1>1, <2>6, <3>2, <4>2, <4>3 DEF Covered
    <3> QED BY <3>1, <3>2
  <2> QED BY <2>2, <2>4, <2>6 DEF Covered
<1>5. CASE LeftAlone(k, r, x)
  <2>1. w[k] \in Worker BY <1>1, BusyOK
  <2>2. x.key = w[k].key /\ x.in = w[k].in /\ x.todo = w[k].todo \ {t}
    BY <2>1 DEF Worker
  <2>3. Step(k, x) /\ r \in Vela BY <1>5 DEF LeftAlone
  <2> HIDE DEF x
  <2>4. w'[k] = x /\ api' = api BY <1>1, <2>3, StepEffect
  <2>5. Covered(S, k, w[k], api) BY DEF CascadeInv
  <2> QED BY <1>1, <2>2, <2>3, <2>4, <2>5 DEF Covered
<1> QED BY <1>2, <1>3, <1>4, <1>5 DEF Update, Put

LEMMA GoodCascade ==
    ASSUME TInv, CopyInv, NEW S \in SUBSET SDs, CascadeInv(S), Foreseen(S), NEW k \in Kinds, Good(k)
    PROVE  CascadeInv(S)'
<1>1. \A c \in Kinds : c # k => Covered(S, c, w'[c], api')
  BY EffectCovered, TameKeeps DEF Good
<1>2. Covered(S, k, w'[k], api')
  <2>1. CASE w'[k].pc # "items" BY <2>1 DEF Covered
  <2> QED BY <2>1, ListCovers, ItemCovers DEF Good
<1> QED BY <1>1, <1>2 DEF CascadeInv

\* What users do to a mark: they never take the right one back.
LEMMA UserKeeps ==
    ASSUME TInv, User
    PROVE  /\ UNCHANGED cache /\ Keeps
           /\ UserMay \cap {"create", "recreate"} = {} => Tame
<1>1. StoreInv BY DEF TInv
<1>2. UNCHANGED cache BY DEF User, UserCreate, UserMark, UserMismark, UserDelete, UserToggleIstio, UserWrite
<1>3. PICK r \in Ref : \/ UserCreate(r) \/ UserMark(r) \/ UserMismark(r)
                       \/ UserDelete(r) \/ UserToggleIstio(r)
  BY DEF User
<1>4. ASSUME NEW act, NEW o, UserWrite(act, r, o), Harmless(r, o) PROVE Tame
  BY <1>1, <1>4, HarmlessTame DEF UserWrite, Write
<1>5. r[1] \in Kinds /\ api[r] \in ObjOf(r[1]) \cup {Nil}
  BY RefKind DEF TInv, StoreInv, Objects
<1>6. ASSUME r[1] # "dep", api[r] # Nil, NEW m PROVE [api[r] EXCEPT !.mark = m].mark = m
  BY <1>5, <1>6, ObjKind DEF Kinds, AppObj, PlaneObj, SdObj
<1>7. CASE UserCreate(r)
  <2>1. UserMay \cap {"create", "recreate"} # {} BY <1>7 DEF UserCreate, UserWrite
  <2>2. api[r] = Nil /\ \E o : api' = [api EXCEPT ![r] = o]
    BY <1>7 DEF UserCreate, UserWrite, Write
  <2>3. api \in [Ref -> AnyObj \cup {Nil}] BY <1>1 DEF StoreInv, Objects
  <2>4. Keeps
    <3> SUFFICES ASSUME NEW s \in SDs, api[<<"sd", s>>] # Nil
                 PROVE  api'[<<"sd", s>>] = api[<<"sd", s>>]
      BY DEF Keeps
    <3>1. <<"sd", s>> \in Ref BY RefKind
    <3> QED BY <2>2, <2>3, <3>1
  <2> QED BY <1>2, <2>1, <2>4
<1>8. CASE UserMark(r) BY <1>2, <1>4, <1>6, <1>8, TameKeeps DEF UserMark, Harmless, IsDeleted
<1>9. CASE UserMismark(r) BY <1>2, <1>4, <1>9, TameKeeps DEF UserMismark, Harmless, IsDeleted
<1>10. CASE UserDelete(r) BY <1>2, <1>4, <1>10, TameKeeps DEF UserDelete, Harmless
<1>11. CASE UserToggleIstio(r)
  <2>1. [api[r] EXCEPT !.istio = ~@].mark = api[r].mark
    BY <1>5, <1>11, ObjKind DEF UserToggleIstio, AppObj
  <2> QED BY <1>2, <1>4, <1>11, <2>1, TameKeeps DEF UserToggleIstio, Harmless, IsDeleted
<1> QED BY <1>3, <1>7, <1>8, <1>9, <1>10, <1>11

LEMMA CascadeStays ==
    ASSUME TInv, CopyInv, NEW S \in SUBSET SDs, CascadeInv(S), Foreseen(S), [Next]_vars
    PROVE  CascadeInv(S)'
<1>1. CASE User
  <2>1. Effect("user") /\ "user" \notin Kinds BY <1>1, UserEffect DEF Kinds
  <2> QED BY <1>1, <2>1, UserKeeps, EffectCovered DEF CascadeInv
<1>2. ASSUME Restart PROVE CascadeInv(S)'
  BY <1>2 DEF Restart, CascadeInv, Covered, Idle
<1>3. CASE UNCHANGED <<api, w>> BY <1>3 DEF CascadeInv
<1>4. ASSUME NEW k \in Kinds, HandlerFails(k) \/ Work(k) PROVE CascadeInv(S)'
  BY <1>2, <1>4, WorkGood, GoodCascade
<1> QED
  BY <1>1, <1>2, <1>3, <1>4 DEF Next, Crash, Initialized, Ready, Resync, Deliver, vars

LEMMA InitCascade == ASSUME NEW S \in SUBSET SDs PROVE Init => CascadeInv(S)
  BY DEF Init, CascadeInv, Covered, Idle, Kinds

\* What CascadeBeforeOwner says of the SQBDeployments S in one step.
OwnerLast(S) ==
    budget'.ops = budget.ops =>
        \A r \in Ref : r[1] \in {"app", "plane"} /\ api[r] # Nil /\ api'[r] = Nil =>
            \A s \in S : Selects(r, s) /\ api[<<"sd", s>>] # Nil
                         => IsDeleted(api[<<"sd", s>>]) \/ <<"sd", s>> \in Vela

\* The step that removes an owner finds its list done, and all it selects marked.
LEMMA LastIsLast ==
    ASSUME TInv, CopyInv, NEW S \in SUBSET SDs, CascadeInv(S), [Next]_vars
    PROVE  OwnerLast(S)
<1> SUFFICES ASSUME budget'.ops = budget.ops, NEW r \in Ref, r[1] \in {"app", "plane"},
                    api[r] # Nil, api'[r] = Nil, NEW s \in S, Selects(r, s),
                    api[<<"sd", s>>] # Nil, <<"sd", s>> \notin Vela
             PROVE  IsDeleted(api[<<"sd", s>>])
  BY DEF OwnerLast
<1>1. ~UNCHANGED api OBVIOUS
<1>2. PICK k \in Kinds : HandlerFails(k) \/ Work(k)
  BY <1>1, UserEffect DEF Next, vars, Crash, Restart, Initialized, Ready, Resync, Deliver
<1>3. Good(k) BY <1>1, <1>2, WorkGood DEF Restart
<1>4. Last(k, r) BY <1>3 DEF Good
<1>5. k = r[1] BY <1>4, BusyOK DEF Last, TInv
<1>6. Covered(S, k, w[k], api) BY DEF CascadeInv
<1> QED BY <1>4, <1>5, <1>6 DEF Covered, Last

\* A marked application or plane goes only after every SQBDeployment with its label is marked
\* or gone, of those that its lists found in the cache if they were there, and that nobody made
\* while a list was written: whatever fails, conflicts or crashes in the middle of it, and
\* whatever else users make meanwhile (deleteByLabel, the last lines of Operate).  One with
\* KubeVela's label is passed over, its owner goes all the same.
THEOREM CascadeCovers ==
    ASSUME NEW S \in SUBSET SDs
    PROVE  Spec /\ [][Foreseen(S)]_vars => [][OwnerLast(S)]_vars
<1>1. TInv /\ CopyInv /\ CascadeInv(S) /\ [Next]_vars /\ [Foreseen(S)]_vars => CascadeInv(S)'
  <2>1. UNCHANGED vars /\ CascadeInv(S) => CascadeInv(S)' BY DEF vars, CascadeInv
  <2> QED BY <2>1, CascadeStays
<1>2. Init => CascadeInv(S) BY InitCascade
<1>3. TInv /\ CopyInv /\ CascadeInv(S) /\ [Next]_vars => [OwnerLast(S)]_vars
  BY LastIsLast
<1> QED BY <1>1, <1>2, <1>3, Copies, PTL DEF Spec

-----------------------------------------------------------------------------
(* Where nobody creates anything, every SQBDeployment is foreseen. *)

NoCreation == UserMay \cap {"create", "recreate"} = {}

\* Every SQBDeployment there is, is in the cache and stays there until it is deleted.
KnownInv ==
    \A s \in SDs : api[<<"sd", s>>] # Nil =>
        /\ cache[<<"sd", s>>] # Nil
        /\ \A i \in 1 .. Len(watch["sd"]) :
               watch["sd"][i].ref = <<"sd", s>> => watch["sd"][i].obj # Nil

LEMMA TameKnown ==
    ASSUME TInv, KnownInv, Tame, Sends, UNCHANGED cache
    PROVE  KnownInv'
<1> SUFFICES ASSUME NEW s \in SDs, api'[<<"sd", s>>] # Nil
             PROVE  /\ cache[<<"sd", s>>] # Nil
                    /\ \A i \in 1 .. Len(watch'["sd"]) :
                           watch'["sd"][i].ref = <<"sd", s>> => watch'["sd"][i].obj # Nil
  BY DEF KnownInv
<1>1. <<"sd", s>> \in Ref /\ <<"sd", s>>[1] # "dep" BY RefKind
<1>2. api[<<"sd", s>>] # Nil BY <1>1 DEF Tame
<1> QED BY <1>1, <1>2 DEF KnownInv, Sends

LEMMA DeliverKnown ==
    ASSUME TInv, KnownInv, NEW k \in Kinds, Deliver(k)
    PROVE  KnownInv'
<1> DEFINE q == watch[k]
           e == Head(q)
<1>2. q \in Seq(Event) /\ q # <<>> BY DEF TInv, StoreInv, Deliver
<1>3. /\ Len(q) \in Nat /\ Len(Tail(q)) = Len(q) - 1 /\ Len(q) > 0
      /\ \A i \in 1 .. Len(Tail(q)) : Tail(q)[i] = q[i + 1]
      /\ e = q[1] /\ e \in Event
  BY <1>2
<1>4. e.ref \in Ref /\ e.ref[1] = k
  <2>1. 1 \in 1 .. Len(watch[k]) BY <1>3
  <2>2. q[1].ref[1] = k BY <2>1 DEF TInv, StoreInv, Latest
  <2> QED BY <1>3, <2>2 DEF Event
<1>5. /\ api' = api /\ cache' = [cache EXCEPT ![e.ref] = e.obj]
      /\ watch' = [watch EXCEPT ![k] = Tail(q)]
  BY DEF Deliver
<1>6. KnownInv'
  <2> SUFFICES ASSUME NEW s \in SDs, api[<<"sd", s>>] # Nil
               PROVE  /\ cache'[<<"sd", s>>] # Nil
                      /\ \A i \in 1 .. Len(watch'["sd"]) :
                             watch'["sd"][i].ref = <<"sd", s>> => watch'["sd"][i].obj # Nil
    BY <1>5 DEF KnownInv
  <2>1. /\ cache[<<"sd", s>>] # Nil
        /\ \A i \in 1 .. Len(watch["sd"]) :
               watch["sd"][i].ref = <<"sd", s>> => watch["sd"][i].obj # Nil
    BY DEF KnownInv
  <2>2. <<"sd", s>> \in Ref BY RefKind
  <2>3. CASE k # "sd"
    <3>1. watch'["sd"] = watch["sd"] BY <1>5, <2>3 DEF TInv, StoreInv, Kinds
    <3>2. cache'[<<"sd", s>>] = cache[<<"sd", s>>]
      BY <1>4, <1>5, <2>2, <2>3 DEF TInv, StoreInv, Objects
    <3> QED BY <2>1, <3>1, <3>2
  <2>4. CASE k = "sd"
    <3>1. watch'["sd"] = Tail(q) BY <1>5, <2>4 DEF TInv, StoreInv
    <3>2. e.ref = <<"sd", s>> => e.obj # Nil
      <4>1. 1 \in 1 .. Len(watch["sd"]) /\ e = watch["sd"][1] BY <1>3, <2>4
      <4> QED BY <2>1, <4>1
    <3>3. cache'[<<"sd", s>>] # Nil
      BY <1>5, <2>1, <2>2, <3>2 DEF TInv, StoreInv, Objects
    <3>4. \A i \in 1 .. Len(Tail(q)) : i + 1 \in 1 .. Len(q) /\ Tail(q)[i] = q[i + 1]
      BY <1>3
    <3> QED BY <2>1, <2>4, <3>1, <3>3, <3>4
  <2> QED BY <2>3, <2>4
<1> QED BY <1>6

LEMMA WorkCache == \A k \in Kinds : HandlerFails(k) \/ Work(k) => UNCHANGED cache \/ Restart
  BY DEF HandlerFails, Work, DropEvent, Begin, RejectMark, Finish, List, Item, Panic, SdDefaults,
         SdInitialize, SdDeploy, SdUndeploy, DepList, DepStatus, DepFinish, Frame

LEMMA KnownStays ==
    ASSUME TInv, CopyInv, KnownInv, NoCreation, [Next]_vars
    PROVE  KnownInv' /\ (Tame \/ UNCHANGED api)
<1>1. CASE User BY <1>1, UserKeeps, UserEffect, TameKnown DEF NoCreation
<1>2. ASSUME Restart PROVE KnownInv' /\ UNCHANGED api BY <1>2 DEF Restart, KnownInv, Kinds
<1>3. CASE UNCHANGED <<api, watch, cache>> BY <1>3 DEF KnownInv
<1>4. ASSUME NEW k \in Kinds, Deliver(k) PROVE KnownInv' /\ UNCHANGED api
  BY <1>4, DeliverKnown DEF Deliver
<1>5. ASSUME NEW k \in Kinds, HandlerFails(k) \/ Work(k) PROVE KnownInv' /\ (Tame \/ UNCHANGED api)
  BY <1>2, <1>5, WorkGood, WorkCache, TameKnown DEF Good
<1> QED BY <1>1, <1>2, <1>3, <1>4, <1>5 DEF Next, Crash, Initialized, Ready, Resync, vars

LEMMA KnownForeseen ==
    ASSUME KnownInv, Tame \/ UNCHANGED api
    PROVE  Foreseen(SDs)
<1> SUFFICES ASSUME NEW s \in SDs
             PROVE  /\ api[<<"sd", s>>] # Nil => cache[<<"sd", s>>] # Nil
                    /\ api[<<"sd", s>>] = Nil => api'[<<"sd", s>>] = Nil
  BY DEF Foreseen
<1>1. <<"sd", s>> \in Ref /\ <<"sd", s>>[1] # "dep" BY RefKind
<1> QED BY <1>1 DEF KnownInv, Tame

\* Where no user creates anything, a marked application or plane goes only after every
\* SQBDeployment with its label is marked or gone, whatever fails, conflicts or crashes in
\* the middle of its list (deleteByLabel, the last lines of Operate); one with KubeVela's
\* label is passed over.
THEOREM CascadeFirst == ASSUME NoCreation PROVE Spec => CascadeBeforeOwner
<1>1. Init => KnownInv /\ CascadeInv(SDs) BY InitCascade DEF Init, KnownInv, Kinds
<1>2. TInv /\ CopyInv /\ KnownInv /\ CascadeInv(SDs) /\ [Next]_vars => (KnownInv /\ CascadeInv(SDs))'
  BY KnownStays, KnownForeseen, CascadeStays
<1>3. TInv /\ CopyInv /\ CascadeInv(SDs) /\ [Next]_vars =>
        [budget'.ops = budget.ops =>
           \A r \in Ref : r[1] \in {"app", "plane"} /\ api[r] # Nil /\ api'[r] = Nil =>
               \A s \in SDs : Selects(r, s) /\ api[<<"sd", s>>] # Nil
                              => IsDeleted(api[<<"sd", s>>]) \/ <<"sd", s>> \in Vela]_vars
  BY LastIsLast DEF OwnerLast
<1> QED BY <1>1, <1>2, <1>3, Copies, PTL DEF Spec, CascadeBeforeOwner

=============================================================================
