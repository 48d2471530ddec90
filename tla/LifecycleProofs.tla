--------------------------- MODULE LifecycleProofs ---------------------------
(***************************************************************************)
(* Theorems about Lifecycle, for all names, selectors, labels and bounds.  *)
(***************************************************************************)
EXTENDS Lifecycle, TLAPS

-----------------------------------------------------------------------------
(* The inductive invariant behind TypeOK.  The error status of a failed    *)
(* reconcile is written through a current copy, so the type of the API     *)
(* server's objects needs: a current copy is of an object that exists; for *)
(* that, a cache with no event pending is the API server's object; for     *)
(* that, the last event of an object in a watch carries its present value. *)

\* The last event of each object in a watch is the object.
Latest ==
    \A k \in Kinds : \A i \in 1 .. Len(watch[k]) :
        /\ watch[k][i].ref[1] = k
        /\ (\A j \in i + 1 .. Len(watch[k]) : watch[k][j].ref # watch[k][i].ref)
              => watch[k][i].obj = api[watch[k][i].ref]

InSync == \A r \in Ref : ~Pending(r) => cache[r] = api[r]

\* x is a legal worker of kind k next to the API server's objects a.
WorkerOK(k, x, a) ==
    /\ x \in Worker /\ Busy(k, x)
    /\ \A r \in x.fresh : a[r] # Nil
    /\ k = "sd" => x.fresh \subseteq {x.key}
    /\ k = "plane" /\ x.todo # {} => IsDeleted(x.in)

StoreInv ==
    /\ api \in Objects /\ cache \in Objects
    /\ watch \in [Kinds -> Seq(Event)]
    /\ w = [k \in Kinds |-> w[k]] /\ \A k \in Kinds : WorkerOK(k, w[k], api)
    /\ Latest /\ InSync

RestType ==
    /\ queue \subseteq Ref
    /\ phase \in {"boot", "waiting", "ready"}
    /\ budget \in [ops : Nat, faults : Nat, crashes : Nat]
    /\ hist \in [born : SUBSET Ref, asked : SUBSET Ref, lost : SUBSET Ref]

TInv == StoreInv /\ RestType

-----------------------------------------------------------------------------
(* References, objects and idle workers. *)

LEMMA RefKind ==
    /\ \A r \in Ref : r[1] \in Kinds /\ r = <<r[1], r[2]>>
    /\ \A s \in SDs : <<"sd", s>> \in Ref /\ <<"dep", s>> \in Ref
    /\ \A s \in SDs : AppRef(s) \in Ref /\ PlaneRef(s) \in Ref
    /\ \A r \in Ref : r[1] \in {"sd", "dep"} => r[2] \in SDs
  BY RefAssumption DEF Ref, Kinds, AppRef, PlaneRef

LEMMA ObjKind ==
    /\ ObjOf("app") = AppObj /\ ObjOf("plane") = PlaneObj
    /\ ObjOf("sd") = SdObj /\ ObjOf("dep") = DepObj
    /\ \A k \in Kinds : ObjOf(k) \subseteq AnyObj /\ Nil \notin ObjOf(k)
  BY NilAssumption DEF ObjOf, AnyObj, Kinds

\* The fields the custom resources share.
LEMMA FieldKind ==
    ASSUME NEW k \in Kinds, k # "dep", NEW o \in ObjOf(k)
    PROVE  /\ \A b \in BOOLEAN : [o EXCEPT !.err = b] \in ObjOf(k)
           /\ \A m \in Marks : [o EXCEPT !.mark = m] \in ObjOf(k)
<1>1. CASE k = "app"
  <2>1. o \in AppObj BY <1>1, ObjKind
  <2> QED BY <1>1, <2>1, ObjKind DEF AppObj
<1>2. CASE k = "plane"
  <2>1. o \in PlaneObj BY <1>2, ObjKind
  <2> QED BY <1>2, <2>1, ObjKind DEF PlaneObj
<1>3. CASE k = "sd"
  <2>1. o \in SdObj BY <1>3, ObjKind
  <2> QED BY <1>3, <2>1, ObjKind DEF SdObj
<1> QED BY <1>1, <1>2, <1>3 DEF Kinds

LEMMA IdleOK == \A k, a : WorkerOK(k, Idle, a)
  BY DEF WorkerOK, Idle, Worker, Busy

-----------------------------------------------------------------------------
(* What Write, Step, Fail and Update keep. *)

\* A worker that loses a current copy is still legal, whatever happens to the object.
LEMMA StaleOK ==
    ASSUME NEW k, NEW x, NEW a, NEW r, NEW o, WorkerOK(k, x, a), a \in [Ref -> AnyObj \cup {Nil}]
    PROVE  WorkerOK(k, [x EXCEPT !.fresh = @ \ {r}], [a EXCEPT ![r] = o])
<1> DEFINE y == [x EXCEPT !.fresh = @ \ {r}]
<1>1. y \in Worker /\ Busy(k, y) BY DEF WorkerOK, Worker, Busy
<1>2. y.fresh = x.fresh \ {r} /\ y.key = x.key /\ y.todo = x.todo /\ y.in = x.in
  BY DEF WorkerOK, Worker
<1>3. x.fresh \subseteq Ref BY DEF WorkerOK, Worker
<1> QED BY <1>1, <1>2, <1>3 DEF WorkerOK

LEMMA WriteWatch ==
    ASSUME StoreInv, NEW k, NEW r \in Ref, NEW o \in ObjOf(r[1]) \cup {Nil}, NEW next,
           Write(k, r, o, next)
    PROVE  /\ api' \in Objects /\ watch' \in [Kinds -> Seq(Event)]
           /\ Latest' /\ (UNCHANGED cache => InSync')
<1> DEFINE e == [ref |-> r, obj |-> o]
<1>1. r[1] \in Kinds /\ e \in Event
  BY RefKind, ObjKind DEF Event
<1>2. api' = [api EXCEPT ![r] = o] /\ api' \in Objects
  BY <1>1, ObjKind DEF StoreInv, Write, Objects
<1>3. CASE o = api[r]
  <2>1. api' = api /\ watch' = watch BY <1>2, <1>3 DEF StoreInv, Objects, Write
  <2>2. Latest' BY <2>1 DEF StoreInv, Latest
  <2>3. UNCHANGED cache => InSync' BY <2>1 DEF StoreInv, InSync, Pending
  <2>4. watch' \in [Kinds -> Seq(Event)] BY <2>1 DEF StoreInv
  <2> QED BY <1>2, <2>2, <2>3, <2>4
<1>4. CASE o # api[r]
  <2> DEFINE q == watch[r[1]]
  <2>1. watch' = [watch EXCEPT ![r[1]] = Append(q, e)]
    BY <1>4 DEF Write
  <2>2. q \in Seq(Event) BY <1>1 DEF StoreInv
  <2>3. /\ Append(q, e) \in Seq(Event) /\ Len(Append(q, e)) = Len(q) + 1 /\ Len(q) \in Nat
        /\ \A i \in 1 .. Len(q) : Append(q, e)[i] = q[i]
        /\ Append(q, e)[Len(q) + 1] = e
    BY <1>1, <2>2
  <2>4. watch' \in [Kinds -> Seq(Event)] BY <2>1, <2>3 DEF StoreInv
  <2>5. Latest'
    <3> SUFFICES ASSUME NEW c \in Kinds, NEW i \in 1 .. Len(watch'[c])
                 PROVE  /\ watch'[c][i].ref[1] = c
                        /\ (\A j \in i + 1 .. Len(watch'[c]) : watch'[c][j].ref # watch'[c][i].ref)
                              => watch'[c][i].obj = api'[watch'[c][i].ref]
      BY DEF Latest
    <3>1. CASE c # r[1]
      <4>1. watch'[c] = watch[c] BY <2>1, <3>1 DEF StoreInv
      <4>2. watch[c] \in Seq(Event) BY DEF StoreInv
      <4>3. watch[c][i] \in Event /\ watch[c][i].ref \in Ref BY <4>1, <4>2 DEF Event
      <4>4. watch[c][i].ref[1] = c BY <4>1 DEF StoreInv, Latest
      <4>5. api'[watch[c][i].ref] = api[watch[c][i].ref] BY <1>2, <3>1, <4>3, <4>4 DEF StoreInv, Objects
      <4> QED BY <4>1, <4>4, <4>5 DEF StoreInv, Latest
    <3>2. CASE c = r[1]
      <4>1. watch'[c] = Append(q, e) BY <2>1, <3>2 DEF StoreInv
      <4>2. CASE i = Len(q) + 1
        <5>1. watch'[c][i] = e BY <2>3, <4>1, <4>2
        <5> QED BY <1>2, <3>2, <5>1 DEF StoreInv, Objects
      <4>3. CASE i \in 1 .. Len(q)
        <5>1. watch'[c][i] = q[i] /\ q[i] \in Event /\ q[i].ref \in Ref
          BY <2>2, <2>3, <4>1, <4>3 DEF Event
        <5>2. q[i].ref[1] = c BY <3>2, <4>3 DEF StoreInv, Latest
        <5>3. ASSUME \A j \in i + 1 .. Len(watch'[c]) : watch'[c][j].ref # watch'[c][i].ref
              PROVE  watch'[c][i].obj = api'[watch'[c][i].ref]
          <6>1. q[i].ref # r
            BY <2>3, <4>1, <4>3, <5>1, <5>3
          <6>2. \A j \in i + 1 .. Len(q) : q[j].ref # q[i].ref
            BY <2>3, <4>1, <4>3, <5>1, <5>3
          <6>3. q[i].obj = api[q[i].ref] BY <3>2, <4>3, <6>2 DEF StoreInv, Latest
          <6> QED BY <1>2, <5>1, <6>1, <6>3 DEF StoreInv, Objects
        <5> QED BY <5>1, <5>2, <5>3
      <4> QED BY <2>3, <4>1, <4>2, <4>3
    <3> QED BY <3>1, <3>2
  <2>6. ASSUME UNCHANGED cache PROVE InSync'
    <3> SUFFICES ASSUME NEW z \in Ref, ~Pending(z)' PROVE cache[z] = api'[z]
      BY <2>6 DEF InSync
    <3>1. z # r
      <4>1. SUFFICES ASSUME z = r PROVE FALSE OBVIOUS
      <4>2. watch'[z[1]] = Append(q, e) BY <1>1, <2>1, <4>1 DEF StoreInv
      <4>3. Len(q) + 1 \in DOMAIN Append(q, e) BY <2>3
      <4> QED BY <2>3, <4>1, <4>2, <4>3 DEF Pending
    <3>2. ~Pending(z)
      <4>1. SUFFICES ASSUME NEW i \in DOMAIN watch[z[1]], watch[z[1]][i].ref = z PROVE FALSE
        BY DEF Pending
      <4>2. CASE z[1] # r[1]
        <5>1. watch'[z[1]] = watch[z[1]] BY RefKind, <2>1, <4>2 DEF StoreInv
        <5> QED BY <4>1, <5>1 DEF Pending
      <4>3. CASE z[1] = r[1]
        <5>1. watch'[z[1]] = Append(q, e) /\ i \in 1 .. Len(q)
          BY <1>1, <2>1, <2>2, <4>1, <4>3 DEF StoreInv
        <5>2. i \in DOMAIN Append(q, e) /\ Append(q, e)[i] = q[i] BY <2>3, <5>1
        <5> QED BY <4>1, <4>3, <5>1, <5>2 DEF Pending
      <4> QED BY <4>2, <4>3
    <3> QED BY <1>2, <3>1, <3>2 DEF StoreInv, InSync, Objects
  <2> QED BY <1>2, <2>4, <2>5, <2>6
<1> QED BY <1>3, <1>4

\* A write of an object of the right kind, by a worker that goes on legally.
LEMMA WriteInv ==
    ASSUME StoreInv, NEW k, NEW r \in Ref, NEW o \in ObjOf(r[1]) \cup {Nil}, NEW next,
           Write(k, r, o, next), UNCHANGED cache,
           k \in Kinds => WorkerOK(k, next, [api EXCEPT ![r] = o])
    PROVE  StoreInv'
<1>1. /\ api' \in Objects /\ watch' \in [Kinds -> Seq(Event)] /\ Latest' /\ InSync'
  BY WriteWatch
<1>2. api' = [api EXCEPT ![r] = o] BY DEF Write
<1>3. ASSUME NEW c \in Kinds PROVE WorkerOK(c, w'[c], api')
  <2>1. WorkerOK(c, w[c], api) BY DEF StoreInv
  <2>2. CASE c = k BY <1>2, <1>3, <2>2 DEF Write
  <2>3. CASE c # k /\ o = api[r]
    <3>1. w'[c] = w[c] BY <1>3, <2>3 DEF Write
    <3>2. api' = api BY <1>2, <2>3 DEF StoreInv, Objects
    <3> QED BY <2>1, <3>1, <3>2
  <2>4. CASE c # k /\ o # api[r]
    <3>1. w'[c] = [w[c] EXCEPT !.fresh = @ \ {r}] BY <1>3, <2>4 DEF Write
    <3>2. api \in [Ref -> AnyObj \cup {Nil}] BY DEF StoreInv, Objects
    <3>3. WorkerOK(c, [w[c] EXCEPT !.fresh = @ \ {r}], [api EXCEPT ![r] = o])
      BY <2>1, <3>2, StaleOK
    <3> QED BY <1>2, <3>1, <3>3
  <2> QED BY <2>2, <2>3, <2>4
<1>4. w' = [c \in Kinds |-> w'[c]] BY DEF Write
<1>5. cache' \in Objects BY DEF StoreInv, Objects
<1> QED BY <1>1, <1>3, <1>4, <1>5 DEF StoreInv

LEMMA StepInv ==
    ASSUME StoreInv, NEW k \in Kinds, NEW next, Step(k, next), UNCHANGED cache,
           WorkerOK(k, next, api)
    PROVE  StoreInv'
<1>1. UNCHANGED <<api, watch, cache>> /\ w' = [w EXCEPT ![k] = next] BY DEF Step
<1>2. w' = [c \in Kinds |-> IF c = k THEN next ELSE w[c]] BY <1>1 DEF StoreInv
<1>3. \A c \in Kinds : WorkerOK(c, w'[c], api') BY <1>1, <1>2 DEF StoreInv
<1>4. w' = [c \in Kinds |-> w'[c]] BY <1>2
<1>5. Latest' BY <1>1 DEF StoreInv, Latest
<1>6. InSync' BY <1>1 DEF StoreInv, InSync, Pending
<1>7. api' \in Objects /\ cache' \in Objects /\ watch' \in [Kinds -> Seq(Event)]
  BY <1>1 DEF StoreInv
<1> QED BY <1>3, <1>4, <1>5, <1>6, <1>7 DEF StoreInv

\* A busy worker holds an object of its kind; a current copy is of an object that exists.
LEMMA BusyOK ==
    ASSUME StoreInv, NEW k \in Kinds, w[k].pc # "idle"
    PROVE  /\ w[k] \in Worker /\ w[k].key \in Ref /\ w[k].key[1] = k /\ w[k].in \in ObjOf(k)
           /\ \A r \in w[k].fresh : r \in Ref /\ api[r] \in ObjOf(r[1])
           /\ k = "sd" => w[k].fresh \subseteq {w[k].key}
<1>1. WorkerOK(k, w[k], api) BY DEF StoreInv
<1>2. w[k] \in Worker /\ Busy(k, w[k]) BY <1>1 DEF WorkerOK
<1>3. w[k].fresh \subseteq Ref BY <1>2 DEF Worker
<1>4. \A r \in w[k].fresh : r \in Ref /\ api[r] \in ObjOf(r[1])
  BY <1>1, <1>3 DEF WorkerOK, StoreInv, Objects
<1> QED BY <1>1, <1>2, <1>4 DEF WorkerOK, Busy

\* A failed reconcile changes the error field of an object that exists, at most.
LEMMA ReportInv ==
    ASSUME StoreInv, NEW k \in Kinds, w[k].pc # "idle", Report(k), UNCHANGED cache
    PROVE  StoreInv'
<1> DEFINE r == w[k].key
           o == [api[r] EXCEPT !.err = TRUE]
<1>1. r \in Ref /\ r[1] = k BY BusyOK
<1>2. CASE Step(k, Idle) BY <1>2, IdleOK, StepInv
<1>3. CASE k # "dep" /\ Current(k, r) /\ Write(k, r, o, Idle)
  <2>1. api[r] \in ObjOf(k) BY <1>1, <1>3, BusyOK DEF Current
  <2>2. o \in ObjOf(r[1]) BY <1>1, <1>3, <2>1, FieldKind
  <2> QED BY <1>1, <1>3, <2>2, IdleOK, WriteInv
<1> QED BY <1>2, <1>3 DEF Report

LEMMA FailInv ==
    ASSUME StoreInv, queue \subseteq Ref, NEW k \in Kinds, w[k].pc # "idle",
           Fail(k) \/ GiveUp(k), UNCHANGED cache
    PROVE  StoreInv' /\ queue' \subseteq Ref
<1>1. w[k].key \in Ref BY BusyOK
<1> QED BY <1>1, ReportInv DEF Fail, GiveUp

LEMMA UpdateInv ==
    ASSUME StoreInv, queue \subseteq Ref, NEW k \in Kinds, w[k].pc # "idle",
           NEW r \in Ref, NEW o, NEW next, Update(k, r, o, next), UNCHANGED cache,
           WorkerOK(k, next, api),
           Current(k, r) => /\ o \in ObjOf(r[1]) \cup {Nil}
                            /\ WorkerOK(k, next, [api EXCEPT ![r] = o])
    PROVE  StoreInv' /\ queue' \subseteq Ref
  BY FailInv, WriteInv, StepInv DEF Update, Put, LeftAlone

-----------------------------------------------------------------------------
(* The initial states, the users, the informers and the process. *)

LEMMA NewObjKind == \A k \in Kinds : k # "dep" => NewObj(k) \in ObjOf(k)
  BY ObjKind DEF Kinds, NewObj, AppObj, PlaneObj, SdObj, Marks

LEMMA InitInv == Init => TInv
<1> SUFFICES ASSUME Init PROVE TInv OBVIOUS
<1>1. ASSUME NEW r \in Ref PROVE api[r] \in ObjOf(r[1]) \cup {Nil}
  <2>1. CASE r \notin Existing BY <2>1 DEF Init
  <2> DEFINE m == {s \in SDs : <<"dep", s>> \in Existing /\ Selects(r, s)}
  <2>2. CASE r[1] \in {"app", "plane"} /\ r \in Existing
    <3>1. api[r] = [NewObj(r[1]) EXCEPT !.mirrors = m] BY <2>2 DEF Init, SettledObj
    <3>2. m \in SUBSET SDs OBVIOUS
    <3> HIDE DEF m
    <3>3. CASE r[1] = "app"
      <4>1. api[r] = [NewObj("app") EXCEPT !.mirrors = m] BY <3>1, <3>3
      <4>2. api[r] \in AppObj BY <3>2, <4>1 DEF NewObj, AppObj, Marks
      <4> QED BY <3>3, <4>2, ObjKind
    <3>4. CASE r[1] = "plane"
      <4>1. api[r] = [NewObj("plane") EXCEPT !.mirrors = m] BY <3>1, <3>4
      <4>2. api[r] \in PlaneObj BY <3>2, <4>1 DEF NewObj, PlaneObj, Marks
      <4> QED BY <3>4, <4>2, ObjKind
    <3> QED BY <2>2, <3>3, <3>4
  <2>3. CASE r[1] = "sd" /\ r \in Existing
    <3>1. api[r] = [NewObj("sd") EXCEPT !.init = TRUE] BY <2>3 DEF Init, SettledObj
    <3>2. api[r] \in SdObj BY <3>1 DEF NewObj, SdObj, Marks
    <3> QED BY <2>3, <3>2, ObjKind
  <2>4. CASE r[1] = "dep" /\ r \in Existing
    <3>1. api[r] = NewDeployment(NewObj("sd")) BY <2>4 DEF Init, SettledObj
    <3>2. NewObj("sd") \in SdObj BY DEF NewObj, SdObj, Marks
    <3>3. api[r] \in DepObj BY <3>1, <3>2 DEF NewDeployment, SdObj, DepObj
    <3> QED BY <2>4, <3>3, ObjKind
  <2> QED BY <2>1, <2>2, <2>3, <2>4, RefKind DEF Kinds
<1>2. api \in Objects /\ cache \in Objects
  BY <1>1, ObjKind, RefKind DEF Init, Objects
<1>3. watch \in [Kinds -> Seq(Event)] /\ Latest /\ InSync
  BY DEF Init, Latest, InSync
<1>4. w = [k \in Kinds |-> w[k]] /\ \A k \in Kinds : WorkerOK(k, w[k], api)
  BY IdleOK DEF Init
<1>5. RestType BY RefAssumption DEF Init, RestType
<1> QED BY <1>2, <1>3, <1>4, <1>5 DEF TInv, StoreInv

LEMMA UserInv == ASSUME TInv, User PROVE TInv'
<1>1. PICK r \in Ref : \/ UserCreate(r) \/ UserMark(r) \/ UserMismark(r)
                       \/ UserDelete(r) \/ UserToggleIstio(r)
  BY DEF User
<1>2. ASSUME NEW act, NEW o \in ObjOf(r[1]) \cup {Nil}, UserWrite(act, r, o),
             hist' \in [born : SUBSET Ref, asked : SUBSET Ref, lost : SUBSET Ref]
      PROVE  TInv'
  <2>1. StoreInv' BY <1>2, WriteInv DEF UserWrite, TInv, Kinds
  <2>2. RestType' BY <1>2 DEF UserWrite, TInv, RestType
  <2> QED BY <2>1, <2>2 DEF TInv
<1>3. r[1] \in Kinds /\ api[r] \in ObjOf(r[1]) \cup {Nil} /\ hist \in [born : SUBSET Ref, asked : SUBSET Ref, lost : SUBSET Ref]
  BY RefKind DEF TInv, StoreInv, Objects, RestType
<1>4. ASSUME r[1] # "dep", api[r] # Nil, NEW m \in Marks
      PROVE  [api[r] EXCEPT !.mark = m] \in ObjOf(r[1])
  BY <1>3, <1>4, FieldKind
<1>5. CASE UserCreate(r)
  <2>1. NewObj(r[1]) \in ObjOf(r[1]) BY <1>3, <1>5, NewObjKind DEF UserCreate
  <2>2. hist' \in [born : SUBSET Ref, asked : SUBSET Ref, lost : SUBSET Ref] BY <1>3, <1>5 DEF UserCreate
  <2> QED BY <1>2, <1>5, <2>1, <2>2 DEF UserCreate
<1>6. CASE UserMark(r)
  <2>1. [api[r] EXCEPT !.mark = "ok"] \in ObjOf(r[1]) BY <1>4, <1>6 DEF UserMark, Marks
  <2>2. hist' \in [born : SUBSET Ref, asked : SUBSET Ref, lost : SUBSET Ref] BY <1>3, <1>6 DEF UserMark
  <2> QED BY <1>2, <1>6, <2>1, <2>2 DEF UserMark
<1>7. CASE UserMismark(r)
  <2>1. [api[r] EXCEPT !.mark = "wrong"] \in ObjOf(r[1]) BY <1>4, <1>7 DEF UserMismark, Marks
  <2> QED BY <1>2, <1>3, <1>7, <2>1 DEF UserMismark
<1>8. CASE UserDelete(r)
  BY <1>2, <1>3, <1>8 DEF UserDelete
<1>9. CASE UserToggleIstio(r)
  <2>1. api[r] \in AppObj BY <1>3, <1>9, ObjKind DEF UserToggleIstio
  <2>2. [api[r] EXCEPT !.istio = ~@] \in AppObj BY <2>1 DEF AppObj
  <2> QED BY <1>2, <1>3, <1>9, <2>2, ObjKind DEF UserToggleIstio
<1> QED BY <1>1, <1>5, <1>6, <1>7, <1>8, <1>9

LEMMA DeliverInv == ASSUME TInv, NEW k \in Kinds, Deliver(k) PROVE TInv'
<1> DEFINE q == watch[k]
           e == Head(q)
<1>1. q \in Seq(Event) /\ q # <<>> BY DEF TInv, StoreInv, Deliver
<1>2. /\ Tail(q) \in Seq(Event) /\ Len(q) \in Nat /\ Len(Tail(q)) = Len(q) - 1 /\ Len(q) > 0
      /\ \A i \in 1 .. Len(Tail(q)) : Tail(q)[i] = q[i + 1]
      /\ e = q[1] /\ e \in Event
  BY <1>1
<1>3. e.ref \in Ref /\ e.obj \in ObjOf(e.ref[1]) \cup {Nil} /\ e.ref[1] = k
  <2>1. 1 \in 1 .. Len(watch[k]) BY <1>2
  <2>2. q[1].ref[1] = k BY <2>1 DEF TInv, StoreInv, Latest
  <2> QED BY <1>2, <2>2 DEF Event
<1>4. /\ UNCHANGED <<api, w, phase, budget, hist>>
      /\ cache' = [cache EXCEPT ![e.ref] = e.obj]
      /\ watch' = [watch EXCEPT ![k] = Tail(q)]
  BY DEF Deliver
<1>5. api' \in Objects /\ watch' \in [Kinds -> Seq(Event)]
  BY <1>2, <1>4 DEF TInv, StoreInv
<1>6. cache' \in Objects
  <2>1. cache \in [Ref -> AnyObj \cup {Nil}] /\ \A r \in Ref : cache[r] \in ObjOf(r[1]) \cup {Nil}
    BY DEF TInv, StoreInv, Objects
  <2>2. e.obj \in AnyObj \cup {Nil} BY <1>3, ObjKind
  <2> QED BY <1>3, <1>4, <2>1, <2>2 DEF Objects
<1>7. w' = [c \in Kinds |-> w'[c]] /\ \A c \in Kinds : WorkerOK(c, w'[c], api')
  BY <1>4 DEF TInv, StoreInv
<1>8. Latest'
  <2> SUFFICES ASSUME NEW c \in Kinds, NEW i \in 1 .. Len(watch'[c])
               PROVE  /\ watch'[c][i].ref[1] = c
                      /\ (\A j \in i + 1 .. Len(watch'[c]) : watch'[c][j].ref # watch'[c][i].ref)
                            => watch'[c][i].obj = api'[watch'[c][i].ref]
    BY DEF Latest
  <2>1. CASE c # k
    <3>1. watch'[c] = watch[c] BY <1>4, <2>1 DEF TInv, StoreInv
    <3>2. /\ watch[c][i].ref[1] = c
          /\ (\A j \in i + 1 .. Len(watch[c]) : watch[c][j].ref # watch[c][i].ref)
                => watch[c][i].obj = api[watch[c][i].ref]
      BY <3>1 DEF TInv, StoreInv, Latest
    <3> QED BY <1>4, <3>1, <3>2
  <2>2. CASE c = k
    <3>1. watch'[c] = Tail(q) BY <1>4, <2>2 DEF TInv, StoreInv
    <3>2. i + 1 \in 1 .. Len(q) /\ watch'[c][i] = q[i + 1] BY <1>2, <3>1
    <3>3. ASSUME \A j \in i + 1 .. Len(Tail(q)) : Tail(q)[j].ref # q[i + 1].ref
          PROVE  \A j \in (i + 1) + 1 .. Len(q) : q[j].ref # q[i + 1].ref
      <4> TAKE j \in (i + 1) + 1 .. Len(q)
      <4>1. j - 1 \in i + 1 .. Len(Tail(q)) /\ j - 1 \in 1 .. Len(Tail(q)) /\ (j - 1) + 1 = j
        BY <1>2, <3>1
      <4> QED BY <1>2, <3>3, <4>1
    <3>4. /\ q[i + 1].ref[1] = k
          /\ (\A j \in (i + 1) + 1 .. Len(q) : q[j].ref # q[i + 1].ref)
                => q[i + 1].obj = api[q[i + 1].ref]
      BY <3>2 DEF TInv, StoreInv, Latest
    <3> QED BY <1>4, <2>2, <3>1, <3>2, <3>3, <3>4
  <2> QED BY <2>1, <2>2
<1>9. InSync'
  <2> SUFFICES ASSUME NEW z \in Ref, ~Pending(z)' PROVE cache'[z] = api[z]
    BY <1>4 DEF InSync
  <2>1. CASE z[1] # k
    <3>1. watch'[z[1]] = watch[z[1]] BY <1>4, <2>1, RefKind DEF TInv, StoreInv
    <3>2. ~Pending(z) BY <3>1 DEF Pending
    <3>3. cache'[z] = cache[z] BY <1>3, <1>4, <2>1 DEF TInv, StoreInv, Objects
    <3> QED BY <3>2, <3>3 DEF TInv, StoreInv, InSync
  <2>2. CASE z[1] = k
    <3>1. watch'[z[1]] = Tail(q) BY <1>4, <2>2 DEF TInv, StoreInv
    <3>2. \A i \in 2 .. Len(q) : q[i].ref # z
      <4> TAKE i \in 2 .. Len(q)
      <4>1. i - 1 \in 1 .. Len(Tail(q)) /\ (i - 1) + 1 = i BY <1>2
      <4>2. i - 1 \in DOMAIN Tail(q) /\ Tail(q)[i - 1] = q[i] BY <1>2, <4>1
      <4> QED BY <3>1, <4>2 DEF Pending
    <3>3. CASE z = e.ref
      <4>1. 1 \in 1 .. Len(watch[k]) /\ \A j \in 1 + 1 .. Len(watch[k]) : watch[k][j].ref # watch[k][1].ref
        BY <1>2, <3>2, <3>3
      <4>2. e.obj = api[z] BY <1>2, <3>3, <4>1 DEF TInv, StoreInv, Latest
      <4> QED BY <1>4, <3>3, <4>2 DEF TInv, StoreInv, Objects
    <3>4. CASE z # e.ref
      <4>1. \A i \in 1 .. Len(q) : q[i].ref # z BY <1>2, <3>2, <3>4
      <4>2. ~Pending(z) BY <1>1, <2>2, <4>1 DEF Pending
      <4>3. cache'[z] = cache[z] BY <1>4, <3>4 DEF TInv, StoreInv, Objects
      <4> QED BY <4>2, <4>3 DEF TInv, StoreInv, InSync
    <3> QED BY <3>3, <3>4
  <2> QED BY <2>1, <2>2
<1>10. RestType'
  BY <1>3, <1>4 DEF Deliver, TInv, RestType
<1> QED BY <1>5, <1>6, <1>7, <1>8, <1>9, <1>10 DEF TInv, StoreInv

LEMMA RestartInv ==
    ASSUME TInv, Restart, budget' \in [ops : Nat, faults : Nat, crashes : Nat]
    PROVE  TInv'
<1>1. api' \in Objects /\ cache' \in Objects /\ watch' \in [Kinds -> Seq(Event)]
  BY DEF TInv, StoreInv, Restart
<1>2. w' = [k \in Kinds |-> w'[k]] /\ \A k \in Kinds : WorkerOK(k, w'[k], api')
  BY IdleOK DEF Restart
<1>3. Latest' /\ InSync' BY DEF Restart, Latest, InSync
<1>4. RestType' BY DEF TInv, RestType, Restart
<1> QED BY <1>1, <1>2, <1>3, <1>4 DEF TInv, StoreInv

\* A step that leaves the store and the workers alone.
LEMMA IdleStepInv ==
    ASSUME TInv, UNCHANGED <<api, watch, cache, w>>, RestType'
    PROVE  TInv'
<1>1. Latest' BY DEF TInv, StoreInv, Latest
<1>2. InSync' BY DEF TInv, StoreInv, InSync, Pending
<1> QED BY <1>1, <1>2 DEF TInv, StoreInv

-----------------------------------------------------------------------------
(* The workers. *)

\* A busy worker that goes on elsewhere in the handlers.
LEMMA GoOnOK ==
    ASSUME NEW k, NEW x, NEW a, WorkerOK(k, x, a), x.pc # "idle", NEW next \in Worker,
           next.key = x.key, next.in = x.in, next.todo \subseteq x.todo,
           next.fresh \subseteq x.fresh
    PROVE  WorkerOK(k, next, a)
<1>1. Busy(k, next) BY DEF WorkerOK, Busy
<1> QED BY <1>1 DEF WorkerOK

\* The same when the step writes an object: it exists, or the worker holds no copy of it.
LEMMA WroteOK ==
    ASSUME NEW k, NEW x, NEW a, WorkerOK(k, x, a), a \in [Ref -> AnyObj \cup {Nil}],
           NEW r, NEW o, o # Nil \/ r \notin x.fresh
    PROVE  WorkerOK(k, x, [a EXCEPT ![r] = o])
<1>1. x.fresh \subseteq Ref BY DEF WorkerOK, Worker
<1> QED BY <1>1 DEF WorkerOK

\* What the actions of a worker leave alone.
LEMMA FrameInv ==
    ASSUME TInv, StoreInv', queue' \subseteq Ref, Frame
    PROVE  TInv'
  BY DEF TInv, RestType, Frame

\* The same when a key is dropped or taken up.
LEMMA LostInv ==
    ASSUME TInv, StoreInv', queue' \subseteq Ref, UNCHANGED <<phase, budget>>,
           NEW L \in SUBSET Ref, hist' = [hist EXCEPT !.lost = L]
    PROVE  TInv'
  BY DEF TInv, RestType

LEMMA DropEventInv == ASSUME TInv, NEW k \in Kinds, DropEvent(k) PROVE TInv'
<1>1. PICK r \in queue : queue' = queue \ {r} /\ hist' = [hist EXCEPT !.lost = @ \cup {r}]
  BY DEF DropEvent
<1>2. StoreInv' BY StepInv DEF DropEvent, TInv, StoreInv
<1>3. queue' \subseteq Ref /\ hist.lost \cup {r} \in SUBSET Ref BY <1>1 DEF TInv, RestType
<1> QED BY <1>1, <1>2, <1>3, LostInv DEF DropEvent

LEMMA BeginInv == ASSUME TInv, NEW k \in Kinds, Begin(k) PROVE TInv'
<1>1. PICK r \in queue :
        /\ r[1] = k /\ queue' = queue \ {r}
        /\ hist' = [hist EXCEPT !.lost = @ \ {r}]
        /\ IF cache[r] = Nil
           THEN Step(k, Idle)
           ELSE Step(k, [Idle EXCEPT !.pc = "operate", !.key = r, !.in = cache[r],
                                     !.fresh = Fresh({r})])
  BY DEF Begin
<1>2. r \in Ref /\ queue' \subseteq Ref /\ hist.lost \ {r} \in SUBSET Ref BY <1>1 DEF TInv, RestType
<1>3. CASE cache[r] = Nil
  <2>1. StoreInv' BY <1>1, <1>3, IdleOK, StepInv DEF Begin, TInv
  <2> QED BY <1>1, <1>2, <2>1, LostInv DEF Begin
<1>4. CASE cache[r] # Nil
  <2> DEFINE x == [Idle EXCEPT !.pc = "operate", !.key = r, !.in = cache[r], !.fresh = Fresh({r})]
  <2>1. cache[r] \in ObjOf(k) /\ cache[r] \in AnyObj
    BY <1>1, <1>2, <1>4, ObjKind DEF TInv, StoreInv, Objects
  <2>2. /\ x.pc = "operate" /\ x.key = r /\ x.in = cache[r] /\ x.todo = {}
        /\ x.fresh = Fresh({r}) /\ x.view = {}
    BY DEF Idle
  <2>3. Fresh({r}) \subseteq {r} /\ \A z \in Fresh({r}) : api[z] # Nil
    BY <1>2, <1>4 DEF Fresh, TInv, StoreInv, InSync
  <2>4. x \in Worker BY <1>2, <2>1, <2>3 DEF Idle, Worker
  <2>5. Busy(k, x) BY <1>1, <1>2, <2>1, <2>2 DEF Busy
  <2>6. WorkerOK(k, x, api) BY <2>2, <2>3, <2>4, <2>5 DEF WorkerOK
  <2>7. StoreInv' BY <1>1, <1>4, <2>6, StepInv DEF Begin, TInv
  <2> QED BY <1>1, <1>2, <2>7, LostInv DEF Begin
<1> QED BY <1>3, <1>4

LEMMA HandlerFailsInv == ASSUME TInv, NEW k \in Kinds, HandlerFails(k) PROVE TInv'
<1>1. StoreInv' /\ queue' \subseteq Ref BY FailInv DEF HandlerFails, TInv, RestType
<1>2. w[k].key \in Ref BY BusyOK DEF HandlerFails, TInv
<1>3. RestType' BY <1>1, <1>2 DEF HandlerFails, TInv, RestType
<1> QED BY <1>1, <1>3 DEF TInv

LEMMA RejectMarkInv == ASSUME TInv, NEW k \in Kinds, RejectMark(k) PROVE TInv'
<1>1. StoreInv' /\ queue' \subseteq Ref BY FailInv DEF RejectMark, Frame, TInv, RestType
<1> QED BY <1>1, FrameInv DEF RejectMark

LEMMA FinishInv == ASSUME TInv, NEW k \in Kinds, Finish(k) PROVE TInv'
<1> DEFINE r == w[k].key
<1>1. w[k].pc # "idle" /\ k # "dep" BY DEF Finish
<1>2. r \in Ref /\ r[1] = k /\ queue \subseteq Ref BY <1>1, BusyOK DEF TInv, RestType
<1>3. CASE Write(k, r, Nil, Idle) /\ UNCHANGED queue
  <2>1. StoreInv' BY <1>2, <1>3, IdleOK, WriteInv DEF Finish, Frame, TInv
  <2> QED BY <1>2, <1>3, <2>1, FrameInv DEF Finish
<1>4. CASE Put(k, r, [api[r] EXCEPT !.err = FALSE], Idle)
  <2>1. Current(k, r) => [api[r] EXCEPT !.err = FALSE] \in ObjOf(r[1])
    BY <1>1, <1>2, BusyOK, FieldKind DEF Current, TInv
  <2>2. StoreInv' /\ queue' \subseteq Ref
    BY <1>1, <1>2, <1>4, <2>1, IdleOK, UpdateInv DEF Update, Finish, Frame, TInv
  <2> QED BY <2>2, FrameInv DEF Finish
<1>5. CASE Step(k, Idle) /\ UNCHANGED queue
  <2>1. StoreInv' BY <1>5, IdleOK, StepInv DEF Finish, Frame, TInv
  <2> QED BY <1>2, <1>5, <2>1, FrameInv DEF Finish
<1> QED BY <1>3, <1>4, <1>5 DEF Finish, LeftAlone

LEMMA ListInv == ASSUME TInv, NEW k \in Kinds, List(k) PROVE TInv'
<1> DEFINE T == {<<s, cache[<<"sd", s>>]>> : s \in Affected(k)}
           F == Fresh({<<"sd", s>> : s \in Affected(k)})
           x == [w[k] EXCEPT !.pc = "items", !.todo = T, !.fresh = @ \cup F]
<1>1. w[k].pc = "operate" /\ k \in {"app", "plane"} /\ WorkerOK(k, w[k], api) /\ w[k] \in Worker
  BY DEF List, TInv, StoreInv, WorkerOK
<1>2. \A s \in Affected(k) : /\ s \in SDs /\ <<"sd", s>> \in Ref /\ cache[<<"sd", s>>] \in SdObj
                             /\ cache[<<"sd", s>>] # Nil
  <2> TAKE s \in Affected(k)
  <2>1. s \in SDs /\ cache[<<"sd", s>>] # Nil BY DEF Affected, Found
  <2>2. <<"sd", s>> \in Ref /\ <<"sd", s>>[1] = "sd" BY <2>1, RefKind
  <2>3. cache[<<"sd", s>>] \in SdObj BY <2>1, <2>2, ObjKind DEF TInv, StoreInv, Objects
  <2> QED BY <2>1, <2>2, <2>3
<1>3. T \in SUBSET (SDs \X SdObj)
  <2> SUFFICES ASSUME NEW s \in Affected(k) PROVE <<s, cache[<<"sd", s>>]>> \in SDs \X SdObj
    OBVIOUS
  <2> QED BY <1>2
<1>4. F \subseteq Ref /\ \A r \in F : api[r] # Nil
  BY <1>2 DEF Fresh, TInv, StoreInv, InSync
<1>5. /\ x.pc = "items" /\ x.key = w[k].key /\ x.in = w[k].in /\ x.todo = T
      /\ x.fresh = w[k].fresh \cup F
  BY <1>1 DEF Worker
<1>6. x \in Worker
  <2> HIDE DEF T, F
  <2> QED BY <1>1, <1>3, <1>4 DEF Worker
<1>7. Busy(k, x) BY <1>1, <1>5 DEF WorkerOK, Busy
<1>8. k = "plane" /\ T # {} => IsDeleted(w[k].in)
  <2> SUFFICES ASSUME k = "plane", NEW t \in T PROVE IsDeleted(w[k].in) OBVIOUS
  <2>1. PICK s \in Affected(k) : t = <<s, cache[<<"sd", s>>]>> OBVIOUS
  <2> QED BY DEF Affected
<1>9. WorkerOK(k, x, api)
  <2>1. \A r \in x.fresh : api[r] # Nil BY <1>1, <1>4, <1>5 DEF WorkerOK
  <2>2. k # "sd" /\ (k = "plane" /\ x.todo # {} => IsDeleted(x.in)) BY <1>1, <1>5, <1>8
  <2> HIDE DEF x
  <2> QED BY <1>6, <1>7, <2>1, <2>2 DEF WorkerOK
<1>10. Step(k, x) /\ UNCHANGED queue /\ Frame BY DEF List
<1> HIDE DEF x
<1>11. StoreInv' BY <1>9, <1>10, StepInv DEF Frame, TInv
<1> QED BY <1>10, <1>11, FrameInv DEF TInv, RestType

\* The cascade and the istio switch write an SQBDeployment.
LEMMA RewrittenKind ==
    ASSUME TInv, NEW k \in {"app", "plane"}, w[k].pc # "idle", NEW t \in w[k].todo
    PROVE  t[1] \in SDs /\ Rewritten(k, t[2]) \in SdObj
<1>1. k \in Kinds BY DEF Kinds
<1>2. WorkerOK(k, w[k], api) /\ w[k] \in Worker /\ w[k].in \in ObjOf(k)
  BY <1>1, BusyOK DEF TInv, StoreInv
<1>3. t[1] \in SDs /\ t[2] \in SdObj BY <1>2 DEF Worker
<1>4. [t[2] EXCEPT !.mark = "ok"] \in SdObj BY <1>3 DEF SdObj, Marks
<1>5. ASSUME ~IsDeleted(w[k].in) PROVE [t[2] EXCEPT !.istio = w[k].in.istio] \in SdObj
  <2>1. k = "app" BY <1>2, <1>5 DEF WorkerOK
  <2>2. w[k].in \in AppObj BY <1>2, <2>1, ObjKind
  <2>3. w[k].in.istio \in BOOLEAN BY <2>2 DEF AppObj
  <2> QED BY <1>3, <2>3 DEF SdObj
<1> QED BY <1>3, <1>4, <1>5 DEF Rewritten

LEMMA ItemInv == ASSUME TInv, NEW k \in Kinds, Item(k) PROVE TInv'
<1>1. k \in {"app", "plane"} /\ w[k].pc = "items" /\ Frame BY DEF Item
<1>2. PICK t \in w[k].todo :
        Update(k, <<"sd", t[1]>>, Rewritten(k, t[2]),
               [w[k] EXCEPT !.todo = @ \ {t}, !.fresh = @ \ {<<"sd", t[1]>>}])
  BY DEF Item
<1> DEFINE r == <<"sd", t[1]>>
           o == Rewritten(k, t[2])
           x == [w[k] EXCEPT !.todo = @ \ {t}, !.fresh = @ \ {r}]
<1>3. r \in Ref /\ r[1] = "sd" /\ o \in ObjOf("sd")
  BY <1>1, RewrittenKind, RefKind, ObjKind
<1>4. WorkerOK(k, w[k], api) /\ w[k] \in Worker BY DEF TInv, StoreInv, WorkerOK
<1>5. /\ x \in Worker /\ x.key = w[k].key /\ x.in = w[k].in /\ x.pc = w[k].pc
      /\ x.todo \subseteq w[k].todo /\ x.fresh = w[k].fresh \ {r}
  BY <1>4 DEF Worker
<1>6. Update(k, r, o, x) BY <1>2
<1> HIDE DEF x, o
<1>7. WorkerOK(k, x, api) BY <1>1, <1>4, <1>5, GoOnOK
<1>8. api \in [Ref -> AnyObj \cup {Nil}] BY DEF TInv, StoreInv, Objects
<1>9. WorkerOK(k, x, [api EXCEPT ![r] = o]) BY <1>5, <1>7, <1>8, WroteOK
<1>10. queue \subseteq Ref BY DEF TInv, RestType
<1>11. StoreInv' /\ queue' \subseteq Ref
  BY <1>1, <1>3, <1>6, <1>7, <1>9, <1>10, UpdateInv DEF Frame, TInv
<1> QED BY <1>1, <1>11, FrameInv

LEMMA PanicInv == ASSUME TInv, NEW k \in Kinds, Panic(k) PROVE TInv'
  BY RestartInv DEF Panic, TInv, RestType

LEMMA SdDefaultsInv == ASSUME TInv, SdDefaults PROVE TInv'
<1> DEFINE a == cache[AppRef(w["sd"].key[2])]
           i == [w["sd"].in EXCEPT !.init = TRUE, !.istio = a.istio]
           x == [w["sd"] EXCEPT !.pc = "init", !.in = i]
<1>1. "sd" \in Kinds /\ w["sd"].pc = "operate" /\ Frame /\ queue \subseteq Ref
  BY DEF Kinds, SdDefaults, TInv, RestType
<1>2. CASE a = Nil
  <2>1. Fail("sd") BY <1>2 DEF SdDefaults
  <2>2. StoreInv' /\ queue' \subseteq Ref BY <1>1, <2>1, FailInv DEF Frame, TInv
  <2> QED BY <1>1, <2>2, FrameInv
<1>3. CASE a # Nil
  <2>1. /\ WorkerOK("sd", w["sd"], api) /\ w["sd"] \in Worker /\ w["sd"].in \in SdObj
        /\ w["sd"].key \in Ref /\ w["sd"].key[1] = "sd"
    BY <1>1, BusyOK, ObjKind DEF TInv, StoreInv
  <2>2. AppRef(w["sd"].key[2]) \in Ref /\ AppRef(w["sd"].key[2])[1] = "app"
    BY <2>1, RefKind DEF AppRef
  <2>3. a \in AppObj BY <1>3, <2>2, ObjKind DEF TInv, StoreInv, Objects
  <2>4. a.istio \in BOOLEAN BY <2>3 DEF AppObj
  <2> HIDE DEF a
  <2>5. i \in SdObj BY <2>1, <2>4 DEF SdObj
  <2>6. i \in AnyObj BY <1>1, <2>5, ObjKind
  <2> HIDE DEF i
  <2>7. x \in Worker BY <2>1, <2>6 DEF Worker
  <2>8. x.key = w["sd"].key /\ x.in = i /\ x.fresh = w["sd"].fresh BY <2>1 DEF Worker
  <2>9. Step("sd", x) /\ UNCHANGED queue BY <1>3 DEF SdDefaults, a, i
  <2> HIDE DEF x
  <2>10. Busy("sd", x) BY <2>1, <2>5, <2>8, ObjKind DEF Busy
  <2>11. WorkerOK("sd", x, api) BY <2>1, <2>7, <2>8, <2>10 DEF WorkerOK
  <2>12. StoreInv' BY <1>1, <2>9, <2>11, StepInv DEF Frame, TInv
  <2> QED BY <1>1, <2>9, <2>12, FrameInv
<1> QED BY <1>2, <1>3

LEMMA SdInitializeInv == ASSUME TInv, SdInitialize PROVE TInv'
<1> DEFINE r == w["sd"].key
           o == w["sd"].in
           x == [w["sd"] EXCEPT !.pc = "operate"]
<1>1. "sd" \in Kinds /\ w["sd"].pc = "init" /\ Frame /\ queue \subseteq Ref
  BY DEF Kinds, SdInitialize, TInv, RestType
<1>2. /\ WorkerOK("sd", w["sd"], api) /\ w["sd"] \in Worker /\ r \in Ref /\ r[1] = "sd"
      /\ o \in ObjOf("sd") /\ o # Nil
  BY <1>1, BusyOK, ObjKind DEF TInv, StoreInv
<1>3. Update("sd", r, o, x) BY DEF SdInitialize
<1>4. /\ x \in Worker /\ x.key = w["sd"].key /\ x.in = w["sd"].in /\ x.todo = w["sd"].todo
      /\ x.fresh = w["sd"].fresh
  BY <1>2 DEF Worker
<1> HIDE DEF x, r, o
<1>5. WorkerOK("sd", x, api) BY <1>1, <1>2, <1>4, GoOnOK
<1>6. api \in [Ref -> AnyObj \cup {Nil}] BY DEF TInv, StoreInv, Objects
<1>7. WorkerOK("sd", x, [api EXCEPT ![r] = o]) BY <1>2, <1>5, <1>6, WroteOK
<1>8. StoreInv' /\ queue' \subseteq Ref
  BY <1>1, <1>2, <1>3, <1>5, <1>7, UpdateInv DEF Frame, TInv
<1> QED BY <1>1, <1>8, FrameInv

\* The worker of SQBDeployments writes the Deployment and goes on: its copies are of
\* its own key only.
LEMMA SdWriteInv ==
    ASSUME TInv, Frame, UNCHANGED queue, w["sd"].pc # "idle", NEW s \in SDs,
           NEW o \in DepObj \cup {Nil},
           Write("sd", <<"dep", s>>, o, [w["sd"] EXCEPT !.pc = "finish"])
    PROVE  TInv'
<1> DEFINE r == <<"dep", s>>
           x == [w["sd"] EXCEPT !.pc = "finish"]
<1>1. "sd" \in Kinds /\ r \in Ref /\ r[1] = "dep" /\ o \in ObjOf("dep") \cup {Nil}
  BY RefKind, ObjKind DEF Kinds
<1>2. /\ WorkerOK("sd", w["sd"], api) /\ w["sd"] \in Worker /\ w["sd"].key[1] = "sd"
      /\ w["sd"].fresh \subseteq {w["sd"].key}
  BY <1>1, BusyOK DEF TInv, StoreInv
<1>3. /\ x \in Worker /\ x.key = w["sd"].key /\ x.in = w["sd"].in /\ x.todo = w["sd"].todo
      /\ x.fresh = w["sd"].fresh
  BY <1>2 DEF Worker
<1>4. Write("sd", r, o, x) OBVIOUS
<1> HIDE DEF x
<1>5. WorkerOK("sd", x, api) BY <1>2, <1>3, GoOnOK
<1>6. api \in [Ref -> AnyObj \cup {Nil}] /\ r \notin x.fresh
  BY <1>1, <1>2, <1>3 DEF TInv, StoreInv, Objects
<1>7. WorkerOK("sd", x, [api EXCEPT ![r] = o]) BY <1>5, <1>6, WroteOK
<1>8. StoreInv' BY <1>1, <1>4, <1>7, WriteInv DEF Frame, TInv
<1> QED BY <1>8, FrameInv DEF TInv, RestType

LEMMA SdDeployInv == ASSUME TInv, SdDeploy PROVE TInv'
<1> DEFINE s == w["sd"].key[2]
           r == <<"dep", s>>
           x == [w["sd"] EXCEPT !.pc = "finish"]
<1>1. "sd" \in Kinds /\ w["sd"].pc = "operate" /\ Frame /\ queue \subseteq Ref
  BY DEF Kinds, SdDeploy, TInv, RestType
<1>2. s \in SDs /\ w["sd"].in \in SdObj
  <2>1. w["sd"].key \in Ref /\ w["sd"].key[1] = "sd" /\ w["sd"].in \in ObjOf("sd")
    BY <1>1, BusyOK DEF TInv
  <2> QED BY <2>1, RefKind, ObjKind
<1>3. r \in Ref /\ r[1] = "dep" BY <1>2, RefKind
<1>4. CASE Fail("sd")
  <2>1. StoreInv' /\ queue' \subseteq Ref BY <1>1, <1>4, FailInv DEF Frame, TInv
  <2> QED BY <1>1, <2>1, FrameInv
<1>5. CASE Write("sd", r, NewDeployment(w["sd"].in), x) /\ UNCHANGED queue
  <2>1. NewDeployment(w["sd"].in) \in DepObj BY <1>2 DEF NewDeployment, SdObj, DepObj
  <2> QED BY <1>1, <1>2, <1>5, <2>1, SdWriteInv
<1>6. CASE /\ cache[r] # Nil
           /\ Write("sd", r, [cache[r] EXCEPT !.istio = w["sd"].in.istio, !.fin = TRUE], x)
           /\ UNCHANGED queue
  <2> DEFINE o == [cache[r] EXCEPT !.istio = w["sd"].in.istio, !.fin = TRUE]
  <2>1. cache[r] \in DepObj BY <1>3, <1>6, ObjKind DEF TInv, StoreInv, Objects
  <2>2. o \in DepObj BY <1>2, <2>1 DEF SdObj, DepObj
  <2>3. Write("sd", r, o, x) BY <1>6
  <2> HIDE DEF o
  <2> QED BY <1>1, <1>2, <1>6, <2>2, <2>3, SdWriteInv
<1>7. CASE LeftAlone("sd", r, x)
  <2>1. WorkerOK("sd", w["sd"], api) /\ w["sd"] \in Worker BY <1>1 DEF TInv, StoreInv, WorkerOK
  <2>2. /\ x \in Worker /\ x.key = w["sd"].key /\ x.in = w["sd"].in
        /\ x.todo = w["sd"].todo /\ x.fresh = w["sd"].fresh
    BY <2>1 DEF Worker
  <2>3. Step("sd", x) /\ UNCHANGED queue BY <1>7 DEF LeftAlone
  <2> HIDE DEF x
  <2>4. WorkerOK("sd", x, api) BY <1>1, <2>1, <2>2, GoOnOK
  <2>5. StoreInv' BY <1>1, <2>3, <2>4, StepInv DEF Frame, TInv
  <2> QED BY <1>1, <2>3, <2>5, FrameInv
<1> QED BY <1>4, <1>5, <1>6, <1>7 DEF SdDeploy

LEMMA SdUndeployInv == ASSUME TInv, SdUndeploy PROVE TInv'
<1> DEFINE s == w["sd"].key[2]
           r == <<"dep", s>>
<1>1. "sd" \in Kinds /\ w["sd"].pc = "operate" /\ Frame /\ UNCHANGED queue
  BY DEF Kinds, SdUndeploy
<1>2. s \in SDs
  <2>1. w["sd"].key \in Ref /\ w["sd"].key[1] = "sd" BY <1>1, BusyOK DEF TInv
  <2> QED BY <2>1, RefKind
<1>3. r \in Ref /\ r[1] = "dep" BY <1>2, RefKind
<1>4. AfterDelete("dep", api[r]) \in DepObj \cup {Nil}
  <2>1. api[r] \in DepObj \cup {Nil} BY <1>3, ObjKind DEF TInv, StoreInv, Objects
  <2>2. api[r] \in DepObj => [api[r] EXCEPT !.term = TRUE] \in DepObj BY DEF DepObj
  <2> QED BY <2>1, <2>2 DEF AfterDelete
<1>5. Write("sd", r, AfterDelete("dep", api[r]), [w["sd"] EXCEPT !.pc = "finish"])
  BY DEF SdUndeploy
<1> QED BY <1>1, <1>2, <1>4, <1>5, SdWriteInv

LEMMA DepListInv == ASSUME TInv, DepList PROVE TInv'
<1> DEFINE v == Mirrors(Owner(w["dep"].pc, w["dep"].key[2]))
           p == IF w["dep"].pc = "operate" THEN "appStatus" ELSE "planeStatus"
           x == [w["dep"] EXCEPT !.pc = p, !.view = v]
           y == [w["dep"] EXCEPT !.pc = "finish"]
<1>1. "dep" \in Kinds /\ w["dep"].pc # "idle" /\ Frame /\ UNCHANGED queue
  BY DEF Kinds, DepList
<1>2. WorkerOK("dep", w["dep"], api) /\ w["dep"] \in Worker
  BY <1>1 DEF TInv, StoreInv, WorkerOK
<1>3. Step("dep", x) \/ Step("dep", y) BY DEF DepList
<1>4. v \subseteq SDs BY DEF Mirrors
<1> HIDE DEF v
<1>5. /\ x \in Worker /\ x.key = w["dep"].key /\ x.in = w["dep"].in
      /\ x.todo = w["dep"].todo /\ x.fresh = w["dep"].fresh
  BY <1>2, <1>4 DEF Worker
<1>6. /\ y \in Worker /\ y.key = w["dep"].key /\ y.in = w["dep"].in
      /\ y.todo = w["dep"].todo /\ y.fresh = w["dep"].fresh
  BY <1>2 DEF Worker
<1> HIDE DEF x, y
<1>7. WorkerOK("dep", x, api) /\ WorkerOK("dep", y, api)
  BY <1>1, <1>2, <1>5, <1>6, GoOnOK
<1>8. StoreInv' BY <1>1, <1>3, <1>7, StepInv DEF Frame, TInv
<1> QED BY <1>1, <1>8, FrameInv DEF TInv, RestType

\* The status of an application or a plane, rewritten.
LEMMA StatusKind ==
    ASSUME NEW k \in {"app", "plane"}, NEW c \in ObjOf(k), NEW v \in SUBSET SDs
    PROVE  [c EXCEPT !.mirrors = v, !.err = FALSE] \in ObjOf(k)
<1>1. CASE k = "app"
  <2>1. c \in AppObj BY <1>1, ObjKind
  <2>2. [c EXCEPT !.mirrors = v] \in AppObj BY <2>1 DEF AppObj
  <2>3. [[c EXCEPT !.mirrors = v] EXCEPT !.err = FALSE] \in AppObj BY <2>2 DEF AppObj
  <2> QED BY <1>1, <2>3, ObjKind
<1>2. CASE k = "plane"
  <2>1. c \in PlaneObj BY <1>2, ObjKind
  <2>2. [c EXCEPT !.mirrors = v] \in PlaneObj BY <2>1 DEF PlaneObj
  <2>3. [[c EXCEPT !.mirrors = v] EXCEPT !.err = FALSE] \in PlaneObj BY <2>2 DEF PlaneObj
  <2> QED BY <1>2, <2>3, ObjKind
<1> QED BY <1>1, <1>2

LEMMA DepStatusInv == ASSUME TInv, DepStatus PROVE TInv'
<1> DEFINE s == w["dep"].key[2]
           r == Owner(w["dep"].pc, s)
           o == [cache[r] EXCEPT !.mirrors = w["dep"].view, !.err = FALSE]
           p == IF w["dep"].pc = "appStatus" THEN "plane" ELSE "finish"
           x == [w["dep"] EXCEPT !.pc = p, !.view = {}]
<1>1. "dep" \in Kinds /\ w["dep"].pc # "idle" /\ Frame /\ queue \subseteq Ref
  BY DEF Kinds, DepStatus, TInv, RestType
<1>2. /\ WorkerOK("dep", w["dep"], api) /\ w["dep"] \in Worker
      /\ w["dep"].key \in Ref /\ w["dep"].key[1] = "dep"
  BY <1>1, BusyOK DEF TInv, StoreInv
<1>3. s \in SDs BY <1>2, RefKind
<1>4. r \in Ref /\ r[1] \in {"app", "plane"} BY <1>3, RefKind DEF Owner, AppRef, PlaneRef
<1>5. /\ x \in Worker /\ x.key = w["dep"].key /\ x.in = w["dep"].in
      /\ x.todo = w["dep"].todo /\ x.fresh = w["dep"].fresh
  BY <1>2 DEF Worker
<1>6. \/ Step("dep", x) /\ UNCHANGED queue
      \/ Fail("dep")
      \/ cache[r] # Nil /\ Write("dep", r, o, x) /\ UNCHANGED queue
  BY DEF DepStatus
<1> HIDE DEF x
<1>7. WorkerOK("dep", x, api) BY <1>1, <1>2, <1>5, GoOnOK
<1>8. CASE Step("dep", x) /\ UNCHANGED queue
  <2>1. StoreInv' BY <1>1, <1>7, <1>8, StepInv DEF Frame, TInv
  <2> QED BY <1>1, <1>8, <2>1, FrameInv
<1>9. CASE Fail("dep")
  <2>1. StoreInv' /\ queue' \subseteq Ref BY <1>1, <1>9, FailInv DEF Frame, TInv
  <2> QED BY <1>1, <2>1, FrameInv
<1>10. CASE cache[r] # Nil /\ Write("dep", r, o, x) /\ UNCHANGED queue
  <2>1. w["dep"].view \in SUBSET SDs BY <1>2 DEF Worker
  <2> HIDE DEF r
  <2>2. cache[r] \in ObjOf(r[1]) BY <1>4, <1>10 DEF TInv, StoreInv, Objects
  <2>3. o \in ObjOf(r[1]) BY <1>4, <2>1, <2>2, StatusKind
  <2> HIDE DEF o
  <2>4. o # Nil BY <1>4, <2>3, RefKind, ObjKind
  <2>5. api \in [Ref -> AnyObj \cup {Nil}] BY DEF TInv, StoreInv, Objects
  <2>6. WorkerOK("dep", x, [api EXCEPT ![r] = o]) BY <1>7, <2>4, <2>5, WroteOK
  <2>7. StoreInv' BY <1>1, <1>4, <1>10, <2>3, <2>6, WriteInv DEF Frame, TInv
  <2> QED BY <1>1, <1>10, <2>7, FrameInv
<1> QED BY <1>6, <1>8, <1>9, <1>10

LEMMA DepFinishInv == ASSUME TInv, DepFinish PROVE TInv'
<1> DEFINE r == w["dep"].key
<1>1. "dep" \in Kinds /\ w["dep"].pc # "idle" /\ Frame /\ queue \subseteq Ref
  BY DEF Kinds, DepFinish, TInv, RestType
<1>2. r \in Ref BY <1>1, BusyOK DEF TInv
<1>3. CASE Update("dep", r, Nil, Idle)
  <2>1. StoreInv' /\ queue' \subseteq Ref
    BY <1>1, <1>2, <1>3, IdleOK, UpdateInv DEF Frame, TInv
  <2> QED BY <1>1, <2>1, FrameInv
<1>4. CASE Step("dep", Idle) /\ UNCHANGED queue
  <2>1. StoreInv' BY <1>1, <1>4, IdleOK, StepInv DEF Frame, TInv
  <2> QED BY <1>1, <1>4, <2>1, FrameInv
<1> QED BY <1>3, <1>4 DEF DepFinish

-----------------------------------------------------------------------------
(* Type correctness. *)

LEMMA WorkInv == ASSUME TInv, NEW k \in Kinds, Work(k) PROVE TInv'
  BY DropEventInv, BeginInv, RejectMarkInv, FinishInv, ListInv, ItemInv, PanicInv,
     SdDefaultsInv, SdInitializeInv, SdDeployInv, SdUndeployInv,
     DepListInv, DepStatusInv, DepFinishInv
  DEF Work

LEMMA NextInv == TInv /\ [Next]_vars => TInv'
<1> SUFFICES ASSUME TInv, [Next]_vars PROVE TInv' OBVIOUS
<1>1. CASE User BY <1>1, UserInv
<1>2. CASE Crash BY <1>2, RestartInv DEF Crash, TInv, RestType
<1>3. CASE Initialized BY <1>3, IdleStepInv DEF Initialized, TInv, RestType
<1>4. CASE Ready BY <1>4, IdleStepInv DEF Ready, TInv, RestType
<1>5. CASE Resync BY <1>5, IdleStepInv DEF Resync, TInv, RestType
<1>6. ASSUME NEW k \in Kinds, Deliver(k) PROVE TInv' BY <1>6, DeliverInv
<1>7. ASSUME NEW k \in Kinds, HandlerFails(k) PROVE TInv' BY <1>7, HandlerFailsInv
<1>8. ASSUME NEW k \in Kinds, Work(k) PROVE TInv' BY <1>8, WorkInv
<1>9. CASE UNCHANGED vars BY <1>9, IdleStepInv DEF vars, TInv, RestType
<1> QED BY <1>1, <1>2, <1>3, <1>4, <1>5, <1>6, <1>7, <1>8, <1>9 DEF Next

LEMMA TInvType == TInv => TypeOK
<1> SUFFICES ASSUME TInv PROVE TypeOK OBVIOUS
<1>1. w \in [Kinds -> Worker] /\ \A k \in Kinds : Busy(k, w[k])
  BY DEF TInv, StoreInv, WorkerOK
<1> QED BY <1>1 DEF TInv, StoreInv, RestType, TypeOK

LEMMA Typed == Spec => []TInv
<1> QED BY InitInv, NextInv, PTL DEF Spec

\* Caches and events hold objects of their kind and a busy worker a key and an object of
\* its controller, in every reachable state (GetInstance, DeepCopyObject and the type
\* switches of the four controllers).
THEOREM TypeCorrect == Spec => []TypeOK
<1> QED BY Typed, TInvType, PTL

-----------------------------------------------------------------------------
(***************************************************************************)
(* Nothing is torn down that nobody asked to delete.  The delete request   *)
(* travels: from the user's annotation to the API server, through a watch  *)
(* event to a cache, from the cache into a worker's hands, from there as   *)
(* an annotation on other objects, and at last as a deletion timestamp on  *)
(* a Deployment.  So the invariant that carries the theorem says of every  *)
(* copy of an object, wherever it is, what ExplicitDeletion says of the    *)
(* API server's.                                                           *)
(***************************************************************************)

\* The deletion of r may come from the users' requests A.
May(A, r) ==
    IF r[1] \in {"app", "plane"}
    THEN r \in A
    ELSE <<"sd", r[2]>> \in A \/ \E z \in A : Selects(z, r[2])

\* o says that r is to be deleted: the annotation, or the deletion timestamp.
Doomed(r, o) == o # Nil /\ IF r[1] = "dep" THEN o.term ELSE IsDeleted(o)

Sound(A, r, o) == Doomed(r, o) => May(A, r)

SoundWorker(A, x) ==
    x.pc # "idle" =>
        /\ Sound(A, x.key, x.in)
        /\ \A t \in x.todo : Selects(x.key, t[1]) /\ Sound(A, <<"sd", t[1]>>, t[2])

\* Every copy of an object asks for its deletion only if a user did.
SInv ==
    /\ \A r \in Ref : Sound(hist.asked, r, api[r]) /\ Sound(hist.asked, r, cache[r])
    /\ \A k \in Kinds : \A i \in 1 .. Len(watch[k]) :
           Sound(hist.asked, watch[k][i].ref, watch[k][i].obj)
    /\ \A k \in Kinds : SoundWorker(hist.asked, w[k])

-----------------------------------------------------------------------------
(* Operators. *)

LEMMA SelectsSd == \A r, s : Selects(r, s) => s \in Labelled /\ r[1] \in {"app", "plane"}
  BY DEF Selects

\* Requests are never withdrawn.
LEMMA Grows ==
    ASSUME NEW A, NEW B, A \subseteq B
    PROVE  /\ \A r, o : Sound(A, r, o) => Sound(B, r, o)
           /\ \A x : SoundWorker(A, x) => SoundWorker(B, x)
<1>1. \A r : May(A, r) => May(B, r) BY DEF May
<1>2. \A r, o : Sound(A, r, o) => Sound(B, r, o) BY <1>1 DEF Sound
<1> QED BY <1>2 DEF SoundWorker

LEMMA IdleSound == \A A : SoundWorker(A, Idle)
  BY DEF SoundWorker, Idle

LEMMA NilSound == \A A, r : Sound(A, r, Nil)
  BY DEF Sound, Doomed

\* The error field has nothing to do with deletion.
LEMMA ErrSound ==
    ASSUME NEW A, NEW r \in Ref, r[1] # "dep", NEW o \in ObjOf(r[1]), Sound(A, r, o)
    PROVE  \A b \in BOOLEAN : Sound(A, r, [o EXCEPT !.err = b])
<1> SUFFICES ASSUME NEW b \in BOOLEAN PROVE Sound(A, r, [o EXCEPT !.err = b]) OBVIOUS
<1>1. [o EXCEPT !.err = b].mark = o.mark
  <2>1. CASE r[1] = "app" BY <2>1, ObjKind DEF AppObj
  <2>2. CASE r[1] = "plane" BY <2>2, ObjKind DEF PlaneObj
  <2>3. CASE r[1] = "sd" BY <2>3, ObjKind DEF SdObj
  <2> QED BY <2>1, <2>2, <2>3, RefKind DEF Kinds
<1>2. o # Nil BY RefKind, ObjKind
<1> QED BY <1>1, <1>2 DEF Sound, Doomed, IsDeleted

-----------------------------------------------------------------------------
(* What Write, Step, Fail and Update keep. *)

LEMMA WriteSound ==
    ASSUME TInv, SInv, NEW k, NEW r \in Ref, NEW o, NEW next,
           Write(k, r, o, next), UNCHANGED cache, hist.asked \subseteq hist'.asked,
           Sound(hist'.asked, r, o), k \in Kinds => SoundWorker(hist'.asked, next)
    PROVE  SInv'
<1> DEFINE A == hist'.asked
           e == [ref |-> r, obj |-> o]
<1>1. r[1] \in Kinds BY RefKind
<1>2. \A z \in Ref : Sound(A, z, api'[z])
  BY Grows DEF SInv, Write, TInv, StoreInv, Objects
<1>3. \A z \in Ref : Sound(A, z, cache'[z]) BY Grows DEF SInv
<1>4. ASSUME NEW c \in Kinds, NEW i \in 1 .. Len(watch'[c])
      PROVE  Sound(A, watch'[c][i].ref, watch'[c][i].obj)
  <2>1. CASE watch'[c] = watch[c]
    <3>1. Sound(hist.asked, watch[c][i].ref, watch[c][i].obj) BY <2>1 DEF SInv
    <3> QED BY <2>1, <3>1, Grows
  <2>2. CASE c = r[1] /\ watch'[c] = Append(watch[c], e)
    <3>1. watch[c] \in Seq(Event) BY DEF TInv, StoreInv
    <3>2. /\ Len(watch'[c]) = Len(watch[c]) + 1 /\ Len(watch[c]) \in Nat
          /\ i \in 1 .. Len(watch[c]) => watch'[c][i] = watch[c][i]
          /\ i = Len(watch[c]) + 1 => watch'[c][i] = e
      BY <2>2, <3>1
    <3>3. CASE i \in 1 .. Len(watch[c])
      <4>1. Sound(hist.asked, watch[c][i].ref, watch[c][i].obj) BY <3>3 DEF SInv
      <4>2. Sound(A, watch[c][i].ref, watch[c][i].obj) BY <4>1, Grows
      <4>3. watch'[c][i] = watch[c][i] BY <3>2, <3>3
      <4> QED BY <4>2, <4>3
    <3>4. CASE i = Len(watch[c]) + 1 BY <3>2, <3>4
    <3> QED BY <3>2, <3>3, <3>4
  <2>3. watch' = watch \/ watch' = [watch EXCEPT ![r[1]] = Append(@, e)] BY DEF Write
  <2> QED BY <1>1, <2>1, <2>2, <2>3 DEF TInv, StoreInv
<1>5. ASSUME NEW c \in Kinds PROVE SoundWorker(A, w'[c])
  <2>1. CASE c = k BY <1>5, <2>1 DEF Write
  <2>2. CASE c # k
    <3>1. SoundWorker(A, w[c]) BY Grows DEF SInv
    <3>2. w[c] \in Worker BY DEF TInv, StoreInv, WorkerOK
    <3>3. w'[c] = w[c] \/ w'[c] = [w[c] EXCEPT !.fresh = @ \ {r}] BY <2>2 DEF Write
    <3>4. w'[c].pc = w[c].pc /\ w'[c].key = w[c].key /\ w'[c].in = w[c].in /\ w'[c].todo = w[c].todo
      BY <3>2, <3>3 DEF Worker
    <3> QED BY <3>1, <3>4 DEF SoundWorker
  <2> QED BY <2>1, <2>2
<1> QED BY <1>2, <1>3, <1>4, <1>5 DEF SInv

LEMMA StepSound ==
    ASSUME TInv, SInv, NEW k \in Kinds, NEW next, Step(k, next), UNCHANGED cache,
           hist'.asked = hist.asked, SoundWorker(hist.asked, next)
    PROVE  SInv'
<1>1. UNCHANGED <<api, watch, cache>> /\ w' = [w EXCEPT ![k] = next] BY DEF Step
<1>2. w' = [c \in Kinds |-> IF c = k THEN next ELSE w[c]] BY <1>1 DEF TInv, StoreInv
<1>3. \A c \in Kinds : SoundWorker(hist.asked, w'[c]) BY <1>2 DEF SInv
<1> QED BY <1>1, <1>3 DEF SInv

LEMMA FailSound ==
    ASSUME TInv, SInv, NEW k \in Kinds, w[k].pc # "idle", Fail(k) \/ GiveUp(k),
           UNCHANGED cache, hist'.asked = hist.asked
    PROVE  SInv'
<1> DEFINE r == w[k].key
           o == [api[r] EXCEPT !.err = TRUE]
<1>1. r \in Ref /\ r[1] = k BY BusyOK DEF TInv
<1>2. CASE Step(k, Idle) BY <1>2, IdleSound, StepSound
<1>3. CASE k # "dep" /\ Current(k, r) /\ Write(k, r, o, Idle)
  <2>1. api[r] \in ObjOf(r[1]) BY <1>1, <1>3, BusyOK DEF Current, TInv
  <2>2. Sound(hist.asked, r, api[r]) BY <1>1 DEF SInv
  <2>3. Sound(hist.asked, r, o) BY <1>1, <1>3, <2>1, <2>2, ErrSound
  <2> HIDE DEF o
  <2> QED BY <1>1, <1>3, <2>3, IdleSound, WriteSound
<1> QED BY <1>2, <1>3 DEF Fail, GiveUp, Report

LEMMA UpdateSound ==
    ASSUME TInv, SInv, NEW k \in Kinds, w[k].pc # "idle", UNCHANGED <<cache, hist>>,
           NEW r \in Ref, NEW o, NEW next, Update(k, r, o, next),
           Current(k, r) => Sound(hist.asked, r, o), SoundWorker(hist.asked, next)
    PROVE  SInv'
<1>1. CASE Current(k, r) /\ Write(k, r, o, next) BY <1>1, WriteSound
<1>2. CASE Fail(k) BY <1>2, FailSound
<1>3. CASE Step(k, next) BY <1>3, StepSound
<1> QED BY <1>1, <1>2, <1>3 DEF Update, Put, LeftAlone

-----------------------------------------------------------------------------
(* The initial states, the users, the informers and the process. *)

LEMMA InitSound == Init => SInv
<1> SUFFICES ASSUME Init PROVE SInv OBVIOUS
<1>1. ASSUME NEW r \in Ref PROVE ~Doomed(r, api[r])
  <2>1. CASE r \notin Existing BY <2>1 DEF Init, Doomed
  <2> DEFINE m == {s \in SDs : <<"dep", s>> \in Existing /\ Selects(r, s)}
  <2>2. CASE r \in Existing /\ r[1] \in {"app", "plane"}
    <3>1. api[r] = [NewObj(r[1]) EXCEPT !.mirrors = m] BY <2>2 DEF Init, SettledObj
    <3> HIDE DEF m
    <3>2. api[r].mark = NewObj(r[1]).mark
      <4>1. CASE r[1] = "app" BY <3>1, <4>1 DEF NewObj
      <4>2. CASE r[1] = "plane" BY <3>1, <4>2 DEF NewObj
      <4> QED BY <2>2, <4>1, <4>2
    <3>3. NewObj(r[1]).mark = "none" BY <2>2 DEF NewObj
    <3> QED BY <2>2, <3>2, <3>3 DEF Doomed, IsDeleted
  <2>3. CASE r \in Existing /\ r[1] = "sd"
    <3>1. api[r] = [NewObj("sd") EXCEPT !.init = TRUE] BY <2>3 DEF Init, SettledObj
    <3>2. api[r].mark = "none" BY <3>1 DEF NewObj
    <3> QED BY <2>3, <3>2 DEF Doomed, IsDeleted
  <2>4. CASE r \in Existing /\ r[1] = "dep"
    <3>1. api[r] = NewDeployment(NewObj("sd")) BY <2>4 DEF Init, SettledObj
    <3>2. api[r].term = FALSE BY <3>1 DEF NewDeployment
    <3> QED BY <2>4, <3>2 DEF Doomed
  <2> QED BY <2>1, <2>2, <2>3, <2>4, RefKind DEF Kinds
<1>2. \A k \in Kinds : watch[k] = <<>> /\ w[k] = Idle BY DEF Init
<1>3. cache = api BY DEF Init
<1> QED BY <1>1, <1>2, <1>3, IdleSound DEF SInv, Sound

LEMMA UserSound == ASSUME TInv, SInv, User PROVE SInv'
<1>1. PICK r \in Ref : \/ UserCreate(r) \/ UserMark(r) \/ UserMismark(r)
                       \/ UserDelete(r) \/ UserToggleIstio(r)
  BY DEF User
<1>2. "user" \notin Kinds BY DEF Kinds
<1>3. ASSUME NEW act, NEW o, UserWrite(act, r, o), hist.asked \subseteq hist'.asked,
             Sound(hist'.asked, r, o)
      PROVE  SInv'
  BY <1>2, <1>3, WriteSound DEF UserWrite
<1>4. /\ Sound(hist.asked, r, api[r]) /\ r[1] \in Kinds
      /\ api[r] # Nil => api[r] \in ObjOf(r[1])
      /\ hist \in [born : SUBSET Ref, asked : SUBSET Ref, lost : SUBSET Ref]
  BY RefKind DEF SInv, TInv, StoreInv, Objects, RestType
<1>5. CASE UserCreate(r)
  <2>1. NewObj(r[1]).mark = "none" /\ r[1] # "dep" BY <1>5 DEF UserCreate, NewObj
  <2>2. hist'.asked = hist.asked BY <1>4, <1>5 DEF UserCreate
  <2>3. Sound(hist'.asked, r, NewObj(r[1])) BY <2>1 DEF Sound, Doomed, IsDeleted
  <2> QED BY <1>3, <1>5, <2>2, <2>3 DEF UserCreate
<1>6. CASE UserMark(r)
  <2>1. hist'.asked = hist.asked \cup {r} BY <1>4, <1>6 DEF UserMark
  <2>2. May(hist'.asked, r) BY <1>6, <2>1, RefKind DEF May, UserMark, Kinds
  <2>3. \A o : Sound(hist'.asked, r, o) BY <2>2 DEF Sound
  <2> QED BY <1>3, <1>6, <2>1, <2>3 DEF UserMark
<1>7. CASE UserMismark(r)
  <2> DEFINE o == [api[r] EXCEPT !.mark = "wrong"]
  <2>1. r[1] # "dep" /\ api[r] \in ObjOf(r[1]) BY <1>4, <1>7 DEF UserMismark
  <2>2. o.mark = "wrong"
    <3>1. CASE r[1] = "app" BY <2>1, <3>1, ObjKind DEF AppObj
    <3>2. CASE r[1] = "plane" BY <2>1, <3>2, ObjKind DEF PlaneObj
    <3>3. CASE r[1] = "sd" BY <2>1, <3>3, ObjKind DEF SdObj
    <3> QED BY <1>4, <2>1, <3>1, <3>2, <3>3 DEF Kinds
  <2>3. Sound(hist'.asked, r, o) BY <2>1, <2>2 DEF Sound, Doomed, IsDeleted
  <2> QED BY <1>3, <1>7, <2>3 DEF UserMismark
<1>8. CASE UserDelete(r) BY <1>3, <1>8, NilSound DEF UserDelete
<1>9. CASE UserToggleIstio(r)
  <2> DEFINE o == [api[r] EXCEPT !.istio = ~@]
  <2>1. r[1] = "app" /\ api[r] # Nil /\ api[r] \in AppObj
    BY <1>4, <1>9, ObjKind DEF UserToggleIstio
  <2>2. o.mark = api[r].mark BY <2>1 DEF AppObj
  <2>3. Sound(hist'.asked, r, o)
    BY <1>4, <1>9, <2>1, <2>2 DEF UserToggleIstio, Sound, Doomed, IsDeleted
  <2> QED BY <1>3, <1>9, <2>3 DEF UserToggleIstio
<1> QED BY <1>1, <1>5, <1>6, <1>7, <1>8, <1>9

LEMMA DeliverSound == ASSUME TInv, SInv, NEW k \in Kinds, Deliver(k) PROVE SInv'
<1> DEFINE q == watch[k]
           e == Head(q)
<1>1. q \in Seq(Event) /\ q # <<>> BY DEF TInv, StoreInv, Deliver
<1>2. /\ Len(q) \in Nat /\ Len(q) > 0 /\ Len(Tail(q)) = Len(q) - 1 /\ e = q[1]
      /\ \A i \in 1 .. Len(Tail(q)) : Tail(q)[i] = q[i + 1]
  BY <1>1
<1>3. /\ UNCHANGED <<api, w, hist>> /\ cache' = [cache EXCEPT ![e.ref] = e.obj]
      /\ watch' = [watch EXCEPT ![k] = Tail(q)]
  BY DEF Deliver
<1>4. \A i \in 1 .. Len(q) : Sound(hist.asked, q[i].ref, q[i].obj) BY DEF SInv
<1>5. Sound(hist.asked, e.ref, e.obj) BY <1>2, <1>4
<1>6. \A r \in Ref : Sound(hist.asked, r, cache'[r])
  BY <1>3, <1>5 DEF SInv, TInv, StoreInv, Objects
<1>7. ASSUME NEW c \in Kinds, NEW i \in 1 .. Len(watch'[c])
      PROVE  Sound(hist.asked, watch'[c][i].ref, watch'[c][i].obj)
  <2>1. CASE c = k
    <3>1. watch'[c] = Tail(q) BY <1>3, <2>1 DEF TInv, StoreInv
    <3>2. i + 1 \in 1 .. Len(q) /\ watch'[c][i] = q[i + 1] BY <1>2, <3>1
    <3> QED BY <1>4, <3>2
  <2>2. CASE c # k
    <3>1. watch'[c] = watch[c] BY <1>3, <2>2 DEF TInv, StoreInv
    <3> QED BY <3>1 DEF SInv
  <2> QED BY <2>1, <2>2
<1> QED BY <1>3, <1>6, <1>7 DEF SInv

LEMMA RestartSound == ASSUME SInv, Restart PROVE SInv'
  BY IdleSound DEF Restart, SInv

-----------------------------------------------------------------------------
(* The workers. *)

\* A worker that keeps its key, the mark of what it read, and some of its list.
LEMMA GoOnSound ==
    ASSUME NEW A, NEW x, SoundWorker(A, x), x.pc # "idle", NEW next,
           next.key = x.key, next.in = x.in, next.todo \subseteq x.todo
    PROVE  SoundWorker(A, next)
  BY DEF SoundWorker

LEMMA DropEventSound == ASSUME TInv, SInv, NEW k \in Kinds, DropEvent(k) PROVE SInv'
<1>1. Step(k, w[k]) /\ UNCHANGED cache /\ hist'.asked = hist.asked
  BY DEF DropEvent, TInv, RestType
<1> QED BY <1>1, StepSound DEF SInv

LEMMA BeginSound == ASSUME TInv, SInv, NEW k \in Kinds, Begin(k) PROVE SInv'
<1>1. PICK r \in queue :
        IF cache[r] = Nil
        THEN Step(k, Idle)
        ELSE Step(k, [Idle EXCEPT !.pc = "operate", !.key = r, !.in = cache[r],
                                  !.fresh = Fresh({r})])
  BY DEF Begin
<1>2. UNCHANGED cache /\ hist'.asked = hist.asked /\ r \in Ref BY DEF Begin, TInv, RestType
<1>3. CASE Step(k, Idle) BY <1>2, <1>3, IdleSound, StepSound
<1> DEFINE x == [Idle EXCEPT !.pc = "operate", !.key = r, !.in = cache[r], !.fresh = Fresh({r})]
<1>4. CASE Step(k, x)
  <2>1. x.key = r /\ x.in = cache[r] /\ x.todo = {} BY DEF Idle
  <2>2. SoundWorker(hist.asked, x) BY <1>2, <2>1 DEF SoundWorker, SInv
  <2> HIDE DEF x
  <2> QED BY <1>2, <1>4, <2>2, StepSound
<1> QED BY <1>1, <1>3, <1>4

LEMMA FinishSound == ASSUME TInv, SInv, NEW k \in Kinds, Finish(k) PROVE SInv'
<1> DEFINE r == w[k].key
           o == [api[r] EXCEPT !.err = FALSE]
<1>1. w[k].pc # "idle" /\ k # "dep" /\ UNCHANGED <<cache, hist>> BY DEF Finish, Frame
<1>2. r \in Ref /\ r[1] = k BY <1>1, BusyOK DEF TInv
<1>3. CASE Write(k, r, Nil, Idle) BY <1>1, <1>2, <1>3, NilSound, IdleSound, WriteSound
<1>4. CASE Put(k, r, o, Idle)
  <2>1. Current(k, r) => Sound(hist.asked, r, o)
    <3> SUFFICES ASSUME Current(k, r) PROVE Sound(hist.asked, r, o) OBVIOUS
    <3>1. api[r] \in ObjOf(r[1]) BY <1>1, BusyOK DEF Current, TInv
    <3>2. Sound(hist.asked, r, api[r]) BY <1>2 DEF SInv
    <3> QED BY <1>1, <1>2, <3>1, <3>2, ErrSound
  <2> HIDE DEF o
  <2> QED BY <1>1, <1>2, <1>4, <2>1, IdleSound, UpdateSound DEF Update
<1>5. CASE Step(k, Idle) BY <1>1, <1>5, IdleSound, StepSound
<1> QED BY <1>3, <1>4, <1>5 DEF Finish, LeftAlone

LEMMA ListSound == ASSUME TInv, SInv, NEW k \in Kinds, List(k) PROVE SInv'
<1> DEFINE T == {<<s, cache[<<"sd", s>>]>> : s \in Affected(k)}
           F == Fresh({<<"sd", s>> : s \in Affected(k)})
           x == [w[k] EXCEPT !.pc = "items", !.todo = T, !.fresh = @ \cup F]
<1>1. w[k].pc # "idle" /\ w[k] \in Worker /\ SoundWorker(hist.asked, w[k])
  BY DEF List, TInv, StoreInv, WorkerOK, SInv
<1>2. x.key = w[k].key /\ x.in = w[k].in /\ x.todo = T BY <1>1 DEF Worker
<1>3. ASSUME NEW t \in T PROVE Selects(w[k].key, t[1]) /\ Sound(hist.asked, <<"sd", t[1]>>, t[2])
  <2>1. PICK s \in Affected(k) : t = <<s, cache[<<"sd", s>>]>> OBVIOUS
  <2>2. Selects(w[k].key, s) /\ s \in SDs BY DEF Affected, Found
  <2>3. Sound(hist.asked, <<"sd", s>>, cache[<<"sd", s>>]) BY <2>2, RefKind DEF SInv
  <2> QED BY <2>1, <2>2, <2>3
<1>4. Step(k, x) /\ UNCHANGED <<cache, hist>> BY DEF List, Frame
<1> HIDE DEF x, T
<1>5. SoundWorker(hist.asked, x) BY <1>1, <1>2, <1>3 DEF SoundWorker
<1> QED BY <1>4, <1>5, StepSound

\* What the cascade writes is asked for: its worker holds the application or the plane.
LEMMA RewrittenSound ==
    ASSUME TInv, SInv, NEW k \in {"app", "plane"}, w[k].pc # "idle", NEW t \in w[k].todo
    PROVE  Sound(hist.asked, <<"sd", t[1]>>, Rewritten(k, t[2]))
<1> DEFINE r == <<"sd", t[1]>>
<1>1. k \in Kinds BY DEF Kinds
<1>2. /\ w[k] \in Worker /\ w[k].key \in Ref /\ w[k].key[1] = k /\ w[k].in \in ObjOf(k)
      /\ SoundWorker(hist.asked, w[k])
  BY <1>1, BusyOK DEF TInv, SInv
<1>3. /\ Selects(w[k].key, t[1]) /\ Sound(hist.asked, r, t[2])
      /\ Sound(hist.asked, w[k].key, w[k].in)
  BY <1>2 DEF SoundWorker
<1>4. t[2] \in SdObj BY <1>2 DEF Worker
<1>5. CASE IsDeleted(w[k].in)
  <2>1. Doomed(w[k].key, w[k].in)
    <3>1. w[k].in # Nil BY <1>1, <1>2, ObjKind
    <3> QED BY <1>2, <1>5, <3>1 DEF Doomed
  <2>2. w[k].key \in hist.asked BY <1>2, <1>3, <2>1 DEF Sound, May
  <2>3. May(hist.asked, r) BY <1>3, <2>2 DEF May
  <2> QED BY <2>3 DEF Sound
<1>6. CASE ~IsDeleted(w[k].in)
  <2> DEFINE o == [t[2] EXCEPT !.istio = w[k].in.istio]
  <2>1. o.mark = t[2].mark BY <1>4 DEF SdObj
  <2>2. t[2] # Nil BY <1>4, NilAssumption DEF AnyObj
  <2>3. Rewritten(k, t[2]) = o BY <1>6 DEF Rewritten
  <2>4. Doomed(r, o) => Doomed(r, t[2]) BY <2>1, <2>2 DEF Doomed, IsDeleted
  <2> QED BY <1>3, <2>3, <2>4 DEF Sound
<1> QED BY <1>5, <1>6

LEMMA ItemSound == ASSUME TInv, SInv, NEW k \in Kinds, Item(k) PROVE SInv'
<1>1. k \in {"app", "plane"} /\ w[k].pc # "idle" /\ UNCHANGED <<cache, hist>>
  BY DEF Item, Frame
<1>2. PICK t \in w[k].todo :
        Update(k, <<"sd", t[1]>>, Rewritten(k, t[2]),
               [w[k] EXCEPT !.todo = @ \ {t}, !.fresh = @ \ {<<"sd", t[1]>>}])
  BY DEF Item
<1> DEFINE r == <<"sd", t[1]>>
           o == Rewritten(k, t[2])
           x == [w[k] EXCEPT !.todo = @ \ {t}, !.fresh = @ \ {r}]
<1>3. r \in Ref BY <1>1, RewrittenKind, RefKind
<1>4. Sound(hist.asked, r, o) BY <1>1, RewrittenSound
<1>5. w[k] \in Worker /\ SoundWorker(hist.asked, w[k]) BY DEF TInv, StoreInv, WorkerOK, SInv
<1>6. x.key = w[k].key /\ x.in = w[k].in /\ x.todo \subseteq w[k].todo BY <1>5 DEF Worker
<1>7. Update(k, r, o, x) BY <1>2
<1> HIDE DEF x, o
<1>8. SoundWorker(hist.asked, x) BY <1>1, <1>5, <1>6, GoOnSound
<1> QED BY <1>1, <1>3, <1>4, <1>7, <1>8, UpdateSound

LEMMA SdDefaultsSound == ASSUME TInv, SInv, SdDefaults PROVE SInv'
<1> DEFINE i == [w["sd"].in EXCEPT !.init = TRUE, !.istio = cache[AppRef(w["sd"].key[2])].istio]
           x == [w["sd"] EXCEPT !.pc = "init", !.in = i]
<1>1. "sd" \in Kinds /\ w["sd"].pc # "idle" /\ UNCHANGED <<cache, hist>>
  BY DEF Kinds, SdDefaults, Frame
<1>2. /\ w["sd"] \in Worker /\ w["sd"].in \in SdObj /\ SoundWorker(hist.asked, w["sd"])
      /\ w["sd"].key[1] = "sd"
  BY <1>1, BusyOK, ObjKind DEF TInv, SInv
<1>3. CASE Fail("sd") BY <1>1, <1>3, FailSound
<1>4. CASE Step("sd", x)
  <2>1. i.mark = w["sd"].in.mark BY <1>2 DEF SdObj
  <2> HIDE DEF i
  <2>2. x.key = w["sd"].key /\ x.in = i /\ x.todo = w["sd"].todo BY <1>2 DEF Worker
  <2> HIDE DEF x
  <2>3. w["sd"].in # Nil BY <1>2, NilAssumption DEF AnyObj
  <2>4. Sound(hist.asked, x.key, x.in)
    BY <1>1, <1>2, <2>1, <2>2, <2>3 DEF SoundWorker, Sound, Doomed, IsDeleted
  <2>5. SoundWorker(hist.asked, x) BY <1>1, <1>2, <2>2, <2>4 DEF SoundWorker
  <2> QED BY <1>1, <1>4, <2>5, StepSound
<1> QED BY <1>3, <1>4 DEF SdDefaults

LEMMA SdInitializeSound == ASSUME TInv, SInv, SdInitialize PROVE SInv'
<1> DEFINE r == w["sd"].key
           o == w["sd"].in
           x == [w["sd"] EXCEPT !.pc = "operate"]
<1>1. "sd" \in Kinds /\ w["sd"].pc # "idle" /\ UNCHANGED <<cache, hist>>
  BY DEF Kinds, SdInitialize, Frame
<1>2. w["sd"] \in Worker /\ r \in Ref /\ SoundWorker(hist.asked, w["sd"])
  BY <1>1, BusyOK DEF TInv, SInv
<1>3. x.key = w["sd"].key /\ x.in = w["sd"].in /\ x.todo = w["sd"].todo BY <1>2 DEF Worker
<1>4. Update("sd", r, o, x) BY DEF SdInitialize
<1>5. Sound(hist.asked, r, o) BY <1>1, <1>2 DEF SoundWorker
<1> HIDE DEF x, r, o
<1>6. SoundWorker(hist.asked, x) BY <1>1, <1>2, <1>3, GoOnSound
<1> QED BY <1>1, <1>2, <1>4, <1>5, <1>6, UpdateSound

\* The worker of SQBDeployments goes on after writing the Deployment.
LEMMA SdWriteSound ==
    ASSUME TInv, SInv, w["sd"].pc # "idle", UNCHANGED <<cache, hist>>, NEW r \in Ref, NEW o,
           Sound(hist.asked, r, o), Write("sd", r, o, [w["sd"] EXCEPT !.pc = "finish"])
    PROVE  SInv'
<1> DEFINE x == [w["sd"] EXCEPT !.pc = "finish"]
<1>1. "sd" \in Kinds BY DEF Kinds
<1>2. w["sd"] \in Worker /\ SoundWorker(hist.asked, w["sd"])
  BY <1>1 DEF TInv, StoreInv, WorkerOK, SInv
<1>3. x.key = w["sd"].key /\ x.in = w["sd"].in /\ x.todo = w["sd"].todo BY <1>2 DEF Worker
<1>4. Write("sd", r, o, x) OBVIOUS
<1> HIDE DEF x
<1>5. SoundWorker(hist.asked, x) BY <1>2, <1>3, GoOnSound
<1> QED BY <1>4, <1>5, WriteSound

LEMMA SdDeploySound == ASSUME TInv, SInv, SdDeploy PROVE SInv'
<1> DEFINE r == <<"dep", w["sd"].key[2]>>
           x == [w["sd"] EXCEPT !.pc = "finish"]
           o == [cache[r] EXCEPT !.istio = w["sd"].in.istio, !.fin = TRUE]
<1>1. "sd" \in Kinds /\ w["sd"].pc # "idle" /\ UNCHANGED <<cache, hist>>
  BY DEF Kinds, SdDeploy, Frame
<1>2. r \in Ref /\ r[1] = "dep"
  <2>1. w["sd"].key \in Ref /\ w["sd"].key[1] = "sd" BY <1>1, BusyOK DEF TInv
  <2> QED BY <2>1, RefKind
<1>3. CASE Fail("sd") BY <1>1, <1>3, FailSound
<1>4. CASE Write("sd", r, NewDeployment(w["sd"].in), x)
  <2>1. Sound(hist.asked, r, NewDeployment(w["sd"].in))
    BY <1>2 DEF Sound, Doomed, NewDeployment
  <2> QED BY <1>1, <1>2, <1>4, <2>1, SdWriteSound
<1>5. CASE cache[r] # Nil /\ Write("sd", r, o, x)
  <2>1. cache[r] \in DepObj BY <1>2, <1>5, ObjKind DEF TInv, StoreInv, Objects
  <2>2. o.term = cache[r].term BY <2>1 DEF DepObj
  <2>3. Sound(hist.asked, r, cache[r]) BY <1>2 DEF SInv
  <2> HIDE DEF o
  <2>4. Sound(hist.asked, r, o) BY <1>2, <1>5, <2>2, <2>3 DEF Sound, Doomed
  <2> QED BY <1>1, <1>2, <1>5, <2>4, SdWriteSound
<1>6. CASE LeftAlone("sd", r, x)
  <2>1. w["sd"] \in Worker /\ SoundWorker(hist.asked, w["sd"])
    BY <1>1 DEF TInv, StoreInv, WorkerOK, SInv
  <2>2. x.key = w["sd"].key /\ x.in = w["sd"].in /\ x.todo = w["sd"].todo BY <2>1 DEF Worker
  <2>3. Step("sd", x) BY <1>6 DEF LeftAlone
  <2> HIDE DEF x
  <2>4. SoundWorker(hist.asked, x) BY <1>1, <2>1, <2>2, GoOnSound
  <2> QED BY <1>1, <2>3, <2>4, StepSound
<1> QED BY <1>3, <1>4, <1>5, <1>6 DEF SdDeploy

\* The Deployment is deleted because its SQBDeployment is marked.
LEMMA SdUndeploySound == ASSUME TInv, SInv, SdUndeploy PROVE SInv'
<1> DEFINE k == w["sd"].key
           r == <<"dep", k[2]>>
<1>1. "sd" \in Kinds /\ w["sd"].pc # "idle" /\ UNCHANGED <<cache, hist>> /\ IsDeleted(w["sd"].in)
  BY DEF Kinds, SdUndeploy, Frame
<1>2. k \in Ref /\ k[1] = "sd" /\ w["sd"].in \in ObjOf("sd") BY <1>1, BusyOK DEF TInv
<1>3. r \in Ref /\ r[1] = "dep" /\ r[2] = k[2] BY <1>2, RefKind
<1>4. May(hist.asked, k)
  <2>1. Sound(hist.asked, k, w["sd"].in) BY <1>1 DEF SInv, SoundWorker
  <2>2. w["sd"].in # Nil BY <1>1, <1>2, ObjKind
  <2> QED BY <1>1, <1>2, <2>1, <2>2 DEF Sound, Doomed
<1>5. May(hist.asked, r) BY <1>2, <1>3, <1>4 DEF May
<1>6. \A o : Sound(hist.asked, r, o) BY <1>5 DEF Sound
<1>7. Write("sd", r, AfterDelete("dep", api[r]), [w["sd"] EXCEPT !.pc = "finish"])
  BY DEF SdUndeploy
<1> QED BY <1>1, <1>3, <1>6, <1>7, SdWriteSound

LEMMA DepListSound == ASSUME TInv, SInv, DepList PROVE SInv'
<1> DEFINE v == Mirrors(Owner(w["dep"].pc, w["dep"].key[2]))
           p == IF w["dep"].pc = "operate" THEN "appStatus" ELSE "planeStatus"
           x == [w["dep"] EXCEPT !.pc = p, !.view = v]
           y == [w["dep"] EXCEPT !.pc = "finish"]
<1>1. "dep" \in Kinds /\ w["dep"].pc # "idle" /\ UNCHANGED <<cache, hist>>
  BY DEF Kinds, DepList, Frame
<1>2. w["dep"] \in Worker /\ SoundWorker(hist.asked, w["dep"])
  BY <1>1 DEF TInv, StoreInv, WorkerOK, SInv
<1>3. Step("dep", x) \/ Step("dep", y) BY DEF DepList
<1> HIDE DEF v
<1>4. /\ x.key = w["dep"].key /\ x.in = w["dep"].in /\ x.todo = w["dep"].todo
      /\ y.key = w["dep"].key /\ y.in = w["dep"].in /\ y.todo = w["dep"].todo
  BY <1>2 DEF Worker
<1> HIDE DEF x, y
<1>5. SoundWorker(hist.asked, x) /\ SoundWorker(hist.asked, y) BY <1>1, <1>2, <1>4, GoOnSound
<1> QED BY <1>1, <1>3, <1>5, StepSound

LEMMA DepStatusSound == ASSUME TInv, SInv, DepStatus PROVE SInv'
<1> DEFINE s == w["dep"].key[2]
           r == Owner(w["dep"].pc, s)
           o == [cache[r] EXCEPT !.mirrors = w["dep"].view, !.err = FALSE]
           p == IF w["dep"].pc = "appStatus" THEN "plane" ELSE "finish"
           x == [w["dep"] EXCEPT !.pc = p, !.view = {}]
<1>1. "dep" \in Kinds /\ w["dep"].pc # "idle" /\ UNCHANGED <<cache, hist>>
  BY DEF Kinds, DepStatus, Frame
<1>2. /\ w["dep"] \in Worker /\ SoundWorker(hist.asked, w["dep"])
      /\ w["dep"].key \in Ref /\ w["dep"].key[1] = "dep"
  BY <1>1, BusyOK DEF TInv, SInv
<1>3. r \in Ref /\ r[1] \in {"app", "plane"}
  BY <1>2, RefKind DEF Owner, AppRef, PlaneRef
<1>4. x.key = w["dep"].key /\ x.in = w["dep"].in /\ x.todo = w["dep"].todo BY <1>2 DEF Worker
<1>5. Step("dep", x) \/ Fail("dep") \/ (cache[r] # Nil /\ Write("dep", r, o, x))
  BY DEF DepStatus
<1> HIDE DEF x
<1>6. SoundWorker(hist.asked, x) BY <1>1, <1>2, <1>4, GoOnSound
<1>7. CASE Step("dep", x) BY <1>1, <1>6, <1>7, StepSound
<1>8. CASE Fail("dep") BY <1>1, <1>8, FailSound
<1>9. CASE cache[r] # Nil /\ Write("dep", r, o, x)
  <2>1. cache[r] \in ObjOf(r[1]) /\ Sound(hist.asked, r, cache[r])
    BY <1>3, <1>9 DEF TInv, StoreInv, Objects, SInv
  <2> HIDE DEF r
  <2>2. o.mark = cache[r].mark
    <3>1. CASE r[1] = "app"
      <4>1. cache[r] \in AppObj BY <2>1, <3>1, ObjKind
      <4> QED BY <4>1 DEF AppObj
    <3>2. CASE r[1] = "plane"
      <4>1. cache[r] \in PlaneObj BY <2>1, <3>2, ObjKind
      <4> QED BY <4>1 DEF PlaneObj
    <3> QED BY <1>3, <3>1, <3>2
  <2> HIDE DEF o
  <2>3. Sound(hist.asked, r, o) BY <1>3, <1>9, <2>1, <2>2 DEF Sound, Doomed, IsDeleted
  <2> QED BY <1>1, <1>3, <1>6, <1>9, <2>3, WriteSound
<1> QED BY <1>5, <1>7, <1>8, <1>9

LEMMA DepFinishSound == ASSUME TInv, SInv, DepFinish PROVE SInv'
<1>1. "dep" \in Kinds /\ w["dep"].pc # "idle" /\ UNCHANGED <<cache, hist>>
  BY DEF Kinds, DepFinish, Frame
<1>2. w["dep"].key \in Ref BY <1>1, BusyOK DEF TInv
<1>3. CASE Update("dep", w["dep"].key, Nil, Idle)
  BY <1>1, <1>2, <1>3, NilSound, IdleSound, UpdateSound
<1>4. CASE Step("dep", Idle) BY <1>1, <1>4, IdleSound, StepSound
<1> QED BY <1>3, <1>4 DEF DepFinish

-----------------------------------------------------------------------------
(* The theorems. *)

LEMMA WorkSound == ASSUME TInv, SInv, NEW k \in Kinds, Work(k) PROVE SInv'
<1>1. CASE RejectMark(k) BY <1>1, FailSound DEF RejectMark, Frame
<1>2. CASE Panic(k) BY <1>2, RestartSound DEF Panic
<1> QED BY <1>1, <1>2, DropEventSound, BeginSound, FinishSound, ListSound, ItemSound,
           SdDefaultsSound, SdInitializeSound, SdDeploySound, SdUndeploySound,
           DepListSound, DepStatusSound, DepFinishSound
        DEF Work

LEMMA NextSound == TInv /\ SInv /\ [Next]_vars => SInv'
<1> SUFFICES ASSUME TInv, SInv, [Next]_vars PROVE SInv' OBVIOUS
<1>1. CASE User BY <1>1, UserSound
<1>2. CASE Crash BY <1>2, RestartSound DEF Crash
<1>3. CASE UNCHANGED <<api, watch, cache, w, hist>> BY <1>3 DEF SInv
<1>4. CASE Initialized \/ Ready \/ Resync \/ UNCHANGED vars
  BY <1>3, <1>4 DEF Initialized, Ready, Resync, vars
<1>5. ASSUME NEW k \in Kinds, Deliver(k) PROVE SInv' BY <1>5, DeliverSound
<1>6. ASSUME NEW k \in Kinds, HandlerFails(k) PROVE SInv'
  <2>1. hist'.asked = hist.asked BY <1>6 DEF HandlerFails, TInv, RestType
  <2> QED BY <1>6, <2>1, FailSound DEF HandlerFails
<1>7. ASSUME NEW k \in Kinds, Work(k) PROVE SInv' BY <1>7, WorkSound
<1> QED BY <1>1, <1>2, <1>4, <1>5, <1>6, <1>7 DEF Next

LEMMA Sounds == Spec => []SInv
<1> QED BY Typed, InitSound, NextSound, PTL DEF Spec

LEMMA SoundDeletion == SInv => ExplicitDeletion
<1> SUFFICES ASSUME SInv, NEW s \in SDs,
                    \/ api[<<"sd", s>>] # Nil /\ IsDeleted(api[<<"sd", s>>])
                    \/ api[<<"dep", s>>] # Nil /\ api[<<"dep", s>>].term
             PROVE  Asked(s)
  BY DEF ExplicitDeletion
<1>1. PICK k \in {"sd", "dep"} : Doomed(<<k, s>>, api[<<k, s>>]) BY DEF Doomed
<1>2. <<k, s>> \in Ref BY RefKind
<1>3. May(hist.asked, <<k, s>>) BY <1>1, <1>2 DEF SInv, Sound
<1> QED BY <1>1, <1>3 DEF May, Asked

\* An SQBDeployment carries the delete annotation, and a Deployment is being deleted,
\* only if a user put the right checksum on the SQBDeployment, its application or its
\* plane: whatever the informers lag behind, the workers interleave, fail or crash.
THEOREM DeletionIsExplicit == Spec => []ExplicitDeletion
<1> QED BY Sounds, SoundDeletion, PTL

\* A worker's write removes a custom resource only in the last step of Operate.
LEMMA RemovesAsked ==
    ASSUME TInv, SInv, [Next]_vars, budget'.ops = budget.ops,
           NEW r \in Ref, r[1] # "dep", api[r] # Nil, api'[r] = Nil
    PROVE  r \in hist.asked \/ (r[1] = "sd" /\ Asked(r[2]))
<1> DEFINE Goal == r \in hist.asked \/ (r[1] = "sd" /\ Asked(r[2]))
<1>1. api # api' OBVIOUS
<1>2. budget.ops \in Nat /\ budget \in [ops : Nat, faults : Nat, crashes : Nat]
  BY DEF TInv, RestType
<1>3. ~User
  <2> SUFFICES ASSUME User PROVE FALSE OBVIOUS
  <2>1. budget' = [budget EXCEPT !.ops = @ + 1]
    BY DEF User, UserCreate, UserMark, UserMismark, UserDelete, UserToggleIstio, UserWrite
  <2>2. budget'.ops = budget.ops + 1 BY <1>2, <2>1
  <2> QED BY <1>2, <2>2
<1>4. \A k, z, o, next : Write(k, z, o, next) => z = r /\ o = Nil
  <2> TAKE k, z, o, next
  <2>1. Write(k, z, o, next) => api' = [api EXCEPT ![z] = o] BY DEF Write
  <2> QED BY <2>1 DEF TInv, StoreInv, Objects
<1>5. ~Restart /\ \A k, next : ~Step(k, next) BY <1>1 DEF Restart, Step
<1>6. \A k \in Kinds : w[k].pc # "idle" => ~Fail(k) /\ ~GiveUp(k)
  <2> SUFFICES ASSUME NEW k \in Kinds, w[k].pc # "idle", Report(k) PROVE FALSE
    BY DEF Fail, GiveUp
  <2> DEFINE o == [api[w[k].key] EXCEPT !.err = TRUE]
  <2>1. k # "dep" /\ Current(k, w[k].key) /\ Write(k, w[k].key, o, Idle) BY <1>5 DEF Report
  <2>2. /\ w[k].key \in Ref /\ w[k].key[1] = k /\ api[w[k].key] \in ObjOf(w[k].key[1])
    BY <2>1, BusyOK DEF Current, TInv
  <2>3. o \in ObjOf(k) BY <2>1, <2>2, FieldKind
  <2>4. o # Nil BY <2>3, ObjKind
  <2> QED BY <1>4, <2>1, <2>4
<1>7. ASSUME NEW k \in Kinds, w[k].pc # "idle", NEW z, NEW o, NEW next, Update(k, z, o, next)
      PROVE  Current(k, z) /\ z = r /\ o = Nil
  BY <1>4, <1>5, <1>6, <1>7 DEF Update, Put, LeftAlone
<1>8. ASSUME NEW k \in Kinds, Finish(k) PROVE Goal
  <2>1. k # "dep" /\ w[k].pc # "idle" BY <1>8 DEF Finish
  <2>2. w[k].key \in Ref /\ w[k].key[1] = k /\ w[k].in \in ObjOf(k) BY <2>1, BusyOK DEF TInv
  <2>3. CASE IsDeleted(w[k].in) /\ Write(k, w[k].key, Nil, Idle)
    <3>1. w[k].key = r /\ w[k].in # Nil BY <1>4, <2>2, <2>3, ObjKind
    <3>2. Sound(hist.asked, r, w[k].in) BY <2>1, <3>1 DEF SInv, SoundWorker
    <3>3. May(hist.asked, r) BY <2>1, <2>2, <2>3, <3>1, <3>2 DEF Sound, Doomed
    <3> QED BY <2>1, <2>2, <3>1, <3>3 DEF May, Asked, Kinds
  <2>4. CASE Put(k, w[k].key, [api[w[k].key] EXCEPT !.err = FALSE], Idle)
    <3> DEFINE o == [api[w[k].key] EXCEPT !.err = FALSE]
    <3>1. Current(k, w[k].key) /\ o = Nil BY <1>7, <2>1, <2>4 DEF Update
    <3>2. api[w[k].key] \in ObjOf(k) BY <2>1, <2>2, <3>1, BusyOK DEF Current, TInv
    <3>3. o \in ObjOf(k) BY <2>1, <3>2, FieldKind
    <3> QED BY <3>1, <3>3, ObjKind
  <2> QED BY <1>5, <1>8, <2>3, <2>4 DEF Finish, LeftAlone
<1>9. \A k \in Kinds : ~Item(k)
  <2> SUFFICES ASSUME NEW k \in Kinds, Item(k) PROVE FALSE OBVIOUS
  <2>1. k \in {"app", "plane"} /\ w[k].pc # "idle" BY DEF Item
  <2>2. PICK t \in w[k].todo :
          Update(k, <<"sd", t[1]>>, Rewritten(k, t[2]),
                 [w[k] EXCEPT !.todo = @ \ {t}, !.fresh = @ \ {<<"sd", t[1]>>}])
    BY DEF Item
  <2>3. Rewritten(k, t[2]) = Nil BY <1>7, <2>1, <2>2
  <2>4. Rewritten(k, t[2]) \in SdObj BY <2>1, RewrittenKind
  <2> QED BY <2>3, <2>4, NilAssumption DEF AnyObj
<1>10. ~SdInitialize
  <2> SUFFICES ASSUME SdInitialize PROVE FALSE OBVIOUS
  <2>1. "sd" \in Kinds /\ w["sd"].pc # "idle" BY DEF Kinds, SdInitialize
  <2>2. w["sd"].in # Nil BY <2>1, BusyOK, ObjKind DEF TInv
  <2> QED BY <1>7, <2>1, <2>2 DEF SdInitialize
<1>11. \A k, s, o, next : ~Write(k, <<"dep", s>>, o, next) BY <1>4
<1>12. ~SdDeploy /\ ~SdUndeploy /\ ~SdDefaults
  <2>1. SdDeploy \/ SdDefaults => w["sd"].pc # "idle" /\ "sd" \in Kinds
    BY DEF SdDeploy, SdDefaults, Kinds
  <2>2. ~SdDefaults BY <1>5, <1>6, <2>1 DEF SdDefaults
  <2>3. ~SdDeploy BY <1>5, <1>6, <1>11, <2>1 DEF SdDeploy, LeftAlone
  <2>4. ~SdUndeploy BY <1>11 DEF SdUndeploy
  <2> QED BY <2>2, <2>3, <2>4
<1>13. ~DepStatus
  <2> SUFFICES ASSUME DepStatus PROVE FALSE OBVIOUS
  <2> DEFINE z == Owner(w["dep"].pc, w["dep"].key[2])
             o == [cache[z] EXCEPT !.mirrors = w["dep"].view, !.err = FALSE]
  <2>1. "dep" \in Kinds /\ w["dep"].pc # "idle" BY DEF Kinds, DepStatus
  <2>2. w["dep"] \in Worker /\ w["dep"].key \in Ref /\ w["dep"].key[1] = "dep"
    BY <2>1, BusyOK DEF TInv
  <2>3. z \in Ref /\ z[1] \in {"app", "plane"} BY <2>2, RefKind DEF Owner, AppRef, PlaneRef
  <2>4. cache[z] # Nil /\ o = Nil BY <1>4, <1>5, <1>6, <2>1 DEF DepStatus
  <2> HIDE DEF z
  <2>5. cache[z] \in ObjOf(z[1]) BY <2>3, <2>4 DEF TInv, StoreInv, Objects
  <2>6. w["dep"].view \in SUBSET SDs BY <2>2 DEF Worker
  <2>7. o \in ObjOf(z[1]) BY <2>3, <2>5, <2>6, StatusKind
  <2> QED BY <2>3, <2>4, <2>7, RefKind, ObjKind
<1>14. ~DepList /\ ~DepFinish
  <2>1. ~DepList BY <1>5 DEF DepList
  <2>2. DepFinish => w["dep"].pc # "idle" /\ "dep" \in Kinds BY DEF DepFinish, Kinds
  <2>3. DepFinish => w["dep"].key[1] = "dep" BY <2>2, BusyOK DEF TInv
  <2>4. DepFinish => w["dep"].key = r BY <1>5, <1>7, <2>2 DEF DepFinish
  <2> QED BY <2>1, <2>3, <2>4
<1>15. \A k \in Kinds : ~DropEvent(k) /\ ~Begin(k) /\ ~List(k) /\ ~Panic(k)
  BY <1>5 DEF DropEvent, Begin, List, Panic
<1>16. \A k \in Kinds : ~RejectMark(k) /\ ~HandlerFails(k)
  BY <1>6 DEF RejectMark, HandlerFails
<1>17. PICK k \in Kinds : Deliver(k) \/ HandlerFails(k) \/ Work(k)
  BY <1>1, <1>3, <1>5 DEF Next, vars, Crash, Initialized, Ready, Resync
<1>18. Work(k) BY <1>1, <1>16, <1>17 DEF Deliver
<1> QED BY <1>8, <1>9, <1>10, <1>12, <1>13, <1>14, <1>15, <1>16, <1>18 DEF Work

\* The operator removes an application, a plane or an SQBDeployment only if a user marked
\* it, or, for an SQBDeployment, one of its owners (the end of the three Operate functions).
THEOREM RemovalIsAsked == Spec => OperatorDeletes
<1>1. TInv /\ SInv /\ [Next]_vars =>
      [budget'.ops = budget.ops =>
         \A r \in Ref : r[1] # "dep" /\ api[r] # Nil /\ api'[r] = Nil =>
             r \in hist.asked \/ (r[1] = "sd" /\ Asked(r[2]))]_vars
  BY RemovesAsked
<1> QED BY <1>1, Typed, Sounds, PTL DEF Spec, OperatorDeletes

=============================================================================
