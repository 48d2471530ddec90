---------------------------- MODULE DeletionProofs ----------------------------
(***************************************************************************)
(* The statuses and the promise of the delete annotation, for all          *)
(* constants.                                                              *)
(*                                                                         *)
(* A status never names a Deployment that is gone.  Only the worker of the *)
(* Deployments lists them in a status, and only it takes their finalizer   *)
(* away; so whatever it lists is still there when the status is written,   *)
(* unless its cache showed a Deployment that had gone before.  It never    *)
(* does: a Deployment goes with a current copy of it in the worker's       *)
(* hands, so from then on the cache knows that it terminates.              *)
(*                                                                         *)
(* Lifecycle implements Deletion.  Every step of the operator changes one  *)
(* object at most; what may become of it follows from the invariants,      *)
(* taken before and after the step, and from one more: no Deployment runs  *)
(* under an SQBDeployment that its worker is about to delete.              *)
(***************************************************************************)
EXTENDS CascadeProofs

\* What is under way to the cache about r.
Mail(r) == {watch[r[1]][i].obj : i \in {j \in 1 .. Len(watch[r[1]]) : watch[r[1]][j].ref = r}}

\* The API server's object changes, and an event says so.
Sent(r, o) ==
    /\ api' = [api EXCEPT ![r] = o]
    /\ watch' = IF o = api[r] THEN watch ELSE [watch EXCEPT ![r[1]] = Append(@, [ref |-> r, obj |-> o])]

-----------------------------------------------------------------------------
(* The mail of a write, of a delivery and of a restart. *)

LEMMA NoMail ==
    ASSUME StoreInv, NEW r \in Ref
    PROVE  (~Pending(r) <=> Mail(r) = {})
<1>1. r[1] \in Kinds /\ watch[r[1]] \in Seq(Event) BY RefKind DEF StoreInv
<1>2. DOMAIN watch[r[1]] = 1 .. Len(watch[r[1]]) BY <1>1
<1> QED BY <1>2 DEF Pending, Mail

LEMMA SentMail ==
    ASSUME StoreInv, NEW r \in Ref, NEW o \in ObjOf(r[1]) \cup {Nil}, Sent(r, o), NEW z \in Ref
    PROVE  /\ z # r \/ o = api[r] => Mail(z)' = Mail(z)
           /\ o # api[r] => Mail(r)' = Mail(r) \cup {o}
<1>1. r[1] \in Kinds /\ z[1] \in Kinds /\ watch \in [Kinds -> Seq(Event)]
  BY RefKind DEF StoreInv
<1>2. CASE o = api[r]
  <2>1. watch' = watch BY <1>2 DEF Sent
  <2> QED BY <1>2, <2>1 DEF Mail
<1>3. CASE o # api[r]
  <2> DEFINE e == [ref |-> r, obj |-> o]
             q == watch[r[1]]
  <2>1. watch' = [watch EXCEPT ![r[1]] = Append(@, e)] BY <1>3 DEF Sent
  <2>2. watch'[r[1]] = Append(q, e) /\ \A c \in Kinds : c # r[1] => watch'[c] = watch[c]
    BY <1>1, <2>1
  <2>3. e \in Event /\ q \in Seq(Event) BY <1>1, ObjKind DEF Event
  <2>4. e.ref = r /\ e.obj = o OBVIOUS
  <2> HIDE DEF e, q
  <2>5. /\ Len(Append(q, e)) = Len(q) + 1 /\ Len(q) \in Nat
        /\ \A i \in 1 .. Len(q) : Append(q, e)[i] = q[i]
        /\ Append(q, e)[Len(q) + 1] = e
    BY <2>3
  <2>6. ASSUME z # r PROVE Mail(z)' = Mail(z)
    <3>1. CASE z[1] # r[1] BY <1>1, <2>2, <3>1 DEF Mail
    <3>2. CASE z[1] = r[1]
      <4>1. {j \in 1 .. Len(q) + 1 : Append(q, e)[j].ref = z} = {j \in 1 .. Len(q) : q[j].ref = z}
        BY <2>4, <2>5, <2>6
      <4>2. watch'[z[1]] = Append(q, e) /\ watch[z[1]] = q BY <2>2, <3>2 DEF q
      <4> QED BY <2>5, <4>1, <4>2 DEF Mail
    <3> QED BY <3>1, <3>2
  <2>7. Mail(r)' \subseteq Mail(r) \cup {o}
    <3> SUFFICES ASSUME NEW i \in 1 .. Len(q) + 1, Append(q, e)[i].ref = r, i # Len(q) + 1
                 PROVE  Append(q, e)[i].obj \in Mail(r)
      BY <2>2, <2>4, <2>5 DEF Mail
    <3>1. i \in 1 .. Len(q) /\ q[i].ref = r BY <2>5
    <3> QED BY <2>5, <3>1 DEF Mail, q
  <2>8. Mail(r) \cup {o} \subseteq Mail(r)'
    <3>1. \A i \in 1 .. Len(q) + 1 : Append(q, e)[i].ref = r => Append(q, e)[i].obj \in Mail(r)'
      BY <2>2, <2>5 DEF Mail
    <3>2. o \in Mail(r)' BY <2>4, <2>5, <3>1
    <3>3. \A i \in 1 .. Len(q) : q[i].ref = r => q[i].obj \in Mail(r)' BY <2>5, <3>1
    <3> QED BY <3>2, <3>3 DEF Mail, q
  <2> QED BY <1>3, <2>6, <2>7, <2>8
<1> QED BY <1>2, <1>3

LEMMA WriteMail ==
    ASSUME StoreInv, NEW k, NEW r \in Ref, NEW o \in ObjOf(r[1]) \cup {Nil}, NEW next,
           Write(k, r, o, next), NEW z \in Ref
    PROVE  /\ z # r \/ o = api[r] => Mail(z)' = Mail(z)
           /\ Mail(r)' \subseteq Mail(r) \cup {o}
<1>1. Sent(r, o) BY DEF Write, Sent
<1>2. \A y \in Ref : /\ y # r \/ o = api[r] => Mail(y)' = Mail(y)
                     /\ o # api[r] => Mail(r)' = Mail(r) \cup {o}
  BY <1>1, SentMail
<1> QED BY <1>2

\* The oldest event of a kind reaches the cache, and the queue if the filter lets it pass.
LEMMA DeliverHead ==
    ASSUME StoreInv, NEW k \in Kinds, Deliver(k)
    PROVE  \E r \in Ref : \E o \in ObjOf(k) \cup {Nil} :
             /\ r[1] = k /\ o \in Mail(r) /\ Head(watch[k]).ref = r /\ Head(watch[k]).obj = o
             /\ cache'[r] = o /\ \A z \in Ref : z # r => cache'[z] = cache[z]
             /\ queue' = IF Passes(k, cache[r], o) THEN queue \cup {r} ELSE queue
             /\ Mail(r) = Mail(r)' \cup {o} /\ \A z \in Ref : z # r => Mail(z)' = Mail(z)
<1> DEFINE q == watch[k]
<1>1. q \in Seq(Event) /\ q # <<>> /\ \A z \in Ref : z[1] \in Kinds BY RefKind DEF StoreInv, Deliver
<1>2. /\ Len(q) \in Nat /\ Len(Tail(q)) = Len(q) - 1 /\ Len(q) > 0
      /\ \A i \in 1 .. Len(Tail(q)) : Tail(q)[i] = q[i + 1]
      /\ Head(q) = q[1] /\ Head(q) \in Event /\ 1 \in 1 .. Len(q)
  BY <1>1
<1>3. Head(q).ref \in Ref /\ Head(q).ref[1] = k /\ Head(q).obj \in ObjOf(k) \cup {Nil}
  <2>1. 1 \in 1 .. Len(watch[k]) BY <1>2
  <2>2. q[1].ref[1] = k BY <2>1 DEF StoreInv, Latest
  <2> QED BY <1>2, <2>2 DEF Event
<1>4. PICK r \in Ref : r = Head(q).ref BY <1>3
<1>5. PICK o \in ObjOf(k) \cup {Nil} : o = Head(q).obj BY <1>3
<1>6. /\ cache' = [cache EXCEPT ![r] = o]
      /\ queue' = IF Passes(k, cache[r], o) THEN queue \cup {r} ELSE queue
      /\ watch' = [watch EXCEPT ![k] = Tail(q)]
  BY <1>4, <1>5, Zenon DEF Deliver
<1>7. cache'[r] = o /\ \A z \in Ref : z # r => cache'[z] = cache[z]
  BY <1>6 DEF StoreInv, Objects
<1>8. watch'[k] = Tail(q) /\ \A c \in Kinds : c # k => watch'[c] = watch[c]
  BY <1>6 DEF StoreInv
<1>9. \A i \in 1 .. Len(Tail(q)) : i + 1 \in 1 .. Len(q) /\ Tail(q)[i] = q[i + 1] BY <1>2
<1>10. \A i \in 2 .. Len(q) : i - 1 \in 1 .. Len(Tail(q)) /\ Tail(q)[i - 1] = q[i] BY <1>2
<1>11. ASSUME NEW z \in Ref, z[1] = k
       PROVE  Mail(z)' \subseteq Mail(z) /\ \A x \in Mail(z) : x \in Mail(z)' \/ (z = r /\ x = o)
  <2>1. \A i \in 1 .. Len(q) : q[i].ref = z => q[i].obj \in Mail(z) BY <1>11 DEF Mail
  <2>2. \A i \in 1 .. Len(Tail(q)) : Tail(q)[i].ref = z => Tail(q)[i].obj \in Mail(z)'
    BY <1>8, <1>11 DEF Mail
  <2>3. ASSUME NEW i \in 1 .. Len(Tail(q)), Tail(q)[i].ref = z PROVE Tail(q)[i].obj \in Mail(z)
    BY <1>9, <2>1, <2>3
  <2>4. ASSUME NEW i \in 1 .. Len(q), q[i].ref = z
        PROVE  q[i].obj \in Mail(z)' \/ (z = r /\ q[i].obj = o)
    <3>1. CASE i = 1 BY <1>2, <1>4, <1>5, <2>4, <3>1
    <3>2. CASE i # 1
      <4>1. i \in 2 .. Len(q) BY <1>2, <3>2
      <4> QED BY <1>10, <2>2, <2>4, <4>1
    <3> QED BY <3>1, <3>2
  <2>5. watch[z[1]] = q /\ watch'[z[1]] = Tail(q) BY <1>8, <1>11
  <2> HIDE DEF q
  <2> QED BY <2>3, <2>4, <2>5 DEF Mail
<1>12. \A z \in Ref : z[1] # k => Mail(z)' = Mail(z) BY <1>1, <1>8 DEF Mail
<1>13. r[1] = k /\ o \in Mail(r) BY <1>2, <1>3, <1>4, <1>5 DEF Mail
<1>14. /\ \A z \in Ref : z # r => Mail(z)' = Mail(z)
       /\ Mail(r) = Mail(r)' \cup {o}
  BY <1>11, <1>12, <1>13
<1> QED BY <1>4, <1>5, <1>6, <1>7, <1>13, <1>14

LEMMA DeliverMail ==
    ASSUME StoreInv, NEW k \in Kinds, Deliver(k), NEW z \in Ref
    PROVE  /\ Mail(z)' \subseteq Mail(z)
           /\ cache'[z] = cache[z] \/ cache'[z] \in Mail(z)
  BY DeliverHead

LEMMA RestartMail ==
    ASSUME Restart, NEW z \in Ref
    PROVE  Mail(z)' = {} /\ cache'[z] = api[z]
<1>1. z[1] \in Kinds BY RefKind
<1>2. watch'[z[1]] = <<>> BY <1>1 DEF Restart
<1> QED BY <1>2 DEF Mail, Restart

-----------------------------------------------------------------------------
(* The invariant. *)

\* No Deployment goes without its finalizer being taken away.
HasFinalizer == \A s \in SDs : api[<<"dep", s>>] # Nil => api[<<"dep", s>>].fin

\* The cache of a Deployment that is gone shows none, or one that terminates.
GoneIsKnown ==
    \A s \in SDs : api[<<"dep", s>>] = Nil =>
        \A o \in {cache[<<"dep", s>>]} \cup Mail(<<"dep", s>>) : ~Counts(o)

\* What StatusNamesDeployments says, and that a status lists what its owner's label selects.
Named ==
    \A r \in Ref : r[1] \in {"app", "plane"} /\ api[r] # Nil =>
        \A s \in api[r].mirrors : Selects(r, s) /\ api[<<"dep", s>>] # Nil

\* An owner with a status that lists something is in the cache, until it goes.
ListedIsKnown ==
    \A r \in Ref : r[1] \in {"app", "plane"} /\ api[r] # Nil =>
        api[r].mirrors = {} \/ (cache[r] # Nil /\ Nil \notin Mail(r))

Clean(a, r, s) == a[r] = Nil \/ s \notin a[r].mirrors

\* The worker of Deployments: what it is to list is there; the terminating Deployment it has
\* a current copy of is in no status that it has passed.
Lists(x, a) ==
    x.pc \in {"appStatus", "planeStatus"} =>
        \A t \in x.view : Selects(Owner(x.pc, x.key[2]), t) /\ a[<<"dep", t>>] # Nil

Passed(x, a) ==
    x.in.term =>
        /\ x.pc \in {"appStatus", "planeStatus"} => x.key[2] \notin x.view
        /\ x.pc \in {"plane", "planeStatus", "finish"} => Clean(a, AppRef(x.key[2]), x.key[2])
        /\ x.pc = "finish" => Clean(a, PlaneRef(x.key[2]), x.key[2])

HoldsCurrent ==
    LET x == w["dep"] IN
    x.key \in x.fresh => api[x.key] = x.in /\ cache[x.key] = x.in /\ Mail(x.key) = {}

DepWorker ==
    w["dep"].pc # "idle" =>
        /\ Lists(w["dep"], api) /\ HoldsCurrent
        /\ w["dep"].key \in w["dep"].fresh => Passed(w["dep"], api)

NInv == HasFinalizer /\ GoneIsKnown /\ Named /\ ListedIsKnown /\ DepWorker

-----------------------------------------------------------------------------
(* Everybody but the worker of Deployments. *)

\* What the others write: an SQBDeployment, an owner with the status it has or none, a
\* Deployment with its finalizer.
Quiet(r, o) ==
    \/ r[1] = "sd"
    \/ /\ r[1] \in {"app", "plane"}
       /\ o = Nil \/ o.mirrors = {} \/ (api[r] # Nil /\ o.mirrors = api[r].mirrors)
    \/ /\ r[1] = "dep"
       /\ IF o = Nil THEN api[r] = Nil ELSE o.fin

LEMMA DepRef ==
    /\ \A s \in SDs : <<"dep", s>> \in Ref /\ <<"dep", s>>[1] = "dep" /\ <<"dep", s>>[2] = s
    /\ \A s \in SDs : AppRef(s) \in Ref /\ AppRef(s)[1] = "app"
    /\ \A s \in SDs : PlaneRef(s) \in Ref /\ PlaneRef(s)[1] = "plane"
    /\ \A r \in Ref : r[1] = "dep" => r[2] \in SDs /\ r = <<"dep", r[2]>>
    /\ \A r, s : Selects(r, s) => r[1] \in {"app", "plane"} /\ s \in Labelled /\ s \in SDs
  BY RefKind, RefAssumption DEF AppRef, PlaneRef, Selects

LEMMA OtherWrite ==
    ASSUME TInv, NInv, NEW k, k # "dep", NEW r \in Ref, NEW o \in ObjOf(r[1]) \cup {Nil},
           NEW next, Write(k, r, o, next), Quiet(r, o), UNCHANGED cache
    PROVE  NInv'
<1>1. StoreInv /\ api \in [Ref -> AnyObj \cup {Nil}] BY DEF TInv, StoreInv, Objects
<1>2. api' = [api EXCEPT ![r] = o] /\ \A z \in Ref : z # r => api'[z] = api[z]
  BY <1>1 DEF Write
<1>3. api'[r] = o BY <1>1, <1>2
<1>4. /\ \A z \in Ref : z # r \/ o = api[r] => Mail(z)' = Mail(z)
      /\ Mail(r)' \subseteq Mail(r) \cup {o}
  BY <1>1, WriteMail
<1>5. HasFinalizer'
  <2> SUFFICES ASSUME NEW s \in SDs, api'[<<"dep", s>>] # Nil PROVE api'[<<"dep", s>>].fin
    BY DEF HasFinalizer
  <2>1. CASE <<"dep", s>> = r BY <1>3, <2>1 DEF Quiet
  <2>2. CASE <<"dep", s>> # r BY <1>2, <2>2, DepRef DEF NInv, HasFinalizer
  <2> QED BY <2>1, <2>2
<1>6. \A s \in SDs : api[<<"dep", s>>] # Nil => api'[<<"dep", s>>] # Nil
  BY <1>2, <1>3, DepRef DEF Quiet
<1>7. GoneIsKnown'
  <2> SUFFICES ASSUME NEW s \in SDs, api'[<<"dep", s>>] = Nil,
                      NEW d \in {cache[<<"dep", s>>]} \cup Mail(<<"dep", s>>)'
               PROVE  ~Counts(d)
    BY DEF GoneIsKnown
  <2>1. api[<<"dep", s>>] = Nil /\ <<"dep", s>> \in Ref BY <1>6, DepRef
  <2>2. Mail(<<"dep", s>>)' = Mail(<<"dep", s>>)
    BY <1>3, <1>4, <2>1
  <2> QED BY <2>1, <2>2 DEF NInv, GoneIsKnown
<1>8. Named'
  <2> SUFFICES ASSUME NEW z \in Ref, z[1] \in {"app", "plane"}, api'[z] # Nil, NEW s \in api'[z].mirrors
               PROVE  Selects(z, s) /\ api'[<<"dep", s>>] # Nil
    BY DEF Named
  <2>1. api[z] # Nil /\ s \in api[z].mirrors BY <1>2, <1>3 DEF Quiet
  <2>2. Selects(z, s) /\ api[<<"dep", s>>] # Nil BY <2>1 DEF NInv, Named
  <2> QED BY <1>6, <2>2, DepRef
<1>9. ListedIsKnown'
  <2> SUFFICES ASSUME NEW z \in Ref, z[1] \in {"app", "plane"}, api'[z] # Nil, api'[z].mirrors # {}
               PROVE  cache[z] # Nil /\ Nil \notin Mail(z)'
    BY DEF ListedIsKnown
  <2>1. api[z] # Nil /\ api[z].mirrors # {} BY <1>2, <1>3 DEF Quiet
  <2>2. cache[z] # Nil /\ Nil \notin Mail(z) BY <2>1 DEF NInv, ListedIsKnown
  <2>3. z = r => o # Nil BY <1>3
  <2> QED BY <1>4, <2>2, <2>3
<1>10. ASSUME NEW s \in SDs, NEW z \in Ref, z[1] \in {"app", "plane"}, Clean(api, z, s)
       PROVE  Clean(api', z, s)
  BY <1>2, <1>3, <1>10 DEF Quiet, Clean
<1>11. "dep" \in Kinds /\ w["dep"] \in Worker BY <1>1 DEF Kinds, StoreInv, WorkerOK
<1>12. /\ w'["dep"].pc = w["dep"].pc /\ w'["dep"].key = w["dep"].key
       /\ w'["dep"].in = w["dep"].in /\ w'["dep"].view = w["dep"].view
       /\ w'["dep"].fresh \subseteq w["dep"].fresh /\ (r \in w'["dep"].fresh => o = api[r])
  <2>1. CASE o = api[r]
    <3>1. w'["dep"] = w["dep"] BY <1>11, <2>1 DEF Write
    <3> QED BY <2>1, <3>1
  <2>2. CASE o # api[r]
    <3>1. w'["dep"] = [w["dep"] EXCEPT !.fresh = @ \ {r}] BY <1>11, <2>2 DEF Write
    <3> QED BY <1>11, <3>1 DEF Worker
  <2> QED BY <2>1, <2>2
<1>13. ASSUME w["dep"].pc # "idle"
       PROVE  /\ Lists(w'["dep"], api') /\ HoldsCurrent'
              /\ w'["dep"].key \in w'["dep"].fresh => Passed(w'["dep"], api')
  <2>1. /\ Lists(w["dep"], api) /\ HoldsCurrent
        /\ w["dep"].key \in w["dep"].fresh => Passed(w["dep"], api)
    BY <1>13 DEF NInv, DepWorker
  <2>2. w["dep"].key \in Ref /\ w["dep"].key[1] = "dep" /\ w["dep"].key[2] \in SDs
    BY <1>1, <1>11, <1>13, BusyOK, RefKind
  <2>3. Lists(w'["dep"], api')
    BY <1>6, <1>12, <2>1, DepRef DEF Lists
  <2>4. HoldsCurrent'
    <3>1. PICK z \in Ref : z = w["dep"].key BY <2>2
    <3>2. w'["dep"].key = z BY <1>12, <3>1
    <3>3. ASSUME z \in w'["dep"].fresh
          PROVE  api'[z] = w["dep"].in /\ cache[z] = w["dep"].in /\ Mail(z)' = {}
      <4>1. z \in w["dep"].fresh /\ (z = r => o = api[r]) BY <1>12, <3>3
      <4>2. api'[z] = api[z] /\ Mail(z)' = Mail(z) BY <1>2, <1>3, <1>4, <4>1
      <4> QED BY <2>1, <3>1, <4>1, <4>2 DEF HoldsCurrent
    <3> QED BY <1>12, <3>2, <3>3 DEF HoldsCurrent, Mail
  <2>5. ASSUME w'["dep"].key \in w'["dep"].fresh PROVE Passed(w'["dep"], api')
    <3>1. Passed(w["dep"], api) BY <1>12, <2>1, <2>5
    <3>2. /\ Clean(api, AppRef(w["dep"].key[2]), w["dep"].key[2])
               => Clean(api', AppRef(w["dep"].key[2]), w["dep"].key[2])
          /\ Clean(api, PlaneRef(w["dep"].key[2]), w["dep"].key[2])
               => Clean(api', PlaneRef(w["dep"].key[2]), w["dep"].key[2])
      BY <1>10, <2>2, DepRef
    <3> QED BY <1>12, <3>1, <3>2 DEF Passed
  <2> QED BY <2>3, <2>4, <2>5
<1>14. DepWorker' BY <1>12, <1>13 DEF DepWorker
<1> QED BY <1>5, <1>7, <1>8, <1>9, <1>14 DEF NInv

\* Nothing is written, and no event is under way that was not.
LEMMA SameStore ==
    ASSUME NInv, UNCHANGED <<api, watch, cache>>, DepWorker'
    PROVE  NInv'
<1>1. \A r \in Ref : Mail(r)' = Mail(r) BY DEF Mail
<1>2. GoneIsKnown'
  BY <1>1, DepRef DEF NInv, GoneIsKnown
<1>3. ListedIsKnown' BY <1>1 DEF NInv, ListedIsKnown
<1>4. HasFinalizer' /\ Named' BY DEF NInv, HasFinalizer, Named
<1> QED BY <1>2, <1>3, <1>4 DEF NInv

LEMMA SameDep ==
    ASSUME NInv, UNCHANGED <<api, watch, cache>>, w'["dep"] = w["dep"] \/ w'["dep"].pc = "idle"
    PROVE  NInv'
<1>1. CASE w'["dep"].pc = "idle" BY <1>1, SameStore DEF DepWorker
<1>2. CASE w'["dep"] = w["dep"]
  <2>1. HoldsCurrent' <=> HoldsCurrent BY <1>2 DEF HoldsCurrent, Mail
  <2>2. DepWorker' BY <1>2, <2>1 DEF NInv, DepWorker
  <2> QED BY <2>2, SameStore
<1> QED BY <1>1, <1>2

LEMMA OtherStep ==
    ASSUME TInv, NInv, NEW k \in Kinds, k # "dep", NEW next, Step(k, next), UNCHANGED cache
    PROVE  NInv'
<1>1. w'["dep"] = w["dep"] BY DEF Step, TInv, StoreInv, Kinds
<1> QED BY <1>1, SameDep DEF Step

LEMMA DepIdle ==
    ASSUME TInv, NInv, NEW next, Step("dep", next), next.pc = "idle", UNCHANGED cache
    PROVE  NInv'
<1>1. w'["dep"] = next BY DEF Step, TInv, StoreInv, Kinds
<1> QED BY <1>1, SameDep DEF Step

\* A field that a status update does not own leaves what is listed.
LEMMA ListedStays ==
    ASSUME NEW k \in {"app", "plane"}, NEW o \in ObjOf(k)
    PROVE  /\ \A b : [o EXCEPT !.err = b].mirrors = o.mirrors
           /\ \A m : [o EXCEPT !.mark = m].mirrors = o.mirrors
           /\ k = "app" => \A b : [o EXCEPT !.istio = b].mirrors = o.mirrors
  BY ObjKind DEF AppObj, PlaneObj

\* The error field, written through a current copy.
LEMMA OtherErr ==
    ASSUME TInv, NInv, NEW k \in Kinds, k # "dep", w[k].pc # "idle", Current(k, w[k].key),
           NEW b \in BOOLEAN, NEW next, Write(k, w[k].key, [api[w[k].key] EXCEPT !.err = b], next),
           UNCHANGED cache
    PROVE  NInv'
<1> DEFINE r == w[k].key
           o == [api[r] EXCEPT !.err = b]
<1>1. r \in Ref /\ r[1] = k /\ api[r] \in ObjOf(k)
  BY BusyOK DEF TInv, Current
<1>2. o \in ObjOf(r[1]) /\ api[r] # Nil BY <1>1, FieldKind, ObjKind
<1>3. k \in {"app", "plane"} => o.mirrors = api[r].mirrors BY <1>1, ListedStays
<1>4. Quiet(r, o) BY <1>1, <1>2, <1>3 DEF Quiet, Kinds
<1> HIDE DEF r
<1> QED BY <1>1, <1>2, <1>4, OtherWrite DEF r

LEMMA OtherFails ==
    ASSUME TInv, NInv, NEW k \in Kinds, k # "dep", w[k].pc # "idle", Fail(k) \/ GiveUp(k),
           UNCHANGED cache
    PROVE  NInv'
  BY OtherStep, OtherErr DEF Fail, GiveUp, Report

\* The end of a reconcile, and what is done to a listed SQBDeployment.
LEMMA OtherFinish == ASSUME TInv, NInv, NEW k \in Kinds, Finish(k) PROVE NInv'
<1> DEFINE r == w[k].key
<1>1. w[k].pc # "idle" /\ k # "dep" /\ UNCHANGED cache BY DEF Finish, Frame
<1>2. r \in Ref /\ r[1] = k BY <1>1, BusyOK DEF TInv
<1>3. CASE Write(k, r, Nil, Idle)
  <2>1. Quiet(r, Nil) BY <1>1, <1>2 DEF Quiet, Kinds
  <2> QED BY <1>1, <1>2, <1>3, <2>1, OtherWrite
<1>4. CASE Put(k, r, [api[r] EXCEPT !.err = FALSE], Idle)
  BY <1>1, <1>4, OtherErr, OtherFails DEF Put
<1>5. CASE Step(k, Idle) BY <1>1, <1>5, OtherStep
<1> QED BY <1>3, <1>4, <1>5 DEF Finish, LeftAlone

LEMMA OtherItem == ASSUME TInv, NInv, NEW k \in Kinds, Item(k) PROVE NInv'
<1>1. k \in {"app", "plane"} /\ w[k].pc = "items" /\ UNCHANGED cache BY DEF Item, Frame
<1>2. PICK t \in w[k].todo :
        Update(k, <<"sd", t[1]>>, Rewritten(k, t[2]),
               [w[k] EXCEPT !.todo = @ \ {t}, !.fresh = @ \ {<<"sd", t[1]>>}])
  BY DEF Item
<1>3. CASE Fail(k) BY <1>1, <1>3, OtherFails
<1>4. CASE Write(k, <<"sd", t[1]>>, Rewritten(k, t[2]),
                 [w[k] EXCEPT !.todo = @ \ {t}, !.fresh = @ \ {<<"sd", t[1]>>}])
  <2>1. /\ <<"sd", t[1]>> \in Ref /\ <<"sd", t[1]>>[1] = "sd" /\ Rewritten(k, t[2]) \in ObjOf("sd")
    <3>1. w[k] \in Worker BY <1>1, BusyOK DEF TInv
    <3> QED BY <1>1, <3>1, RewrittenKind, RefKind, ObjKind DEF Worker
  <2>2. Quiet(<<"sd", t[1]>>, Rewritten(k, t[2])) BY DEF Quiet
  <2> QED BY <1>1, <1>4, <2>1, <2>2, OtherWrite
<1>5. ASSUME NEW x, Step(k, x) PROVE NInv' BY <1>1, <1>5, OtherStep
<1> QED BY <1>2, <1>3, <1>4, <1>5 DEF Update, Put, LeftAlone

LEMMA OtherSdInitialize == ASSUME TInv, NInv, SdInitialize PROVE NInv'
<1> DEFINE r == w["sd"].key
<1>1. "sd" \in Kinds /\ w["sd"].pc = "init" /\ UNCHANGED cache BY DEF Kinds, SdInitialize, Frame
<1>2. r \in Ref /\ r[1] = "sd" /\ w["sd"].in \in ObjOf("sd") BY <1>1, BusyOK DEF TInv
<1>3. Quiet(r, w["sd"].in) BY <1>2 DEF Quiet
<1>4. CASE Fail("sd") BY <1>1, <1>4, OtherFails
<1>5. CASE Write("sd", r, w["sd"].in, [w["sd"] EXCEPT !.pc = "operate"])
  BY <1>1, <1>2, <1>3, <1>5, OtherWrite
<1>6. ASSUME NEW x, Step("sd", x) PROVE NInv' BY <1>1, <1>6, OtherStep
<1> QED BY <1>4, <1>5, <1>6 DEF SdInitialize, Update, Put, LeftAlone

LEMMA OtherSdDeploy == ASSUME TInv, NInv, SdDeploy PROVE NInv'
<1> DEFINE s == w["sd"].key[2]
           r == <<"dep", s>>
           x == [w["sd"] EXCEPT !.pc = "finish"]
<1>1. "sd" \in Kinds /\ w["sd"].pc = "operate" /\ UNCHANGED cache BY DEF Kinds, SdDeploy, Frame
<1>2. s \in SDs /\ w["sd"].in \in SdObj
  <2>1. w["sd"].key \in Ref /\ w["sd"].key[1] = "sd" /\ w["sd"].in \in ObjOf("sd")
    BY <1>1, BusyOK DEF TInv
  <2> QED BY <2>1, RefKind, ObjKind
<1>3. r \in Ref /\ r[1] = "dep" BY <1>2, RefKind
<1>4. ASSUME NEW o \in DepObj, o.fin, Write("sd", r, o, x) PROVE NInv'
  <2>1. o \in ObjOf(r[1]) /\ o # Nil BY <1>3, ObjKind DEF Kinds
  <2>2. Quiet(r, o) BY <1>3, <1>4, <2>1 DEF Quiet
  <2> HIDE DEF x, r
  <2> QED BY <1>1, <1>3, <1>4, <2>1, <2>2, OtherWrite
<1>5. CASE Fail("sd") BY <1>1, <1>5, OtherFails
<1>6. CASE Write("sd", r, NewDeployment(w["sd"].in), x)
  <2>1. NewDeployment(w["sd"].in) \in DepObj /\ NewDeployment(w["sd"].in).fin
    BY <1>2 DEF NewDeployment, SdObj, DepObj
  <2> QED BY <1>4, <1>6, <2>1
<1>7. CASE /\ cache[r] # Nil
           /\ Write("sd", r, [cache[r] EXCEPT !.istio = w["sd"].in.istio, !.fin = TRUE], x)
  <2>1. cache[r] \in DepObj BY <1>3, <1>7, ObjKind DEF TInv, StoreInv, Objects
  <2> DEFINE o == [cache[r] EXCEPT !.istio = w["sd"].in.istio, !.fin = TRUE]
  <2>2. o \in DepObj /\ o.fin BY <1>2, <2>1 DEF SdObj, DepObj
  <2>3. Write("sd", r, o, x) BY <1>7
  <2> HIDE DEF o
  <2> QED BY <1>4, <2>2, <2>3
<1>8. CASE Step("sd", x)
  <2> HIDE DEF x
  <2> QED BY <1>1, <1>8, OtherStep
<1> QED BY <1>5, <1>6, <1>7, <1>8 DEF SdDeploy, LeftAlone

LEMMA OtherSdUndeploy == ASSUME TInv, NInv, SdUndeploy PROVE NInv'
<1> DEFINE s == w["sd"].key[2]
           r == <<"dep", s>>
           o == AfterDelete("dep", api[r])
<1>1. "sd" \in Kinds /\ w["sd"].pc = "operate" /\ UNCHANGED cache BY DEF Kinds, SdUndeploy, Frame
<1>2. s \in SDs
  <2>1. w["sd"].key \in Ref /\ w["sd"].key[1] = "sd" BY <1>1, BusyOK DEF TInv
  <2> QED BY <2>1, RefKind
<1>3. r \in Ref /\ r[1] = "dep" /\ api[r] \in DepObj \cup {Nil}
  <2>1. r \in Ref /\ r[1] = "dep" BY <1>2, RefKind
  <2> QED BY <2>1, ObjKind DEF TInv, StoreInv, Objects
<1>4. CASE api[r] = Nil
  <2>1. o = Nil BY <1>4 DEF AfterDelete
  <2> QED BY <1>3, <1>4, <2>1, <1>1, OtherWrite DEF SdUndeploy, Quiet
<1>5. CASE api[r] # Nil
  <2>1. api[r] \in DepObj /\ api[r].fin BY <1>2, <1>3, <1>5 DEF NInv, HasFinalizer
  <2>2. o \in DepObj /\ o.fin BY <2>1, <1>5 DEF AfterDelete, DepObj
  <2>3. o \in ObjOf(r[1]) /\ o # Nil BY <1>3, <2>2, ObjKind DEF Kinds
  <2>4. Quiet(r, o) BY <1>3, <2>2, <2>3 DEF Quiet
  <2>5. Write("sd", r, o, [w["sd"] EXCEPT !.pc = "finish"]) BY DEF SdUndeploy
  <2> HIDE DEF r, o
  <2> QED BY <1>1, <1>3, <2>3, <2>4, <2>5, OtherWrite
<1> QED BY <1>4, <1>5

LEMMA OtherUser == ASSUME TInv, NInv, User PROVE NInv'
<1>1. PICK r \in Ref : \/ UserCreate(r) \/ UserMark(r) \/ UserMismark(r)
                       \/ UserDelete(r) \/ UserToggleIstio(r)
  BY DEF User
<1>2. ASSUME NEW act, NEW o \in ObjOf(r[1]) \cup {Nil}, UserWrite(act, r, o), Quiet(r, o)
      PROVE  NInv'
  BY <1>2, OtherWrite DEF UserWrite
<1>3. r[1] \in Kinds /\ api[r] \in ObjOf(r[1]) \cup {Nil} BY RefKind DEF TInv, StoreInv, Objects
<1>4. ASSUME r[1] # "dep", api[r] # Nil, NEW m \in Marks
      PROVE  [api[r] EXCEPT !.mark = m] \in ObjOf(r[1]) /\ Quiet(r, [api[r] EXCEPT !.mark = m])
  <2>1. [api[r] EXCEPT !.mark = m] \in ObjOf(r[1]) BY <1>3, <1>4, FieldKind
  <2>2. r[1] \in {"app", "plane"} => [api[r] EXCEPT !.mark = m].mirrors = api[r].mirrors
    BY <1>3, <1>4, ListedStays
  <2> QED BY <1>3, <1>4, <2>1, <2>2 DEF Quiet, Kinds
<1>5. CASE UserCreate(r)
  <2>1. NewObj(r[1]) \in ObjOf(r[1]) BY <1>3, <1>5, NewObjKind DEF UserCreate
  <2>2. r[1] \in {"app", "plane"} => NewObj(r[1]).mirrors = {} BY DEF NewObj
  <2>3. Quiet(r, NewObj(r[1])) BY <1>3, <1>5, <2>2 DEF UserCreate, Quiet, Kinds
  <2> QED BY <1>2, <1>5, <2>1, <2>3 DEF UserCreate
<1>6. CASE UserMark(r) BY <1>2, <1>4, <1>6 DEF UserMark, Marks
<1>7. CASE UserMismark(r) BY <1>2, <1>4, <1>7 DEF UserMismark, Marks
<1>8. CASE UserDelete(r)
  <2>1. Quiet(r, Nil) BY <1>3, <1>8 DEF UserDelete, Quiet, Kinds
  <2> QED BY <1>2, <1>8, <2>1 DEF UserDelete
<1>9. CASE UserToggleIstio(r)
  <2> DEFINE o == [api[r] EXCEPT !.istio = ~@]
  <2>1. api[r] \in ObjOf("app") /\ r[1] = "app" /\ api[r] # Nil
    BY <1>3, <1>9 DEF UserToggleIstio
  <2>2. o \in ObjOf(r[1]) BY <2>1, ObjKind DEF AppObj
  <2>3. o.mirrors = api[r].mirrors BY <2>1, ListedStays
  <2>4. Quiet(r, o) BY <2>1, <2>3 DEF Quiet
  <2> HIDE DEF o
  <2>5. UserWrite("toggle", r, o) BY <1>9 DEF UserToggleIstio, o
  <2> QED BY <1>2, <2>2, <2>4, <2>5
<1> QED BY <1>1, <1>5, <1>6, <1>7, <1>8, <1>9

-----------------------------------------------------------------------------
(* The informers and the process. *)

LEMMA DeliverNamed == ASSUME TInv, NInv, NEW k \in Kinds, Deliver(k) PROVE NInv'
<1>1. StoreInv /\ api' = api /\ w' = w BY DEF Deliver, TInv
<1>2. \A z \in Ref : /\ Mail(z)' \subseteq Mail(z)
                     /\ cache'[z] = cache[z] \/ cache'[z] \in Mail(z)
  BY <1>1, DeliverMail
<1>3. HasFinalizer' /\ Named' BY <1>1 DEF NInv, HasFinalizer, Named
<1>4. GoneIsKnown'
  <2> SUFFICES ASSUME NEW s \in SDs, api[<<"dep", s>>] = Nil,
                      NEW d \in {cache'[<<"dep", s>>]} \cup Mail(<<"dep", s>>)'
               PROVE  ~Counts(d)
    BY <1>1 DEF GoneIsKnown
  <2>1. d \in {cache[<<"dep", s>>]} \cup Mail(<<"dep", s>>) BY <1>2, DepRef
  <2> QED BY <2>1 DEF NInv, GoneIsKnown
<1>5. ListedIsKnown' BY <1>1, <1>2 DEF NInv, ListedIsKnown
<1>6. DepWorker'
  <2> SUFFICES ASSUME w["dep"].pc # "idle"
               PROVE  /\ Lists(w["dep"], api) /\ HoldsCurrent'
                      /\ w["dep"].key \in w["dep"].fresh => Passed(w["dep"], api)
    BY <1>1 DEF DepWorker
  <2>1. PICK z \in Ref : z = w["dep"].key BY BusyOK DEF TInv, Kinds
  <2>2. z \in w["dep"].fresh => cache'[z] = w["dep"].in /\ Mail(z)' = {}
    BY <1>2, <2>1 DEF NInv, DepWorker, HoldsCurrent
  <2>3. HoldsCurrent' BY <1>1, <2>1, <2>2 DEF NInv, DepWorker, HoldsCurrent, Mail
  <2> QED BY <2>3 DEF NInv, DepWorker
<1> QED BY <1>3, <1>4, <1>5, <1>6 DEF NInv

LEMMA RestartNamed == ASSUME NInv, Restart PROVE NInv'
<1>1. api' = api /\ cache' = api /\ w'["dep"] = Idle BY DEF Restart, Kinds
<1>2. \A z \in Ref : Mail(z)' = {} BY RestartMail
<1>3. HasFinalizer' /\ Named' BY <1>1 DEF NInv, HasFinalizer, Named
<1>4. GoneIsKnown' BY <1>1, <1>2, DepRef DEF GoneIsKnown, Counts
<1>5. ListedIsKnown' BY <1>1, <1>2 DEF ListedIsKnown
<1>6. DepWorker' BY <1>1 DEF DepWorker, Idle
<1> QED BY <1>3, <1>4, <1>5, <1>6 DEF NInv

-----------------------------------------------------------------------------
(* The worker of Deployments. *)

\* Worker dep goes on without a write, with the same object in its hands.
LEMMA DepStep ==
    ASSUME TInv, NInv, NEW next, Step("dep", next), UNCHANGED cache,
           next.key = w["dep"].key, next.in = w["dep"].in, next.fresh = w["dep"].fresh,
           w["dep"].pc # "idle", Lists(next, api),
           next.key \in next.fresh => Passed(next, api)
    PROVE  NInv'
<1>1. w'["dep"] = next /\ UNCHANGED <<api, watch, cache>>
  BY DEF Step, TInv, StoreInv, Kinds
<1>2. HoldsCurrent' BY <1>1 DEF NInv, DepWorker, HoldsCurrent, Mail
<1>3. DepWorker' BY <1>1, <1>2 DEF DepWorker
<1> QED BY <1>1, <1>3, SameStore

LEMMA BeginNamed == ASSUME TInv, NInv, NEW k \in Kinds, Begin(k) PROVE NInv'
<1>1. PICK r \in queue :
        /\ r[1] = k /\ queue' = queue \ {r}
        /\ IF cache[r] = Nil
           THEN Step(k, Idle)
           ELSE Step(k, [Idle EXCEPT !.pc = "operate", !.key = r, !.in = cache[r],
                                     !.fresh = Fresh({r})])
  BY DEF Begin
<1> DEFINE x == [Idle EXCEPT !.pc = "operate", !.key = r, !.in = cache[r], !.fresh = Fresh({r})]
<1>2. UNCHANGED cache /\ r \in Ref BY DEF Begin, Frame, TInv, RestType
<1>3. CASE k # "dep" BY <1>1, <1>2, <1>3, OtherStep
<1>4. CASE k = "dep" /\ Step(k, Idle)
  <2>1. Idle.pc = "idle" BY DEF Idle
  <2> QED BY <1>2, <1>4, <2>1, DepIdle
<1>5. CASE k = "dep" /\ Step(k, x)
  <2>1. x.pc = "operate" /\ x.key = r /\ x.in = cache[r] /\ x.fresh = Fresh({r})
    BY DEF Idle
  <2>2. Step("dep", x) BY <1>5
  <2> HIDE DEF x
  <2>3. w'["dep"] = x /\ UNCHANGED <<api, watch, cache>>
    BY <1>2, <2>2 DEF Step, TInv, StoreInv, Kinds
  <2>4. r \in x.fresh => api[r] = cache[r] /\ Mail(r) = {}
    BY <1>2, <2>1, NoMail DEF Fresh, TInv, StoreInv, InSync
  <2>5. HoldsCurrent' BY <2>1, <2>3, <2>4 DEF HoldsCurrent, Mail
  <2>6. DepWorker' BY <2>1, <2>3, <2>5 DEF DepWorker, Lists, Passed
  <2> QED BY <2>3, <2>6, SameStore
<1> QED BY <1>1, <1>3, <1>4, <1>5

\* An SQBDeployment without the labels is in no status.
LEMMA UnlabelledClean ==
    ASSUME NInv, NEW r \in Ref, r[1] \in {"app", "plane"}, NEW s, s \notin Labelled
    PROVE  Clean(api, r, s)
  BY DepRef DEF NInv, Named, Clean

LEMMA DepListNamed == ASSUME TInv, NInv, DepList PROVE NInv'
<1> DEFINE s == w["dep"].key[2]
           r == Owner(w["dep"].pc, s)
           p == IF w["dep"].pc = "operate" THEN "appStatus" ELSE "planeStatus"
           v == Mirrors(r)
           x == [w["dep"] EXCEPT !.pc = p, !.view = v]
           y == [w["dep"] EXCEPT !.pc = "finish"]
<1>1. w["dep"].pc \in {"operate", "plane"} /\ UNCHANGED cache BY DEF DepList, Frame
<1>2. /\ w["dep"] \in Worker /\ w["dep"].key \in Ref /\ w["dep"].key[1] = "dep" /\ s \in SDs
      /\ w["dep"].key = <<"dep", s>>
  <2>1. w["dep"] \in Worker /\ w["dep"].key \in Ref /\ w["dep"].key[1] = "dep"
    BY <1>1, BusyOK DEF TInv, Kinds
  <2> QED BY <2>1, RefKind
<1>3. HoldsCurrent /\ (w["dep"].key \in w["dep"].fresh => Passed(w["dep"], api))
  BY <1>1 DEF NInv, DepWorker
<1>4. CASE s \in Labelled /\ Step("dep", x)
  <2>1. /\ x.pc = p /\ x.view = v /\ x.key = w["dep"].key /\ x.in = w["dep"].in
        /\ x.fresh = w["dep"].fresh
    BY <1>2 DEF Worker
  <2>2. p \in {"appStatus", "planeStatus"} /\ Owner(p, s) = r BY <1>1 DEF Owner
  <2>3. \A t \in v : t \in SDs /\ Selects(r, t) /\ Counts(cache[<<"dep", t>>]) BY DEF Mirrors
  <2>4. Step("dep", x) BY <1>4
  <2> HIDE DEF x, v
  <2>5. Lists(x, api)
    BY <2>1, <2>2, <2>3 DEF Lists, NInv, GoneIsKnown
  <2>6. ASSUME x.key \in x.fresh, x.in.term PROVE s \notin v
    BY <1>2, <1>3, <2>1, <2>3, <2>6 DEF HoldsCurrent, Counts
  <2>7. ASSUME x.key \in x.fresh PROVE Passed(x, api)
    BY <1>1, <1>3, <2>1, <2>6, <2>7 DEF Passed
  <2> QED BY <1>1, <2>1, <2>4, <2>5, <2>7, DepStep
<1>5. CASE s \notin Labelled /\ Step("dep", y)
  <2>1. y.pc = "finish" /\ y.key = w["dep"].key /\ y.in = w["dep"].in /\ y.fresh = w["dep"].fresh
    BY <1>2 DEF Worker
  <2>2. Step("dep", y) BY <1>5
  <2>3. Clean(api, AppRef(s), s) /\ Clean(api, PlaneRef(s), s)
    BY <1>2, <1>5, DepRef, UnlabelledClean
  <2> HIDE DEF y
  <2>4. Lists(y, api) /\ Passed(y, api) BY <2>1, <2>3 DEF Lists, Passed
  <2> QED BY <1>1, <2>1, <2>2, <2>4, DepStep
<1> QED BY <1>4, <1>5 DEF DepList

LEMMA DepFinishNamed == ASSUME TInv, NInv, DepFinish PROVE NInv'
<1>1. w["dep"].pc = "finish" /\ UNCHANGED cache BY DEF DepFinish, Frame
<1>0. PICK r \in Ref : r = w["dep"].key BY <1>1, BusyOK DEF TInv, Kinds
<1> DEFINE s == r[2]
<1>2. Idle.pc = "idle" BY DEF Idle
<1>3. CASE Step("dep", Idle) BY <1>1, <1>2, <1>3, DepIdle
<1>4. CASE Fail("dep") BY <1>1, <1>2, <1>4, DepIdle DEF Fail, Report
<1>5. CASE w["dep"].in.term /\ Current("dep", r) /\ Write("dep", r, Nil, Idle)
  <2>1. r \in Ref /\ r = <<"dep", s>> /\ r[1] = "dep" /\ s \in SDs
    <3>1. r[1] = "dep" BY <1>0, <1>1, BusyOK DEF TInv, Kinds
    <3> QED BY <3>1, RefKind
  <2>2. StoreInv /\ api \in [Ref -> AnyObj \cup {Nil}] BY DEF TInv, StoreInv, Objects
  <2>3. api'[r] = Nil /\ w'["dep"] = Idle /\ \A z \in Ref : z # r => api'[z] = api[z]
    BY <2>1, <1>5, <2>2 DEF Write, Kinds
  <2>4. /\ \A z \in Ref : z # r => Mail(z)' = Mail(z)
        /\ Mail(r)' \subseteq Mail(r) \cup {Nil}
    BY <1>5, <2>1, <2>2, WriteMail
  <2>5. cache[r] = w["dep"].in /\ Mail(r) = {} /\ Passed(w["dep"], api)
    BY <1>0, <1>1, <1>5 DEF NInv, DepWorker, HoldsCurrent, Current
  <2>6. HasFinalizer' BY <2>1, <2>3, DepRef DEF NInv, HasFinalizer
  <2>7. GoneIsKnown'
    <3> SUFFICES ASSUME NEW t \in SDs, api'[<<"dep", t>>] = Nil,
                        NEW d \in {cache[<<"dep", t>>]} \cup Mail(<<"dep", t>>)'
                 PROVE  ~Counts(d)
      BY <1>1 DEF GoneIsKnown
    <3>1. CASE t = s
      <4>1. d \in {w["dep"].in, Nil} BY <2>1, <2>4, <2>5, <3>1
      <4> QED BY <1>5, <4>1 DEF Counts
    <3>2. CASE t # s
      <4>1. <<"dep", t>> \in Ref /\ <<"dep", t>> # r BY <2>1, <3>2, DepRef
      <4> QED BY <2>3, <2>4, <4>1 DEF NInv, GoneIsKnown
    <3> QED BY <3>1, <3>2
  <2>8. Named'
    <3> SUFFICES ASSUME NEW z \in Ref, z[1] \in {"app", "plane"}, api'[z] # Nil,
                        NEW t \in api'[z].mirrors
                 PROVE  Selects(z, t) /\ api'[<<"dep", t>>] # Nil
      BY DEF Named
    <3>1. z # r /\ api'[z] = api[z] BY <2>1, <2>3
    <3>2. Selects(z, t) /\ api[<<"dep", t>>] # Nil /\ t \in SDs
      BY <3>1, DepRef DEF NInv, Named
    <3>3. t # s
      <4> SUFFICES ASSUME t = s PROVE FALSE OBVIOUS
      <4>1. z = <<z[1], z[2]>> BY RefKind
      <4>2. z \in {AppRef(s), PlaneRef(s)} BY <3>2, <4>1 DEF Selects, AppRef, PlaneRef
      <4> QED BY <1>0, <1>1, <1>5, <2>5, <3>1, <4>2 DEF Passed, Clean
    <3>4. <<"dep", t>> \in Ref /\ <<"dep", t>> # r BY <2>1, <3>2, <3>3, DepRef
    <3> QED BY <2>3, <3>2, <3>4
  <2>9. ListedIsKnown'
    <3> SUFFICES ASSUME NEW z \in Ref, z[1] \in {"app", "plane"}, api'[z] # Nil
                 PROVE  api'[z].mirrors = {} \/ (cache[z] # Nil /\ Nil \notin Mail(z)')
      BY <1>1 DEF ListedIsKnown
    <3>1. z # r BY <2>1
    <3> QED BY <2>3, <2>4, <3>1 DEF NInv, ListedIsKnown
  <2>10. DepWorker' BY <2>3 DEF DepWorker, Idle
  <2> QED BY <2>6, <2>7, <2>8, <2>9, <2>10 DEF NInv
<1> QED BY <1>0, <1>3, <1>4, <1>5 DEF DepFinish, Update, Put, LeftAlone

\* The status write itself.
LEMMA StatusWritten ==
    ASSUME TInv, NInv, w["dep"].pc \in {"appStatus", "planeStatus"}, NEW r \in Ref, NEW o, NEW next,
           r = Owner(w["dep"].pc, w["dep"].key[2]), cache[r] # Nil, ~Pending(r), UNCHANGED cache,
           o \in ObjOf(r[1]), o.mirrors = w["dep"].view,
           next.key = w["dep"].key, next.in = w["dep"].in, next.fresh = w["dep"].fresh,
           next.pc = IF w["dep"].pc = "appStatus" THEN "plane" ELSE "finish",
           Write("dep", r, o, next)
    PROVE  NInv'
<1> DEFINE s == w["dep"].key[2]
<1>1. /\ StoreInv /\ api \in [Ref -> AnyObj \cup {Nil}] /\ w["dep"] \in Worker
      /\ w["dep"].key \in Ref /\ w["dep"].key[1] = "dep" /\ s \in SDs
  <2>1. w["dep"] \in Worker /\ w["dep"].key \in Ref /\ w["dep"].key[1] = "dep"
    BY BusyOK DEF TInv, Kinds
  <2> QED BY <2>1, RefKind DEF TInv, StoreInv, Objects
<1>2. /\ r = IF w["dep"].pc = "appStatus" THEN AppRef(s) ELSE PlaneRef(s)
      /\ r[1] \in {"app", "plane"}
  BY <1>1, DepRef DEF Owner
<1>3. cache[r] \in ObjOf(r[1]) /\ api[r] = cache[r] /\ Mail(r) = {}
  BY NoMail DEF TInv, StoreInv, Objects, InSync
<1>4. o # Nil BY <1>2, RefKind, ObjKind
<1>5. api'[r] = o /\ w'["dep"] = next /\ \A z \in Ref : z # r => api'[z] = api[z]
  BY <1>1 DEF Write, Kinds
<1>6. /\ \A z \in Ref : z # r => Mail(z)' = Mail(z)
      /\ Mail(r)' \subseteq {o}
  <2>1. o \in ObjOf(r[1]) \cup {Nil} OBVIOUS
  <2>2. \A z \in Ref : /\ z # r \/ o = api[r] => Mail(z)' = Mail(z)
                      /\ Mail(r)' \subseteq Mail(r) \cup {o}
    <3> SUFFICES ASSUME NEW z \in Ref
                 PROVE  /\ z # r \/ o = api[r] => Mail(z)' = Mail(z)
                        /\ Mail(r)' \subseteq Mail(r) \cup {o}
      OBVIOUS
    <3> QED BY <1>1, <2>1, WriteMail
  <2> QED BY <2>2, <1>3
<1>7. /\ Lists(w["dep"], api) /\ HoldsCurrent
      /\ w["dep"].key \in w["dep"].fresh => Passed(w["dep"], api)
  BY DEF NInv, DepWorker
<1>8. \A t \in SDs : <<"dep", t>> # r /\ api'[<<"dep", t>>] = api[<<"dep", t>>]
  BY <1>2, <1>5, DepRef
<1>9. HasFinalizer' BY <1>8 DEF NInv, HasFinalizer
<1>10. GoneIsKnown'
  <2> SUFFICES ASSUME NEW t \in SDs, api'[<<"dep", t>>] = Nil,
                      NEW d \in {cache[<<"dep", t>>]} \cup Mail(<<"dep", t>>)'
               PROVE  ~Counts(d)
    BY DEF GoneIsKnown
  <2>1. api[<<"dep", t>>] = Nil /\ Mail(<<"dep", t>>)' = Mail(<<"dep", t>>)
    BY <1>6, <1>8, DepRef
  <2> QED BY <2>1 DEF NInv, GoneIsKnown
<1>11. Named'
  <2> SUFFICES ASSUME NEW z \in Ref, z[1] \in {"app", "plane"}, api'[z] # Nil,
                      NEW t \in api'[z].mirrors
               PROVE  Selects(z, t) /\ api'[<<"dep", t>>] # Nil
    BY DEF Named
  <2>1. Selects(z, t) /\ api[<<"dep", t>>] # Nil
    <3>1. CASE z = r
      <4>1. t \in w["dep"].view /\ w["dep"].pc \in {"appStatus", "planeStatus"} BY <1>5, <3>1
      <4> QED BY <1>7, <3>1, <4>1 DEF Lists
    <3>2. CASE z # r BY <1>5, <3>2 DEF NInv, Named
    <3> QED BY <3>1, <3>2
  <2> QED BY <1>8, <2>1, DepRef
<1>12. ListedIsKnown'
  <2> SUFFICES ASSUME NEW z \in Ref, z[1] \in {"app", "plane"}, api'[z] # Nil
               PROVE  api'[z].mirrors = {} \/ (cache[z] # Nil /\ Nil \notin Mail(z)')
    BY DEF ListedIsKnown
  <2>1. CASE z = r BY <1>4, <1>6, <2>1
  <2>2. CASE z # r BY <1>5, <1>6, <2>2 DEF NInv, ListedIsKnown
  <2> QED BY <2>1, <2>2
<1>13. HoldsCurrent'
  <2>1. PICK z \in Ref : z = w["dep"].key BY <1>1
  <2>2. z # r BY <1>1, <1>2, <2>1
  <2>3. z \in next.fresh => api'[z] = next.in /\ cache[z] = next.in /\ Mail(z)' = {}
    BY <1>5, <1>6, <1>7, <2>1, <2>2 DEF HoldsCurrent
  <2>4. w'["dep"].key = z /\ w'["dep"].in = next.in /\ w'["dep"].fresh = next.fresh
    BY <1>5, <2>1
  <2> QED BY <2>3, <2>4 DEF HoldsCurrent, Mail
<1>14. ASSUME next.key \in next.fresh PROVE Passed(next, api')
  <2> SUFFICES ASSUME next.in.term
               PROVE  /\ next.pc \in {"plane", "finish"} => Clean(api', AppRef(s), s)
                      /\ next.pc = "finish" => Clean(api', PlaneRef(s), s)
    BY DEF Passed
  <2>1. /\ s \notin w["dep"].view
        /\ w["dep"].pc = "planeStatus" => Clean(api, AppRef(s), s)
    BY <1>7, <1>14 DEF Passed
  <2>2. Clean(api', r, s) BY <1>5, <2>1 DEF Clean
  <2>3. CASE w["dep"].pc = "appStatus" BY <1>2, <2>2, <2>3
  <2>4. CASE w["dep"].pc = "planeStatus"
    <3>1. r = PlaneRef(s) BY <1>2, <2>4
    <3>2. AppRef(s) \in Ref /\ AppRef(s) # r BY <1>1, <3>1, DepRef
    <3>3. api'[AppRef(s)] = api[AppRef(s)] BY <1>5, <3>2
    <3> QED BY <2>1, <2>2, <2>4, <3>1, <3>3 DEF Clean
  <2> QED BY <2>3, <2>4
<1>15. Lists(next, api') BY DEF Lists
<1>16. DepWorker' BY <1>5, <1>13, <1>14, <1>15 DEF DepWorker
<1> QED BY <1>9, <1>10, <1>11, <1>12, <1>16 DEF NInv

LEMMA DepStatusNamed == ASSUME TInv, NInv, DepStatus PROVE NInv'
<1>1. w["dep"].pc \in {"appStatus", "planeStatus"} /\ UNCHANGED cache BY DEF DepStatus, Frame
<1>2. w["dep"] \in Worker /\ w["dep"].key \in Ref /\ w["dep"].key[1] = "dep" /\ w["dep"].key[2] \in SDs
  <2>1. w["dep"] \in Worker /\ w["dep"].key \in Ref /\ w["dep"].key[1] = "dep"
    BY <1>1, BusyOK DEF TInv, Kinds
  <2> QED BY <2>1, RefKind
<1> DEFINE s == w["dep"].key[2]
           p == IF w["dep"].pc = "appStatus" THEN "plane" ELSE "finish"
           next == [w["dep"] EXCEPT !.pc = p, !.view = {}]
<1>3. PICK r \in Ref : r = Owner(w["dep"].pc, s)
  BY <1>2, DepRef DEF Owner
<1>4. r = (IF w["dep"].pc = "appStatus" THEN AppRef(s) ELSE PlaneRef(s)) /\ r[1] \in {"app", "plane"}
  BY <1>1, <1>2, <1>3, DepRef DEF Owner
<1>5. /\ next.pc = p /\ next.key = w["dep"].key /\ next.in = w["dep"].in
      /\ next.fresh = w["dep"].fresh
  BY <1>2 DEF Worker
<1>6. \/ cache[r] = Nil /\ Step("dep", next)
      \/ Fail("dep")
      \/ /\ cache[r] # Nil /\ ~Pending(r)
         /\ Write("dep", r, [cache[r] EXCEPT !.mirrors = w["dep"].view, !.err = FALSE], next)
  BY <1>3 DEF DepStatus
<1>7. CASE Fail("dep")
  <2>1. Idle.pc = "idle" BY DEF Idle
  <2> QED BY <1>1, <1>7, <2>1, DepIdle DEF Fail, Report
<1>8. CASE cache[r] = Nil /\ Step("dep", next)
  <2>1. Clean(api, r, s) BY <1>4, <1>8 DEF NInv, ListedIsKnown, Clean
  <2>2. Lists(next, api) BY <1>5 DEF Lists
  <2>3. w["dep"].key \in w["dep"].fresh => Passed(w["dep"], api)
    BY <1>1 DEF NInv, DepWorker
  <2> HIDE DEF next
  <2>4. next.key \in next.fresh => Passed(next, api)
    BY <1>1, <1>4, <1>5, <2>1, <2>3 DEF Passed
  <2> QED BY <1>1, <1>5, <1>8, <2>2, <2>4, DepStep
<1>9. CASE /\ cache[r] # Nil /\ ~Pending(r)
           /\ Write("dep", r, [cache[r] EXCEPT !.mirrors = w["dep"].view, !.err = FALSE], next)
  <2> DEFINE o == [cache[r] EXCEPT !.mirrors = w["dep"].view, !.err = FALSE]
  <2>1. w["dep"].view \in SUBSET SDs BY <1>2 DEF Worker
  <2>2. cache[r] \in ObjOf(r[1]) BY <1>9 DEF TInv, StoreInv, Objects
  <2>3. o \in ObjOf(r[1]) BY <1>4, <2>1, <2>2, StatusKind
  <2>4. o.mirrors = w["dep"].view BY <1>4, <2>2, ObjKind DEF AppObj, PlaneObj
  <2>5. Write("dep", r, o, next) BY <1>9
  <2> HIDE DEF next, o
  <2> QED BY <1>1, <1>3, <1>5, <1>9, <2>3, <2>4, <2>5, StatusWritten
<1> QED BY <1>6, <1>7, <1>8, <1>9

-----------------------------------------------------------------------------
(* All steps. *)

LEMMA WorkNamed ==
    ASSUME TInv, NInv, NEW k \in Kinds, HandlerFails(k) \/ Work(k)
    PROVE  NInv'
<1>1. Idle.pc = "idle" BY DEF Idle
<1>2. CASE HandlerFails(k)
  BY <1>1, <1>2, OtherFails, DepIdle DEF HandlerFails, Fail, GiveUp, Report
<1>3. CASE RejectMark(k) BY <1>3, OtherFails DEF RejectMark, Frame
<1>4. CASE DropEvent(k) BY <1>4, OtherStep, DepIdle DEF DropEvent, Frame
<1>5. CASE List(k) BY <1>5, OtherStep DEF List, Frame
<1>6. CASE Panic(k) BY <1>6, RestartNamed DEF Panic
<1>7. CASE k = "sd" /\ SdDefaults
  <2>1. w["sd"].pc # "idle" /\ UNCHANGED cache BY <1>7 DEF SdDefaults, Frame
  <2> QED BY <1>7, <2>1, OtherStep, OtherFails DEF SdDefaults
<1> QED BY <1>2, <1>3, <1>4, <1>5, <1>6, <1>7, BeginNamed, OtherFinish, OtherItem,
           OtherSdInitialize, OtherSdDeploy, OtherSdUndeploy, DepListNamed, DepStatusNamed,
           DepFinishNamed
        DEF Work

LEMMA NamedStays == ASSUME TInv, NInv, [Next]_vars PROVE NInv'
<1>1. CASE User BY <1>1, OtherUser
<1>2. CASE Crash BY <1>2, RestartNamed DEF Crash
<1>3. CASE Initialized \/ Ready \/ Resync \/ UNCHANGED vars
  BY <1>3, SameDep DEF Initialized, Ready, Resync, vars
<1>4. ASSUME NEW k \in Kinds, Deliver(k) PROVE NInv' BY <1>4, DeliverNamed
<1>5. ASSUME NEW k \in Kinds, HandlerFails(k) \/ Work(k) PROVE NInv' BY <1>5, WorkNamed
<1> QED BY <1>1, <1>2, <1>3, <1>4, <1>5 DEF Next

\* At the start every status lists the Deployments there are.
LEMMA InitNamed == ASSUME Init PROVE NInv
<1>1. api = [r \in Ref |-> IF r \in Existing THEN SettledObj(r) ELSE Nil] /\ cache = api
  BY DEF Init
<1>2. \A z \in Ref : Mail(z) = {} BY RefKind DEF Init, Mail
<1>3. \A s \in SDs : <<"dep", s>> \in Existing =>
        api[<<"dep", s>>] = NewDeployment(NewObj("sd")) /\ api[<<"dep", s>>].fin
  BY <1>1, DepRef DEF SettledObj, NewDeployment
<1>4. NewDeployment(NewObj("sd")) # Nil
  <2>1. NewObj("sd") \in SdObj BY DEF NewObj, SdObj, Marks
  <2>2. NewDeployment(NewObj("sd")) \in DepObj BY <2>1 DEF NewDeployment, SdObj, DepObj
  <2> QED BY <2>2, ObjKind DEF Kinds
<1>5. \A s \in SDs : <<"dep", s>> \notin Existing => api[<<"dep", s>>] = Nil
  BY <1>1, DepRef
<1>6. HasFinalizer BY <1>3, <1>5 DEF HasFinalizer
<1>7. GoneIsKnown BY <1>1, <1>2, <1>5, DepRef DEF GoneIsKnown, Counts
<1>8. Named
  <2> SUFFICES ASSUME NEW r \in Ref, r[1] \in {"app", "plane"}, api[r] # Nil, NEW s \in api[r].mirrors
               PROVE  Selects(r, s) /\ api[<<"dep", s>>] # Nil
    BY DEF Named
  <2> DEFINE m == {t \in SDs : <<"dep", t>> \in Existing /\ Selects(r, t)}
  <2>1. api[r] = [NewObj(r[1]) EXCEPT !.mirrors = m] BY <1>1 DEF SettledObj
  <2> HIDE DEF m
  <2>2. api[r].mirrors = m BY <2>1 DEF NewObj
  <2> QED BY <1>3, <1>4, <2>2 DEF m
<1>9. ListedIsKnown BY <1>1, <1>2 DEF ListedIsKnown
<1>10. DepWorker BY DEF Init, DepWorker, Idle, Kinds
<1> QED BY <1>6, <1>7, <1>8, <1>9, <1>10 DEF NInv

\* No status of an application or plane ever names a Deployment that is gone, for any number
\* of objects, faults and crashes (deploymentHandler.Operate, UpdateStatus).
THEOREM StatusesAreTrue == Spec => []StatusNamesDeployments
<1>1. TInv /\ NInv /\ [Next]_vars => (TInv /\ NInv)' BY NextInv, NamedStays
<1>2. Init => TInv /\ NInv BY InitInv, InitNamed
<1>3. NInv => StatusNamesDeployments BY DEF NInv, Named, StatusNamesDeployments
<1> QED BY <1>1, <1>2, <1>3, PTL DEF Spec

-----------------------------------------------------------------------------
(* The refinement. *)

\* The end of a marked SQBDeployment finds its Deployment gone or terminating.
Ended ==
    w["sd"].pc = "finish" /\ IsDeleted(w["sd"].in) => ~Counts(api[<<"dep", w["sd"].key[2]>>])

AllInv == TInv /\ SInv /\ CopyInv /\ NInv /\ Ended

\* What the operator writes: no mark on an owner, and a status by the worker of Deployments
\* only; nothing instead of an SQBDeployment in the last step of its reconcile only; and a
\* Deployment in its course, from nothing to running and to terminating by the worker of its
\* SQBDeployment only, to nothing.
Plain(r, o) ==
    /\ r[1] \in {"app", "plane"} /\ o # Nil =>
         /\ api[r] # Nil /\ (IsDeleted(o) => IsDeleted(api[r]))
         /\ o.mirrors = api[r].mirrors \/ DepStatus
    /\ r[1] = "sd" /\ o = Nil => w["sd"].key = r /\ w["sd"].pc = "finish" /\ IsDeleted(w["sd"].in)
    /\ r[1] = "dep" /\ o = Nil => api[r] = Nil \/ api[r].term
    /\ r[1] = "dep" /\ o # Nil =>
         /\ IF api[r] = Nil THEN ~o.term /\ SdDeploy ELSE api[r].term => o.term
         /\ r[2] = w["sd"].key[2]
         /\ \/ SdDeploy /\ (o.term => api[r] # Nil /\ api[r].term)
            \/ SdUndeploy /\ o.term

\* One write at most, and a plain one.
OneWrite ==
    \/ UNCHANGED <<api, watch>>
    \/ \E r \in Ref : \E o \in ObjOf(r[1]) \cup {Nil} : Sent(r, o) /\ Plain(r, o)

-----------------------------------------------------------------------------
(* The operator's writes. *)

LEMMA WritePlain ==
    ASSUME TInv, NEW k, NEW r \in Ref, NEW o \in ObjOf(r[1]) \cup {Nil}, NEW next,
           Write(k, r, o, next), Plain(r, o)
    PROVE  OneWrite
  BY DEF Write, Sent, OneWrite

LEMMA StepPlain == \A k, next : Step(k, next) => OneWrite
  BY DEF Step, OneWrite

LEMMA ErrPlain ==
    ASSUME TInv, NEW k \in Kinds, k # "dep", w[k].pc # "idle", Current(k, w[k].key),
           NEW b \in BOOLEAN, NEW next, Write(k, w[k].key, [api[w[k].key] EXCEPT !.err = b], next)
    PROVE  OneWrite
<1>1. PICK r \in Ref : r = w[k].key /\ r[1] = k /\ api[r] \in ObjOf(k)
  BY BusyOK DEF TInv, Current
<1> DEFINE o == [api[r] EXCEPT !.err = b]
<1>2. o \in ObjOf(r[1]) /\ o # Nil /\ api[r] # Nil /\ o.mark = api[r].mark
  BY <1>1, FieldKind, ObjKind, ErrMark
<1>3. k \in {"app", "plane"} => o.mirrors = api[r].mirrors BY <1>1, ListedStays
<1>4. Write(k, r, o, next) BY <1>1
<1> HIDE DEF o
<1>5. Plain(r, o) BY <1>1, <1>2, <1>3 DEF Plain, IsDeleted
<1> QED BY <1>2, <1>4, <1>5, WritePlain

LEMMA FailPlain ==
    ASSUME TInv, NEW k \in Kinds, w[k].pc # "idle", Fail(k) \/ GiveUp(k)
    PROVE  OneWrite
  BY StepPlain, ErrPlain DEF Fail, GiveUp, Report

LEMMA FinishPlain == ASSUME TInv, NEW k \in Kinds, Finish(k) PROVE OneWrite
<1>1. w[k].pc # "idle" /\ k # "dep" BY DEF Finish
<1>2. PICK r \in Ref : r = w[k].key /\ r[1] = k BY <1>1, BusyOK DEF TInv
<1>3. CASE IsDeleted(w[k].in) /\ Write(k, r, Nil, Idle)
  <2>1. Plain(r, Nil) BY <1>1, <1>2, <1>3 DEF Plain, Finish
  <2> QED BY <1>3, <2>1, WritePlain
<1>4. CASE Put(k, r, [api[r] EXCEPT !.err = FALSE], Idle)
  BY <1>1, <1>2, <1>4, ErrPlain, FailPlain DEF Put
<1>5. CASE Step(k, Idle) BY <1>5, StepPlain
<1> QED BY <1>2, <1>3, <1>4, <1>5 DEF Finish, LeftAlone

LEMMA SdRefPlain == \A r : \A o \in ObjOf("sd") : r[1] = "sd" => Plain(r, o)
  BY ObjKind DEF Plain, Kinds

LEMMA ItemPlain == ASSUME TInv, NEW k \in Kinds, Item(k) PROVE OneWrite
<1>1. k \in {"app", "plane"} /\ w[k].pc = "items" BY DEF Item
<1>2. PICK t \in w[k].todo :
        Update(k, <<"sd", t[1]>>, Rewritten(k, t[2]),
               [w[k] EXCEPT !.todo = @ \ {t}, !.fresh = @ \ {<<"sd", t[1]>>}])
  BY DEF Item
<1>3. CASE Fail(k) BY <1>1, <1>3, FailPlain
<1>4. CASE Write(k, <<"sd", t[1]>>, Rewritten(k, t[2]),
                 [w[k] EXCEPT !.todo = @ \ {t}, !.fresh = @ \ {<<"sd", t[1]>>}])
  <2>1. w[k] \in Worker BY <1>1, BusyOK DEF TInv
  <2>2. /\ <<"sd", t[1]>> \in Ref /\ <<"sd", t[1]>>[1] = "sd" /\ Rewritten(k, t[2]) \in ObjOf("sd")
    BY <1>1, <2>1, RewrittenKind, RefKind, ObjKind DEF Worker
  <2> QED BY <1>4, <2>2, SdRefPlain, WritePlain
<1> QED BY <1>2, <1>3, <1>4, StepPlain DEF Update, Put, LeftAlone

LEMMA SdInitializePlain == ASSUME TInv, SdInitialize PROVE OneWrite
<1>1. "sd" \in Kinds /\ w["sd"].pc = "init" BY DEF Kinds, SdInitialize
<1>2. w["sd"].key \in Ref /\ w["sd"].key[1] = "sd" /\ w["sd"].in \in ObjOf("sd")
  BY <1>1, BusyOK DEF TInv
<1> QED BY <1>1, <1>2, SdRefPlain, WritePlain, FailPlain, StepPlain
    DEF SdInitialize, Update, Put, LeftAlone

LEMMA SdDeployPlain == ASSUME TInv, SdDeploy PROVE OneWrite
<1>1. "sd" \in Kinds /\ w["sd"].pc = "operate" BY DEF Kinds, SdDeploy
<1>2. w["sd"].key \in Ref /\ w["sd"].key[1] = "sd" /\ w["sd"].in \in SdObj
  BY <1>1, BusyOK, ObjKind DEF TInv
<1>3. PICK r \in Ref : r = <<"dep", w["sd"].key[2]>> /\ r[1] = "dep" /\ r[2] = w["sd"].key[2]
  BY <1>2, RefKind
<1> DEFINE x == [w["sd"] EXCEPT !.pc = "finish"]
           n == NewDeployment(w["sd"].in)
           o == [cache[r] EXCEPT !.istio = w["sd"].in.istio, !.fin = TRUE]
<1>4. \/ Fail("sd") \/ Step("sd", x)
      \/ api[r] = Nil /\ Write("sd", r, n, x)
      \/ cache[r] # Nil /\ ~Pending(r) /\ Write("sd", r, o, x)
  BY <1>3 DEF SdDeploy, LeftAlone
<1>5. CASE Fail("sd") BY <1>1, <1>5, FailPlain
<1>6. CASE api[r] = Nil /\ Write("sd", r, n, x)
  <2>1. n \in DepObj /\ ~n.term BY <1>2 DEF NewDeployment, SdObj, DepObj
  <2>2. n \in ObjOf(r[1]) BY <1>3, <2>1, ObjKind
  <2> HIDE DEF n, x
  <2>3. Plain(r, n) BY <1>3, <1>6, <2>1 DEF Plain
  <2> QED BY <1>6, <2>2, <2>3, WritePlain
<1>7. CASE cache[r] # Nil /\ ~Pending(r) /\ Write("sd", r, o, x)
  <2>1. cache[r] \in DepObj /\ api[r] = cache[r]
    BY <1>3, <1>7, ObjKind DEF TInv, StoreInv, Objects, InSync
  <2>2. o \in DepObj /\ o.term = cache[r].term BY <1>2, <2>1 DEF SdObj, DepObj
  <2>3. o \in ObjOf(r[1]) BY <1>3, <2>2, ObjKind
  <2> HIDE DEF o, x
  <2>4. Plain(r, o)
    <3>1. o # Nil BY <1>3, <2>3, ObjKind DEF Kinds
    <3> QED BY <1>3, <1>7, <2>1, <2>2, <3>1 DEF Plain
  <2> QED BY <1>7, <2>3, <2>4, WritePlain
<1> HIDE DEF x, n, o
<1> QED BY <1>4, <1>5, <1>6, <1>7, StepPlain

\* The finalizer keeps a Deployment that is deleted.
LEMMA SdUndeployPlain == ASSUME TInv, NInv, SdUndeploy PROVE OneWrite
<1>1. "sd" \in Kinds /\ w["sd"].pc = "operate" BY DEF Kinds, SdUndeploy
<1>2. w["sd"].key \in Ref /\ w["sd"].key[1] = "sd" BY <1>1, BusyOK DEF TInv
<1>3. PICK r \in Ref : r = <<"dep", w["sd"].key[2]>> /\ r[1] = "dep" /\ r[2] = w["sd"].key[2]
  BY <1>2, RefKind
<1> DEFINE x == [w["sd"] EXCEPT !.pc = "finish"]
           o == AfterDelete("dep", api[r])
<1>4. Write("sd", r, o, x) BY <1>3 DEF SdUndeploy
<1>5. api[r] \in DepObj \cup {Nil} BY <1>3, ObjKind DEF TInv, StoreInv, Objects
<1>6. api[r] # Nil => api[r].fin BY <1>2, <1>3, RefKind DEF NInv, HasFinalizer
<1>7. IF api[r] = Nil THEN o = Nil ELSE o \in DepObj /\ o.term
  BY <1>5, <1>6 DEF AfterDelete, DepObj
<1>8. o \in ObjOf(r[1]) \cup {Nil} BY <1>3, <1>7, ObjKind
<1>9. DepObj = ObjOf(r[1]) /\ Nil \notin DepObj BY <1>3, ObjKind DEF Kinds
<1> HIDE DEF o, x
<1>10. Plain(r, o) BY <1>3, <1>7, <1>9 DEF Plain
<1> QED BY <1>4, <1>8, <1>10, WritePlain

LEMMA DepStatusPlain == ASSUME TInv, DepStatus PROVE OneWrite
<1>1. "dep" \in Kinds /\ w["dep"].pc \in {"appStatus", "planeStatus"} BY DEF Kinds, DepStatus
<1>2. w["dep"] \in Worker /\ w["dep"].key \in Ref /\ w["dep"].key[1] = "dep"
  BY <1>1, BusyOK DEF TInv
<1>3. PICK r \in Ref : r = Owner(w["dep"].pc, w["dep"].key[2]) /\ r[1] \in {"app", "plane"}
  BY <1>2, RefKind, DepRef DEF Owner
<1> DEFINE p == IF w["dep"].pc = "appStatus" THEN "plane" ELSE "finish"
           x == [w["dep"] EXCEPT !.pc = p, !.view = {}]
           o == [cache[r] EXCEPT !.mirrors = w["dep"].view, !.err = FALSE]
<1>4. Step("dep", x) \/ Fail("dep") \/ (cache[r] # Nil /\ ~Pending(r) /\ Write("dep", r, o, x))
  BY <1>3 DEF DepStatus
<1>5. CASE cache[r] # Nil /\ ~Pending(r) /\ Write("dep", r, o, x)
  <2>1. cache[r] \in ObjOf(r[1]) /\ api[r] = cache[r]
    BY <1>5 DEF TInv, StoreInv, Objects, InSync
  <2>2. w["dep"].view \in SUBSET SDs BY <1>2 DEF Worker
  <2>3. o \in ObjOf(r[1]) BY <1>3, <2>1, <2>2, StatusKind
  <2>4. o.mark = cache[r].mark BY <1>3, <2>1, ObjKind DEF AppObj, PlaneObj
  <2> HIDE DEF o, x
  <2>5. Plain(r, o) BY <1>3, <1>5, <2>1, <2>4 DEF Plain, IsDeleted
  <2> QED BY <1>5, <2>3, <2>5, WritePlain
<1> QED BY <1>1, <1>4, <1>5, StepPlain, FailPlain

\* Only a Deployment that terminates loses its finalizer, seen in a current copy.
LEMMA DepFinishPlain == ASSUME TInv, NInv, DepFinish PROVE OneWrite
<1>1. "dep" \in Kinds /\ w["dep"].pc = "finish" BY DEF Kinds, DepFinish
<1>2. PICK r \in Ref : r = w["dep"].key /\ r[1] = "dep" BY <1>1, BusyOK DEF TInv
<1>3. CASE w["dep"].in.term /\ Current("dep", r) /\ Write("dep", r, Nil, Idle)
  <2>1. api[r].term BY <1>1, <1>2, <1>3 DEF NInv, DepWorker, HoldsCurrent, Current
  <2>2. Plain(r, Nil) BY <1>2, <2>1 DEF Plain
  <2> QED BY <1>3, <2>2, WritePlain
<1> QED BY <1>1, <1>2, <1>3, StepPlain, FailPlain DEF DepFinish, Update, Put, LeftAlone

LEMMA WorkPlain ==
    ASSUME TInv, NInv, NEW k \in Kinds, HandlerFails(k) \/ Work(k)
    PROVE  Restart \/ (OneWrite /\ UNCHANGED cache)
<1> SUFFICES ASSUME ~Restart PROVE OneWrite /\ UNCHANGED cache OBVIOUS
<1>1. DropEvent(k) \/ Begin(k) \/ List(k) \/ DepList => OneWrite
  BY StepPlain DEF DropEvent, Begin, List, DepList
<1>2. HandlerFails(k) \/ RejectMark(k) => OneWrite
  BY FailPlain DEF HandlerFails, RejectMark
<1>3. k = "sd" /\ SdDefaults => OneWrite
  BY FailPlain, StepPlain DEF SdDefaults
<1>4. ~Panic(k) BY DEF Panic
<1>5. UNCHANGED cache BY WorkCache
<1> QED BY <1>1, <1>2, <1>3, <1>4, <1>5, FinishPlain, ItemPlain, SdInitializePlain,
           SdDeployPlain, SdUndeployPlain, DepStatusPlain, DepFinishPlain
        DEF Work

LEMMA OperatorPlain ==
    ASSUME TInv, NInv, [Next]_vars
    PROVE  \/ User
           \/ /\ Restart \/ (\E k \in Kinds : Deliver(k)) \/ (OneWrite /\ UNCHANGED cache)
              /\ hist'.asked = hist.asked /\ hist'.born = hist.born /\ budget'.ops = budget.ops
<1>1. ASSUME ~User PROVE hist'.asked = hist.asked /\ hist'.born = hist.born /\ budget'.ops = budget.ops
  <2>1. budget \in [ops : Nat, faults : Nat, crashes : Nat] BY DEF TInv, RestType
  <2>2. [budget EXCEPT !.faults = @ + 1].ops = budget.ops
        /\ [budget EXCEPT !.crashes = @ + 1].ops = budget.ops
    BY <2>1
  <2>3. \A L : [hist EXCEPT !.lost = L].asked = hist.asked /\ [hist EXCEPT !.lost = L].born = hist.born
    BY DEF TInv, RestType
  <2>4. hist' = hist \/ \E L : hist' = [hist EXCEPT !.lost = L]
    BY <1>1 DEF Next, vars, Crash, Restart, Initialized, Ready, Resync, Deliver,
       HandlerFails, Work, DropEvent, Begin, RejectMark, Finish, List, Item, Panic, SdDefaults,
       SdInitialize, SdDeploy, SdUndeploy, DepList, DepStatus, DepFinish, Frame
  <2>5. budget'.ops = budget.ops
    BY <1>1, <2>2 DEF Next, vars, Crash, Restart, Initialized, Ready, Resync, Deliver,
       HandlerFails, Work, DropEvent, Begin, RejectMark, Finish, List, Item, Panic, SdDefaults,
       SdInitialize, SdDeploy, SdUndeploy, DepList, DepStatus, DepFinish, Frame
  <2> QED BY <2>3, <2>4, <2>5
<1>2. Crash => Restart BY DEF Crash
<1>3. Initialized \/ Ready \/ Resync \/ UNCHANGED vars => OneWrite /\ UNCHANGED cache
  BY DEF Initialized, Ready, Resync, vars, OneWrite
<1> QED BY <1>1, <1>2, <1>3, WorkPlain DEF Next

-----------------------------------------------------------------------------
(* A marked SQBDeployment is deleted after its Deployment. *)

LEMMA SdCourse ==
    ASSUME TInv, CopyInv, [Next]_vars, w'["sd"].pc = "finish"
    PROVE  \/ SdDeploy \/ SdUndeploy
           \/ w'["sd"].pc = w["sd"].pc /\ w'["sd"].key = w["sd"].key /\ w'["sd"].in = w["sd"].in
<1>1. "sd" \in Kinds /\ "user" # "sd" /\ Idle.pc # "finish" /\ StoreInv BY DEF Kinds, Idle, TInv
<1>2. CASE User BY <1>1, <1>2, UserEffect DEF Effect
<1>3. CASE Crash BY <1>1, <1>3 DEF Crash, Restart
<1>4. CASE Initialized \/ Ready \/ Resync \/ UNCHANGED vars
  BY <1>4 DEF Initialized, Ready, Resync, vars
<1>5. ASSUME NEW k \in Kinds, Deliver(k) PROVE w' = w BY <1>5 DEF Deliver
<1>6. ASSUME NEW k \in Kinds, HandlerFails(k) \/ Work(k), k # "sd"
      PROVE  Restart \/ (w'["sd"].pc = w["sd"].pc /\ w'["sd"].key = w["sd"].key /\ w'["sd"].in = w["sd"].in)
  BY <1>1, <1>6, WorkGood DEF Good, Effect
<1>7. \A next : Step("sd", next) => w'["sd"] = next BY <1>1 DEF Step, StoreInv
<1>8. \A r, o, next : Write("sd", r, o, next) => w'["sd"] = next BY <1>1 DEF Write
<1>9. ~Fail("sd") /\ ~GiveUp("sd")
  BY <1>1, ReportIdle DEF Fail, GiveUp
<1>10. ASSUME HandlerFails("sd") \/ Work("sd")
       PROVE  SdDeploy \/ SdUndeploy \/ w'["sd"] = w["sd"]
  <2>1. ~HandlerFails("sd") /\ ~RejectMark("sd") BY <1>9 DEF HandlerFails, RejectMark
  <2>2. DropEvent("sd") => w'["sd"] = w["sd"] BY <1>7 DEF DropEvent
  <2>3. ~Begin("sd")
    <3> SUFFICES ASSUME Begin("sd") PROVE FALSE OBVIOUS
    <3>1. PICK r \in queue :
            \/ Step("sd", Idle)
            \/ Step("sd", [Idle EXCEPT !.pc = "operate", !.key = r, !.in = cache[r],
                                       !.fresh = Fresh({r})])
      BY DEF Begin
    <3>2. [Idle EXCEPT !.pc = "operate", !.key = r, !.in = cache[r], !.fresh = Fresh({r})].pc = "operate"
      BY DEF Idle
    <3> QED BY <1>1, <1>7, <3>1, <3>2
  <2>4. ~Finish("sd") BY <1>1, <1>7, <1>8, <1>9 DEF Finish, Put, LeftAlone
  <2>5. ~SdDefaults
    <3> SUFFICES ASSUME SdDefaults PROVE FALSE OBVIOUS
    <3>1. w["sd"] \in Worker BY <1>1, BusyOK DEF SdDefaults
    <3>2. \A i : [w["sd"] EXCEPT !.pc = "init", !.in = i].pc = "init" BY <3>1 DEF Worker
    <3> QED BY <1>1, <1>7, <1>9, <3>2 DEF SdDefaults
  <2>6. ~SdInitialize
    <3> SUFFICES ASSUME SdInitialize PROVE FALSE OBVIOUS
    <3>1. w["sd"] \in Worker BY <1>1, BusyOK DEF SdInitialize
    <3>2. [w["sd"] EXCEPT !.pc = "operate"].pc = "operate" BY <3>1 DEF Worker
    <3> QED BY <1>7, <1>8, <1>9, <3>2 DEF SdInitialize, Update, Put, LeftAlone
  <2>7. ~Panic("sd") /\ ~List("sd") /\ ~Item("sd") BY DEF Panic, List, Item
  <2> QED BY <1>10, <2>1, <2>2, <2>3, <2>4, <2>5, <2>6, <2>7 DEF Work
<1>11. ~Restart BY <1>1 DEF Restart
<1> QED BY <1>2, <1>3, <1>4, <1>5, <1>6, <1>10, <1>11 DEF Next

\* Users leave Deployments alone.
LEMMA UserDeployments ==
    ASSUME TInv, User, NEW s \in SDs
    PROVE  api'[<<"dep", s>>] = api[<<"dep", s>>]
<1>1. PICK r \in Ref : \/ UserCreate(r) \/ UserMark(r) \/ UserMismark(r)
                       \/ UserDelete(r) \/ UserToggleIstio(r)
  BY DEF User
<1>2. \A act, o : UserWrite(act, r, o) => api' = [api EXCEPT ![r] = o] BY DEF UserWrite, Write
<1>3. r[1] # "dep" /\ \E o : api' = [api EXCEPT ![r] = o]
  BY <1>1, <1>2 DEF UserCreate, UserMark, UserMismark, UserDelete, UserToggleIstio
<1>4. <<"dep", s>> \in Ref /\ <<"dep", s>> # r BY <1>3, DepRef
<1> QED BY <1>3, <1>4 DEF TInv, StoreInv, Objects

LEMMA EndedStays == ASSUME TInv, CopyInv, NInv, Ended, [Next]_vars PROVE Ended'
<1> SUFFICES ASSUME w'["sd"].pc = "finish", IsDeleted(w'["sd"].in)
             PROVE  ~Counts(api'[<<"dep", w'["sd"].key[2]>>])
  BY DEF Ended
<1>0. "sd" \in Kinds /\ StoreInv /\ api \in [Ref -> AnyObj \cup {Nil}]
  BY DEF Kinds, TInv, StoreInv, Objects
<1>1. ~SdDeploy
  <2> SUFFICES ASSUME SdDeploy PROVE FALSE OBVIOUS
  <2>1. w["sd"] \in Worker /\ w["sd"].in.mark = "none" BY <1>0, BusyOK DEF SdDeploy
  <2> DEFINE x == [w["sd"] EXCEPT !.pc = "finish"]
  <2>2. x.in = w["sd"].in BY <2>1 DEF Worker
  <2>3. w'["sd"] \in {Idle, x}
    <3>1. Fail("sd") => w'["sd"] = Idle BY <1>0, ReportIdle DEF Fail
    <3>2. \A r, o : Write("sd", r, o, x) => w'["sd"] = x BY <1>0 DEF Write
    <3>3. Step("sd", x) => w'["sd"] = x BY <1>0 DEF Step, StoreInv
    <3> QED BY <3>1, <3>2, <3>3 DEF SdDeploy, LeftAlone
  <2> HIDE DEF x
  <2> QED BY <2>1, <2>2, <2>3 DEF Idle, IsDeleted
<1>2. CASE SdUndeploy
  <2>1. w["sd"] \in Worker /\ w["sd"].key \in Ref /\ w["sd"].key[1] = "sd"
    BY <1>0, <1>2, BusyOK DEF SdUndeploy
  <2>2. PICK r \in Ref : r = <<"dep", w["sd"].key[2]>> /\ r[1] = "dep" BY <2>1, RefKind
  <2> DEFINE x == [w["sd"] EXCEPT !.pc = "finish"]
             o == AfterDelete("dep", api[r])
  <2>3. Write("sd", r, o, x) /\ x.key = w["sd"].key BY <1>2, <2>1, <2>2 DEF SdUndeploy, Worker
  <2>4. api[r] \in DepObj \cup {Nil} BY <1>0, <2>2, ObjKind DEF StoreInv, Objects
  <2>5. ~Counts(o) BY <2>4 DEF AfterDelete, Counts, DepObj
  <2> HIDE DEF x, o
  <2>6. api'[r] = o /\ w'["sd"] = x BY <1>0, <2>3 DEF Write
  <2> QED BY <2>2, <2>3, <2>5, <2>6
<1>3. CASE ~SdUndeploy
  <2>1. w'["sd"].pc = w["sd"].pc /\ w'["sd"].key = w["sd"].key /\ w'["sd"].in = w["sd"].in
    BY <1>1, <1>3, SdCourse
  <2>2. PICK s \in SDs : s = w["sd"].key[2] BY <1>0, <2>1, BusyOK, RefKind
  <2>3. ~Counts(api[<<"dep", s>>]) BY <2>1, <2>2 DEF Ended
  <2>4. ~Counts(api'[<<"dep", s>>])
    <3>1. CASE User BY <2>3, <3>1, UserDeployments
    <3>2. CASE UNCHANGED api BY <2>3, <3>2
    <3>3. ASSUME NEW r \in Ref, NEW o, Sent(r, o), Plain(r, o)
          PROVE  ~Counts(api'[<<"dep", s>>])
      <4>1. <<"dep", s>> \in Ref BY DepRef
      <4>2. CASE r = <<"dep", s>> BY <1>0, <1>1, <2>3, <3>3, <4>2 DEF Plain, Sent, Counts
      <4>3. CASE r # <<"dep", s>> BY <1>0, <2>3, <3>3, <4>1, <4>3 DEF Sent
      <4> QED BY <4>2, <4>3
    <3> QED BY <3>1, <3>2, <3>3, OperatorPlain DEF OneWrite, Restart, Deliver
  <2> QED BY <2>1, <2>2, <2>4
<1> QED BY <1>2, <1>3

LEMMA AllInvariant == Spec => []AllInv
<1>1. Init => Ended BY DEF Init, Ended, Idle, Kinds
<1>2. Init => AllInv BY <1>1, InitInv, InitSound, InitCopies, InitNamed DEF AllInv
<1>3. AllInv /\ [Next]_vars => AllInv'
  BY NextInv, NextSound, CopiesStay, NamedStays, EndedStays DEF AllInv
<1> QED BY <1>2, <1>3, PTL DEF Spec

-----------------------------------------------------------------------------
(* The promise's view of the API server. *)

There == {r \in Owners \cup Children : api[r] # Nil}
MarkedOnes == {r \in Owners \cup Children : api[r] # Nil /\ IsDeleted(api[r])}
Loads == [c \in Children |-> Workload(api[<<"dep", c[2]>>])]
Listed == [r \in Owners |-> IF api[r] = Nil THEN {} ELSE {"sd"} \X api[r].mirrors]

LEMMA View ==
    /\ \A r : r \in Owners <=> r \in Ref /\ r[1] \in {"app", "plane"}
    /\ \A r : r \in Children <=> r \in Ref /\ r[1] = "sd"
    /\ \A c \in Children : c[2] \in SDs /\ c = <<"sd", c[2]>> /\ <<"dep", c[2]>> \in Ref
    /\ \A s \in SDs : <<"sd", s>> \in Children /\ <<"sd", s>>[2] = s
<1>1. \A r : r \in Children <=> r \in Ref /\ r[1] = "sd"
  <2> TAKE r
  <2>1. ASSUME r \in Children PROVE r \in Ref /\ r[1] = "sd" BY <2>1 DEF Children, Ref
  <2>2. ASSUME r \in Ref, r[1] = "sd" PROVE r \in Children BY <2>2, RefKind DEF Children
  <2> QED BY <2>1, <2>2
<1>2. \A c \in Children : c[2] \in SDs /\ c = <<"sd", c[2]>> BY DEF Children
<1> QED BY <1>1, <1>2, DepRef DEF Owners, Children

\* Both modules mean the same by asked.
LEMMA AskedView ==
    ASSUME TInv, NEW c \in Children
    PROVE  Asked(c[2]) <=> D!Asked(c)
<1>1. c = <<"sd", c[2]>> /\ c[2] \in SDs BY View
<1>2. hist.asked \subseteq Ref BY DEF TInv, RestType
<1>3. ASSUME NEW r \in hist.asked PROVE Selects(r, c[2]) <=> <<r, c>> \in Owns
  <2>1. Selects(r, c[2]) => r \in Owners BY <1>2, View, DepRef
  <2> QED BY <2>1 DEF Owns
<1> QED BY <1>1, <1>3 DEF Asked, D!Asked

\* What may be asked for, as the invariant of LifecycleProofs says it.
LEMMA MayAsked ==
    ASSUME TInv, NEW r \in Ref, r[1] \in {"sd", "dep"}, May(hist.asked, r)
    PROVE  Asked(r[2])
  BY DEF May, Asked

LEMMA Same ==
    ASSUME There' = There, MarkedOnes' = MarkedOnes, Loads' = Loads, Listed' = Listed,
           hist'.asked = hist.asked, budget'.ops = budget.ops
    PROVE  UNCHANGED D!vars
  BY DEF D!vars, There, MarkedOnes, Loads, Listed

\* An object that nothing is written to looks as before.
LEMMA OneObject ==
    ASSUME TInv, NEW r \in Ref, NEW o, api' = [api EXCEPT ![r] = o]
    PROVE  /\ api'[r] = o /\ \A z \in Ref : z # r => api'[z] = api[z]
           /\ r \notin Owners => Listed' = Listed
           /\ r[1] # "dep" => Loads' = Loads
           /\ r[1] = "dep" => There' = There /\ MarkedOnes' = MarkedOnes
<1>1. api'[r] = o /\ \A z \in Ref : z # r => api'[z] = api[z] BY DEF TInv, StoreInv, Objects
<1>2. ASSUME r \notin Owners PROVE Listed' = Listed
  <2>1. \A z \in Owners : z \in Ref /\ z # r BY <1>2, View
  <2>2. \A z \in Owners : api'[z] = api[z] BY <1>1, <2>1
  <2> QED BY <2>2 DEF Listed
<1>3. ASSUME r[1] # "dep" PROVE Loads' = Loads
  <2>1. ASSUME NEW c \in Children PROVE <<"dep", c[2]>> # r /\ <<"dep", c[2]>> \in Ref
    <3>1. <<"dep", c[2]>> \in Ref BY View
    <3>2. <<"dep", c[2]>>[1] = "dep" OBVIOUS
    <3> QED BY <1>3, <3>1, <3>2
  <2>2. \A c \in Children : api'[<<"dep", c[2]>>] = api[<<"dep", c[2]>>] BY <1>1, <2>1
  <2> QED BY <2>2 DEF Loads
<1>4. ASSUME r[1] = "dep" PROVE There' = There /\ MarkedOnes' = MarkedOnes
  <2>1. \A z \in Owners \cup Children : z \in Ref /\ z # r BY <1>4, View
  <2>2. \A z \in Owners \cup Children : api'[z] = api[z] BY <1>1, <2>1
  <2> QED BY <2>2 DEF There, MarkedOnes
<1> QED BY <1>1, <1>2, <1>3, <1>4

\* Something of the promise's goes, with its mark and its status.
LEMMA GoneView ==
    ASSUME TInv, NEW r \in Owners \cup Children, api[r] # Nil, api' = [api EXCEPT ![r] = Nil]
    PROVE  D!Gone(r) /\ Loads' = Loads
<1>1. r \in Ref /\ r[1] # "dep" BY View
<1>2. api'[r] = Nil /\ \A z \in Ref : z # r => api'[z] = api[z] BY <1>1, OneObject
<1>3. \A z \in Owners \cup Children : z \in Ref BY View
<1>4. Loads' = Loads BY <1>1, OneObject
<1>5. There' = There \ {r} /\ MarkedOnes' = MarkedOnes \ {r} /\ r \in There
  BY <1>2, <1>3 DEF There, MarkedOnes
<1>6. Listed' = [x \in Owners |-> IF x = r THEN {} ELSE Listed[x]]
  BY <1>2, <1>3 DEF Listed
<1> QED BY <1>4, <1>5, <1>6 DEF D!Gone, There, MarkedOnes, Listed

-----------------------------------------------------------------------------
(* The operator's steps. *)

\* A step of the operator, with what the invariants say before and after it.
OperatorStep ==
    /\ AllInv /\ AllInv' /\ [Next]_vars /\ ~User
    /\ hist'.asked = hist.asked /\ budget'.ops = budget.ops

LEMMA SdStep ==
    ASSUME OperatorStep, NEW r \in Ref, r[1] = "sd", NEW o, api' = [api EXCEPT ![r] = o], Plain(r, o)
    PROVE  [D!Next]_(D!vars)
<1>1. TInv /\ TInv' /\ SInv' /\ Ended /\ CopyInv /\ hist'.asked = hist.asked /\ budget'.ops = budget.ops
  BY DEF OperatorStep, AllInv
<1>2. r \in Children /\ r \notin Owners BY View
<1>3. api'[r] = o /\ Listed' = Listed /\ Loads' = Loads /\ \A z \in Ref : z # r => api'[z] = api[z]
  BY <1>1, <1>2, OneObject
<1>4. \A z \in Owners \cup Children : z \in Ref BY View
<1>5. Tame BY <1>1, CopiesStay DEF OperatorStep
<1>6. CASE o = Nil /\ api[r] = Nil
  <2>1. There' = There /\ MarkedOnes' = MarkedOnes
    BY <1>3, <1>4, <1>6 DEF There, MarkedOnes
  <2> QED BY <1>1, <1>3, <2>1, Same
<1>7. CASE o = Nil /\ api[r] # Nil
  <2>1. D!Gone(r) /\ Loads' = Loads BY <1>1, <1>2, <1>7, GoneView
  <2>2. Asked(r[2]) 
    <3>1. r \in hist.asked => Asked(r[2]) BY <1>2, View DEF Asked
    <3> QED BY <1>3, <1>7, <3>1, RemovesAsked DEF OperatorStep, AllInv
  <2>3. D!Asked(r) BY <1>1, <1>2, <2>2, AskedView
  <2>4. ~Counts(api[<<"dep", r[2]>>]) BY <1>1, <1>7 DEF Plain, Ended
  <2>5. Loads[r] # "running" BY <1>2, <2>4 DEF Loads, Workload, Counts
  <2>6. D!RemoveChild(r) BY <2>1, <2>3, <2>5 DEF D!RemoveChild, Loads
  <2> QED BY <1>1, <1>2, <2>6 DEF D!Next, D!Operator
<1>8. CASE o # Nil
  <2>1. api[r] # Nil /\ (IsDeleted(api[r]) => IsDeleted(o)) BY <1>3, <1>5, <1>8 DEF Tame
  <2>2. There' = There BY <1>3, <1>4, <1>8, <2>1 DEF There
  <2>3. CASE IsDeleted(o) <=> IsDeleted(api[r])
    <3>1. MarkedOnes' = MarkedOnes BY <1>3, <1>4, <1>8, <2>1, <2>3 DEF MarkedOnes
    <3> QED BY <1>1, <1>3, <2>2, <3>1, Same
  <2>4. CASE IsDeleted(o)
    <3>1. MarkedOnes' = MarkedOnes \cup {r}
      BY <1>2, <1>3, <1>4, <1>8, <2>4 DEF MarkedOnes
    <3>2. Sound(hist.asked, r, api'[r]) BY <1>1 DEF SInv
    <3>3. May(hist.asked, r) BY <1>3, <1>8, <2>4, <3>2 DEF Sound, Doomed
    <3>4. D!Asked(r) BY <1>1, <1>2, <3>3, MayAsked, AskedView
    <3>5. r \in There BY <1>2, <2>1 DEF There
    <3>6. D!Mark(r) BY <1>3, <2>2, <3>1, <3>4, <3>5 DEF D!Mark, There, MarkedOnes, Loads, Listed
    <3> QED BY <1>1, <1>2, <3>6 DEF D!Next, D!Operator
  <2> QED BY <2>1, <2>3, <2>4
<1> QED BY <1>6, <1>7, <1>8

LEMMA OwnerStep ==
    ASSUME OperatorStep, NEW r \in Ref, r[1] \in {"app", "plane"}, NEW o,
           api' = [api EXCEPT ![r] = o], Plain(r, o)
    PROVE  [D!Next]_(D!vars)
<1>1. /\ TInv /\ TInv' /\ SInv' /\ NInv' /\ CopyInv
      /\ hist'.asked = hist.asked /\ budget'.ops = budget.ops
  BY DEF OperatorStep, AllInv
<1>2. r \in Owners /\ r[1] # "dep" BY View
<1>3. api'[r] = o /\ Loads' = Loads /\ \A z \in Ref : z # r => api'[z] = api[z]
  BY <1>1, <1>2, OneObject
<1>4. \A z \in Owners \cup Children : z \in Ref BY View
<1>5. Tame BY <1>1, CopiesStay DEF OperatorStep
<1>6. CASE o = Nil /\ api[r] = Nil
  <2>1. There' = There /\ MarkedOnes' = MarkedOnes /\ Listed' = Listed
    BY <1>3, <1>4, <1>6 DEF There, MarkedOnes, Listed
  <2> QED BY <1>1, <1>3, <2>1, Same
<1>7. CASE o = Nil /\ api[r] # Nil
  <2>1. D!Gone(r) /\ Loads' = Loads BY <1>1, <1>2, <1>7, GoneView
  <2>2. r \in hist.asked
    BY <1>2, <1>3, <1>7, RemovesAsked DEF OperatorStep, AllInv
  <2>3. D!RemoveOwner(r) BY <2>1, <2>2 DEF D!RemoveOwner, Loads
  <2> QED BY <1>1, <1>2, <2>3 DEF D!Next, D!Operator
<1>8. CASE o # Nil
  <2>1. api[r] # Nil /\ (IsDeleted(api[r]) => IsDeleted(o)) BY <1>2, <1>3, <1>5, <1>8 DEF Tame
  <2>2. IsDeleted(o) => IsDeleted(api[r]) BY <1>8 DEF Plain
  <2>3. There' = There /\ MarkedOnes' = MarkedOnes
    BY <1>3, <1>4, <1>8, <2>1, <2>2 DEF There, MarkedOnes
  <2> DEFINE C == {"sd"} \X o.mirrors
  <2>4. C \in SUBSET D!Deployed
    <3> SUFFICES ASSUME NEW s \in o.mirrors PROVE <<"sd", s>> \in D!Deployed OBVIOUS
    <3>1. Selects(r, s) /\ api'[<<"dep", s>>] # Nil BY <1>1, <1>3, <1>8 DEF NInv, Named
    <3>2. s \in SDs /\ <<"sd", s>> \in Children /\ <<"sd", s>>[2] = s BY <3>1, DepRef, View
    <3>3. api'[<<"dep", s>>] = api[<<"dep", s>>]
      <4>1. <<"dep", s>> \in Ref /\ <<"dep", s>>[1] = "dep" BY <3>2, DepRef
      <4> QED BY <1>2, <1>3, <4>1
    <3>4. Workload(api[<<"dep", s>>]) # "none" BY <3>1, <3>3 DEF Workload
    <3> QED BY <3>2, <3>4 DEF D!Deployed
  <2>5. Listed' = [Listed EXCEPT ![r] = C]
    BY <1>2, <1>3, <1>4, <1>8 DEF Listed
  <2>6. r \in There BY <1>2, <2>1 DEF There
  <2> HIDE DEF C
  <2>7. D!List(r)
    BY <1>3, <2>3, <2>4, <2>5, <2>6 DEF D!List, There, MarkedOnes, Loads, Listed
  <2> QED BY <1>1, <1>2, <2>7 DEF D!Next, D!Operator
<1> QED BY <1>6, <1>7, <1>8

LEMMA WorkloadStep ==
    ASSUME OperatorStep, NEW r \in Ref, r[1] = "dep", NEW o, api' = [api EXCEPT ![r] = o], Plain(r, o)
    PROVE  [D!Next]_(D!vars)
<1>1. /\ TInv /\ TInv' /\ SInv' /\ NInv'
      /\ hist'.asked = hist.asked /\ budget'.ops = budget.ops
  BY DEF OperatorStep, AllInv
<1>2. r \notin Owners BY View
<1>3. /\ api'[r] = o /\ Listed' = Listed /\ There' = There /\ MarkedOnes' = MarkedOnes
      /\ \A z \in Ref : z # r => api'[z] = api[z]
  BY <1>1, <1>2, OneObject
<1>4. PICK s \in SDs : r = <<"dep", s>> BY DepRef
<1>5. PICK c \in Children : c = <<"sd", s>> /\ c[2] = s BY <1>4, View
<1>6. Loads' = [Loads EXCEPT ![c] = Workload(o)] /\ Loads[c] = Workload(api[r])
  <2>1. \A d \in Children : d # c => <<"dep", d[2]>> # r /\ <<"dep", d[2]>> \in Ref
    BY <1>4, <1>5, View
  <2>2. \A d \in Children : d # c => api'[<<"dep", d[2]>>] = api[<<"dep", d[2]>>] BY <1>3, <2>1
  <2>3. ASSUME NEW d \in Children PROVE Loads'[d] = IF d = c THEN Workload(o) ELSE Loads[d]
    <3>1. /\ Loads'[d] = Workload(api'[<<"dep", d[2]>>])
          /\ Loads[d] = Workload(api[<<"dep", d[2]>>])
      BY DEF Loads
    <3>2. CASE d = c
      <4>1. <<"dep", d[2]>> = r BY <1>4, <1>5, <3>2
      <4> QED BY <1>3, <3>1, <3>2, <4>1
    <3>3. CASE d # c BY <2>2, <3>1, <3>3
    <3> QED BY <3>2, <3>3
  <2>4. Loads = [d \in Children |-> Loads[d]] /\ Loads' = [d \in Children |-> Loads'[d]]
    BY DEF Loads
  <2>5. Loads[c] = Workload(api[r]) BY <1>4, <1>5 DEF Loads
  <2> HIDE DEF Loads
  <2> QED BY <2>3, <2>4, <2>5
<1>7. CASE Workload(o) = Workload(api[r])
  <2>1. Loads' = Loads
    <3>1. Loads = [d \in Children |-> Loads[d]] BY DEF Loads
    <3> HIDE DEF Loads
    <3> QED BY <1>6, <1>7, <3>1
  <2> QED BY <1>1, <1>3, <2>1, Same
<1>8. CASE o = Nil /\ api[r] # Nil
  <2>1. Workload(api[r]) = "ending" /\ Workload(o) = "none" BY <1>8 DEF Plain, Workload
  <2>2. \A x \in Owners : c \notin Listed[x]
    <3> SUFFICES ASSUME NEW x \in Owners, c \in Listed[x] PROVE FALSE OBVIOUS
    <3>1. x \in Ref /\ x[1] \in {"app", "plane"} /\ c \in Listed'[x] BY <1>3, View
    <3>2. api'[x] # Nil /\ c \in {"sd"} \X api'[x].mirrors BY <3>1 DEF Listed
    <3>3. s \in api'[x].mirrors BY <1>5, <3>2
    <3> QED BY <1>1, <1>3, <1>4, <1>8, <3>1, <3>2, <3>3 DEF NInv, Named
  <2>3. D!Workload(c, "ending", "none")
    BY <1>3, <1>6, <2>1 DEF D!Workload, There, MarkedOnes, Loads, Listed
  <2>4. D!Vanish(c) BY <2>2, <2>3 DEF D!Vanish, Listed
  <2> QED BY <1>1, <2>4 DEF D!Next, D!Operator
<1>9. CASE o # Nil /\ api[r] = Nil
  <2>1. Workload(api[r]) = "none" /\ Workload(o) = "running" BY <1>9 DEF Plain, Workload
  <2>2. D!Deploy(c)
    BY <1>3, <1>6, <2>1 DEF D!Deploy, D!Workload, There, MarkedOnes, Loads, Listed
  <2> QED BY <1>1, <2>2 DEF D!Next, D!Operator
<1>10. CASE o # Nil /\ api[r] # Nil /\ Workload(o) # Workload(api[r])
  <2>1. Workload(api[r]) = "running" /\ Workload(o) = "ending" /\ o.term
    BY <1>10 DEF Plain, Workload
  <2>2. Sound(hist.asked, r, api'[r]) BY <1>1 DEF SInv
  <2>3. May(hist.asked, r) BY <1>3, <1>10, <2>1, <2>2 DEF Sound, Doomed
  <2>4. D!Asked(c)
    <3>1. Asked(s) BY <1>1, <1>4, <2>3, MayAsked
    <3> QED BY <1>1, <1>5, <3>1, AskedView
  <2>5. D!Workload(c, "running", "ending")
    BY <1>3, <1>6, <2>1 DEF D!Workload, There, MarkedOnes, Loads, Listed
  <2> QED BY <1>1, <2>4, <2>5 DEF D!Next, D!Operator, D!End
<1> QED BY <1>7, <1>8, <1>9, <1>10

LEMMA OperatorMaps ==
    ASSUME AllInv, AllInv', [Next]_vars, ~User
    PROVE  [D!Next]_(D!vars)
<1>1. OperatorStep /\ (UNCHANGED api \/ OneWrite)
  BY OperatorPlain DEF OperatorStep, AllInv, Restart, Deliver
<1>2. CASE UNCHANGED api
  <2>1. There' = There /\ MarkedOnes' = MarkedOnes /\ Loads' = Loads /\ Listed' = Listed
    BY <1>2 DEF There, MarkedOnes, Loads, Listed
  <2> QED BY <1>1, <2>1, Same DEF OperatorStep
<1>3. ASSUME NEW r \in Ref, NEW o, Sent(r, o), Plain(r, o)
      PROVE  [D!Next]_(D!vars)
  <2>1. r[1] \in Kinds /\ api' = [api EXCEPT ![r] = o] BY <1>3, RefKind DEF Sent
  <2> QED BY <1>1, <1>3, <2>1, SdStep, OwnerStep, WorkloadStep DEF Kinds
<1> QED BY <1>1, <1>2, <1>3 DEF OneWrite

-----------------------------------------------------------------------------
(* The users' steps. *)

LEMMA UserMaps == ASSUME TInv, User PROVE [D!Next]_(D!vars)
<1>1. PICK r \in Ref : \/ UserCreate(r) \/ UserMark(r) \/ UserMismark(r)
                       \/ UserDelete(r) \/ UserToggleIstio(r)
  BY DEF User
<1>2. r[1] # "dep" /\ r \in Owners \cup Children
  <2>1. r[1] # "dep"
    BY <1>1 DEF UserCreate, UserMark, UserMismark, UserDelete, UserToggleIstio
  <2> QED BY <2>1, RefKind, View DEF Kinds
<1>3. api[r] \in ObjOf(r[1]) \cup {Nil} /\ r[1] \in Kinds BY RefKind DEF TInv, StoreInv, Objects
<1>4. ASSUME NEW act, NEW o, UserWrite(act, r, o)
      PROVE  /\ budget'.ops = budget.ops + 1 /\ Loads' = Loads /\ api' = [api EXCEPT ![r] = o]
             /\ api'[r] = o /\ \A z \in Owners \cup Children : z \in Ref /\ (z # r => api'[z] = api[z])
  <2>1. budget \in [ops : Nat, faults : Nat, crashes : Nat] BY DEF TInv, RestType
  <2>2. budget'.ops = budget.ops + 1 BY <1>4, <2>1 DEF UserWrite
  <2>3. api' = [api EXCEPT ![r] = o] BY <1>4 DEF UserWrite, Write
  <2>4. \A z \in Owners \cup Children : z \in Ref BY View
  <2> QED BY <1>2, <2>2, <2>3, <2>4, OneObject
\* A write that changes neither existence nor status.
<1>5. ASSUME NEW act, NEW o, UserWrite(act, r, o), api[r] # Nil, o # Nil,
             r \in Owners => o.mirrors = api[r].mirrors
      PROVE  There' = There /\ Listed' = Listed
  BY <1>4, <1>5 DEF There, Listed
<1>6. r \in Owners => r[1] \in {"app", "plane"} BY View
<1>7. ASSUME api[r] # Nil, NEW m \in Marks
      PROVE  /\ [api[r] EXCEPT !.mark = m] # Nil /\ [api[r] EXCEPT !.mark = m].mark = m
             /\ r \in Owners => [api[r] EXCEPT !.mark = m].mirrors = api[r].mirrors
  <2>1. [api[r] EXCEPT !.mark = m] \in ObjOf(r[1]) BY <1>2, <1>3, <1>7, FieldKind
  <2>2. [api[r] EXCEPT !.mark = m].mark = m
    BY <1>2, <1>3, <1>7, ObjKind DEF Kinds, AppObj, PlaneObj, SdObj
  <2> QED BY <1>3, <1>6, <1>7, <2>1, <2>2, ListedStays, ObjKind
<1>8. CASE UserCreate(r)
  <2> DEFINE o == NewObj(r[1])
  <2>1. PICK act : UserWrite(act, r, o) BY <1>8 DEF UserCreate
  <2>2. /\ api[r] = Nil /\ hist'.asked = hist.asked
    BY <1>8 DEF UserCreate, TInv, RestType
  <2>3. o # Nil BY <1>2, <1>3, NewObjKind, ObjKind
  <2>4. ~IsDeleted(o) /\ (r \in Owners => o.mirrors = {})
    BY <1>6 DEF NewObj, IsDeleted
  <2> HIDE DEF o
  <2>5. There' = There \cup {r} /\ r \notin There /\ MarkedOnes' = MarkedOnes
    BY <1>2, <1>4, <2>1, <2>2, <2>3, <2>4 DEF There, MarkedOnes
  <2>6. Listed' = Listed
    BY <1>4, <2>1, <2>2, <2>3, <2>4 DEF Listed
  <2>7. D!Create(r) BY <2>2, <2>5, <2>6 DEF D!Create, There, MarkedOnes, Listed
  <2> QED BY <1>2, <1>4, <2>1, <2>7 DEF D!Next, D!User, Loads
<1>9. CASE UserMark(r)
  <2> DEFINE o == [api[r] EXCEPT !.mark = "ok"]
  <2>1. UserWrite("mark", r, o) /\ api[r] # Nil BY <1>9 DEF UserMark
  <2>2. hist'.asked = hist.asked \cup {r} BY <1>9 DEF UserMark, TInv, RestType
  <2>3. o # Nil /\ IsDeleted(o) /\ (r \in Owners => o.mirrors = api[r].mirrors)
    BY <1>7, <2>1 DEF Marks, IsDeleted
  <2> HIDE DEF o
  <2>4. There' = There /\ Listed' = Listed BY <1>5, <2>1, <2>3
  <2>5. MarkedOnes' = MarkedOnes \cup {r} /\ r \in There
    BY <1>2, <1>4, <2>1, <2>3 DEF MarkedOnes, There
  <2>6. D!Ask(r) BY <2>2, <2>4, <2>5 DEF D!Ask, There, MarkedOnes, Listed
  <2> QED BY <1>2, <1>4, <2>1, <2>6 DEF D!Next, D!User, Loads
<1>10. CASE UserDelete(r)
  <2>1. UserWrite("delete", r, Nil) /\ api[r] # Nil /\ hist' = hist BY <1>10 DEF UserDelete
  <2>2. D!Gone(r) BY <1>2, <1>4, <2>1, GoneView
  <2>3. D!Delete(r) BY <2>1, <2>2 DEF D!Delete
  <2> QED BY <1>2, <1>4, <2>1, <2>3 DEF D!Next, D!User, Loads
\* An edit that the promise does not see.
<1>11. ASSUME NEW act, NEW o, UserWrite(act, r, o), api[r] # Nil, o # Nil, hist' = hist,
              r \in Owners => o.mirrors = api[r].mirrors, IsDeleted(o) <=> IsDeleted(api[r])
       PROVE  [D!Next]_(D!vars)
  <2>1. There' = There /\ Listed' = Listed BY <1>5, <1>11
  <2>2. MarkedOnes' = MarkedOnes BY <1>4, <1>11 DEF MarkedOnes
  <2>3. D!Edit BY <1>11, <2>1, <2>2 DEF D!Edit, There, MarkedOnes, Listed
  <2> QED BY <1>4, <1>11, <2>3 DEF D!Next, D!User, Loads
<1>12. CASE UserMismark(r)
  <2>1. UserWrite("mismark", r, [api[r] EXCEPT !.mark = "wrong"]) /\ api[r] # Nil
        /\ api[r].mark = "none" /\ hist' = hist
    BY <1>12 DEF UserMismark
  <2> QED BY <1>7, <1>11, <2>1 DEF Marks, IsDeleted
<1>13. CASE UserToggleIstio(r)
  <2> DEFINE o == [api[r] EXCEPT !.istio = ~@]
  <2>1. UserWrite("toggle", r, o) /\ api[r] # Nil /\ r[1] = "app" /\ hist' = hist
    BY <1>13 DEF UserToggleIstio
  <2>2. api[r] \in AppObj BY <1>3, <2>1, ObjKind
  <2>3. o \in AppObj /\ o.mark = api[r].mark /\ o.mirrors = api[r].mirrors BY <2>2 DEF AppObj
  <2>4. o # Nil BY <2>3, ObjKind DEF Kinds
  <2> HIDE DEF o
  <2> QED BY <1>11, <2>1, <2>3, <2>4 DEF IsDeleted
<1> QED BY <1>1, <1>8, <1>9, <1>10, <1>12, <1>13

-----------------------------------------------------------------------------
LEMMA InitMaps == ASSUME Init, TInv, NInv PROVE D!Init
<1>1. \A r \in Ref : api[r] = IF r \in Existing THEN SettledObj(r) ELSE Nil BY DEF Init
<1>2. \A r \in Owners \cup Children : r \in Ref /\ r[1] # "dep" BY View
<1>3. There \subseteq Owners \cup Children BY DEF There
<1>4. MarkedOnes = {}
  <2> SUFFICES ASSUME NEW r \in Owners \cup Children, api[r] # Nil, IsDeleted(api[r]) PROVE FALSE
    BY DEF MarkedOnes
  <2> DEFINE m == {s \in SDs : <<"dep", s>> \in Existing /\ Selects(r, s)}
  <2>1. r[1] \in {"app", "plane", "sd"} BY View
  <2>2. api[r] = IF r[1] = "sd" THEN [NewObj("sd") EXCEPT !.init = TRUE]
                 ELSE [NewObj(r[1]) EXCEPT !.mirrors = m]
    BY <1>1, <1>2, <2>1 DEF SettledObj
  <2> HIDE DEF m
  <2>3. api[r].mark = "none" BY <2>1, <2>2 DEF NewObj
  <2> QED BY <2>3 DEF IsDeleted
<1>5. Loads \in [Children -> {"none", "running"}]
  <2> SUFFICES ASSUME NEW c \in Children PROVE Workload(api[<<"dep", c[2]>>]) \in {"none", "running"}
    BY DEF Loads
  <2>1. <<"dep", c[2]>> \in Ref /\ <<"dep", c[2]>>[1] = "dep" BY View
  <2>2. api[<<"dep", c[2]>>] \in {Nil, NewDeployment(NewObj("sd"))}
    BY <1>1, <2>1 DEF SettledObj
  <2> QED BY <2>2 DEF Workload, NewDeployment
<1>6. Listed \in [Owners -> SUBSET D!Deployed]
  <2> SUFFICES ASSUME NEW r \in Owners, api[r] # Nil, NEW s \in api[r].mirrors
               PROVE  <<"sd", s>> \in D!Deployed
    BY DEF Listed
  <2>1. r \in Ref /\ r[1] \in {"app", "plane"} BY View
  <2>2. Selects(r, s) /\ api[<<"dep", s>>] # Nil BY <2>1 DEF NInv, Named
  <2>3. <<"sd", s>> \in Children /\ <<"sd", s>>[2] = s BY <2>2, DepRef, View
  <2>4. Workload(api[<<"dep", s>>]) # "none" BY <2>2 DEF Workload
  <2> QED BY <2>3, <2>4 DEF D!Deployed
<1>7. hist.asked = {} /\ budget.ops = 0 BY DEF Init
<1> QED BY <1>3, <1>4, <1>5, <1>6, <1>7 DEF D!Init, There, MarkedOnes, Loads, Listed

\* The operator keeps the promise of the delete annotation, whatever its caches lag behind,
\* its workers interleave, fail and crash: each of its steps is one of Deletion, or none.
THEOREM DeletionIsImplemented == Spec => ImplementsDeletion
<1>1. Init => D!Init
  <2> SUFFICES ASSUME Init PROVE D!Init OBVIOUS
  <2>1. TInv /\ NInv BY InitInv, InitNamed
  <2> QED BY <2>1, InitMaps
<1>2. AllInv /\ AllInv' /\ [Next]_vars => [D!Next]_(D!vars)
  BY OperatorMaps, UserMaps DEF AllInv
<1> QED BY <1>1, <1>2, AllInvariant, PTL DEF Spec, ImplementsDeletion, D!Spec

=============================================================================
