------------------------------ MODULE RestProofs ------------------------------
(***************************************************************************)
(* Nothing is left undone when nothing is left to do, for all constants of *)
(* Lifecycle.  The invariants say of every object at every moment: either  *)
(* its key waits, or an event is under way that the filter of its          *)
(* controller lets pass, or a worker has what it needs in its hands, or    *)
(* the object is as it should be.                                          *)
(***************************************************************************)
EXTENDS DeletionProofs

-----------------------------------------------------------------------------
(* Steps and events. *)

\* The last event of an object in a watch carries its present value.
LatestComes ==
    \A k \in Kinds : \A i \in 1 .. Len(watch[k]) : \E j \in 1 .. Len(watch[k]) :
        watch[k][j].ref = watch[k][i].ref /\ watch[k][j].obj = api[watch[k][i].ref] /\ i <= j

\* One object changes at most.
Posted ==
    \/ UNCHANGED <<api, watch>>
    \/ \E r \in Ref : \E o \in ObjOf(r[1]) \cup {Nil} : Sent(r, o)

\* What a user does to an object.
LEMMA UserSent ==
    ASSUME TInv, User
    PROVE  /\ UNCHANGED <<cache, queue>> /\ hist'.lost = hist.lost /\ hist.born \subseteq hist'.born
           /\ \E r \in Ref : \E o \in ObjOf(r[1]) \cup {Nil} :
                /\ r[1] # "dep" /\ Sent(r, o)
                /\ o # Nil /\ api[r] = Nil =>
                     r \in hist'.born /\ (r \in hist.born => "recreate" \in UserMay)
                /\ o # Nil /\ api[r] # Nil /\ IsDeleted(api[r]) => IsDeleted(o)
                /\ o # Nil /\ api[r] # Nil /\ r[1] # "sd" => o.mirrors = api[r].mirrors
<1>1. PICK r \in Ref : \/ UserCreate(r) \/ UserMark(r) \/ UserMismark(r)
                       \/ UserDelete(r) \/ UserToggleIstio(r)
  BY DEF User
<1>2. r[1] \in Kinds /\ api[r] \in ObjOf(r[1]) \cup {Nil} BY RefKind DEF TInv, StoreInv, Objects
<1>3. hist \in [born : SUBSET Ref, asked : SUBSET Ref, lost : SUBSET Ref] BY DEF TInv, RestType
<1>4. /\ UNCHANGED <<cache, queue>> /\ hist'.lost = hist.lost /\ hist.born \subseteq hist'.born
      /\ r[1] # "dep"
  BY <1>1, <1>3 DEF UserCreate, UserMark, UserMismark, UserDelete, UserToggleIstio, UserWrite
<1>5. \A act, o : UserWrite(act, r, o) => Sent(r, o) BY DEF UserWrite, Write, Sent
<1>6. ASSUME api[r] # Nil
      PROVE  /\ api[r] \in ObjOf(r[1])
             /\ \A m \in Marks : [api[r] EXCEPT !.mark = m] \in ObjOf(r[1])
             /\ \A m \in Marks : [api[r] EXCEPT !.mark = m].mark = m
             /\ r[1] # "sd" => \A m : [api[r] EXCEPT !.mark = m].mirrors = api[r].mirrors
  <2>1. api[r] \in ObjOf(r[1]) BY <1>2, <1>6
  <2>2. \A m \in Marks : [api[r] EXCEPT !.mark = m] \in ObjOf(r[1]) BY <1>2, <1>4, <2>1, FieldKind
  <2>3. \A m \in Marks : [api[r] EXCEPT !.mark = m].mark = m
    BY <1>2, <1>4, <2>1, ObjKind DEF Kinds, AppObj, PlaneObj, SdObj
  <2>4. r[1] # "sd" => \A m : [api[r] EXCEPT !.mark = m].mirrors = api[r].mirrors
    BY <1>2, <1>4, <2>1, ListedStays DEF Kinds
  <2> QED BY <2>1, <2>2, <2>3, <2>4
<1> DEFINE P(o) == /\ o \in ObjOf(r[1]) \cup {Nil} /\ Sent(r, o)
                   /\ o # Nil /\ api[r] = Nil =>
                        r \in hist'.born /\ (r \in hist.born => "recreate" \in UserMay)
                   /\ o # Nil /\ api[r] # Nil /\ IsDeleted(api[r]) => IsDeleted(o)
                   /\ o # Nil /\ api[r] # Nil /\ r[1] # "sd" => o.mirrors = api[r].mirrors
<1>7. CASE UserCreate(r)
  <2>1. NewObj(r[1]) \in ObjOf(r[1]) BY <1>2, <1>4, NewObjKind
  <2>2. Sent(r, NewObj(r[1])) /\ api[r] = Nil /\ r \in hist'.born
    BY <1>3, <1>5, <1>7 DEF UserCreate
  <2>3. r \in hist.born => "recreate" \in UserMay BY <1>7 DEF UserCreate, UserWrite
  <2>4. P(NewObj(r[1])) BY <2>1, <2>2, <2>3
  <2> QED BY <1>4, <2>4
<1>8. CASE UserMark(r)
  <2>1. Sent(r, [api[r] EXCEPT !.mark = "ok"]) /\ api[r] # Nil BY <1>5, <1>8 DEF UserMark
  <2>2. P([api[r] EXCEPT !.mark = "ok"]) BY <1>6, <2>1 DEF Marks, IsDeleted
  <2> QED BY <1>4, <2>2
<1>9. CASE UserMismark(r)
  <2>1. Sent(r, [api[r] EXCEPT !.mark = "wrong"]) /\ api[r] # Nil /\ ~IsDeleted(api[r])
    BY <1>5, <1>9 DEF UserMismark, IsDeleted
  <2>2. P([api[r] EXCEPT !.mark = "wrong"]) BY <1>6, <2>1 DEF Marks
  <2> QED BY <1>4, <2>2
<1>10. CASE UserDelete(r)
  <2>1. Sent(r, Nil) BY <1>5, <1>10 DEF UserDelete
  <2> QED BY <1>4, <2>1
<1>11. CASE UserToggleIstio(r)
  <2> DEFINE o == [api[r] EXCEPT !.istio = ~@]
  <2>1. Sent(r, o) /\ r[1] = "app" /\ api[r] # Nil BY <1>5, <1>11 DEF UserToggleIstio
  <2>2. api[r] \in AppObj BY <1>2, <2>1, ObjKind
  <2>3. o \in AppObj /\ o.mark = api[r].mark /\ o.mirrors = api[r].mirrors BY <2>2 DEF AppObj
  <2> HIDE DEF o
  <2>4. P(o) BY <2>1, <2>3, ObjKind DEF IsDeleted
  <2> QED BY <1>4, <2>4
<1> QED BY <1>1, <1>7, <1>8, <1>9, <1>10, <1>11

\* A step restarts the process, delivers an event, or writes one object at most.
LEMMA Moves ==
    ASSUME TInv, NInv, [Next]_vars
    PROVE  \/ Restart \/ (\E k \in Kinds : Deliver(k))
           \/ Posted /\ UNCHANGED cache
<1>1. CASE User
  <2>1. Posted /\ UNCHANGED cache BY <1>1, UserSent DEF Posted
  <2> QED BY <2>1
<1>2. OneWrite => Posted BY DEF OneWrite, Posted
<1> QED BY <1>1, <1>2, OperatorPlain

LEMMA PostedMail ==
    ASSUME StoreInv, Posted, NEW r \in Ref
    PROVE  Mail(r) \subseteq Mail(r)' /\ Mail(r)' \subseteq Mail(r) \cup {api'[r]}
           /\ (api'[r] # api[r] => api'[r] \in Mail(r)')
<1>1. CASE UNCHANGED <<api, watch>>
  <2>1. Mail(r)' = Mail(r) BY <1>1 DEF Mail
  <2> QED BY <1>1, <2>1
<1>2. ASSUME NEW z \in Ref, NEW o \in ObjOf(z[1]) \cup {Nil}, Sent(z, o)
      PROVE  Mail(r) \subseteq Mail(r)' /\ Mail(r)' \subseteq Mail(r) \cup {api'[r]}
             /\ (api'[r] # api[r] => api'[r] \in Mail(r)')
  <2>1. api'[z] = o /\ (r # z => api'[r] = api[r]) BY <1>2 DEF Sent, StoreInv, Objects
  <2>2. /\ r # z \/ o = api[z] => Mail(r)' = Mail(r)
        /\ o # api[z] => Mail(z)' = Mail(z) \cup {o}
    BY <1>2, SentMail
  <2>3. CASE r # z BY <2>1, <2>2, <2>3
  <2>4. CASE r = z
    <3>1. CASE o = api[z] BY <2>1, <2>2, <2>4, <3>1
    <3>2. CASE o # api[z] BY <2>1, <2>2, <2>4, <3>2
    <3> QED BY <3>1, <3>2
  <2> QED BY <2>3, <2>4
<1> QED BY <1>1, <1>2 DEF Posted

\* A cache with no event under way is up to date; else the newest event is.
LEMMA LastMail ==
    ASSUME StoreInv, LatestComes, NEW r \in Ref
    PROVE  (Mail(r) = {} /\ cache[r] = api[r]) \/ api[r] \in Mail(r)
<1>1. r[1] \in Kinds BY RefKind
<1>2. CASE Mail(r) = {} BY <1>2, NoMail DEF StoreInv, InSync
<1>3. CASE Mail(r) # {}
  <2>1. PICK i \in 1 .. Len(watch[r[1]]) : watch[r[1]][i].ref = r BY <1>3 DEF Mail
  <2>2. PICK j \in 1 .. Len(watch[r[1]]) : watch[r[1]][j].ref = r /\ watch[r[1]][j].obj = api[r]
    BY <1>1, <2>1 DEF LatestComes
  <2> QED BY <2>2 DEF Mail
<1> QED BY <1>2, <1>3

\* The events of the watch of k, one more or one less.
LEMMA WatchCourse ==
    ASSUME TInv, NInv, [Next]_vars, NEW k \in Kinds
    PROVE  LET q == watch[k]  n == Len(q)  p == watch'[k] IN
           /\ n \in Nat /\ \A i \in 1 .. n : q[i].ref \in Ref /\ q[i].ref[1] = k /\ q[i].obj \in Mail(q[i].ref)
           /\ \/ p = q /\ \A r \in Ref : r[1] = k => api'[r] = api[r]
              \/ /\ Len(p) = n + 1 /\ \A i \in 1 .. n : p[i] = q[i]
                 /\ p[n + 1].ref \in Ref /\ p[n + 1].obj = api'[p[n + 1].ref]
                 /\ \A r \in Ref : r # p[n + 1].ref => api'[r] = api[r]
              \/ n > 0 /\ Len(p) = n - 1 /\ UNCHANGED api /\ \A i \in 1 .. n - 1 : p[i] = q[i + 1]
              \/ Len(p) = 0
<1> DEFINE q == watch[k]
           n == Len(q)
<1>1. q \in Seq(Event) /\ n \in Nat /\ StoreInv BY DEF TInv, StoreInv
<1>2. \A i \in 1 .. n : q[i].ref \in Ref /\ q[i].ref[1] = k BY <1>1 DEF TInv, StoreInv, Latest, Event
<1>3. \A i \in 1 .. n : q[i].obj \in Mail(q[i].ref) BY <1>2 DEF Mail
<1>4. CASE Restart
  <2>1. watch'[k] = <<>> BY <1>4 DEF Restart
  <2> QED BY <1>1, <1>2, <1>3, <2>1
<1>5. ASSUME NEW c \in Kinds, Deliver(c)
      PROVE  /\ UNCHANGED api
             /\ \/ watch'[k] = q
                \/ n > 0 /\ Len(watch'[k]) = n - 1 /\ \A i \in 1 .. n - 1 : watch'[k][i] = q[i + 1]
  <2>1. watch' = [watch EXCEPT ![c] = Tail(@)] /\ watch[c] # <<>> /\ UNCHANGED api
    BY <1>5 DEF Deliver
  <2>2. CASE c # k BY <2>1, <2>2 DEF TInv, StoreInv
  <2>3. CASE c = k
    <3>1. watch'[k] = Tail(q) /\ q # <<>> BY <2>1, <2>3 DEF TInv, StoreInv
    <3>2. Len(Tail(q)) = n - 1 /\ n > 0 /\ \A i \in 1 .. n - 1 : Tail(q)[i] = q[i + 1] BY <1>1, <3>1
    <3> QED BY <2>1, <3>1, <3>2
  <2> QED BY <2>2, <2>3
<1>6. CASE UNCHANGED <<api, watch>> BY <1>1, <1>2, <1>3, <1>6
<1>7. ASSUME NEW r \in Ref, NEW o \in ObjOf(r[1]) \cup {Nil}, Sent(r, o)
      PROVE  \/ watch'[k] = q /\ \A z \in Ref : z[1] = k => api'[z] = api[z]
             \/ /\ Len(watch'[k]) = n + 1 /\ \A i \in 1 .. n : watch'[k][i] = q[i]
                /\ watch'[k][n + 1].ref \in Ref /\ watch'[k][n + 1].obj = api'[watch'[k][n + 1].ref]
                /\ \A z \in Ref : z # watch'[k][n + 1].ref => api'[z] = api[z]
  <2>1. api'[r] = o /\ \A z \in Ref : z # r => api'[z] = api[z] BY <1>1, <1>7 DEF Sent, StoreInv, Objects
  <2>2. CASE o = api[r] BY <1>7, <2>1, <2>2 DEF Sent
  <2>3. CASE o # api[r]
    <3> DEFINE e == [ref |-> r, obj |-> o]
    <3>1. watch' = [watch EXCEPT ![r[1]] = Append(@, e)] BY <1>7, <2>3 DEF Sent
    <3>2. CASE r[1] # k
      <4>1. watch'[k] = q BY <3>1, <3>2 DEF TInv, StoreInv
      <4> QED BY <2>1, <3>2, <4>1
    <3>3. CASE r[1] = k
      <4>1. watch'[k] = Append(q, e) BY <3>1, <3>3 DEF TInv, StoreInv
      <4>2. e \in Event /\ e.ref = r /\ e.obj = o BY <3>3, ObjKind DEF Event
      <4> HIDE DEF e, q
      <4>3. /\ Len(Append(q, e)) = n + 1 /\ \A i \in 1 .. n : Append(q, e)[i] = q[i]
            /\ Append(q, e)[n + 1] = e
        BY <1>1, <4>2
      <4> QED BY <2>1, <4>1, <4>2, <4>3
    <3> QED BY <3>2, <3>3
  <2> QED BY <2>2, <2>3
<1> HIDE DEF q
<1>8. \/ watch'[k] = q /\ \A z \in Ref : z[1] = k => api'[z] = api[z]
      \/ /\ Len(watch'[k]) = n + 1 /\ \A i \in 1 .. n : watch'[k][i] = q[i]
         /\ watch'[k][n + 1].ref \in Ref /\ watch'[k][n + 1].obj = api'[watch'[k][n + 1].ref]
         /\ \A z \in Ref : z # watch'[k][n + 1].ref => api'[z] = api[z]
      \/ /\ n > 0 /\ Len(watch'[k]) = n - 1 /\ UNCHANGED api
         /\ \A i \in 1 .. n - 1 : watch'[k][i] = q[i + 1]
      \/ Len(watch'[k]) = 0
  <2>1. CASE Restart
    <3>1. watch'[k] = <<>> BY <2>1 DEF Restart
    <3> QED BY <3>1
  <2>2. CASE UNCHANGED <<api, watch>> BY <2>2 DEF q
  <2> QED BY <1>5, <1>7, <2>1, <2>2, Moves DEF Posted
<1> QED BY <1>1, <1>2, <1>3, <1>8 DEF q

LEMMA LatestStays == ASSUME TInv, NInv, LatestComes, [Next]_vars PROVE LatestComes'
<1> SUFFICES ASSUME NEW k \in Kinds, NEW i \in 1 .. Len(watch'[k])
             PROVE  \E j \in 1 .. Len(watch'[k]) :
                      /\ watch'[k][j].ref = watch'[k][i].ref
                      /\ watch'[k][j].obj = api'[watch'[k][i].ref] /\ i <= j
  BY DEF LatestComes
<1> DEFINE q == watch[k]
           n == Len(q)
           p == watch'[k]
<1>1. /\ n \in Nat /\ \A h \in 1 .. n : q[h].ref \in Ref /\ q[h].ref[1] = k
      /\ \/ p = q /\ \A r \in Ref : r[1] = k => api'[r] = api[r]
         \/ /\ Len(p) = n + 1 /\ \A h \in 1 .. n : p[h] = q[h]
            /\ p[n + 1].ref \in Ref /\ p[n + 1].obj = api'[p[n + 1].ref]
            /\ \A r \in Ref : r # p[n + 1].ref => api'[r] = api[r]
         \/ n > 0 /\ Len(p) = n - 1 /\ UNCHANGED api /\ \A h \in 1 .. n - 1 : p[h] = q[h + 1]
         \/ Len(p) = 0
  BY WatchCourse
<1>2. \A h \in 1 .. n : \E j \in 1 .. n : q[j].ref = q[h].ref /\ q[j].obj = api[q[h].ref] /\ h <= j
  BY DEF LatestComes
<1> HIDE DEF q, p
<1>3. CASE p = q /\ \A r \in Ref : r[1] = k => api'[r] = api[r]
  <2>1. i \in 1 .. n BY <1>3 DEF p
  <2>2. PICK j \in 1 .. n : q[j].ref = q[i].ref /\ q[j].obj = api[q[i].ref] /\ i <= j BY <1>2, <2>1
  <2> QED BY <1>1, <1>3, <2>1, <2>2 DEF p
<1>4. CASE /\ Len(p) = n + 1 /\ \A h \in 1 .. n : p[h] = q[h]
           /\ p[n + 1].ref \in Ref /\ p[n + 1].obj = api'[p[n + 1].ref]
           /\ \A r \in Ref : r # p[n + 1].ref => api'[r] = api[r]
  <2>1. n + 1 \in 1 .. Len(p) /\ i <= n + 1 BY <1>1, <1>4 DEF p
  <2>2. CASE p[i].ref = p[n + 1].ref BY <1>4, <2>1, <2>2 DEF p
  <2>3. CASE p[i].ref # p[n + 1].ref
    <3>1. i \in 1 .. n BY <1>1, <1>4, <2>1, <2>3 DEF p
    <3>2. PICK j \in 1 .. n : q[j].ref = q[i].ref /\ q[j].obj = api[q[i].ref] /\ i <= j BY <1>2, <3>1
    <3>3. j \in 1 .. Len(p) /\ p[j] = q[j] /\ p[i] = q[i] BY <1>1, <1>4, <3>1, <3>2
    <3> QED BY <1>1, <1>4, <2>3, <3>1, <3>2, <3>3 DEF p
  <2> QED BY <2>2, <2>3
<1>5. CASE n > 0 /\ Len(p) = n - 1 /\ UNCHANGED api /\ \A h \in 1 .. n - 1 : p[h] = q[h + 1]
  <2>1. i \in 1 .. n - 1 /\ i + 1 \in 1 .. n BY <1>1, <1>5 DEF p
  <2>2. PICK j \in 1 .. n : q[j].ref = q[i + 1].ref /\ q[j].obj = api[q[i + 1].ref] /\ i + 1 <= j
    BY <1>2, <2>1
  <2>3. j - 1 \in 1 .. n - 1 /\ (j - 1) + 1 = j /\ i <= j - 1 BY <1>1, <2>1, <2>2
  <2>4. p[j - 1] = q[j] /\ p[i] = q[i + 1] BY <1>5, <2>1, <2>3
  <2> QED BY <1>5, <2>2, <2>3, <2>4 DEF p
<1>6. Len(p) # 0 BY DEF p
<1> QED BY <1>1, <1>3, <1>4, <1>5, <1>6

-----------------------------------------------------------------------------
(* What stays, once it is so, in the order of a watch. *)

\* Once an object is in S, it is so for every later event and for the API server.
Ordered(k, S) ==
    \A i, j \in 1 .. Len(watch[k]) :
        i <= j /\ watch[k][i].ref = watch[k][j].ref /\ watch[k][i].obj \in S
            => watch[k][j].obj \in S /\ api[watch[k][i].ref] \in S

LEMMA OrderStays ==
    ASSUME TInv, NInv, [Next]_vars, NEW k \in Kinds, NEW S, Ordered(k, S),
           \A r \in Ref : r[1] = k /\ Mail(r) # {} /\ api[r] \in S => api'[r] \in S
    PROVE  Ordered(k, S)'
<1> SUFFICES ASSUME NEW i \in 1 .. Len(watch'[k]), NEW j \in 1 .. Len(watch'[k]), i <= j,
                    watch'[k][i].ref = watch'[k][j].ref, watch'[k][i].obj \in S
             PROVE  watch'[k][j].obj \in S /\ api'[watch'[k][i].ref] \in S
  BY DEF Ordered
<1> DEFINE q == watch[k]
           n == Len(q)
           p == watch'[k]
<1>1. /\ n \in Nat /\ \A h \in 1 .. n : q[h].ref \in Ref /\ q[h].ref[1] = k /\ q[h].obj \in Mail(q[h].ref)
      /\ \/ p = q /\ \A r \in Ref : r[1] = k => api'[r] = api[r]
         \/ /\ Len(p) = n + 1 /\ \A h \in 1 .. n : p[h] = q[h]
            /\ p[n + 1].ref \in Ref /\ p[n + 1].obj = api'[p[n + 1].ref]
            /\ \A r \in Ref : r # p[n + 1].ref => api'[r] = api[r]
         \/ n > 0 /\ Len(p) = n - 1 /\ UNCHANGED api /\ \A h \in 1 .. n - 1 : p[h] = q[h + 1]
         \/ Len(p) = 0
  BY WatchCourse
<1>2. \A h, l \in 1 .. n : h <= l /\ q[h].ref = q[l].ref /\ q[h].obj \in S
                           => q[l].obj \in S /\ api[q[h].ref] \in S
  BY DEF Ordered
<1>3. \A h \in 1 .. n : api[q[h].ref] \in S => api'[q[h].ref] \in S BY <1>1
<1> HIDE DEF q, p
<1>4. CASE p = q
  <2>1. i \in 1 .. n /\ j \in 1 .. n BY <1>4 DEF p
  <2> QED BY <1>2, <1>3, <1>4, <2>1 DEF p
<1>5. CASE /\ Len(p) = n + 1 /\ \A h \in 1 .. n : p[h] = q[h]
           /\ p[n + 1].ref \in Ref /\ p[n + 1].obj = api'[p[n + 1].ref]
  <2>1. i <= n + 1 /\ j <= n + 1 /\ i \in Nat /\ j \in Nat /\ i > 0 BY <1>1, <1>5 DEF p
  <2>2. CASE i = n + 1
    <3>1. j = n + 1 BY <1>1, <2>1, <2>2
    <3> QED BY <1>5, <2>2, <3>1 DEF p
  <2>3. CASE i # n + 1
    <3>1. i \in 1 .. n /\ p[i] = q[i] BY <1>1, <1>5, <2>1, <2>3
    <3>2. api[q[i].ref] \in S
      <4>1. q[i].obj \in S BY <3>1 DEF p
      <4>2. i <= i BY <2>1
      <4> QED BY <1>2, <3>1, <4>1, <4>2
    <3>3. api'[q[i].ref] \in S BY <1>3, <3>1, <3>2
    <3>4. CASE j = n + 1 BY <1>5, <3>1, <3>3, <3>4 DEF p
    <3>5. CASE j # n + 1
      <4>1. j \in 1 .. n /\ p[j] = q[j] BY <1>1, <1>5, <2>1, <3>5
      <4> QED BY <1>2, <3>1, <3>3, <4>1 DEF p
    <3> QED BY <3>4, <3>5
  <2> QED BY <2>2, <2>3
<1>6. CASE n > 0 /\ Len(p) = n - 1 /\ UNCHANGED api /\ \A h \in 1 .. n - 1 : p[h] = q[h + 1]
  <2>1. /\ i \in 1 .. n - 1 /\ i + 1 \in 1 .. n /\ j \in 1 .. n - 1 /\ j + 1 \in 1 .. n
        /\ i + 1 <= j + 1
    BY <1>1, <1>6 DEF p
  <2>2. p[i] = q[i + 1] /\ p[j] = q[j + 1] BY <1>6, <2>1
  <2> QED BY <1>2, <1>6, <2>1, <2>2 DEF p
<1>7. Len(p) # 0 BY DEF p
<1> QED BY <1>1, <1>4, <1>5, <1>6, <1>7

LEMMA OrderMail ==
    ASSUME TInv, NEW k \in Kinds, NEW S, Ordered(k, S), NEW r \in Ref, r[1] = k, NEW o \in Mail(r), o \in S
    PROVE  api[r] \in S
<1>1. PICK i \in 1 .. Len(watch[k]) : watch[k][i].ref = r /\ watch[k][i].obj = o BY DEF Mail
<1>2. i <= i BY <1>1
<1> QED BY <1>1, <1>2 DEF Ordered

LEMMA OrderHead ==
    ASSUME TInv, NEW k \in Kinds, NEW S, Ordered(k, S), Deliver(k), Head(watch[k]).obj \in S,
           NEW r \in Ref, Head(watch[k]).ref = r, r[1] = k, NEW o \in Mail(r)
    PROVE  o \in S
<1>1. watch[k] \in Seq(Event) /\ watch[k] # <<>> BY DEF TInv, StoreInv, Deliver
<1>2. Head(watch[k]) = watch[k][1] /\ 1 \in 1 .. Len(watch[k]) BY <1>1
<1>3. PICK j \in 1 .. Len(watch[k]) : watch[k][j].ref = r /\ watch[k][j].obj = o BY DEF Mail
<1>4. 1 <= j BY <1>3
<1> QED BY <1>2, <1>3, <1>4 DEF Ordered

-----------------------------------------------------------------------------
(* What is due. *)

\* No custom resource is made twice.
NoRecreation == "recreate" \notin UserMay

\* An event is under way that will queue the key of r, whatever comes before it.
Coming(r) == \E o \in Mail(r) : Passes(r[1], cache[r], o)

Due(r) == r \in queue \/ Coming(r)

OnIt(r) == w[r[1]].pc # "idle" /\ w[r[1]].key = r

\* The Deployment is what the SQBDeployment o asks for.
Follows(d, o) == Counts(d) /\ d.istio = o.istio

\* Nothing takes the Deployment of s away, and no label keeps updates from it.
Tied(s) == NoRecreation /\ <<"dep", s>> \notin Vela

\* The cached r, with nobody at work on it, is as the operator wants it.
Settled(r) ==
    LET c == cache[r] IN
    CASE r[1] = "dep" -> ~c.term \/ Nil \in Mail(r)
      [] r[1] = "sd" -> /\ c.mark = "none" /\ c.init
                        /\ Tied(r[2]) => Follows(api[<<"dep", r[2]>>], c)
      [] OTHER -> c.mark = "none"

\* The worker on r has read what matters of the cached r, and done its part so far.
InHand(r) ==
    LET c == cache[r]  x == w[r[1]]  IN
    CASE r[1] = "dep" -> c.term => x.in.term
      [] r[1] = "sd" ->
            /\ x.in.mark = c.mark
            /\ IF x.pc = "init" THEN x.in.init /\ ~c.init
                                ELSE x.in.init = c.init /\ x.in.istio = c.istio
            /\ x.pc = "finish" =>
                 \/ IsDeleted(x.in)
                 \/ /\ x.in.mark = "none" /\ x.in.init
                    /\ Tied(r[2]) => Follows(api[<<"dep", r[2]>>], x.in)
      [] OTHER -> x.in.mark = c.mark /\ (x.pc = "items" => ~WrongMark(x.in))

\* KubeVela's label is a reason to leave an object as it is.
Cared(r) ==
    cache[r] # Nil /\ r \notin Vela => Due(r) \/ IF OnIt(r) THEN InHand(r) ELSE r \in hist.lost \/ Settled(r)

RInv == \A r \in Ref : Cared(r)

\* What a filter stops hides nothing of what comes later.
LEMMA FilterChain ==
    ASSUME NEW k \in Kinds, NEW a, NEW b, NEW c, ~Passes(k, a, b), Passes(k, a, c)
    PROVE  Passes(k, b, c)
  BY DEF Passes, Kinds

LEMMA PostedDue ==
    ASSUME StoreInv, Posted, UNCHANGED cache, NEW r \in Ref, r \in queue => r \in queue', Due(r)
    PROVE  Due(r)'
  BY PostedMail DEF Due, Coming

LEMMA DeliverDue ==
    ASSUME StoreInv, NEW k \in Kinds, Deliver(k), NEW r \in Ref, Due(r)
    PROVE  Due(r)'
<1>1. PICK z \in Ref, o \in ObjOf(k) \cup {Nil} :
        /\ z[1] = k /\ o \in Mail(z)
        /\ cache'[z] = o /\ \A y \in Ref : y # z => cache'[y] = cache[y]
        /\ queue' = IF Passes(k, cache[z], o) THEN queue \cup {z} ELSE queue
        /\ Mail(z) = Mail(z)' \cup {o} /\ \A y \in Ref : y # z => Mail(y)' = Mail(y)
  BY DeliverHead
<1>2. queue \subseteq queue' BY <1>1
<1>3. CASE r \in queue BY <1>2, <1>3 DEF Due
<1>4. CASE r # z /\ Coming(r) BY <1>1, <1>4 DEF Due, Coming
<1>5. CASE r = z /\ Coming(r)
  <2>1. PICK p \in Mail(z) : Passes(k, cache[z], p) BY <1>1, <1>5 DEF Coming
  <2>2. CASE Passes(k, cache[z], o) BY <1>1, <1>5, <2>2 DEF Due
  <2>3. CASE ~Passes(k, cache[z], o)
    <3>1. Passes(k, o, p) BY <2>1, <2>3, FilterChain
    <3>2. p \in Mail(z)' BY <1>1, <2>1, <2>3
    <3>3. Coming(r)' BY <1>1, <1>5, <3>1, <3>2 DEF Coming
    <3> QED BY <3>3 DEF Due
  <2> QED BY <2>2, <2>3
<1> QED BY <1>3, <1>4, <1>5 DEF Due

\* Only the worker of an SQBDeployment writes its Deployment, and goes on or ends.
LEMMA SdWrites ==
    ASSUME TInv, SdDeploy \/ SdUndeploy
    PROVE  /\ w["sd"].pc = "operate" /\ w["sd"].key \in Ref /\ w["sd"].key[1] = "sd"
           /\ w["sd"].key = <<"sd", w["sd"].key[2]>> /\ w'["sd"].pc # "operate"
<1>1. "sd" \in Kinds /\ StoreInv /\ w["sd"].pc = "operate" BY DEF Kinds, TInv, SdDeploy, SdUndeploy
<1>2. w["sd"] \in Worker /\ w["sd"].key \in Ref /\ w["sd"].key[1] = "sd" BY <1>1, BusyOK
<1>3. /\ \A r, o : Write("sd", r, o, [w["sd"] EXCEPT !.pc = "finish"]) => w'["sd"].pc = "finish"
      /\ Step("sd", [w["sd"] EXCEPT !.pc = "finish"]) => w'["sd"].pc = "finish"
  BY <1>1, <1>2, StepEffect DEF Write, Worker
<1>4. Fail("sd") => w'["sd"].pc = "idle" BY <1>1, ReportIdle DEF Fail, Idle
<1>5. w'["sd"].pc \in {"finish", "idle"} BY <1>3, <1>4 DEF SdDeploy, SdUndeploy, LeftAlone
<1> QED BY <1>1, <1>2, <1>5, RefKind

LEMMA FollowsStays ==
    ASSUME TInv, NInv, [Next]_vars, NEW s \in SDs, NEW o, Follows(api[<<"dep", s>>], o),
           w["sd"].pc = "operate" /\ w["sd"].key = <<"sd", s>> => w'["sd"].pc = "operate"
    PROVE  Follows(api'[<<"dep", s>>], o)
<1>1. <<"dep", s>> \in Ref /\ <<"dep", s>>[1] = "dep" /\ <<"dep", s>>[2] = s BY DepRef
<1>2. ~(w["sd"].key[2] = s /\ (SdDeploy \/ SdUndeploy)) BY SdWrites
<1>3. CASE User BY <1>3, UserDeployments
<1>4. CASE UNCHANGED api BY <1>4
<1>5. ASSUME NEW r \in Ref, NEW p, Sent(r, p), Plain(r, p) PROVE Follows(api'[<<"dep", s>>], o)
  <2>1. CASE r # <<"dep", s>> BY <1>1, <1>5, <2>1 DEF Sent, TInv, StoreInv, Objects
  <2>2. CASE r = <<"dep", s>>
    <3>1. p # Nil => FALSE BY <1>1, <1>2, <1>5, <2>2 DEF Plain
    <3>2. p = Nil => FALSE BY <1>1, <1>5, <2>2 DEF Plain, Follows, Counts
    <3> QED BY <3>1, <3>2
  <2> QED BY <2>1, <2>2
<1> QED BY <1>3, <1>4, <1>5, OperatorPlain DEF OneWrite, Restart, Deliver

\* Nobody is at work on r who was not, nobody stops.
LEMMA CaredStays ==
    ASSUME TInv, NInv, [Next]_vars, Posted, UNCHANGED cache, NEW r \in Ref, Cared(r),
           r \in queue => r \in queue', r \in hist.lost => r \in hist'.lost, OnIt(r)' <=> OnIt(r),
           OnIt(r) => w'[r[1]].pc = w[r[1]].pc /\ w'[r[1]].in = w[r[1]].in
    PROVE  Cared(r)'
<1> SUFFICES ASSUME cache[r] # Nil, r \notin Vela, ~Due(r)
             PROVE  IF OnIt(r)' THEN InHand(r)' ELSE r \in hist'.lost \/ Settled(r)'
  BY PostedDue DEF Cared, TInv
<1>1. Mail(r) \subseteq Mail(r)' BY PostedMail DEF TInv
<1>2. ASSUME r[1] = "sd", NEW o, Follows(api[<<"dep", r[2]>>], o), ~OnIt(r) \/ w'["sd"].pc = w["sd"].pc
      PROVE  Follows(api'[<<"dep", r[2]>>], o)
  <2>1. PICK s \in SDs : s = r[2] /\ r = <<"sd", s>> BY <1>2, RefKind
  <2>2. w["sd"].pc = "operate" /\ w["sd"].key = <<"sd", s>> => w'["sd"].pc = "operate"
    BY <1>2, <2>1 DEF OnIt
  <2>3. Follows(api[<<"dep", s>>], o) BY <1>2, <2>1
  <2>4. Follows(api'[<<"dep", s>>], o) BY <2>2, <2>3, FollowsStays
  <2> QED BY <2>1, <2>4
<1>3. CASE OnIt(r)
  <2>1. InHand(r) BY <1>3 DEF Cared
  <2>2. CASE r[1] = "sd" BY <1>2, <1>3, <2>1, <2>2 DEF InHand
  <2>3. CASE r[1] # "sd" BY <1>3, <2>1, <2>3 DEF InHand
  <2> QED BY <1>3, <2>2, <2>3
<1>4. CASE ~OnIt(r) /\ Settled(r)
  <2>1. CASE r[1] = "sd" BY <1>2, <1>4, <2>1 DEF Settled
  <2>2. CASE r[1] # "sd" BY <1>1, <1>4, <2>2 DEF Settled
  <2> QED BY <1>4, <2>1, <2>2
<1> QED BY <1>3, <1>4 DEF Cared

\* A step of worker k on z: the other objects are cared for as before.
LEMMA OthersCared ==
    ASSUME TInv, NInv, RInv, [Next]_vars, NEW k, Effect(k), Posted, UNCHANGED cache, NEW z \in Ref,
           \A r \in Ref : r # z => (r \in queue => r \in queue') /\ (r \in hist.lost => r \in hist'.lost),
           \A r \in Ref : r # z /\ r[1] = k => ~OnIt(r) /\ ~OnIt(r)',
           Cared(z)'
    PROVE  RInv'
<1> SUFFICES ASSUME NEW r \in Ref, r # z PROVE Cared(r)' BY DEF RInv
<1>1. Cared(r) BY DEF RInv
<1>2. CASE r[1] = k BY <1>1, <1>2, CaredStays
<1>3. CASE r[1] # k
  <2>1. w'[r[1]].pc = w[r[1]].pc /\ w'[r[1]].key = w[r[1]].key /\ w'[r[1]].in = w[r[1]].in
    BY <1>3, RefKind DEF Effect
  <2>2. OnIt(r)' <=> OnIt(r) BY <2>1 DEF OnIt
  <2> QED BY <1>1, <2>1, <2>2, CaredStays
<1> QED BY <1>2, <1>3

-----------------------------------------------------------------------------
(* Without recreation, an SQBDeployment marked stays so until it goes for good. *)

Parting(o) == o = Nil \/ IsDeleted(o)

\* The SQBDeployment s is being deleted, or was, for every reader.
Leaving(s) ==
    LET r == <<"sd", s>> IN \A o \in {api[r], cache[r]} \cup Mail(r) : Parting(o)

\* The Deployment of s terminates, or did.
Torn(s) ==
    LET d == <<"dep", s>> IN
    \/ api[d] # Nil /\ api[d].term
    \/ cache[d] # Nil /\ cache[d].term
    \/ \E o \in Mail(d) : ~Counts(o)

MarkInv ==
    \A s \in SDs :
        LET r == <<"sd", s>> IN
        /\ cache[r] # Nil /\ IsDeleted(cache[r]) => Leaving(s)
        /\ OnIt(r) /\ IsDeleted(w["sd"].in) => Leaving(s)
        /\ Torn(s) => Leaving(s) /\ (OnIt(r) => IsDeleted(w["sd"].in))

-----------------------------------------------------------------------------
(* The workers care for what they take. *)

\* A step of worker k, with what holds before it.
Working(k) ==
    /\ TInv /\ NInv /\ CopyInv /\ LatestComes /\ RInv /\ (NoRecreation => MarkInv)
    /\ [Next]_vars /\ Effect(k) /\ Posted /\ UNCHANGED cache

LEMMA KeyRest ==
    ASSUME NEW k \in Kinds, Working(k), w[k].pc # "idle", NEW z \in Ref, z = w[k].key,
           w'[k].pc = "idle" \/ w'[k].key = z, queue \subseteq queue', hist.lost \subseteq hist'.lost,
           Cared(z)'
    PROVE  RInv'
<1>1. \A r \in Ref : r # z /\ r[1] = k => ~OnIt(r) /\ ~OnIt(r)' BY DEF OnIt
<1> QED BY <1>1, OthersCared DEF Working

LEMMA DropEventRest == ASSUME NEW k \in Kinds, Working(k), DropEvent(k) PROVE RInv'
<1>1. PICK r \in queue : r[1] = k /\ queue' = queue \ {r} /\ hist' = [hist EXCEPT !.lost = @ \cup {r}]
  BY DEF DropEvent
<1>2. TInv /\ r \in Ref BY DEF Working, TInv, RestType
<1>3. hist'.lost = hist.lost \cup {r} BY <1>1, <1>2 DEF TInv, RestType
<1>4. w[k].pc = "idle" /\ w'[k] = w[k] BY <1>2, StepEffect DEF DropEvent, TInv
<1>5. \A z \in Ref : z[1] = k => ~OnIt(z) /\ ~OnIt(z)' BY <1>4 DEF OnIt
<1>6. Cared(r)' BY <1>1, <1>2, <1>3, <1>5 DEF Cared
<1> QED BY <1>1, <1>2, <1>3, <1>5, <1>6, OthersCared DEF Working

LEMMA BeginRest == ASSUME NEW k \in Kinds, Working(k), Begin(k) PROVE RInv'
<1>1. PICK r \in queue :
        /\ r[1] = k /\ queue' = queue \ {r} /\ hist' = [hist EXCEPT !.lost = @ \ {r}]
        /\ IF cache[r] = Nil
           THEN Step(k, Idle)
           ELSE Step(k, [Idle EXCEPT !.pc = "operate", !.key = r, !.in = cache[r],
                                     !.fresh = Fresh({r})])
  BY DEF Begin
<1>2. TInv /\ r \in Ref /\ UNCHANGED cache BY DEF Working, TInv, RestType
<1>3. hist'.lost = hist.lost \ {r} BY <1>1, <1>2 DEF TInv, RestType
<1>4. w[k].pc = "idle" BY DEF Begin
<1>5. \A next : Step(k, next) => w'[k] = next BY <1>2, StepEffect DEF TInv
<1>6. CASE cache[r] = Nil
  <2>1. w'[k].pc = "idle" BY <1>1, <1>5, <1>6 DEF Idle
  <2>2. \A z \in Ref : z[1] = k => ~OnIt(z) /\ ~OnIt(z)' BY <1>4, <2>1 DEF OnIt
  <2>3. Cared(r)' BY <1>2, <1>6 DEF Cared
  <2> QED BY <1>1, <1>2, <1>3, <2>2, <2>3, OthersCared DEF Working
<1>7. CASE cache[r] # Nil
  <2> DEFINE x == [Idle EXCEPT !.pc = "operate", !.key = r, !.in = cache[r], !.fresh = Fresh({r})]
  <2>1. x.pc = "operate" /\ x.key = r /\ x.in = cache[r] BY DEF Idle
  <2>2. Step(k, x) BY <1>1, <1>7
  <2> HIDE DEF x
  <2>3. w'[k] = x BY <1>5, <2>2
  <2>4. \A z \in Ref : z # r /\ z[1] = k => ~OnIt(z) /\ ~OnIt(z)' BY <1>4, <2>1, <2>3 DEF OnIt
  <2>5. OnIt(r)' BY <1>1, <2>1, <2>3 DEF OnIt
  <2>6. InHand(r)' BY <1>1, <1>2, <2>1, <2>3 DEF InHand
  <2>7. Cared(r)' BY <2>5, <2>6 DEF Cared
  <2> QED BY <1>1, <1>2, <1>3, <2>4, <2>7, OthersCared DEF Working
<1> QED BY <1>6, <1>7

\* The key of a failed reconcile waits again, or it is lost.
LEMMA FailRest ==
    ASSUME NEW k \in Kinds, Working(k), w[k].pc # "idle", hist.lost \subseteq hist'.lost,
           Fail(k) \/ (GiveUp(k) /\ w[k].key \in hist'.lost)
    PROVE  RInv'
<1>1. TInv /\ StoreInv BY DEF Working, TInv
<1>2. PICK z \in Ref : z = w[k].key /\ z[1] = k BY <1>1, BusyOK
<1>3. w'[k].pc = "idle" BY <1>1, ReportIdle DEF Fail, GiveUp, Idle
<1>4. queue \subseteq queue' BY DEF Fail, GiveUp
<1>5. CASE Fail(k)
  <2>1. z \in queue' BY <1>2, <1>5 DEF Fail
  <2>2. Cared(z)' BY <2>1 DEF Cared, Due
  <2> QED BY <1>2, <1>3, <1>4, <2>2, KeyRest
<1>6. CASE z \in hist'.lost
  <2>1. ~OnIt(z)' BY <1>2, <1>3 DEF OnIt
  <2>2. Cared(z)' BY <1>6, <2>1 DEF Cared
  <2> QED BY <1>2, <1>3, <1>4, <2>2, KeyRest
<1> QED BY <1>2, <1>5, <1>6

\* The worker ends; what it had in hand is settled.
LEMMA EndRest ==
    ASSUME NEW k \in Kinds, Working(k), w[k].pc # "idle", UNCHANGED <<queue, hist>>, w'[k] = Idle,
           NEW z \in Ref, z = w[k].key,
           cache[z] # Nil /\ z \notin Vela /\ (Due(z) \/ InHand(z)) => Due(z)' \/ Settled(z)'
    PROVE  RInv'
<1>1. TInv /\ Cared(z) /\ UNCHANGED cache BY DEF Working, RInv
<1>2. z[1] = k BY <1>1, BusyOK DEF TInv
<1>3. OnIt(z) BY <1>2 DEF OnIt
<1>4. w'[k].pc = "idle" BY DEF Idle
<1>5. ~OnIt(z)' BY <1>2, <1>4 DEF OnIt
<1>6. Cared(z)' BY <1>1, <1>3, <1>5 DEF Cared
<1> QED BY <1>4, <1>6, KeyRest

\* The worker goes on; it keeps what it had in hand.
LEMMA GoOnRest ==
    ASSUME NEW k \in Kinds, Working(k), w[k].pc # "idle", UNCHANGED <<queue, hist>>,
           w'[k].pc # "idle", w'[k].key = w[k].key, NEW z \in Ref, z = w[k].key,
           cache[z] # Nil /\ z \notin Vela /\ InHand(z) => Due(z)' \/ InHand(z)'
    PROVE  RInv'
<1>1. TInv /\ StoreInv /\ Cared(z) /\ Posted /\ UNCHANGED cache BY DEF Working, RInv, TInv
<1>2. z[1] = k BY <1>1, BusyOK DEF TInv
<1>3. OnIt(z) /\ OnIt(z)' BY <1>2 DEF OnIt
<1>4. Due(z) => Due(z)' BY <1>1, PostedDue
<1>5. Cared(z)' BY <1>1, <1>3, <1>4 DEF Cared
<1> QED BY <1>5, KeyRest

\* What is written is under way to the cache, if it is not there.
LEMMA WriteComes ==
    ASSUME StoreInv, LatestComes, NEW k, NEW r \in Ref, NEW o \in ObjOf(r[1]) \cup {Nil}, NEW next,
           Write(k, r, o, next)
    PROVE  cache[r] = o \/ o \in Mail(r)'
<1>1. Sent(r, o) BY DEF Write, Sent
<1>2. /\ o = api[r] => Mail(r)' = Mail(r)
      /\ o # api[r] => Mail(r)' = Mail(r) \cup {o}
  BY <1>1, SentMail
<1>3. (Mail(r) = {} /\ cache[r] = api[r]) \/ api[r] \in Mail(r) BY LastMail
<1> QED BY <1>2, <1>3

LEMMA MarkKind ==
    ASSUME NEW k \in Kinds, k # "dep", NEW o \in ObjOf(k)
    PROVE  o.mark \in Marks
<1>1. o \in AppObj \/ o \in PlaneObj \/ o \in SdObj BY ObjKind DEF Kinds
<1> QED BY <1>1 DEF AppObj, PlaneObj, SdObj

\* A reconcile that ends without deleting its object has found nothing left to do.
LEMMA FinishedHand ==
    ASSUME NEW k \in Kinds, Working(k), Finish(k), ~IsDeleted(w[k].in), NEW z \in Ref, z = w[k].key,
           cache[z] # Nil, InHand(z)
    PROVE  Settled(z)'
<1>1. /\ TInv /\ NInv /\ [Next]_vars /\ UNCHANGED cache BY DEF Working
<1>2. w[k].pc # "idle" /\ k # "dep" BY DEF Finish
<1>3. z[1] = k /\ w[k].in \in ObjOf(k) BY <1>1, <1>2, BusyOK DEF TInv
<1>4. w[k].in.mark \in Marks BY <1>2, <1>3, MarkKind
<1>5. CASE k \in {"app", "plane"}
  <2>1. w[k].pc = "items" BY <1>5 DEF Finish
  <2>2. w[k].in.mark = cache[z].mark /\ w[k].in.mark # "wrong"
    BY <1>3, <1>5, <2>1 DEF InHand, WrongMark
  <2>3. cache[z].mark = "none" BY <1>4, <2>2 DEF Marks, IsDeleted
  <2> QED BY <1>1, <1>3, <1>5, <2>3 DEF Settled
<1>6. CASE k = "sd"
  <2>1. w["sd"].pc = "finish" BY <1>6 DEF Finish
  <2>2. PICK s \in SDs : s = z[2] /\ z = <<"sd", s>> BY <1>3, <1>6, RefKind
  <2>3. PICK i : i = w["sd"].in OBVIOUS
  <2>4. /\ i.mark = cache[z].mark /\ i.init = cache[z].init /\ i.istio = cache[z].istio
        /\ i.mark = "none" /\ i.init /\ (Tied(s) => Follows(api[<<"dep", s>>], i))
    BY <1>3, <1>6, <2>1, <2>2, <2>3 DEF InHand
  <2>5. Tied(s) => Follows(api'[<<"dep", s>>], i) BY <1>1, <2>1, <2>4, FollowsStays
  <2>6. Tied(s) => Follows(api'[<<"dep", s>>], cache[z]) BY <2>4, <2>5 DEF Follows
  <2> QED BY <1>1, <1>3, <1>6, <2>2, <2>4, <2>6 DEF Settled
<1> QED BY <1>2, <1>5, <1>6 DEF Kinds

LEMMA FinishRest == ASSUME NEW k \in Kinds, Working(k), Finish(k) PROVE RInv'
<1>1. /\ TInv /\ StoreInv /\ NInv /\ LatestComes /\ [Next]_vars /\ Posted /\ UNCHANGED <<cache, hist>>
  BY DEF Working, TInv, Finish, Frame
<1>2. w[k].pc # "idle" /\ k # "dep" BY DEF Finish
<1>3. PICK z \in Ref : z = w[k].key /\ z[1] = k /\ w[k].in \in ObjOf(k) BY <1>1, <1>2, BusyOK
<1>4. CASE IsDeleted(w[k].in)
  <2>1. LeftAlone(k, z, Idle) \/ (Write(k, z, Nil, Idle) /\ UNCHANGED queue) BY <1>3, <1>4 DEF Finish
  <2>2. w'[k] = Idle /\ UNCHANGED queue BY <1>1, <2>1, StepEffect DEF Write, LeftAlone
  <2>3. Write(k, z, Nil, Idle) => cache[z] = Nil \/ Nil \in Mail(z)' BY <1>1, WriteComes
  <2>4. cache[z] # Nil => Passes(z[1], cache[z], Nil) BY <1>2, <1>3 DEF Passes
  <2>5. cache[z] # Nil /\ z \notin Vela => Due(z)'
    BY <1>1, <2>1, <2>3, <2>4 DEF LeftAlone, Due, Coming
  <2> QED BY <1>1, <1>2, <1>3, <2>2, <2>5, EndRest
<1>5. CASE ~IsDeleted(w[k].in)
  <2>1. cache[z] # Nil /\ InHand(z) => Settled(z)' BY <1>3, <1>5, FinishedHand
  <2>2. CASE Fail(k) BY <1>1, <1>2, <2>2, FailRest
  <2>3. CASE UNCHANGED queue /\ w'[k] = Idle
    <3>1. Due(z) => Due(z)' BY <1>1, <2>3, PostedDue
    <3> QED BY <1>1, <1>2, <1>3, <2>1, <2>3, <3>1, EndRest
  <2>4. \A o : Write(k, z, o, Idle) => w'[k] = Idle BY DEF Write
  <2>5. Step(k, Idle) => w'[k] = Idle BY <1>1, StepEffect
  <2> QED BY <1>3, <1>5, <2>2, <2>3, <2>4, <2>5 DEF Finish, Put
<1> QED BY <1>4, <1>5

LEMMA ListRest == ASSUME NEW k \in Kinds, Working(k), List(k) PROVE RInv'
<1>1. /\ TInv /\ StoreInv /\ UNCHANGED <<cache, queue, hist>> /\ k \in {"app", "plane"} /\ w[k].pc = "operate"
      /\ ~WrongMark(w[k].in)
  BY DEF Working, TInv, List, Frame
<1> DEFINE T == {<<s, cache[<<"sd", s>>]>> : s \in Affected(k)}
           F == Fresh({<<"sd", s>> : s \in Affected(k)})
           x == [w[k] EXCEPT !.pc = "items", !.todo = T, !.fresh = @ \cup F]
<1>2. PICK z \in Ref : z = w[k].key /\ z[1] = k BY <1>1, BusyOK
<1>3. w[k] \in Worker BY <1>1, BusyOK
<1>4. Step(k, x) BY DEF List
<1>5. x.pc = "items" /\ x.key = w[k].key /\ x.in = w[k].in BY <1>3 DEF Worker
<1> HIDE DEF x
<1>6. w'[k] = x BY <1>1, <1>4, StepEffect
<1>7. InHand(z) => InHand(z)' BY <1>1, <1>2, <1>5, <1>6 DEF InHand
<1> QED BY <1>1, <1>2, <1>5, <1>6, <1>7, GoOnRest

LEMMA ItemRest == ASSUME NEW k \in Kinds, Working(k), Item(k) PROVE RInv'
<1>1. /\ TInv /\ StoreInv /\ UNCHANGED <<cache, hist>> /\ k \in {"app", "plane"} /\ w[k].pc = "items"
  BY DEF Working, TInv, Item, Frame
<1>2. PICK t \in w[k].todo :
        Update(k, <<"sd", t[1]>>, Rewritten(k, t[2]),
               [w[k] EXCEPT !.todo = @ \ {t}, !.fresh = @ \ {<<"sd", t[1]>>}])
  BY DEF Item
<1> DEFINE x == [w[k] EXCEPT !.todo = @ \ {t}, !.fresh = @ \ {<<"sd", t[1]>>}]
<1>3. PICK z \in Ref : z = w[k].key /\ z[1] = k BY <1>1, BusyOK
<1>4. w[k] \in Worker BY <1>1, BusyOK
<1>5. x.pc = "items" /\ x.key = w[k].key /\ x.in = w[k].in BY <1>1, <1>4 DEF Worker
<1>6. \/ Fail(k)
      \/ (Step(k, x) \/ Write(k, <<"sd", t[1]>>, Rewritten(k, t[2]), x)) /\ UNCHANGED queue
  BY <1>2 DEF Update, Put, LeftAlone
<1> HIDE DEF x
<1>7. CASE Fail(k) BY <1>1, <1>7, FailRest
<1>8. CASE (Step(k, x) \/ Write(k, <<"sd", t[1]>>, Rewritten(k, t[2]), x)) /\ UNCHANGED queue
  <2>1. w'[k] = x BY <1>1, <1>8, StepEffect DEF Write
  <2>2. InHand(z) => InHand(z)' BY <1>1, <1>3, <1>5, <2>1 DEF InHand
  <2> QED BY <1>1, <1>3, <1>5, <1>8, <2>1, <2>2, GoOnRest
<1> QED BY <1>6, <1>7, <1>8

LEMMA SdDefaultsRest == ASSUME Working("sd"), SdDefaults PROVE RInv'
<1>1. /\ TInv /\ StoreInv /\ UNCHANGED <<cache, hist>> /\ "sd" \in Kinds /\ w["sd"].pc = "operate"
      /\ ~w["sd"].in.init
  BY DEF Working, TInv, SdDefaults, Frame, Kinds
<1> DEFINE a == cache[AppRef(w["sd"].key[2])]
           i == [w["sd"].in EXCEPT !.init = TRUE, !.istio = a.istio]
           x == [w["sd"] EXCEPT !.pc = "init", !.in = i]
<1>2. PICK z \in Ref : z = w["sd"].key /\ z[1] = "sd" BY <1>1, BusyOK
<1>3. w["sd"] \in Worker /\ w["sd"].in \in SdObj BY <1>1, BusyOK, ObjKind
<1>4. CASE Fail("sd") BY <1>1, <1>4, FailRest
<1>5. CASE Step("sd", x) /\ UNCHANGED queue
  <2>1. i.mark = w["sd"].in.mark /\ i.init BY <1>3 DEF SdObj
  <2> HIDE DEF i
  <2>2. x.pc = "init" /\ x.key = w["sd"].key /\ x.in = i BY <1>3 DEF Worker
  <2> HIDE DEF x
  <2>3. w'["sd"] = x BY <1>1, <1>5, StepEffect
  <2>4. InHand(z) => InHand(z)' BY <1>1, <1>2, <2>1, <2>2, <2>3 DEF InHand
  <2> QED BY <1>1, <1>2, <1>5, <2>2, <2>3, <2>4, GoOnRest
<1> QED BY <1>4, <1>5 DEF SdDefaults

\* The written defaults come back as an event that the filter lets pass.
LEMMA SdInitializeRest == ASSUME Working("sd"), SdInitialize PROVE RInv'
<1>1. /\ TInv /\ StoreInv /\ LatestComes /\ UNCHANGED <<cache, hist>> /\ "sd" \in Kinds /\ w["sd"].pc = "init"
  BY DEF Working, TInv, SdInitialize, Frame, Kinds
<1> DEFINE x == [w["sd"] EXCEPT !.pc = "operate"]
<1>2. PICK z \in Ref : z = w["sd"].key /\ z[1] = "sd" BY <1>1, BusyOK
<1>3. PICK o \in ObjOf("sd") : o = w["sd"].in BY <1>1, BusyOK
<1>4. w["sd"] \in Worker BY <1>1, BusyOK
<1>5. x.pc = "operate" /\ x.key = w["sd"].key BY <1>4 DEF Worker
<1>6. \/ Fail("sd")
      \/ z \in Vela /\ Step("sd", x) /\ UNCHANGED queue
      \/ Write("sd", z, o, x) /\ UNCHANGED queue
  BY <1>2, <1>3 DEF SdInitialize, Update, Put, LeftAlone
<1> HIDE DEF x
<1>7. CASE Fail("sd") BY <1>1, <1>7, FailRest
<1>8. CASE Write("sd", z, o, x) /\ UNCHANGED queue
  <2>1. w'["sd"] = x BY <1>1, <1>8 DEF Write
  <2>2. cache[z] = o \/ o \in Mail(z)' BY <1>1, <1>2, <1>8, WriteComes
  <2>3. ASSUME cache[z] # Nil, InHand(z) PROVE Due(z)'
    <3>1. o.init /\ ~cache[z].init BY <1>1, <1>2, <1>3, <2>3 DEF InHand
    <3>2. cache[z] \in SdObj /\ o \in SdObj /\ o # Nil BY <1>1, <1>2, <2>3, ObjKind DEF StoreInv, Objects
    <3>3. o \in Mail(z)' BY <2>2, <3>1
    <3>4. Passes(z[1], cache[z], o) BY <1>2, <2>3, <3>1, <3>2 DEF Passes, SdObj
    <3> QED BY <1>1, <3>3, <3>4 DEF Due, Coming
  <2> QED BY <1>1, <1>2, <1>5, <1>8, <2>1, <2>3, GoOnRest
<1>9. CASE z \in Vela /\ Step("sd", x) /\ UNCHANGED queue
  <2>1. w'["sd"] = x BY <1>1, <1>9, StepEffect
  <2> QED BY <1>1, <1>2, <1>5, <1>9, <2>1, GoOnRest
<1> QED BY <1>6, <1>7, <1>8, <1>9

\* The Deployment is now what the SQBDeployment in hand asks for.
LEMMA SdDeployRest == ASSUME Working("sd"), SdDeploy PROVE RInv'
<1>1. /\ TInv /\ StoreInv /\ UNCHANGED <<cache, hist>> /\ "sd" \in Kinds /\ w["sd"].pc = "operate"
      /\ w["sd"].in.init /\ w["sd"].in.mark = "none" /\ (NoRecreation => MarkInv)
  BY DEF Working, TInv, SdDeploy, Frame, Kinds
<1> DEFINE x == [w["sd"] EXCEPT !.pc = "finish"]
<1>2. PICK z \in Ref : z = w["sd"].key /\ z[1] = "sd" BY <1>1, BusyOK
<1>3. PICK i \in SdObj : i = w["sd"].in BY <1>1, BusyOK, ObjKind
<1>4. PICK s \in SDs : s = z[2] /\ z = <<"sd", s>> BY <1>2, RefKind
<1>5. PICK d \in Ref : d = <<"dep", s>> /\ d[1] = "dep" BY DepRef
<1>6. w["sd"] \in Worker BY <1>1, BusyOK
<1>7. x.pc = "finish" /\ x.key = w["sd"].key /\ x.in = i BY <1>3, <1>6 DEF Worker
<1> DEFINE n == NewDeployment(i)
           o == [cache[d] EXCEPT !.istio = i.istio, !.fin = TRUE]
<1>8. \/ Fail("sd")
      \/ Write("sd", d, n, x) /\ UNCHANGED queue
      \/ cache[d] # Nil /\ Write("sd", d, o, x) /\ UNCHANGED queue
      \/ d \in Vela /\ Step("sd", x) /\ UNCHANGED queue
  BY <1>2, <1>3, <1>4, <1>5 DEF SdDeploy, LeftAlone
<1>9. Follows(n, i) BY <1>3, NilAssumption, ObjKind DEF NewDeployment, Follows, Counts, SdObj, DepObj, AnyObj
<1>10. ASSUME NoRecreation, cache[d] # Nil PROVE Follows(o, i)
  <2>1. cache[d] \in DepObj BY <1>1, <1>5, <1>10, ObjKind DEF StoreInv, Objects
  <2>2. o \in DepObj /\ o.istio = i.istio /\ o.term = cache[d].term BY <1>3, <2>1 DEF DepObj, SdObj
  <2>3. OnIt(z) BY <1>1, <1>2 DEF OnIt
  <2>4. ~IsDeleted(w["sd"].in) BY <1>1 DEF IsDeleted
  <2>5. ~Torn(s) BY <1>1, <1>4, <1>10, <2>3, <2>4 DEF MarkInv
  <2>6. ~cache[d].term BY <1>5, <1>10, <2>5 DEF Torn
  <2> HIDE DEF o
  <2> QED BY <2>2, <2>6, NilAssumption DEF Follows, Counts, AnyObj
<1> HIDE DEF x, n, o
<1>11. CASE Fail("sd") BY <1>1, <1>11, FailRest
<1>12. ASSUME NEW p, Write("sd", d, p, x), UNCHANGED queue, NoRecreation => Follows(p, i)
       PROVE  RInv'
  <2>1. w'["sd"] = x /\ api' = [api EXCEPT ![d] = p] BY <1>1, <1>12 DEF Write
  <2>2. api'[d] = p BY <1>1, <2>1 DEF StoreInv, Objects
  <2>3. InHand(z) => InHand(z)'
    BY <1>1, <1>2, <1>3, <1>4, <1>5, <1>7, <1>12, <2>1, <2>2 DEF InHand, Tied
  <2> QED BY <1>1, <1>2, <1>7, <1>12, <2>1, <2>3, GoOnRest
<1>13. CASE d \in Vela /\ Step("sd", x) /\ UNCHANGED queue
  <2>1. w'["sd"] = x BY <1>1, <1>13, StepEffect
  <2>2. InHand(z) => InHand(z)'
    BY <1>1, <1>2, <1>3, <1>4, <1>5, <1>7, <1>13, <2>1 DEF InHand, Tied
  <2> QED BY <1>1, <1>2, <1>7, <1>13, <2>1, <2>2, GoOnRest
<1> QED BY <1>8, <1>9, <1>10, <1>11, <1>12, <1>13

LEMMA SdUndeployRest == ASSUME Working("sd"), SdUndeploy PROVE RInv'
<1>1. /\ TInv /\ StoreInv /\ UNCHANGED <<cache, queue, hist>> /\ "sd" \in Kinds /\ w["sd"].pc = "operate"
      /\ IsDeleted(w["sd"].in)
  BY DEF Working, TInv, SdUndeploy, Frame, Kinds
<1> DEFINE x == [w["sd"] EXCEPT !.pc = "finish"]
<1>2. PICK z \in Ref : z = w["sd"].key /\ z[1] = "sd" BY <1>1, BusyOK
<1>3. w["sd"] \in Worker BY <1>1, BusyOK
<1>4. x.pc = "finish" /\ x.key = w["sd"].key /\ x.in = w["sd"].in BY <1>3 DEF Worker
<1>5. \E r, o : Write("sd", r, o, x) BY DEF SdUndeploy
<1> HIDE DEF x
<1>6. w'["sd"] = x BY <1>1, <1>5 DEF Write
<1>7. InHand(z) => InHand(z)' BY <1>1, <1>2, <1>4, <1>6 DEF InHand
<1> QED BY <1>1, <1>2, <1>4, <1>6, <1>7, GoOnRest

LEMMA DepListRest == ASSUME Working("dep"), DepList PROVE RInv'
<1>1. /\ TInv /\ StoreInv /\ UNCHANGED <<cache, queue, hist>> /\ "dep" \in Kinds /\ w["dep"].pc # "idle"
  BY DEF Working, TInv, DepList, Frame, Kinds
<1> DEFINE p == IF w["dep"].pc = "operate" THEN "appStatus" ELSE "planeStatus"
           v == Mirrors(Owner(w["dep"].pc, w["dep"].key[2]))
           x == [w["dep"] EXCEPT !.pc = p, !.view = v]
           y == [w["dep"] EXCEPT !.pc = "finish"]
<1>2. PICK z \in Ref : z = w["dep"].key /\ z[1] = "dep" BY <1>1, BusyOK
<1>3. w["dep"] \in Worker BY <1>1, BusyOK
<1>4. Step("dep", x) \/ Step("dep", y) BY DEF DepList
<1> HIDE DEF v
<1>5. /\ x.pc # "idle" /\ x.key = w["dep"].key /\ x.in = w["dep"].in
      /\ y.pc # "idle" /\ y.key = w["dep"].key /\ y.in = w["dep"].in
  BY <1>3 DEF Worker
<1> HIDE DEF x, y
<1>6. w'["dep"] \in {x, y} BY <1>1, <1>4, StepEffect
<1>7. InHand(z) => InHand(z)' BY <1>1, <1>2, <1>5, <1>6 DEF InHand
<1> QED BY <1>1, <1>2, <1>5, <1>6, <1>7, GoOnRest

LEMMA DepStatusRest == ASSUME Working("dep"), DepStatus PROVE RInv'
<1>1. /\ TInv /\ StoreInv /\ UNCHANGED <<cache, hist>> /\ "dep" \in Kinds /\ w["dep"].pc # "idle"
  BY DEF Working, TInv, DepStatus, Frame, Kinds
<1> DEFINE p == IF w["dep"].pc = "appStatus" THEN "plane" ELSE "finish"
           x == [w["dep"] EXCEPT !.pc = p, !.view = {}]
<1>2. PICK z \in Ref : z = w["dep"].key /\ z[1] = "dep" BY <1>1, BusyOK
<1>3. w["dep"] \in Worker BY <1>1, BusyOK
<1>4. Fail("dep") \/ ((Step("dep", x) \/ \E r, o : Write("dep", r, o, x)) /\ UNCHANGED queue)
  BY DEF DepStatus
<1>5. x.pc # "idle" /\ x.key = w["dep"].key /\ x.in = w["dep"].in BY <1>3 DEF Worker
<1> HIDE DEF x
<1>6. CASE Fail("dep") BY <1>1, <1>6, FailRest
<1>7. CASE (Step("dep", x) \/ \E r, o : Write("dep", r, o, x)) /\ UNCHANGED queue
  <2>1. Step("dep", x) => w'["dep"] = x BY <1>1, StepEffect
  <2>2. w'["dep"] = x BY <1>1, <1>7, <2>1 DEF Write
  <2>3. InHand(z) => InHand(z)' BY <1>1, <1>2, <1>5, <2>2 DEF InHand
  <2> QED BY <1>1, <1>2, <1>5, <1>7, <2>2, <2>3, GoOnRest
<1> QED BY <1>4, <1>6, <1>7

\* A terminating Deployment goes, or its key waits.
LEMMA DepFinishRest == ASSUME Working("dep"), DepFinish PROVE RInv'
<1>1. /\ TInv /\ StoreInv /\ LatestComes /\ Posted /\ UNCHANGED <<cache, hist>> /\ "dep" \in Kinds
      /\ w["dep"].pc # "idle"
  BY DEF Working, TInv, DepFinish, Frame, Kinds
<1>2. PICK z \in Ref : z = w["dep"].key /\ z[1] = "dep" BY <1>1, BusyOK
<1>3. CASE Fail("dep") BY <1>1, <1>3, FailRest
<1>4. CASE w["dep"].in.term /\ Write("dep", z, Nil, Idle) /\ UNCHANGED queue
  <2>1. w'["dep"] = Idle BY <1>1, <1>4 DEF Write
  <2>2. cache[z] = Nil \/ Nil \in Mail(z)' BY <1>1, <1>4, WriteComes
  <2>3. cache[z] # Nil => Settled(z)' BY <1>2, <2>2 DEF Settled
  <2> QED BY <1>1, <1>2, <1>4, <2>1, <2>3, EndRest
<1>5. CASE ~w["dep"].in.term /\ Step("dep", Idle) /\ UNCHANGED queue
  <2>1. w'["dep"] = Idle BY <1>1, <1>5, StepEffect
  <2>2. Due(z) => Due(z)' BY <1>1, <1>5, PostedDue
  <2>3. InHand(z) => Settled(z)' BY <1>1, <1>2, <1>5 DEF InHand, Settled
  <2> QED BY <1>1, <1>2, <1>5, <2>1, <2>2, <2>3, EndRest
<1>6. CASE z \in Vela /\ Step("dep", Idle) /\ UNCHANGED queue
  <2>1. w'["dep"] = Idle BY <1>1, <1>6, StepEffect
  <2> QED BY <1>1, <1>2, <1>6, <2>1, EndRest
<1> QED BY <1>2, <1>3, <1>4, <1>5, <1>6 DEF DepFinish, Update, Put, LeftAlone

LEMMA WorkRest == ASSUME NEW k \in Kinds, Working(k), HandlerFails(k) \/ Work(k), ~Restart PROVE RInv'
<1>1. TInv BY DEF Working
<1>2. CASE HandlerFails(k)
  <2>1. /\ w[k].pc # "idle"
        /\ \/ Fail(k) /\ UNCHANGED hist
           \/ GiveUp(k) /\ hist' = [hist EXCEPT !.lost = @ \cup {w[k].key}]
    BY <1>2 DEF HandlerFails
  <2>2. w[k].key \in Ref /\ hist \in [born : SUBSET Ref, asked : SUBSET Ref, lost : SUBSET Ref]
    BY <1>1, <2>1, BusyOK DEF TInv, RestType
  <2> QED BY <2>1, <2>2, FailRest
<1>3. CASE RejectMark(k)
  <2>1. w[k].pc # "idle" /\ Fail(k) /\ UNCHANGED hist BY <1>3 DEF RejectMark, Frame
  <2> QED BY <2>1, FailRest
<1>4. ~Panic(k) BY DEF Panic
<1> QED BY <1>2, <1>3, <1>4, DropEventRest, BeginRest, FinishRest, ListRest, ItemRest,
           SdDefaultsRest, SdInitializeRest, SdDeployRest, SdUndeployRest,
           DepListRest, DepStatusRest, DepFinishRest
        DEF Work

-----------------------------------------------------------------------------
(* Every step leaves everything cared for. *)

LEMMA QuietRest ==
    ASSUME TInv, NInv, RInv, [Next]_vars, Posted, UNCHANGED cache,
           queue \subseteq queue', hist.lost \subseteq hist'.lost,
           \A k \in Kinds : w'[k].pc = w[k].pc /\ w'[k].key = w[k].key /\ w'[k].in = w[k].in
    PROVE  RInv'
<1> SUFFICES ASSUME NEW r \in Ref PROVE Cared(r)' BY DEF RInv
<1>1. r[1] \in Kinds /\ Cared(r) BY RefKind DEF RInv
<1>2. OnIt(r)' <=> OnIt(r) BY <1>1 DEF OnIt
<1> QED BY <1>1, <1>2, CaredStays

LEMMA RestartRest == ASSUME TInv, Restart PROVE RInv'
<1>1. \A r \in Ref : cache'[r] # Nil => r \in queue' BY DEF Restart
<1> QED BY <1>1 DEF RInv, Cared, Due

\* An event that the filter stops shows nothing that an earlier copy did not.
LEMMA DeliverRest == ASSUME TInv, NInv, RInv, NEW k \in Kinds, Deliver(k) PROVE RInv'
<1> SUFFICES ASSUME NEW r \in Ref, cache'[r] # Nil, r \notin Vela, ~Due(r)'
             PROVE  IF OnIt(r)' THEN InHand(r)' ELSE r \in hist'.lost \/ Settled(r)'
  BY DEF RInv, Cared
<1>1. StoreInv /\ UNCHANGED <<api, w, hist>> BY DEF TInv, Deliver
<1>2. PICK z \in Ref, o \in ObjOf(k) \cup {Nil} :
        /\ z[1] = k /\ o \in Mail(z)
        /\ cache'[z] = o /\ \A y \in Ref : y # z => cache'[y] = cache[y]
        /\ queue' = IF Passes(k, cache[z], o) THEN queue \cup {z} ELSE queue
        /\ Mail(z) = Mail(z)' \cup {o} /\ \A y \in Ref : y # z => Mail(y)' = Mail(y)
  BY <1>1, DeliverHead
<1>3. ~Due(r) /\ (OnIt(r)' <=> OnIt(r)) BY <1>1, DeliverDue DEF OnIt
<1>4. CASE r # z
  <2>1. cache'[r] = cache[r] /\ Mail(r)' = Mail(r) BY <1>2, <1>4
  <2>2. Cared(r) BY DEF RInv
  <2>3. IF OnIt(r) THEN InHand(r) ELSE r \in hist.lost \/ Settled(r) BY <1>3, <2>1, <2>2 DEF Cared
  <2>4. InHand(r) => InHand(r)' BY <1>1, <2>1 DEF InHand
  <2>5. Settled(r) => Settled(r)' BY <1>1, <2>1 DEF Settled
  <2> QED BY <1>1, <1>3, <2>3, <2>4, <2>5
<1>5. CASE r = z
  <2>1. ~Passes(k, cache[r], o) /\ cache'[r] = o /\ o # Nil /\ r[1] = k BY <1>2, <1>5 DEF Due
  <2>2. cache[r] # Nil /\ k # "app" BY <2>1 DEF Passes
  <2>3. IF OnIt(r) THEN InHand(r) ELSE r \in hist.lost \/ Settled(r) BY <1>3, <2>2 DEF RInv, Cared
  <2>4. CASE k = "plane"
    <3>1. cache'[r].mark = cache[r].mark BY <2>1, <2>2, <2>4 DEF Passes
    <3> QED BY <1>1, <1>3, <2>1, <2>3, <2>4, <3>1 DEF InHand, Settled
  <2>5. CASE k = "sd"
    <3>1. /\ cache'[r].mark = cache[r].mark /\ cache'[r].init = cache[r].init
          /\ cache'[r].istio = cache[r].istio
      BY <2>1, <2>2, <2>5 DEF Passes
    <3>2. \A d : Follows(d, cache[r]) => Follows(d, cache'[r]) BY <3>1 DEF Follows
    <3>3. InHand(r) => InHand(r)' BY <1>1, <2>1, <2>5, <3>1 DEF InHand
    <3>4. Settled(r) => Settled(r)' BY <1>1, <2>1, <2>5, <3>1, <3>2 DEF Settled
    <3> QED BY <1>1, <1>3, <2>3, <3>3, <3>4
  <2>6. CASE k = "dep"
    <3>1. ~cache'[r].term BY <2>1, <2>2, <2>6 DEF Passes
    <3> QED BY <2>1, <2>6, <3>1 DEF InHand, Settled
  <2> QED BY <2>2, <2>4, <2>5, <2>6 DEF Kinds
<1> QED BY <1>4, <1>5

LEMMA RestStays ==
    ASSUME TInv, NInv, CopyInv, LatestComes, RInv, NoRecreation => MarkInv, [Next]_vars
    PROVE  RInv'
<1>1. CASE User
  <2>1. "user" \notin Kinds /\ Effect("user") BY <1>1, UserEffect DEF Kinds
  <2>2. \A k \in Kinds : w'[k].pc = w[k].pc /\ w'[k].key = w[k].key /\ w'[k].in = w[k].in
    BY <2>1 DEF Effect
  <2>3. Posted /\ UNCHANGED <<cache, queue>> /\ hist'.lost = hist.lost BY <1>1, UserSent DEF Posted
  <2> QED BY <2>2, <2>3, QuietRest
<1>2. CASE Initialized \/ Ready \/ Resync \/ UNCHANGED vars
  <2>1. UNCHANGED <<api, watch, cache, w, hist>> /\ queue \subseteq queue'
    BY <1>2 DEF Initialized, Ready, Resync, vars
  <2>2. Posted BY <2>1 DEF Posted
  <2> QED BY <2>1, <2>2, QuietRest
<1>3. CASE Restart BY <1>3, RestartRest
<1>4. Crash => Restart BY DEF Crash
<1>5. ASSUME NEW k \in Kinds, Deliver(k) PROVE RInv' BY <1>5, DeliverRest
<1>6. ASSUME NEW k \in Kinds, HandlerFails(k) \/ Work(k), ~Restart PROVE RInv'
  <2>1. Effect(k) BY <1>6, WorkGood DEF Good
  <2>2. OneWrite /\ UNCHANGED cache BY <1>6, WorkPlain
  <2>3. Working(k) BY <2>1, <2>2 DEF Working, OneWrite, Posted
  <2> QED BY <1>6, <2>3, WorkRest
<1> QED BY <1>1, <1>2, <1>3, <1>4, <1>5, <1>6 DEF Next

-----------------------------------------------------------------------------
(* What a step does to keys and to workers. *)

LEMMA QueueCourse ==
    ASSUME TInv, NEW k \in Kinds, HandlerFails(k) \/ Work(k), ~Restart
    PROVE  /\ \A z \in queue : z \in queue' \/ /\ w[k].pc = "idle" /\ z[1] = k
                                               /\ Begin(k) \/ z \in hist'.lost
           /\ \A z \in hist.lost : z \in hist'.lost \/ (Begin(k) /\ z[1] = k)
<1>1. hist \in [born : SUBSET Ref, asked : SUBSET Ref, lost : SUBSET Ref] BY DEF TInv, RestType
<1>2. CASE DropEvent(k)
  <2>1. PICK r \in queue : queue' = queue \ {r} /\ r[1] = k /\ hist' = [hist EXCEPT !.lost = @ \cup {r}]
    BY <1>2 DEF DropEvent
  <2>2. hist'.lost = hist.lost \cup {r} BY <1>1, <2>1
  <2> QED BY <1>2, <2>1, <2>2 DEF DropEvent
<1>3. CASE Begin(k)
  <2>1. PICK r \in queue : queue' = queue \ {r} /\ r[1] = k /\ hist' = [hist EXCEPT !.lost = @ \ {r}]
    BY <1>3 DEF Begin
  <2>2. hist'.lost = hist.lost \ {r} BY <1>1, <2>1
  <2> QED BY <1>3, <2>1, <2>2 DEF Begin
<1>4. CASE HandlerFails(k)
  <2>1. hist' = hist \/ hist' = [hist EXCEPT !.lost = @ \cup {w[k].key}] BY <1>4 DEF HandlerFails
  <2>2. hist.lost \subseteq hist'.lost BY <1>1, <2>1
  <2> QED BY <1>4, <2>2 DEF HandlerFails, Fail, GiveUp
<1>5. CASE Work(k) /\ ~DropEvent(k) /\ ~Begin(k)
  <2>1. hist' = hist
    BY <1>5 DEF Work, RejectMark, Finish, List, Item, Panic, SdDefaults, SdInitialize, SdDeploy, SdUndeploy,
                DepList, DepStatus, DepFinish, Frame
  <2>2. queue \subseteq queue'
    BY <1>5 DEF Work, RejectMark, Finish, List, Item, Panic, SdDefaults, SdInitialize, SdDeploy, SdUndeploy,
                DepList, DepStatus, DepFinish, Update, Put, LeftAlone, Fail
  <2> QED BY <2>1, <2>2
<1> QED BY <1>2, <1>3, <1>4, <1>5

\* A worker takes the cached object of a key, or stays with the key and the mark it has.
LEMMA BeginCourse ==
    ASSUME TInv, NEW k \in Kinds, Begin(k)
    PROVE  /\ w[k].pc = "idle" /\ UNCHANGED <<api, watch, cache>>
           /\ \E r \in queue :
                /\ r \in Ref /\ r[1] = k /\ queue' = queue \ {r} /\ hist'.lost = hist.lost \ {r}
                /\ IF cache[r] = Nil THEN w'[k].pc = "idle"
                   ELSE w'[k].pc = "operate" /\ w'[k].key = r /\ w'[k].in = cache[r]
<1>1. PICK r \in queue :
        /\ r[1] = k /\ queue' = queue \ {r} /\ hist' = [hist EXCEPT !.lost = @ \ {r}]
        /\ IF cache[r] = Nil
           THEN Step(k, Idle)
           ELSE Step(k, [Idle EXCEPT !.pc = "operate", !.key = r, !.in = cache[r],
                                     !.fresh = Fresh({r})])
  BY DEF Begin
<1>2. r \in Ref /\ StoreInv BY DEF TInv, RestType
<1>3. hist'.lost = hist.lost \ {r} BY <1>1 DEF TInv, RestType
<1>4. \A next : Step(k, next) => w'[k] = next /\ UNCHANGED <<api, watch>> BY <1>2, StepEffect DEF Step
<1>5. CASE cache[r] = Nil
  <2>1. w'[k].pc = "idle" BY <1>1, <1>4, <1>5 DEF Idle
  <2> QED BY <1>1, <1>2, <1>3, <1>4, <1>5, <2>1 DEF Begin
<1>6. CASE cache[r] # Nil
  <2> DEFINE x == [Idle EXCEPT !.pc = "operate", !.key = r, !.in = cache[r], !.fresh = Fresh({r})]
  <2>1. x.pc = "operate" /\ x.key = r /\ x.in = cache[r] BY DEF Idle
  <2>2. Step(k, x) BY <1>1, <1>6
  <2> HIDE DEF x
  <2>3. w'[k] = x /\ UNCHANGED <<api, watch>> BY <1>4, <2>2
  <2>4. w[k].pc = "idle" /\ UNCHANGED cache BY DEF Begin
  <2> QED BY <1>1, <1>2, <1>3, <1>6, <2>1, <2>3, <2>4
<1> QED BY <1>5, <1>6

Kept(x, y) == x.key = y.key /\ x.in.mark = y.in.mark

LEMMA WorkCourse ==
    ASSUME TInv, NEW k \in Kinds, HandlerFails(k) \/ Work(k), ~Restart, ~Begin(k), w'[k].pc # "idle"
    PROVE  w[k].pc # "idle" /\ w'[k].key = w[k].key /\ w'[k].in.mark = w[k].in.mark
<1>1. StoreInv /\ Idle.pc = "idle" BY DEF TInv, Idle
<1>2. \A next : Step(k, next) => w'[k] = next BY <1>1, StepEffect
<1>3. \A r, o, next : Write(k, r, o, next) => w'[k] = next BY DEF Write
<1>4. ~Fail(k) /\ ~GiveUp(k) BY <1>1, ReportIdle DEF Fail, GiveUp
<1>5. ~HandlerFails(k) /\ ~RejectMark(k) /\ ~Panic(k) BY <1>4 DEF HandlerFails, RejectMark, Panic
<1>6. ~DropEvent(k) BY <1>2 DEF DropEvent
<1>7. ~Finish(k) BY <1>1, <1>2, <1>3, <1>4 DEF Finish, Put, LeftAlone
<1>8. ~(k = "dep" /\ DepFinish) BY <1>1, <1>2, <1>3, <1>4 DEF DepFinish, Update, Put, LeftAlone
<1>9. w[k].pc # "idle"
  BY <1>5, <1>6, <1>7, <1>8 DEF Work, List, Item, SdDefaults, SdInitialize, SdDeploy, SdUndeploy,
                                DepList, DepStatus
<1>10. w[k] \in Worker /\ w[k].in \in ObjOf(k) BY <1>1, <1>9, BusyOK
<1>11. ASSUME NEW x, Kept(x, w[k]), w'[k] = x PROVE Kept(w'[k], w[k]) BY <1>11
<1>12. List(k) => Kept(w'[k], w[k])
  <2> SUFFICES ASSUME List(k) PROVE Kept(w'[k], w[k]) OBVIOUS
  <2> DEFINE T == {<<s, cache[<<"sd", s>>]>> : s \in Affected(k)}
             F == Fresh({<<"sd", s>> : s \in Affected(k)})
             x == [w[k] EXCEPT !.pc = "items", !.todo = T, !.fresh = @ \cup F]
  <2>1. Step(k, x) BY DEF List
  <2>2. Kept(x, w[k]) BY <1>10 DEF Worker, Kept
  <2> HIDE DEF x
  <2> QED BY <1>2, <1>11, <2>1, <2>2
<1>13. Item(k) => Kept(w'[k], w[k])
  <2> SUFFICES ASSUME Item(k) PROVE Kept(w'[k], w[k]) OBVIOUS
  <2>1. PICK t \in w[k].todo :
          Update(k, <<"sd", t[1]>>, Rewritten(k, t[2]),
                 [w[k] EXCEPT !.todo = @ \ {t}, !.fresh = @ \ {<<"sd", t[1]>>}])
    BY DEF Item
  <2> DEFINE x == [w[k] EXCEPT !.todo = @ \ {t}, !.fresh = @ \ {<<"sd", t[1]>>}]
  <2>2. Kept(x, w[k]) BY <1>10 DEF Worker, Kept
  <2>3. Step(k, x) \/ Write(k, <<"sd", t[1]>>, Rewritten(k, t[2]), x)
    BY <1>4, <2>1 DEF Update, Put, LeftAlone
  <2> HIDE DEF x
  <2> QED BY <1>2, <1>3, <1>11, <2>2, <2>3
<1>14. k = "sd" /\ SdDefaults => Kept(w'[k], w[k])
  <2> SUFFICES ASSUME k = "sd", SdDefaults PROVE Kept(w'[k], w[k]) OBVIOUS
  <2>1. w[k].in \in SdObj BY <1>10, ObjKind
  <2> DEFINE a == cache[AppRef(w["sd"].key[2])]
             i == [w["sd"].in EXCEPT !.init = TRUE, !.istio = a.istio]
             x == [w["sd"] EXCEPT !.pc = "init", !.in = i]
  <2>2. Step("sd", x) BY <1>4 DEF SdDefaults
  <2>3. i.mark = w[k].in.mark BY <2>1 DEF SdObj
  <2> HIDE DEF i
  <2>4. Kept(x, w[k]) BY <1>10, <2>3 DEF Worker, Kept
  <2> HIDE DEF x
  <2> QED BY <1>2, <1>11, <2>2, <2>4
<1>15. k = "sd" /\ (SdInitialize \/ SdDeploy \/ SdUndeploy) => Kept(w'[k], w[k])
  <2> SUFFICES ASSUME k = "sd", SdInitialize \/ SdDeploy \/ SdUndeploy PROVE Kept(w'[k], w[k]) OBVIOUS
  <2> DEFINE x == [w["sd"] EXCEPT !.pc = "operate"]
             y == [w["sd"] EXCEPT !.pc = "finish"]
  <2>1. Step("sd", x) \/ Step("sd", y) \/ \E r, o : Write("sd", r, o, x) \/ Write("sd", r, o, y)
    BY <1>4 DEF SdInitialize, SdDeploy, SdUndeploy, Update, Put, LeftAlone
  <2>2. Kept(x, w[k]) /\ Kept(y, w[k]) BY <1>10 DEF Worker, Kept
  <2> HIDE DEF x, y
  <2> QED BY <1>2, <1>3, <1>11, <2>1, <2>2
<1>16. k = "dep" /\ DepList => Kept(w'[k], w[k])
  <2> SUFFICES ASSUME k = "dep", DepList PROVE Kept(w'[k], w[k]) OBVIOUS
  <2> DEFINE p == IF w["dep"].pc = "operate" THEN "appStatus" ELSE "planeStatus"
             v == Mirrors(Owner(w["dep"].pc, w["dep"].key[2]))
             x == [w["dep"] EXCEPT !.pc = p, !.view = v]
             y == [w["dep"] EXCEPT !.pc = "finish"]
  <2>1. Step("dep", x) \/ Step("dep", y) BY DEF DepList
  <2>2. Kept(x, w[k]) /\ Kept(y, w[k]) BY <1>10 DEF Worker, Kept
  <2> HIDE DEF x, y
  <2> QED BY <1>2, <1>11, <2>1, <2>2
<1>17. k = "dep" /\ DepStatus => Kept(w'[k], w[k])
  <2> SUFFICES ASSUME k = "dep", DepStatus PROVE Kept(w'[k], w[k]) OBVIOUS
  <2> DEFINE p == IF w["dep"].pc = "appStatus" THEN "plane" ELSE "finish"
             x == [w["dep"] EXCEPT !.pc = p, !.view = {}]
  <2>1. Step("dep", x) \/ \E r, o : Write("dep", r, o, x) BY <1>4 DEF DepStatus
  <2>2. Kept(x, w[k]) BY <1>10 DEF Worker, Kept
  <2> HIDE DEF x
  <2> QED BY <1>2, <1>3, <1>11, <2>1, <2>2
<1> QED BY <1>5, <1>6, <1>7, <1>8, <1>9, <1>12, <1>13, <1>14, <1>15, <1>16, <1>17 DEF Work, Kept

LEMMA KeyCourse ==
    ASSUME TInv, CopyInv, [Next]_vars, NEW k \in Kinds, w'[k].pc # "idle"
    PROVE  \/ w[k].pc # "idle" /\ w'[k].key = w[k].key /\ w'[k].in.mark = w[k].in.mark
           \/ /\ w[k].pc = "idle" /\ UNCHANGED <<api, watch, cache>>
              /\ w'[k].key \in Ref /\ w'[k].key[1] = k
              /\ cache[w'[k].key] # Nil /\ w'[k].in = cache[w'[k].key]
<1>1. CASE User
  <2>1. Effect("user") /\ k # "user" BY <1>1, UserEffect DEF Kinds
  <2> QED BY <2>1 DEF Effect
<1>2. ~Restart BY DEF Restart, Idle
<1>3. Crash => Restart BY DEF Crash
<1>4. CASE UNCHANGED w BY <1>4
<1>5. Initialized \/ Ready \/ Resync \/ UNCHANGED vars => UNCHANGED w
  BY DEF Initialized, Ready, Resync, vars
<1>6. \A c \in Kinds : Deliver(c) => UNCHANGED w BY DEF Deliver
<1>7. ASSUME NEW c \in Kinds, HandlerFails(c) \/ Work(c), c # k
      PROVE  w[k].pc # "idle" /\ w'[k].key = w[k].key /\ w'[k].in.mark = w[k].in.mark
  <2>1. Effect(c) BY <1>2, <1>7, WorkGood DEF Good
  <2> QED BY <1>7, <2>1 DEF Effect
<1>8. CASE Begin(k) BY <1>8, BeginCourse
<1>9. ASSUME HandlerFails(k) \/ Work(k), ~Begin(k)
      PROVE  w[k].pc # "idle" /\ w'[k].key = w[k].key /\ w'[k].in.mark = w[k].in.mark
  BY <1>2, <1>9, WorkCourse
<1> QED BY <1>1, <1>2, <1>3, <1>4, <1>5, <1>6, <1>7, <1>8, <1>9 DEF Next

\* What is seen of an object was there before, or is what there is now.
LEMMA Seen ==
    ASSUME TInv, NInv, [Next]_vars, NEW r \in Ref
    PROVE  /\ cache'[r] \in {cache[r], api[r]} \cup Mail(r)
           /\ Mail(r)' \subseteq Mail(r) \cup {api'[r]}
<1>1. StoreInv BY DEF TInv
<1>2. CASE Restart BY <1>2, RestartMail
<1>3. ASSUME NEW k \in Kinds, Deliver(k)
      PROVE  cache'[r] \in {cache[r]} \cup Mail(r) /\ Mail(r)' \subseteq Mail(r)
  BY <1>1, <1>3, DeliverMail
<1>4. CASE Posted /\ UNCHANGED cache BY <1>1, <1>4, PostedMail
<1> QED BY <1>2, <1>3, <1>4, Moves

\* Nothing is made but by users; a mark is taken back by nobody but the user who recreates.
LEMMA OwnCourse ==
    ASSUME TInv, NInv, CopyInv, [Next]_vars, NEW r \in Ref, r[1] # "dep"
    PROVE  /\ hist.born \subseteq hist'.born
           /\ api'[r] # Nil => IF api[r] = Nil
                               THEN r \in hist'.born /\ (r \in hist.born => ~NoRecreation)
                               ELSE IsDeleted(api[r]) => IsDeleted(api'[r])
<1>1. CASE User
  <2>1. PICK z \in Ref : \E o \in ObjOf(z[1]) \cup {Nil} :
          /\ Sent(z, o)
          /\ o # Nil /\ api[z] = Nil => z \in hist'.born /\ (z \in hist.born => "recreate" \in UserMay)
          /\ o # Nil /\ api[z] # Nil /\ IsDeleted(api[z]) => IsDeleted(o)
    BY <1>1, UserSent
  <2>2. PICK o :
          /\ Sent(z, o)
          /\ o # Nil /\ api[z] = Nil => z \in hist'.born /\ (z \in hist.born => "recreate" \in UserMay)
          /\ o # Nil /\ api[z] # Nil /\ IsDeleted(api[z]) => IsDeleted(o)
    BY <2>1
  <2>3. hist.born \subseteq hist'.born BY <1>1, UserSent
  <2>4. api'[r] = IF r = z THEN o ELSE api[r] BY <2>2 DEF Sent, TInv, StoreInv, Objects
  <2> QED BY <2>2, <2>3, <2>4 DEF NoRecreation
<1>2. CASE ~User
  <2>1. budget'.ops = budget.ops /\ hist'.born = hist.born BY <1>2, OperatorPlain
  <2>2. Tame BY <2>1, CopiesStay
  <2> QED BY <2>1, <2>2 DEF Tame
<1> QED BY <1>1, <1>2

-----------------------------------------------------------------------------
(* Without recreation: what leaves does not come back. *)

Trace(r) == api[r] # Nil \/ cache[r] # Nil \/ Mail(r) # {} \/ OnIt(r)

\* The custom resource a Deployment is made from; any other is its own.
Home(r) == IF r[1] = "dep" THEN <<"sd", r[2]>> ELSE r

BornInv == Existing \subseteq hist.born /\ \A r \in Ref : Trace(r) => Home(r) \in hist.born

\* The orders of the watches: marked or gone, terminating or gone, gone.
Parted == {o \in SdObj \cup {Nil} : Parting(o)}
Vanishing == {o \in DepObj \cup {Nil} : ~Counts(o)}

\* A Deployment whose cached copy terminates does not run again.
TermInv ==
    \A s \in SDs : LET d == <<"dep", s>> IN
        cache[d] # Nil /\ cache[d].term => \A o \in {api[d]} \cup Mail(d) : ~Counts(o)

\* An application or plane that was there from the start is in the cache, until it goes.
StayInv ==
    \A r \in Existing : r[1] \in {"app", "plane"} /\ api[r] # Nil => cache[r] # Nil /\ Nil \notin Mail(r)

OnceInv ==
    /\ BornInv /\ MarkInv /\ TermInv /\ StayInv
    /\ Ordered("sd", Parted) /\ Ordered("dep", Vanishing) /\ Ordered("dep", {Nil})

\* A step of the system in which nothing is recreated.
Once ==
    /\ NoRecreation /\ TInv /\ TInv' /\ NInv /\ CopyInv /\ LatestComes /\ OnceInv /\ [Next]_vars

LEMMA SdRef ==
    \A s \in SDs : /\ <<"sd", s>> \in Ref /\ <<"sd", s>>[1] = "sd" /\ <<"sd", s>>[2] = s
                   /\ <<"dep", s>> \in Ref /\ <<"dep", s>>[1] = "dep" /\ <<"dep", s>>[2] = s
  BY RefKind

\* Who works on an SQBDeployment; in the step of its Deployment, somebody does.
LEMMA SdStepOn ==
    ASSUME TInv, SdDeploy \/ SdUndeploy, NEW s \in SDs, w["sd"].key[2] = s
    PROVE  /\ OnIt(<<"sd", s>>) /\ w["sd"].pc # "idle" /\ w["sd"].key = <<"sd", s>>
           /\ SdUndeploy => IsDeleted(w["sd"].in)
           /\ SdDeploy => ~IsDeleted(w["sd"].in)
<1>1. w["sd"].pc = "operate" /\ w["sd"].key = <<"sd", s>> BY SdWrites
<1> QED BY <1>1 DEF OnIt, SdUndeploy, SdDeploy, IsDeleted

LEMMA BornStays == ASSUME Once PROVE BornInv'
<1>1. TInv /\ NInv /\ CopyInv /\ [Next]_vars /\ BornInv /\ StoreInv BY DEF Once, OnceInv, TInv
<1>2. hist.born \subseteq hist'.born
  <2>1. CASE User BY <1>1, <2>1, UserSent
  <2>2. CASE ~User BY <1>1, <2>2, OperatorPlain
  <2> QED BY <2>1, <2>2
<1>3. Existing \subseteq hist'.born BY <1>1, <1>2 DEF BornInv
<1> SUFFICES ASSUME NEW r \in Ref, Trace(r)' PROVE Home(r) \in hist'.born
  BY <1>3 DEF BornInv, Home
<1>4. CASE Trace(r) BY <1>1, <1>2, <1>4 DEF BornInv
<1>5. CASE ~Trace(r)
  <2>1. cache'[r] = Nil /\ Mail(r)' \subseteq {api'[r]} BY <1>1, <1>5, Seen DEF Trace
  <2>2. ~OnIt(r)'
    <3> SUFFICES ASSUME OnIt(r)' PROVE FALSE OBVIOUS
    <3>1. r[1] \in Kinds /\ w'[r[1]].pc # "idle" /\ w'[r[1]].key = r BY RefKind DEF OnIt
    <3>2. OnIt(r) \/ cache[r] # Nil BY <1>1, <3>1, KeyCourse DEF OnIt
    <3> QED BY <1>5, <3>2 DEF Trace
  <2>3. api'[r] # Nil
    <3> SUFFICES ASSUME api'[r] = Nil PROVE FALSE OBVIOUS
    <3>1. api'[r] = api[r] /\ Nil \in Mail(r)' BY <1>5, <2>1, <2>2 DEF Trace
    <3>2. CASE Restart BY <3>1, <3>2, RestartMail
    <3>3. ASSUME NEW k \in Kinds, Deliver(k) PROVE Nil \in Mail(r) BY <1>1, <3>1, <3>3, DeliverMail
    <3>4. CASE UNCHANGED <<api, watch>>
      <4>1. Mail(r)' = Mail(r) BY <3>4 DEF Mail
      <4> QED BY <1>5, <3>1, <4>1 DEF Trace
    <3>5. ASSUME NEW z \in Ref, NEW o \in ObjOf(z[1]) \cup {Nil}, Sent(z, o) PROVE FALSE
      <4>1. api'[z] = o BY <1>1, <3>5 DEF Sent, StoreInv, Objects
      <4>2. Mail(r)' = Mail(r) BY <1>1, <3>1, <3>5, <4>1, SentMail
      <4> QED BY <1>5, <3>1, <4>2 DEF Trace
    <3> QED BY <1>1, <1>5, <3>2, <3>3, <3>4, <3>5, Moves DEF Trace, Posted
  <2>4. CASE r[1] # "dep"
    <3>1. r \in hist'.born BY <1>1, <1>5, <2>3, <2>4, OwnCourse DEF Trace
    <3> QED BY <2>4, <3>1 DEF Home
  <2>5. CASE r[1] = "dep"
    <3>1. PICK s \in SDs : s = r[2] /\ r = <<"dep", s>> BY <2>5, RefKind
    <3>2. api[r] = Nil BY <1>5 DEF Trace
    <3>3. SdDeploy /\ w["sd"].key[2] = s
      <4>1. ~User /\ ~UNCHANGED api BY <1>1, <2>3, <3>1, <3>2, UserDeployments
      <4>2. ASSUME NEW z \in Ref, NEW o, Sent(z, o), Plain(z, o) PROVE SdDeploy /\ w["sd"].key[2] = s
        <5>1. z = r /\ o = api'[r] BY <1>1, <2>3, <3>2, <4>2 DEF Sent, StoreInv, Objects
        <5> QED BY <2>3, <2>5, <3>1, <3>2, <4>2, <5>1 DEF Plain
      <4> QED BY <1>1, <4>1, <4>2, OperatorPlain DEF OneWrite, Restart, Deliver
    <3>4. OnIt(<<"sd", s>>) BY <1>1, <3>3, SdStepOn
    <3>5. Home(<<"sd", s>>) \in hist.born BY <1>1, <3>4, SdRef DEF BornInv, Trace
    <3>6. Home(<<"sd", s>>) = <<"sd", s>> /\ Home(r) = <<"sd", s>> BY <2>5, <3>1, SdRef DEF Home
    <3> QED BY <1>2, <3>5, <3>6
  <2> QED BY <2>4, <2>5
<1> QED BY <1>4, <1>5

LEMMA PartingStays ==
    ASSUME Once, NEW r \in Ref, r[1] # "dep", r \in hist.born, Parting(api[r])
    PROVE  Parting(api'[r])
<1>1. TInv /\ NInv /\ CopyInv /\ NoRecreation /\ [Next]_vars BY DEF Once
<1> QED BY <1>1, OwnCourse DEF Parting

LEMMA LeavingStays ==
    ASSUME Once, NEW s \in SDs, <<"sd", s>> \in hist.born, Leaving(s)
    PROVE  Leaving(s)'
<1> DEFINE r == <<"sd", s>>
<1>1. TInv /\ NInv /\ [Next]_vars /\ r \in Ref /\ r[1] # "dep" BY SdRef DEF Once
<1>2. \A o \in {api[r], cache[r]} \cup Mail(r) : Parting(o) BY DEF Leaving
<1>3. Parting(api'[r]) BY <1>1, <1>2, PartingStays
<1>4. cache'[r] \in {cache[r], api[r]} \cup Mail(r) /\ Mail(r)' \subseteq Mail(r) \cup {api'[r]}
  BY <1>1, Seen
<1> HIDE DEF r
<1>5. \A o \in {api'[r], cache'[r]} \cup Mail(r)' : Parting(o) BY <1>2, <1>3, <1>4
<1> QED BY <1>5 DEF Leaving, r, Parting

\* The order of the marks in the watch of SQBDeployments.
LEMMA PartedStays == ASSUME Once PROVE Ordered("sd", Parted)'
<1>1. TInv /\ TInv' /\ NInv /\ [Next]_vars /\ BornInv /\ "sd" \in Kinds /\ Ordered("sd", Parted)
  BY DEF Once, OnceInv, Kinds
<1>2. ASSUME NEW r \in Ref, r[1] = "sd", Mail(r) # {}, api[r] \in Parted PROVE api'[r] \in Parted
  <2>1. r \in hist.born BY <1>1, <1>2 DEF BornInv, Trace, Home
  <2>2. Parting(api'[r]) BY <1>2, <2>1, PartingStays DEF Parted
  <2>3. api'[r] \in SdObj \cup {Nil} BY <1>1, <1>2, ObjKind DEF TInv, StoreInv, Objects
  <2> QED BY <2>2, <2>3 DEF Parted
<1> QED BY <1>1, <1>2, OrderStays

\* A Deployment that starts to terminate has an SQBDeployment that goes.
LEMMA TornCourse ==
    ASSUME Once, NEW s \in SDs, Torn(s)', ~Torn(s)
    PROVE  /\ Leaving(s) /\ <<"sd", s>> \in hist.born /\ OnIt(<<"sd", s>>) /\ IsDeleted(w["sd"].in)
<1> DEFINE d == <<"dep", s>>
<1>1. /\ TInv /\ StoreInv /\ NInv /\ [Next]_vars /\ BornInv /\ MarkInv /\ d \in Ref /\ d[1] = "dep" /\ d[2] = s
      /\ <<"sd", s>> \in Ref
  BY SdRef DEF Once, OnceInv, TInv
<1>2. cache'[d] \in {cache[d], api[d]} \cup Mail(d) /\ Mail(d)' \subseteq Mail(d) \cup {api'[d]} BY <1>1, Seen
<1>3. /\ api[d] # Nil => ~api[d].term
      /\ cache[d] # Nil => ~cache[d].term
      /\ \A o \in Mail(d) : Counts(o)
  BY DEF Torn
<1>4. PICK o : o = api'[d] OBVIOUS
<1>5. (o # Nil /\ o.term) \/ (o \in Mail(d)' /\ ~Counts(o))
  <2>1. cache'[d] # Nil => ~cache'[d].term BY <1>2, <1>3 DEF Counts
  <2>2. \/ api'[d] # Nil /\ api'[d].term
        \/ cache'[d] # Nil /\ cache'[d].term
        \/ \E x \in Mail(d)' : ~Counts(x)
    BY DEF Torn, Counts
  <2> QED BY <1>2, <1>3, <1>4, <2>1, <2>2
<1>6. o # api[d]
  <2> SUFFICES ASSUME o = api[d] PROVE FALSE OBVIOUS
  <2>1. o \in Mail(d)' /\ ~Counts(o) /\ o \notin Mail(d) BY <1>3, <1>5
  <2>2. CASE Restart BY <1>1, <2>1, <2>2, RestartMail
  <2>3. ASSUME NEW k \in Kinds, Deliver(k) PROVE FALSE BY <1>1, <2>1, <2>3, DeliverMail
  <2>4. CASE UNCHANGED <<api, watch>>
    <3>1. Mail(d)' = Mail(d) BY <2>4 DEF Mail
    <3> QED BY <2>1, <3>1
  <2>5. ASSUME NEW z \in Ref, NEW x \in ObjOf(z[1]) \cup {Nil}, Sent(z, x) PROVE FALSE
    <3>1. api'[z] = x BY <1>1, <2>5 DEF Sent, StoreInv, Objects
    <3>2. Mail(d)' = Mail(d) BY <1>1, <1>4, <2>5, <3>1, SentMail
    <3> QED BY <2>1, <3>2
  <2> QED BY <1>1, <2>2, <2>3, <2>4, <2>5, Moves DEF Posted
<1>7. ~User /\ ~UNCHANGED api BY <1>1, <1>4, <1>6, UserDeployments
<1>8. PICK z \in Ref : \E x \in ObjOf(z[1]) \cup {Nil} : Sent(z, x) /\ Plain(z, x)
  BY <1>1, <1>7, OperatorPlain DEF OneWrite, Restart, Deliver
<1>9. PICK x : Sent(z, x) /\ Plain(z, x) BY <1>8
<1>10. z = d /\ x = o BY <1>1, <1>4, <1>6, <1>9 DEF Sent, StoreInv, Objects
<1> HIDE DEF d
<1>11. SdUndeploy /\ w["sd"].key[2] = s
  <2>1. o # Nil BY <1>1, <1>3, <1>6, <1>9, <1>10 DEF Plain
  <2>2. o.term BY <1>5, <2>1 DEF Counts
  <2> QED BY <1>1, <1>3, <1>9, <1>10, <2>1, <2>2 DEF Plain
<1>12. OnIt(<<"sd", s>>) /\ IsDeleted(w["sd"].in) BY <1>1, <1>11, SdStepOn
<1>13. Leaving(s) BY <1>1, <1>12 DEF MarkInv
<1>14. <<"sd", s>> \in hist.born BY <1>1, <1>12, SdRef DEF BornInv, Trace, Home
<1> QED BY <1>12, <1>13, <1>14

LEMMA MarkStays == ASSUME Once PROVE MarkInv'
<1>1. /\ TInv /\ StoreInv /\ NInv /\ CopyInv /\ [Next]_vars /\ BornInv /\ MarkInv /\ Ordered("sd", Parted)
      /\ "sd" \in Kinds
  BY DEF Once, OnceInv, TInv, Kinds
<1> SUFFICES ASSUME NEW s \in SDs
             PROVE  LET r == <<"sd", s>> IN
                    /\ cache'[r] # Nil /\ IsDeleted(cache'[r]) => Leaving(s)'
                    /\ OnIt(r)' /\ IsDeleted(w'["sd"].in) => Leaving(s)'
                    /\ Torn(s)' => Leaving(s)' /\ (OnIt(r)' => IsDeleted(w'["sd"].in))
  BY DEF MarkInv, IsDeleted
<1> DEFINE r == <<"sd", s>>
<1>2. r \in Ref /\ r[1] = "sd" /\ r[2] = s BY SdRef
<1>3. Trace(r) => r \in hist.born BY <1>1, <1>2 DEF BornInv, Home
<1>4. Torn(s) => r \in hist.born
  <2>1. <<"dep", s>> \in Ref /\ Home(<<"dep", s>>) = r BY SdRef DEF Home
  <2>2. Torn(s) => Trace(<<"dep", s>>) BY DEF Torn, Trace
  <2> QED BY <1>1, <2>1, <2>2 DEF BornInv
<1>5. /\ cache[r] # Nil /\ IsDeleted(cache[r]) => Leaving(s)
      /\ OnIt(r) /\ IsDeleted(w["sd"].in) => Leaving(s)
      /\ Torn(s) => Leaving(s) /\ (OnIt(r) => IsDeleted(w["sd"].in))
  BY <1>1 DEF MarkInv
<1>6. r \in hist.born /\ Leaving(s) => Leaving(s)' BY LeavingStays
<1>7. OnIt(r)' => \/ OnIt(r) /\ w'["sd"].in.mark = w["sd"].in.mark
                  \/ cache[r] # Nil /\ w'["sd"].in = cache[r]
  BY <1>1, <1>2, KeyCourse DEF OnIt
<1> HIDE DEF r
<1>8. ASSUME cache'[r] # Nil, IsDeleted(cache'[r]) PROVE Leaving(s)'
  <2>1. CASE cache'[r] = cache[r] BY <1>3, <1>5, <1>6, <1>8, <2>1 DEF Trace
  <2>2. CASE Restart
    <3>1. api' = api /\ cache'[r] = api[r] /\ Mail(r)' = {} BY <1>2, <2>2, RestartMail DEF Restart
    <3>2. \A o \in {api'[r], cache'[r]} \cup Mail(r)' : Parting(o) BY <1>8, <3>1 DEF Parting
    <3> QED BY <3>2 DEF Leaving, r, Parting
  <2>3. ASSUME NEW k \in Kinds, Deliver(k), cache'[r] # cache[r] PROVE Leaving(s)'
    <3>1. PICK z \in Ref : \E o \in ObjOf(k) \cup {Nil} :
             /\ z[1] = k /\ o \in Mail(z) /\ Head(watch[k]).ref = z /\ Head(watch[k]).obj = o
             /\ cache'[z] = o /\ \A y \in Ref : y # z => cache'[y] = cache[y]
             /\ Mail(z) = Mail(z)' \cup {o}
      BY <1>1, <2>3, DeliverHead
    <3>2. PICK o \in ObjOf(k) \cup {Nil} :
             /\ z[1] = k /\ o \in Mail(z) /\ Head(watch[k]).ref = z /\ Head(watch[k]).obj = o
             /\ cache'[z] = o /\ \A y \in Ref : y # z => cache'[y] = cache[y]
             /\ Mail(z) = Mail(z)' \cup {o}
      BY <3>1
    <3>3. z = r /\ k = "sd" /\ cache'[r] = o BY <1>2, <2>3, <3>2
    <3>4. o \in Parted BY <1>8, <3>2, <3>3, ObjKind DEF Parted, Parting
    <3>5. api[r] \in Parted BY <1>1, <1>2, <3>2, <3>3, <3>4, OrderMail
    <3>6. \A x \in Mail(r) : x \in Parted BY <1>1, <1>2, <2>3, <3>2, <3>3, <3>4, OrderHead
    <3>7. UNCHANGED api BY <2>3 DEF Deliver
    <3>8. \A x \in {api'[r], cache'[r]} \cup Mail(r)' : Parting(x)
      BY <3>2, <3>3, <3>4, <3>5, <3>6, <3>7 DEF Parted
    <3> QED BY <3>8 DEF Leaving, r, Parting
  <2> QED BY <1>1, <2>1, <2>2, <2>3, Moves
<1>9. ASSUME OnIt(r)', IsDeleted(w'["sd"].in) PROVE Leaving(s)'
  BY <1>3, <1>5, <1>6, <1>7, <1>9 DEF Trace, IsDeleted
<1>10. ASSUME Torn(s)' PROVE Leaving(s)' /\ (OnIt(r)' => IsDeleted(w'["sd"].in))
  <2>1. CASE Torn(s)
    <3>1. Leaving(s) /\ (OnIt(r) => IsDeleted(w["sd"].in)) BY <1>5, <2>1
    <3>2. Leaving(s)' BY <1>4, <1>6, <2>1, <3>1
    <3>3. cache[r] # Nil => IsDeleted(cache[r]) BY <3>1 DEF Leaving, r, Parting
    <3> QED BY <1>7, <3>1, <3>2, <3>3 DEF IsDeleted
  <2>2. CASE ~Torn(s)
    <3>1. Leaving(s) /\ r \in hist.born /\ OnIt(r) /\ IsDeleted(w["sd"].in)
      BY <1>10, <2>2, TornCourse DEF r
    <3>2. Leaving(s)' BY <1>6, <3>1
    <3>3. cache[r] # Nil => IsDeleted(cache[r]) BY <3>1 DEF Leaving, r, Parting
    <3> QED BY <1>7, <3>1, <3>2, <3>3 DEF IsDeleted
  <2> QED BY <2>1, <2>2
<1> QED BY <1>8, <1>9, <1>10 DEF r

\* A Deployment that terminates, or did, does not run again, and does not come back.
LEMMA TornStays ==
    ASSUME Once, NEW s \in SDs, Torn(s), ~Counts(api[<<"dep", s>>])
    PROVE  /\ ~Counts(api'[<<"dep", s>>])
           /\ api[<<"dep", s>>] = Nil => api'[<<"dep", s>>] = Nil
<1>1. PICK d \in Ref : d = <<"dep", s>> /\ d[1] = "dep" /\ d[2] = s BY SdRef
<1>2. TInv /\ StoreInv /\ NInv /\ [Next]_vars /\ MarkInv BY DEF Once, OnceInv, TInv
<1> SUFFICES ASSUME api'[d] # api[d] PROVE ~Counts(api'[d]) /\ (api[d] = Nil => api'[d] = Nil)
  BY <1>1
<1>3. ~User /\ ~UNCHANGED api BY <1>1, <1>2, UserDeployments
<1>4. PICK z \in Ref : \E x \in ObjOf(z[1]) \cup {Nil} : Sent(z, x) /\ Plain(z, x)
  BY <1>2, <1>3, OperatorPlain DEF OneWrite, Restart, Deliver
<1>5. PICK x : Sent(z, x) /\ Plain(z, x) BY <1>4
<1>6. z = d /\ x = api'[d] BY <1>2, <1>5 DEF Sent, StoreInv, Objects
<1>7. CASE x = Nil BY <1>6, <1>7 DEF Counts
<1>8. CASE x # Nil
  <2>1. w["sd"].key[2] = s BY <1>1, <1>5, <1>6, <1>8 DEF Plain
  <2>2. ~SdDeploy
    <3> SUFFICES ASSUME SdDeploy PROVE FALSE OBVIOUS
    <3>1. OnIt(<<"sd", s>>) /\ ~IsDeleted(w["sd"].in) BY <1>2, <2>1, SdStepOn
    <3> QED BY <1>2, <3>1 DEF MarkInv
  <2>3. x.term /\ api[d] # Nil BY <1>1, <1>5, <1>6, <1>8, <2>2 DEF Plain
  <2> QED BY <1>6, <2>3 DEF Counts
<1> QED BY <1>7, <1>8

LEMMA VanishingStays == ASSUME Once PROVE Ordered("dep", Vanishing)' /\ Ordered("dep", {Nil})'
<1>1. /\ TInv /\ TInv' /\ StoreInv /\ NInv /\ [Next]_vars /\ LatestComes /\ "dep" \in Kinds
      /\ Ordered("dep", Vanishing) /\ Ordered("dep", {Nil})
  BY DEF Once, OnceInv, Kinds, TInv
<1>2. ASSUME NEW r \in Ref, r[1] = "dep", Mail(r) # {}, ~Counts(api[r])
      PROVE  ~Counts(api'[r]) /\ (api[r] = Nil => api'[r] = Nil)
  <2>1. PICK s \in SDs : r = <<"dep", s>> BY <1>2, RefKind
  <2>2. api[r] \in Mail(r) BY <1>1, <1>2, LastMail
  <2>3. Torn(s) BY <1>2, <2>1, <2>2 DEF Torn
  <2> QED BY <1>2, <2>1, <2>3, TornStays
<1>3. \A r \in Ref : r[1] = "dep" => api'[r] \in DepObj \cup {Nil}
  BY <1>1, ObjKind DEF TInv, StoreInv, Objects
<1>4. \A r \in Ref : r[1] = "dep" /\ Mail(r) # {} /\ api[r] \in Vanishing => api'[r] \in Vanishing
  BY <1>2, <1>3 DEF Vanishing
<1>5. \A r \in Ref : r[1] = "dep" /\ Mail(r) # {} /\ api[r] \in {Nil} => api'[r] \in {Nil}
  BY <1>2 DEF Counts
<1> QED BY <1>1, <1>4, <1>5, OrderStays

LEMMA TermStays == ASSUME Once PROVE TermInv'
<1>1. TInv /\ StoreInv /\ NInv /\ [Next]_vars /\ TermInv /\ Ordered("dep", Vanishing) /\ "dep" \in Kinds
  BY DEF Once, OnceInv, TInv, Kinds
<1> SUFFICES ASSUME NEW s \in SDs, cache'[<<"dep", s>>] # Nil, cache'[<<"dep", s>>].term
             PROVE  \A o \in {api'[<<"dep", s>>]} \cup Mail(<<"dep", s>>)' : ~Counts(o)
  BY DEF TermInv, Counts
<1> DEFINE d == <<"dep", s>>
<1>2. d \in Ref /\ d[1] = "dep" BY SdRef
<1>3. Mail(d)' \subseteq Mail(d) \cup {api'[d]} BY <1>1, <1>2, Seen
<1>4. cache[d] # Nil /\ cache[d].term => Torn(s) /\ \A o \in {api[d]} \cup Mail(d) : ~Counts(o)
  BY <1>1 DEF TermInv, Torn
<1>5. Torn(s) /\ ~Counts(api[d]) => ~Counts(api'[d]) BY TornStays
<1> HIDE DEF d
<1>6. CASE cache'[d] = cache[d]
  <2>1. cache[d] # Nil /\ cache[d].term BY <1>6 DEF d
  <2> QED BY <1>3, <1>4, <1>5, <2>1 DEF d
<1>7. CASE Restart
  <2>1. api' = api /\ cache'[d] = api[d] /\ Mail(d)' = {} BY <1>2, <1>7, RestartMail DEF Restart
  <2>2. ~Counts(cache'[d]) BY DEF d, Counts
  <2> QED BY <2>1, <2>2 DEF d
<1>8. ASSUME NEW k \in Kinds, Deliver(k), cache'[d] # cache[d]
      PROVE  \A o \in {api'[d]} \cup Mail(d)' : ~Counts(o)
  <2>1. PICK z \in Ref : \E o \in ObjOf(k) \cup {Nil} :
           /\ z[1] = k /\ o \in Mail(z) /\ Head(watch[k]).ref = z /\ Head(watch[k]).obj = o
           /\ cache'[z] = o /\ \A y \in Ref : y # z => cache'[y] = cache[y]
           /\ Mail(z) = Mail(z)' \cup {o}
    BY <1>1, <1>8, DeliverHead
  <2>2. PICK o \in ObjOf(k) \cup {Nil} :
           /\ z[1] = k /\ o \in Mail(z) /\ Head(watch[k]).ref = z /\ Head(watch[k]).obj = o
           /\ cache'[z] = o /\ \A y \in Ref : y # z => cache'[y] = cache[y]
           /\ Mail(z) = Mail(z)' \cup {o}
    BY <2>1
  <2>3. z = d /\ k = "dep" /\ cache'[d] = o BY <1>2, <1>8, <2>2
  <2>4. ~Counts(cache'[d]) BY DEF d, Counts
  <2>5. o \in Vanishing BY <2>2, <2>3, <2>4, ObjKind DEF Vanishing
  <2>6. api[d] \in Vanishing BY <1>1, <1>2, <2>2, <2>3, <2>5, OrderMail
  <2>7. \A x \in Mail(d) : x \in Vanishing BY <1>1, <1>2, <1>8, <2>2, <2>3, <2>5, OrderHead
  <2>8. UNCHANGED api BY <1>8 DEF Deliver
  <2> QED BY <2>2, <2>3, <2>6, <2>7, <2>8 DEF Vanishing
<1> QED BY <1>1, <1>6, <1>7, <1>8, Moves DEF d

\* Without recreation, an object that was there from the start was there before the step.
LEMMA FromTheStart ==
    ASSUME Once, NEW r \in Existing, r[1] # "dep", api'[r] # Nil
    PROVE  r \in Ref /\ api[r] # Nil
<1>1. r \in Ref BY RefAssumption
<1>2. TInv /\ NInv /\ CopyInv /\ [Next]_vars /\ NoRecreation /\ r \in hist.born
  BY DEF Once, OnceInv, BornInv
<1> QED BY <1>1, <1>2, OwnCourse

LEMMA StayStays == ASSUME Once PROVE StayInv'
<1>1. TInv /\ NInv /\ [Next]_vars /\ StayInv BY DEF Once, OnceInv
<1> SUFFICES ASSUME NEW r \in Existing, r[1] \in {"app", "plane"}, api'[r] # Nil
             PROVE  cache'[r] # Nil /\ Nil \notin Mail(r)'
  BY DEF StayInv
<1>2. r \in Ref /\ api[r] # Nil BY FromTheStart
<1>3. cache[r] # Nil /\ Nil \notin Mail(r) BY <1>1, <1>2 DEF StayInv
<1>4. cache'[r] \in {cache[r], api[r]} \cup Mail(r) /\ Mail(r)' \subseteq Mail(r) \cup {api'[r]}
  BY <1>1, <1>2, Seen
<1> QED BY <1>2, <1>3, <1>4

LEMMA OnceStays == ASSUME Once PROVE OnceInv'
  BY BornStays, MarkStays, TermStays, StayStays, PartedStays, VanishingStays DEF OnceInv

-----------------------------------------------------------------------------
(* The statuses. *)

\* The worker of Deployments is on s and has the status of r still to list and to write.
Ahead(r, s) ==
    /\ OnIt(<<"dep", s>>)
    /\ w["dep"].pc \in IF r[1] = "app" THEN {"operate", "appStatus"}
                                       ELSE {"operate", "appStatus", "plane", "planeStatus"}

\* What it has listed is still so, or will be listed again.
ViewInv ==
    w["dep"].pc \in {"appStatus", "planeStatus"} =>
        \A t \in SDs : Selects(Owner(w["dep"].pc, w["dep"].key[2]), t) =>
            Due(<<"dep", t>>) \/ (t \in w["dep"].view <=> Counts(cache[<<"dep", t>>]))

\* What a status says of a Deployment is so, or will be written again.
StatusInv ==
    \A r \in Existing : r[1] \in {"app", "plane"} /\ api[r] # Nil =>
        \A s \in SDs : Selects(r, s) =>
            \/ Due(<<"dep", s>>) \/ <<"dep", s>> \in hist.lost \/ Ahead(r, s)
            \/ (s \in api[r].mirrors <=> Counts(cache[<<"dep", s>>]))

\* The filter of Deployments stops no event that changes a list.
LEMMA CountsCourse ==
    ASSUME Once, NEW s \in SDs, NEW d, d = <<"dep", s>>
    PROVE  Due(d)' \/ (Counts(cache'[d]) <=> Counts(cache[d]))
<1>1. /\ TInv /\ StoreInv /\ NInv /\ [Next]_vars /\ TermInv /\ Ordered("dep", {Nil}) /\ "dep" \in Kinds
      /\ d \in Ref /\ d[1] = "dep"
  BY SdRef DEF Once, OnceInv, TInv, Kinds
<1>2. api[d] = Nil => ~Counts(cache[d]) BY <1>1 DEF NInv, GoneIsKnown
<1>3. CASE Restart
  <2>1. cache'[d] = api[d] /\ (api[d] # Nil => d \in queue') BY <1>1, <1>3, RestartMail DEF Restart
  <2> QED BY <1>2, <2>1 DEF Due, Counts
<1>4. ASSUME NEW k \in Kinds, Deliver(k), cache'[d] # cache[d], ~Due(d)'
      PROVE  Counts(cache'[d]) <=> Counts(cache[d])
  <2>1. PICK z \in Ref : \E o \in ObjOf(k) \cup {Nil} :
           /\ z[1] = k /\ o \in Mail(z)
           /\ cache'[z] = o /\ \A y \in Ref : y # z => cache'[y] = cache[y]
           /\ queue' = IF Passes(k, cache[z], o) THEN queue \cup {z} ELSE queue
    BY <1>1, <1>4, DeliverHead
  <2>2. PICK o \in ObjOf(k) \cup {Nil} :
           /\ z[1] = k /\ o \in Mail(z)
           /\ cache'[z] = o /\ \A y \in Ref : y # z => cache'[y] = cache[y]
           /\ queue' = IF Passes(k, cache[z], o) THEN queue \cup {z} ELSE queue
    BY <2>1
  <2>3. z = d /\ k = "dep" /\ cache'[d] = o BY <1>1, <1>4, <2>2
  <2>4. ~Passes("dep", cache[d], o) BY <1>4, <2>2, <2>3 DEF Due
  <2>5. CASE o = Nil
    <3>1. api[d] \in {Nil} BY <1>1, <2>2, <2>3, <2>5, OrderMail
    <3> QED BY <1>2, <2>3, <2>5, <3>1 DEF Counts
  <2>6. CASE o # Nil
    <3>1. cache[d] # Nil /\ ~o.term BY <2>4, <2>6 DEF Passes
    <3>2. ~cache[d].term BY <1>1, <2>2, <2>3, <2>6, <3>1 DEF TermInv, Counts
    <3> QED BY <2>3, <2>6, <3>1, <3>2 DEF Counts
  <2> QED BY <2>5, <2>6
<1> QED BY <1>1, <1>3, <1>4, Moves

\* A key waits until its worker takes it.
LEMMA DueCourse ==
    ASSUME TInv, NInv, [Next]_vars, ~Restart, NEW r \in Ref, ~Begin(r[1])
    PROVE  /\ Due(r) => Due(r)' \/ (w[r[1]].pc = "idle" /\ r \in hist'.lost)
           /\ r \in hist.lost => r \in hist'.lost
<1>1. StoreInv BY DEF TInv
<1>2. ASSUME Posted, UNCHANGED cache, queue \subseteq queue', hist.lost \subseteq hist'.lost
      PROVE  (Due(r) => Due(r)') /\ (r \in hist.lost => r \in hist'.lost)
  BY <1>1, <1>2, PostedDue
<1>3. CASE User BY <1>2, <1>3, UserSent DEF Posted
<1>4. CASE Initialized \/ Ready \/ Resync \/ UNCHANGED vars
  <2>1. UNCHANGED <<api, watch, cache, hist>> /\ queue \subseteq queue'
    BY <1>4 DEF Initialized, Ready, Resync, vars
  <2> QED BY <1>2, <2>1 DEF Posted
<1>5. ~Crash BY DEF Crash
<1>6. ASSUME NEW k \in Kinds, Deliver(k) PROVE (Due(r) => Due(r)') /\ hist' = hist
  BY <1>1, <1>6, DeliverDue DEF Deliver
<1>7. ASSUME NEW k \in Kinds, HandlerFails(k) \/ Work(k)
      PROVE  /\ Due(r) => Due(r)' \/ (w[r[1]].pc = "idle" /\ r \in hist'.lost)
             /\ r \in hist.lost => r \in hist'.lost
  <2>1. /\ \A z \in queue : z \in queue' \/ /\ w[k].pc = "idle" /\ z[1] = k
                                            /\ Begin(k) \/ z \in hist'.lost
        /\ \A z \in hist.lost : z \in hist'.lost \/ (Begin(k) /\ z[1] = k)
    BY <1>7, QueueCourse
  <2>2. OneWrite /\ UNCHANGED cache BY <1>7, WorkPlain
  <2>3. Posted BY <2>2 DEF OneWrite, Posted
  <2>4. CASE r \in queue => r \in queue' BY <1>1, <2>1, <2>2, <2>3, <2>4, PostedDue
  <2>5. CASE r \in queue /\ r \notin queue'
    <3>1. w[k].pc = "idle" /\ r[1] = k /\ (Begin(k) \/ r \in hist'.lost) BY <2>1, <2>5
    <3>2. ~Begin(k) BY <3>1
    <3> QED BY <2>1, <3>1, <3>2
  <2> QED BY <2>4, <2>5
<1> QED BY <1>3, <1>4, <1>5, <1>6, <1>7 DEF Next

\* Another than the worker of Deployments moves, or nobody.
LEMMA OthersMove ==
    ASSUME TInv, CopyInv, [Next]_vars, ~Restart
    PROVE  \/ /\ w'["dep"].pc = w["dep"].pc /\ w'["dep"].key = w["dep"].key
              /\ w'["dep"].view = w["dep"].view
           \/ HandlerFails("dep") \/ Work("dep")
<1>1. "dep" \in Kinds /\ "user" # "dep" BY DEF Kinds
<1>2. CASE User BY <1>1, <1>2, UserEffect DEF Effect
<1>3. Initialized \/ Ready \/ Resync \/ UNCHANGED vars => UNCHANGED w
  BY DEF Initialized, Ready, Resync, vars
<1>4. \A k \in Kinds : Deliver(k) => UNCHANGED w BY DEF Deliver
<1>5. ASSUME NEW k \in Kinds, HandlerFails(k) \/ Work(k), k # "dep"
      PROVE  /\ w'["dep"].pc = w["dep"].pc /\ w'["dep"].key = w["dep"].key
             /\ w'["dep"].view = w["dep"].view
  BY <1>1, <1>5, WorkGood DEF Good, Effect
<1>6. ~Crash BY DEF Crash
<1> QED BY <1>2, <1>3, <1>4, <1>5, <1>6 DEF Next

\* The worker of Deployments lists.
LEMMA DepListCourse ==
    ASSUME TInv, DepList
    PROVE  /\ w["dep"].pc \in {"operate", "plane"} /\ w'["dep"].key = w["dep"].key
           /\ UNCHANGED <<api, watch, cache, queue, hist>>
           /\ w["dep"].key[2] \in Labelled =>
                /\ w'["dep"].pc = IF w["dep"].pc = "operate" THEN "appStatus" ELSE "planeStatus"
                /\ w'["dep"].view = Mirrors(Owner(w["dep"].pc, w["dep"].key[2]))
           /\ w["dep"].key[2] \notin Labelled => w'["dep"].pc = "finish"
<1>1. /\ StoreInv /\ UNCHANGED <<cache, queue, hist>> /\ "dep" \in Kinds /\ w["dep"].pc \in {"operate", "plane"}
  BY DEF TInv, DepList, Frame, Kinds
<1> DEFINE p == IF w["dep"].pc = "operate" THEN "appStatus" ELSE "planeStatus"
           v == Mirrors(Owner(w["dep"].pc, w["dep"].key[2]))
           x == [w["dep"] EXCEPT !.pc = p, !.view = v]
           y == [w["dep"] EXCEPT !.pc = "finish"]
<1>2. w["dep"] \in Worker BY <1>1, BusyOK
<1>3. Step("dep", IF w["dep"].key[2] \in Labelled THEN x ELSE y) BY DEF DepList
<1>4. x.pc = p /\ x.view = v /\ x.key = w["dep"].key /\ y.pc = "finish" /\ y.key = w["dep"].key
  BY <1>2 DEF Worker
<1> HIDE DEF x, y
<1>5. w'["dep"] = IF w["dep"].key[2] \in Labelled THEN x ELSE y BY <1>1, <1>3, StepEffect
<1>6. UNCHANGED <<api, watch>> BY <1>3 DEF Step
<1> QED BY <1>1, <1>4, <1>5, <1>6

\* It writes a status, or the key waits again.
LEMMA DepStatusCourse ==
    ASSUME TInv, DepStatus
    PROVE  LET r == Owner(w["dep"].pc, w["dep"].key[2]) IN
           /\ w["dep"].pc \in {"appStatus", "planeStatus"} /\ w["dep"].key \in Ref /\ w["dep"].key[1] = "dep"
           /\ UNCHANGED cache /\ r \in Ref
           /\ \/ Fail("dep") /\ UNCHANGED api
              \/ /\ w'["dep"].pc = IF w["dep"].pc = "appStatus" THEN "plane" ELSE "finish"
                 /\ w'["dep"].key = w["dep"].key /\ UNCHANGED queue
                 /\ \A z \in Ref : z # r => api'[z] = api[z]
                 /\ cache[r] # Nil => api'[r] # Nil /\ api'[r].mirrors = w["dep"].view
<1>1. /\ StoreInv /\ UNCHANGED cache /\ "dep" \in Kinds /\ w["dep"].pc \in {"appStatus", "planeStatus"}
  BY DEF TInv, DepStatus, Frame, Kinds
<1>2. w["dep"] \in Worker /\ w["dep"].key \in Ref /\ w["dep"].key[1] = "dep" BY <1>1, BusyOK
<1>3. PICK r \in Ref : r = Owner(w["dep"].pc, w["dep"].key[2]) /\ r[1] \in {"app", "plane"}
  BY <1>2, RefKind, DepRef DEF Owner
<1> DEFINE p == IF w["dep"].pc = "appStatus" THEN "plane" ELSE "finish"
           x == [w["dep"] EXCEPT !.pc = p, !.view = {}]
           o == [cache[r] EXCEPT !.mirrors = w["dep"].view, !.err = FALSE]
<1>4. \/ Fail("dep")
      \/ cache[r] = Nil /\ Step("dep", x) /\ UNCHANGED queue
      \/ cache[r] # Nil /\ Write("dep", r, o, x) /\ UNCHANGED queue
  BY <1>3 DEF DepStatus
<1>5. x.pc = p /\ x.key = w["dep"].key BY <1>2 DEF Worker
<1>6. ASSUME cache[r] # Nil PROVE o # Nil /\ o.mirrors = w["dep"].view
  <2>1. cache[r] \in ObjOf(r[1]) /\ w["dep"].view \in SUBSET SDs
    BY <1>1, <1>2, <1>6 DEF StoreInv, Objects, Worker
  <2>2. o \in ObjOf(r[1]) BY <1>3, <2>1, StatusKind
  <2>3. o.mirrors = w["dep"].view BY <1>3, <2>1, ObjKind DEF AppObj, PlaneObj
  <2> QED BY <1>3, <2>2, <2>3, ObjKind DEF Kinds
<1> HIDE DEF x, o
<1>7. CASE Fail("dep")
  <2>1. UNCHANGED api BY <1>7 DEF Fail, Report, Step
  <2> QED BY <1>1, <1>2, <1>3, <1>7, <2>1
<1>8. CASE cache[r] = Nil /\ Step("dep", x) /\ UNCHANGED queue
  <2>1. w'["dep"] = x /\ api' = api BY <1>1, <1>8, StepEffect
  <2> QED BY <1>1, <1>2, <1>3, <1>5, <1>8, <2>1
<1>9. CASE cache[r] # Nil /\ Write("dep", r, o, x) /\ UNCHANGED queue
  <2>1. w'["dep"] = x /\ api' = [api EXCEPT ![r] = o] BY <1>1, <1>9 DEF Write
  <2>2. api'[r] = o /\ \A z \in Ref : z # r => api'[z] = api[z] BY <1>1, <2>1 DEF StoreInv, Objects
  <2> QED BY <1>1, <1>2, <1>3, <1>5, <1>6, <1>9, <2>1, <2>2
<1> QED BY <1>4, <1>7, <1>8, <1>9

\* On the way from its start to the status of r, the worker of Deployments comes to the writing.
LEMMA AheadCourse ==
    ASSUME Once, ~Restart, NEW r \in Ref, r[1] \in {"app", "plane"}, NEW s \in SDs, Selects(r, s), Ahead(r, s)
    PROVE  \/ Ahead(r, s)' \/ Due(<<"dep", s>>)' \/ <<"dep", s>> \in hist'.lost
           \/ DepStatus /\ r = Owner(w["dep"].pc, w["dep"].key[2])
<1>1. TInv /\ CopyInv /\ [Next]_vars /\ "dep" \in Kinds BY DEF Once, Kinds
<1>2. PICK d \in Ref : d = <<"dep", s>> /\ d[1] = "dep" /\ d[2] = s BY SdRef
<1>3. /\ w["dep"].key = d
      /\ w["dep"].pc \in IF r[1] = "app" THEN {"operate", "appStatus"}
                                         ELSE {"operate", "appStatus", "plane", "planeStatus"}
  BY <1>2 DEF Ahead, OnIt
<1>4. s \in Labelled /\ r = IF r[1] = "app" THEN AppRef(s) ELSE PlaneRef(s)
  BY RefKind DEF Selects, AppRef, PlaneRef
<1>5. ASSUME w'["dep"].key = d,
             w'["dep"].pc \in IF r[1] = "app" THEN {"operate", "appStatus"}
                                              ELSE {"operate", "appStatus", "plane", "planeStatus"}
      PROVE  Ahead(r, s)'
  <2>1. w'["dep"].pc # "idle" BY <1>5
  <2>2. OnIt(d)' BY <1>2, <1>5, <2>1 DEF OnIt
  <2> QED BY <1>2, <1>5, <2>2 DEF Ahead
<1>6. CASE w'["dep"].pc = w["dep"].pc /\ w'["dep"].key = w["dep"].key BY <1>3, <1>5, <1>6
<1>7. CASE HandlerFails("dep")
  <2>1. CASE Fail("dep") BY <1>2, <1>3, <2>1 DEF Fail, Due
  <2>2. CASE hist' = [hist EXCEPT !.lost = @ \cup {d}]
    <3>1. d \in hist'.lost BY <1>1, <2>2 DEF TInv, RestType
    <3> QED BY <1>2, <3>1
  <2> QED BY <1>3, <1>7, <2>1, <2>2 DEF HandlerFails
<1>8. CASE DepList
  <2>1. w["dep"].pc \in {"operate", "plane"} /\ w'["dep"].key = d
    BY <1>1, <1>3, <1>8, DepListCourse
  <2>2. w'["dep"].pc = IF w["dep"].pc = "operate" THEN "appStatus" ELSE "planeStatus"
    BY <1>1, <1>2, <1>3, <1>4, <1>8, DepListCourse
  <2> QED BY <1>3, <1>5, <2>1, <2>2
<1>9. CASE DepStatus
  <2>1. w["dep"].pc \in {"appStatus", "planeStatus"} BY <1>9 DEF DepStatus
  <2>2. \/ Fail("dep")
        \/ /\ w'["dep"].pc = IF w["dep"].pc = "appStatus" THEN "plane" ELSE "finish"
           /\ w'["dep"].key = d
    BY <1>1, <1>3, <1>9, DepStatusCourse
  <2>3. CASE Fail("dep") BY <1>2, <1>3, <2>3 DEF Fail, Due
  <2>4. CASE r = Owner(w["dep"].pc, w["dep"].key[2]) BY <1>9, <2>4
  <2>5. CASE r # Owner(w["dep"].pc, w["dep"].key[2]) /\ ~Fail("dep")
    <3>1. r[1] # "app" /\ w["dep"].pc = "appStatus" BY <1>2, <1>3, <1>4, <2>1, <2>5 DEF Owner
    <3> QED BY <1>5, <2>2, <2>5, <3>1
  <2> QED BY <2>3, <2>4, <2>5
<1>10. Work("dep") => DepList \/ DepStatus
  BY <1>3 DEF Work, DropEvent, Begin, RejectMark, Finish, List, Item, Panic, DepFinish
<1> QED BY <1>1, <1>6, <1>7, <1>8, <1>9, <1>10, OthersMove DEF Once

\* A status changes by the worker of Deployments only.
LEMMA StatusCourse ==
    ASSUME Once, NEW r \in Ref, r[1] \in {"app", "plane"}, api[r] # Nil, api'[r] # Nil
    PROVE  \/ api'[r].mirrors = api[r].mirrors
           \/ DepStatus /\ r = Owner(w["dep"].pc, w["dep"].key[2])
<1>1. TInv /\ StoreInv /\ NInv /\ [Next]_vars BY DEF Once, TInv
<1>2. CASE User
  <2>1. PICK z \in Ref : \E o \in ObjOf(z[1]) \cup {Nil} :
          Sent(z, o) /\ (o # Nil /\ api[z] # Nil /\ z[1] # "sd" => o.mirrors = api[z].mirrors)
    BY <1>1, <1>2, UserSent
  <2>2. PICK o : Sent(z, o) /\ (o # Nil /\ api[z] # Nil /\ z[1] # "sd" => o.mirrors = api[z].mirrors)
    BY <2>1
  <2>3. api'[r] = IF r = z THEN o ELSE api[r] BY <1>1, <2>2 DEF Sent, StoreInv, Objects
  <2> QED BY <2>2, <2>3
<1>3. ASSUME NEW z \in Ref, NEW o, Sent(z, o), Plain(z, o), ~DepStatus
      PROVE  api'[r].mirrors = api[r].mirrors
  <2>1. api'[r] = IF r = z THEN o ELSE api[r] BY <1>1, <1>3 DEF Sent, StoreInv, Objects
  <2> QED BY <1>3, <2>1 DEF Plain
<1>4. CASE DepStatus
  <2>1. UNCHANGED api \/ \A z \in Ref : z # Owner(w["dep"].pc, w["dep"].key[2]) => api'[z] = api[z]
    BY <1>1, <1>4, DepStatusCourse
  <2> QED BY <1>4, <2>1
<1>5. UNCHANGED api => api'[r].mirrors = api[r].mirrors OBVIOUS
<1> QED BY <1>1, <1>2, <1>3, <1>4, <1>5, OperatorPlain DEF OneWrite, Restart, Deliver

LEMMA ViewStays == ASSUME Once, ViewInv PROVE ViewInv'
<1>1. TInv /\ NInv /\ CopyInv /\ [Next]_vars /\ "dep" \in Kinds BY DEF Once, Kinds
<1> SUFFICES ASSUME w'["dep"].pc \in {"appStatus", "planeStatus"}, NEW t \in SDs,
                    Selects(Owner(w'["dep"].pc, w'["dep"].key[2]), t)
             PROVE  Due(<<"dep", t>>)' \/ (t \in w'["dep"].view <=> Counts(cache'[<<"dep", t>>]))
  BY DEF ViewInv, Counts, Owner, AppRef, PlaneRef, Selects
<1>2. PICK d \in Ref : d = <<"dep", t>> /\ d[1] = "dep" BY SdRef
<1>3. ~Restart BY <1>1 DEF Restart, Idle
<1>4. ~Begin("dep")
  <2> SUFFICES ASSUME Begin("dep") PROVE FALSE OBVIOUS
  <2>1. w'["dep"].pc \in {"idle", "operate"} BY <1>1, BeginCourse
  <2> QED BY <2>1
<1>5. CASE w'["dep"].pc = w["dep"].pc /\ w'["dep"].key = w["dep"].key /\ w'["dep"].view = w["dep"].view
  <2>1. Due(d) \/ (t \in w["dep"].view <=> Counts(cache[d])) BY <1>2, <1>5 DEF ViewInv
  <2>2. Due(d) => Due(d)' BY <1>1, <1>2, <1>3, <1>4, <1>5, DueCourse
  <2>3. Due(d)' \/ (Counts(cache'[d]) <=> Counts(cache[d])) BY <1>2, CountsCourse
  <2> QED BY <1>2, <1>5, <2>1, <2>2, <2>3
<1>6. CASE DepList
  <2>1. /\ w["dep"].pc \in {"operate", "plane"} /\ w'["dep"].key = w["dep"].key /\ UNCHANGED cache
        /\ w'["dep"].pc = IF w["dep"].pc = "operate" THEN "appStatus" ELSE "planeStatus"
        /\ w'["dep"].view = Mirrors(Owner(w["dep"].pc, w["dep"].key[2]))
    BY <1>1, <1>6, DepListCourse
  <2>2. Owner(w'["dep"].pc, w'["dep"].key[2]) = Owner(w["dep"].pc, w["dep"].key[2]) BY <2>1 DEF Owner
  <2>3. t \in w'["dep"].view <=> Counts(cache[<<"dep", t>>]) BY <2>1, <2>2 DEF Mirrors
  <2> QED BY <2>1, <2>3
<1>7. HandlerFails("dep") \/ (Work("dep") /\ ~DepList) =>
        w'["dep"].pc = w["dep"].pc /\ w'["dep"].key = w["dep"].key /\ w'["dep"].view = w["dep"].view
  <2>1. ~Fail("dep") /\ ~GiveUp("dep") BY <1>1, ReportIdle DEF Fail, GiveUp, TInv, Idle
  <2>2. DropEvent("dep") => w'["dep"] = w["dep"] BY <1>1, StepEffect DEF DropEvent, TInv
  <2>3. ~DepStatus BY <1>1, <2>1, DepStatusCourse
  <2>4. ~DepFinish
    <3> SUFFICES ASSUME DepFinish PROVE FALSE OBVIOUS
    <3>1. Step("dep", Idle) \/ \E r, o : Write("dep", r, o, Idle)
      BY <2>1 DEF DepFinish, Update, Put, LeftAlone
    <3>2. w'["dep"] = Idle BY <1>1, <3>1, StepEffect DEF TInv, Write
    <3> QED BY <3>2 DEF Idle
  <2> QED BY <1>4, <2>1, <2>2, <2>3, <2>4
      DEF Work, HandlerFails, RejectMark, Finish, List, Item, Panic
<1> QED BY <1>1, <1>3, <1>5, <1>6, <1>7, OthersMove

LEMMA StatusStays == ASSUME Once, ViewInv, StatusInv PROVE StatusInv'
<1>1. /\ TInv /\ StoreInv /\ NInv /\ CopyInv /\ LatestComes /\ StayInv /\ [Next]_vars /\ "dep" \in Kinds
  BY DEF Once, OnceInv, TInv, Kinds
<1> SUFFICES ASSUME NEW r \in Existing, r[1] \in {"app", "plane"}, api'[r] # Nil,
                    NEW s \in SDs, Selects(r, s)
             PROVE  \/ Due(<<"dep", s>>)' \/ <<"dep", s>> \in hist'.lost \/ Ahead(r, s)'
                    \/ (s \in api'[r].mirrors <=> Counts(cache'[<<"dep", s>>]))
  BY DEF StatusInv, Counts
<1>2. r \in Ref /\ api[r] # Nil BY FromTheStart
<1>3. PICK d \in Ref : d = <<"dep", s>> /\ d[1] = "dep" /\ d[2] = s BY SdRef
<1>4. s \in api[r].mirrors => api[d] # Nil BY <1>1, <1>2, <1>3 DEF NInv, Named
<1>5. \/ Due(d) \/ d \in hist.lost \/ Ahead(r, s) \/ (s \in api[r].mirrors <=> Counts(cache[d]))
  BY <1>2, <1>3 DEF StatusInv
<1>6. CASE Restart
  <2>1. api' = api /\ cache'[d] = api[d] /\ (api[d] # Nil => d \in queue') BY <1>6, RestartMail DEF Restart
  <2> QED BY <1>3, <1>4, <2>1 DEF Due, Counts
<1>7. CASE Begin("dep")
  <2>1. w["dep"].pc = "idle" /\ UNCHANGED <<api, watch, cache>> BY <1>1, <1>7, BeginCourse
  <2>2. PICK z \in queue :
          /\ z \in Ref /\ queue' = queue \ {z} /\ hist'.lost = hist.lost \ {z}
          /\ IF cache[z] = Nil THEN w'["dep"].pc = "idle"
             ELSE w'["dep"].pc = "operate" /\ w'["dep"].key = z /\ w'["dep"].in = cache[z]
    BY <1>1, <1>7, BeginCourse
  <2>3. ~Ahead(r, s) BY <1>3, <2>1 DEF Ahead, OnIt
  <2>4. Mail(d)' = Mail(d) BY <2>1 DEF Mail
  <2>5. CASE d # z
    <3>1. Due(d) => Due(d)' BY <2>1, <2>2, <2>4, <2>5 DEF Due, Coming
    <3> QED BY <1>3, <1>5, <2>1, <2>2, <2>3, <2>5, <3>1
  <2>6. CASE d = z /\ cache[d] # Nil
    <3>1. w'["dep"].pc = "operate" /\ w'["dep"].key = d BY <2>2, <2>6
    <3>2. Ahead(r, s)' BY <1>3, <3>1 DEF Ahead, OnIt
    <3> QED BY <3>2
  <2>7. CASE cache[d] = Nil /\ api[d] # Nil
    <3>1. api[d] \in Mail(d)' BY <1>1, <2>4, <2>7, LastMail
    <3>2. Passes("dep", cache'[d], api[d]) BY <2>1, <2>7 DEF Passes
    <3>3. Due(d)' BY <1>3, <3>1, <3>2 DEF Due, Coming
    <3> QED BY <1>3, <3>3
  <2>8. CASE cache[d] = Nil /\ api[d] = Nil BY <1>3, <1>4, <2>1, <2>8 DEF Counts
  <2> QED BY <2>5, <2>6, <2>7, <2>8
<1>8. ASSUME ~Restart, ~Begin("dep")
      PROVE  /\ Due(d) => Due(d)' \/ d \in hist'.lost
             /\ w["dep"].pc # "idle" /\ Due(d) => Due(d)'
             /\ d \in hist.lost => d \in hist'.lost
             /\ Due(d)' \/ (Counts(cache'[d]) <=> Counts(cache[d]))
  <2>1. ~Begin(d[1]) BY <1>3, <1>8
  <2>2. /\ Due(d) => Due(d)' \/ (w[d[1]].pc = "idle" /\ d \in hist'.lost)
        /\ d \in hist.lost => d \in hist'.lost
    BY <1>1, <1>8, <2>1, DueCourse
  <2> QED BY <1>3, <2>2, CountsCourse
<1>9. ASSUME ~Restart, ~Begin("dep"), ~(DepStatus /\ r = Owner(w["dep"].pc, w["dep"].key[2]))
      PROVE  Due(d)' \/ d \in hist'.lost \/ Ahead(r, s)' \/ (s \in api'[r].mirrors <=> Counts(cache'[d]))
  <2>1. api'[r].mirrors = api[r].mirrors BY <1>2, <1>9, StatusCourse
  <2>2. Ahead(r, s) => Ahead(r, s)' \/ Due(d)' \/ d \in hist'.lost BY <1>2, <1>3, <1>9, AheadCourse
  <2> QED BY <1>5, <1>8, <1>9, <2>1, <2>2
<1>10. ASSUME ~Begin("dep"), ~Restart, DepStatus, r = Owner(w["dep"].pc, w["dep"].key[2])
       PROVE  Due(d)' \/ d \in hist'.lost \/ Ahead(r, s)' \/ (s \in api'[r].mirrors <=> Counts(cache'[d]))
  <2>1. w["dep"].pc \in {"appStatus", "planeStatus"} /\ UNCHANGED cache BY <1>1, <1>10, DepStatusCourse
  <2>2. CASE Fail("dep") /\ UNCHANGED api
    <3>1. Ahead(r, s) => d \in queue' BY <1>3, <2>2 DEF Ahead, OnIt, Fail
    <3> QED BY <1>5, <1>8, <1>10, <2>1, <2>2, <3>1 DEF Due
  <2>3. CASE api'[r].mirrors = w["dep"].view
    <3>1. Due(d) \/ (s \in w["dep"].view <=> Counts(cache[d])) BY <1>3, <1>10, <2>1 DEF ViewInv
    <3> QED BY <1>8, <1>10, <2>1, <2>3, <3>1
  <2>4. cache[r] # Nil BY <1>1, <1>2 DEF StayInv
  <2> QED BY <1>1, <1>10, <2>2, <2>3, <2>4, DepStatusCourse
<1> QED BY <1>3, <1>6, <1>7, <1>9, <1>10

-----------------------------------------------------------------------------
(* The invariant, and what it says when nothing is left to do. *)

AllRest == AllInv /\ LatestComes /\ RInv /\ (NoRecreation => OnceInv /\ ViewInv /\ StatusInv)

LEMMA InitMail ==
    ASSUME Init
    PROVE  /\ \A k \in Kinds : Len(watch[k]) = 0 /\ w[k].pc = "idle"
           /\ \A r \in Ref : Mail(r) = {} /\ ~OnIt(r) /\ api[r] = IF r \in Existing THEN SettledObj(r) ELSE Nil
           /\ cache = api
<1>1. \A k \in Kinds : watch[k] = <<>> /\ w[k] = Idle BY DEF Init
<1>2. \A k \in Kinds : Len(watch[k]) = 0 /\ w[k].pc = "idle" BY <1>1 DEF Idle
<1>3. \A r \in Ref : Mail(r) = {} /\ ~OnIt(r) BY <1>2, RefKind DEF Mail, OnIt
<1> QED BY <1>2, <1>3 DEF Init

LEMMA InitRest == ASSUME Init, AllInv PROVE AllRest
<1>1. /\ \A k \in Kinds : Len(watch[k]) = 0 /\ w[k].pc = "idle"
      /\ \A r \in Ref : Mail(r) = {} /\ ~OnIt(r) /\ api[r] = IF r \in Existing THEN SettledObj(r) ELSE Nil
      /\ cache = api
  BY InitMail
<1>2. /\ \A s \in SDs : LET r == <<"sd", s>>  d == <<"dep", s>> IN
           /\ r \in Ref /\ d \in Ref /\ (r \in Existing <=> d \in Existing)
           /\ r \in Existing => api[r].mark = "none" /\ api[r].init /\ Follows(api[d], api[r])
           /\ d \in Existing => Counts(api[d]) /\ ~api[d].term
           /\ d \notin Existing => api[d] = Nil
  <2> SUFFICES ASSUME NEW s \in SDs
               PROVE  LET r == <<"sd", s>>  d == <<"dep", s>> IN
                      /\ r \in Ref /\ d \in Ref /\ (r \in Existing <=> d \in Existing)
                      /\ r \in Existing => api[r].mark = "none" /\ api[r].init /\ Follows(api[d], api[r])
                      /\ d \in Existing => Counts(api[d]) /\ ~api[d].term
                      /\ d \notin Existing => api[d] = Nil
    OBVIOUS
  <2>1. PICK r \in Ref : r = <<"sd", s>> /\ r[1] = "sd" BY SdRef
  <2>2. PICK d \in Ref : d = <<"dep", s>> /\ d[1] = "dep" BY SdRef
  <2>3. r \in Existing <=> d \in Existing BY <2>1, <2>2, RefAssumption
  <2> DEFINE n == NewObj("sd")
  <2>4. n \in SdObj /\ n.mark = "none" /\ n.istio = FALSE BY DEF NewObj, SdObj, Marks
  <2> HIDE DEF n
  <2>5. r \in Existing => api[r].mark = "none" /\ api[r].init /\ api[r].istio = FALSE
    <3>1. SettledObj(r) = [n EXCEPT !.init = TRUE] BY <2>1 DEF SettledObj, n
    <3>2. SettledObj(r).mark = "none" /\ SettledObj(r).init /\ SettledObj(r).istio = FALSE
      BY <2>4, <3>1 DEF SdObj
    <3> QED BY <1>1, <2>1, <3>2
  <2>6. d \in Existing => api[d] \in DepObj /\ ~api[d].term /\ api[d].istio = FALSE
    <3>1. SettledObj(d) = NewDeployment(n) BY <2>2 DEF SettledObj, n
    <3>2. NewDeployment(n) \in DepObj /\ ~NewDeployment(n).term /\ NewDeployment(n).istio = FALSE
      BY <2>4 DEF NewDeployment, DepObj
    <3> QED BY <1>1, <2>2, <3>1, <3>2
  <2>7. Nil \notin DepObj BY NilAssumption DEF AnyObj
  <2>8. d \notin Existing => api[d] = Nil BY <1>1, <2>2
  <2>9. r \in Existing => api[r].mark = "none" /\ api[r].init /\ Follows(api[d], api[r])
    BY <2>3, <2>5, <2>6, <2>7 DEF Follows, Counts
  <2>10. d \in Existing => Counts(api[d]) /\ ~api[d].term BY <2>6, <2>7 DEF Counts
  <2> QED BY <2>1, <2>2, <2>3, <2>8, <2>9, <2>10
<1>3. ASSUME NEW r \in Existing, r[1] \in {"app", "plane"}
      PROVE  /\ r \in Ref /\ api[r] # Nil /\ api[r].mark = "none"
             /\ api[r].mirrors = {s \in SDs : <<"dep", s>> \in Existing /\ Selects(r, s)}
  <2> DEFINE m == {s \in SDs : <<"dep", s>> \in Existing /\ Selects(r, s)}
  <2>1. r \in Ref BY RefAssumption
  <2>2. api[r] = [NewObj(r[1]) EXCEPT !.mirrors = m] BY <1>1, <1>3, <2>1 DEF SettledObj
  <2>3. m \in SUBSET SDs OBVIOUS
  <2>4. NewObj(r[1]) \in ObjOf(r[1]) /\ r[1] \in Kinds BY <1>3, NewObjKind DEF Kinds
  <2> HIDE DEF m
  <2>5. api[r].mark = "none" /\ api[r].mirrors = m BY <1>3, <2>2 DEF NewObj
  <2>6. api[r] \in ObjOf(r[1])
    BY <1>3, <2>2, <2>3, ObjKind DEF NewObj, AppObj, PlaneObj, Marks
  <2>7. api[r] # Nil BY <2>4, <2>6, ObjKind
  <2> QED BY <2>1, <2>5, <2>7 DEF m
<1>4. LatestComes BY <1>1 DEF LatestComes
<1>5. RInv
  <2> SUFFICES ASSUME NEW r \in Ref, cache[r] # Nil PROVE Settled(r) BY <1>1 DEF RInv, Cared
  <2>1. r \in Existing /\ r[1] \in Kinds BY <1>1, RefKind
  <2>2. CASE r[1] \in {"app", "plane"} BY <1>1, <1>3, <2>1, <2>2 DEF Settled
  <2>3. CASE r[1] = "sd"
    <3>1. PICK s \in SDs : s = r[2] /\ r = <<"sd", s>> BY <2>3, RefKind
    <3> QED BY <1>1, <1>2, <2>1, <2>3, <3>1 DEF Settled
  <2>4. CASE r[1] = "dep"
    <3>1. PICK s \in SDs : s = r[2] /\ r = <<"dep", s>> BY <2>4, RefKind
    <3> QED BY <1>1, <1>2, <2>1, <2>4, <3>1 DEF Settled
  <2> QED BY <2>1, <2>2, <2>3, <2>4 DEF Kinds
<1>6. BornInv
  <2>1. hist.born = Existing BY DEF Init
  <2> SUFFICES ASSUME NEW r \in Ref, Trace(r) PROVE Home(r) \in Existing BY <2>1 DEF BornInv
  <2>2. r \in Existing BY <1>1 DEF Trace
  <2>3. CASE r[1] = "dep"
    <3>1. PICK s \in SDs : s = r[2] /\ r = <<"dep", s>> BY <2>3, RefKind
    <3> QED BY <1>2, <2>2, <2>3, <3>1 DEF Home
  <2> QED BY <2>2, <2>3 DEF Home
<1>7. ASSUME NEW s \in SDs
      PROVE  /\ ~Torn(s) /\ ~OnIt(<<"sd", s>>)
             /\ cache[<<"sd", s>>] # Nil => ~IsDeleted(cache[<<"sd", s>>])
             /\ cache[<<"dep", s>>] # Nil => ~cache[<<"dep", s>>].term
  <2>1. PICK r \in Ref : r = <<"sd", s>> BY SdRef
  <2>2. PICK d \in Ref : d = <<"dep", s>> BY SdRef
  <2>3. Mail(d) = {} /\ ~OnIt(r) BY <1>1
  <2>4. api[r] # Nil => r \in Existing BY <1>1
  <2>5. api[r] # Nil => api[r].mark = "none" BY <1>2, <2>1, <2>4
  <2>6. api[d] # Nil => ~api[d].term BY <1>2, <2>2
  <2> QED BY <1>1, <2>1, <2>2, <2>3, <2>5, <2>6 DEF Torn, IsDeleted
<1>8. MarkInv BY <1>7 DEF MarkInv
<1>9. TermInv BY <1>7 DEF TermInv
<1>10. StayInv BY <1>1, <1>3 DEF StayInv
<1>11. \A k \in Kinds : \A S : Ordered(k, S) BY <1>1 DEF Ordered
<1>12. ViewInv BY <1>1 DEF ViewInv, Kinds
<1>13. StatusInv
  <2> SUFFICES ASSUME NEW r \in Existing, r[1] \in {"app", "plane"}, NEW s \in SDs, Selects(r, s)
               PROVE  s \in api[r].mirrors <=> Counts(cache[<<"dep", s>>])
    BY DEF StatusInv
  <2>1. s \in api[r].mirrors <=> <<"dep", s>> \in Existing BY <1>3
  <2>2. <<"dep", s>> \in Existing <=> Counts(api[<<"dep", s>>]) BY <1>2 DEF Counts
  <2> QED BY <1>1, <2>1, <2>2
<1>14. OnceInv BY <1>6, <1>8, <1>9, <1>10, <1>11 DEF OnceInv, Kinds
<1> QED BY <1>4, <1>5, <1>12, <1>13, <1>14 DEF AllRest

LEMMA AllRestInvariant == Spec => []AllRest
<1>1. Init /\ AllInv => AllRest BY InitRest
<1>2. AllRest /\ AllInv' /\ [Next]_vars => AllRest'
  <2> SUFFICES ASSUME AllRest, AllInv', [Next]_vars PROVE AllRest' OBVIOUS
  <2>1. TInv /\ TInv' /\ NInv /\ CopyInv /\ LatestComes /\ RInv BY DEF AllRest, AllInv
  <2>2. LatestComes' BY <2>1, LatestStays
  <2>3. NoRecreation => MarkInv BY DEF AllRest, OnceInv
  <2>4. RInv' BY <2>1, <2>3, RestStays
  <2>5. ASSUME NoRecreation PROVE OnceInv' /\ ViewInv' /\ StatusInv'
    <3>1. Once /\ ViewInv /\ StatusInv BY <2>1, <2>5 DEF Once, AllRest
    <3> QED BY <3>1, OnceStays, ViewStays, StatusStays
  <2> QED BY <2>2, <2>4, <2>5 DEF AllRest, NoRecreation
<1> QED BY <1>1, <1>2, AllInvariant, PTL DEF Spec

\* At rest the caches show what there is, and nobody works or waits.
LEMMA RestSeen ==
    ASSUME AllRest, AtRest, NEW r \in Ref
    PROVE  /\ cache[r] = api[r] /\ Mail(r) = {} /\ ~OnIt(r) /\ ~Due(r)
           /\ api[r] # Nil /\ r \notin hist.lost \cup Vela => Settled(r)
<1>1. StoreInv /\ r[1] \in Kinds BY RefKind DEF AllRest, AllInv, TInv
<1>2. watch[r[1]] = <<>> /\ w[r[1]].pc = "idle" /\ queue = {} BY <1>1 DEF AtRest
<1>3. Mail(r) = {} /\ ~OnIt(r) BY <1>2 DEF Mail, OnIt
<1>4. cache[r] = api[r] BY <1>1, <1>3, NoMail DEF StoreInv, InSync
<1>5. ~Due(r) BY <1>2, <1>3 DEF Due, Coming
<1> QED BY <1>3, <1>4, <1>5 DEF AllRest, RInv, Cared

\* Whenever nothing is left to do, no mark is left and no Deployment terminates, whatever the
\* users do, and whatever fails or crashes: no deletion stops half way between the controllers,
\* other than at a lost key or at an object that carried KubeVela's label at some time.
THEOREM DeletionsRest == Spec => []DeletionsAtRest
<1>1. AllRest => DeletionsAtRest
  <2> SUFFICES ASSUME AllRest, AtRest, NEW r \in Ref \ (hist.lost \cup Vela), api[r] # Nil
               PROVE  IF r[1] = "dep" THEN ~api[r].term ELSE api[r].mark = "none"
    BY DEF DeletionsAtRest
  <2>1. Settled(r) /\ cache[r] = api[r] /\ Mail(r) = {} BY RestSeen
  <2> QED BY <2>1 DEF Settled
<1> QED BY <1>1, AllRestInvariant, PTL

\* Whenever nothing is left to do, every SQBDeployment that nobody asks to delete has its
\* Deployment, if no custom resource is made twice under its name (RecreatedIsDeployed is
\* violated) and the Deployment never carried KubeVela's label: no filter, conflict, retried
\* failure or crash leaves an SQBDeployment without.
THEOREM DeploymentsRest ==
    ASSUME NoRecreation
    PROVE  Spec => []DeploymentsAtRest
<1>1. AllRest => DeploymentsAtRest
  <2> SUFFICES ASSUME AllRest, AtRest, NEW s \in SDs, <<"dep", s>> \notin Vela,
                      <<"sd", s>> \notin hist.lost, api[<<"sd", s>>] # Nil
               PROVE  Deployed(s)
    BY DEF DeploymentsAtRest
  <2>1. PICK r \in Ref : r = <<"sd", s>> /\ r[1] = "sd" /\ r[2] = s BY SdRef
  <2>2. r \notin Vela BY <2>1, VelaAssumption
  <2>3. Settled(r) /\ cache[r] = api[r] BY <2>1, <2>2, RestSeen
  <2>4. api[r].init /\ Follows(api[<<"dep", s>>], api[r])
    BY <2>1, <2>3, NoRecreation DEF Settled, Tied
  <2> QED BY <2>1, <2>4 DEF Deployed, Follows
<1> QED BY <1>1, AllRestInvariant, PTL

\* Whenever nothing is left to do, the status of an application or plane that was there from
\* the start lists exactly its running Deployments, if no custom resource is made twice under
\* its name: what the filter of Deployments stops, no list needs.
THEOREM StatusesRest ==
    ASSUME NoRecreation
    PROVE  Spec => []StatusesAtRest
<1>1. AllRest => StatusesAtRest
  <2> SUFFICES ASSUME AllRest, AtRest, NEW r \in Existing, r[1] \in {"app", "plane"}, api[r] # Nil,
                      NEW s \in SDs, Selects(r, s), <<"dep", s>> \notin hist.lost
               PROVE  s \in api[r].mirrors <=> s \in Running(r)
    BY DEF StatusesAtRest
  <2>1. PICK d \in Ref : d = <<"dep", s>> /\ d[1] = "dep" BY SdRef
  <2>2. cache[d] = api[d] /\ ~OnIt(d) /\ ~Due(d) BY RestSeen
  <2>3. ~Ahead(r, s) BY <2>1, <2>2 DEF Ahead
  <2>4. s \in api[r].mirrors <=> Counts(cache[d])
    BY <2>1, <2>2, <2>3, NoRecreation DEF AllRest, StatusInv
  <2> QED BY <2>1, <2>2, <2>4 DEF Running
<1> QED BY <1>1, AllRestInvariant, PTL

=============================================================================
