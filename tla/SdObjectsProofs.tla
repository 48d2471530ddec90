--------------------------- MODULE SdObjectsProofs ---------------------------
(***************************************************************************)
(* A wanted claim is never deleted.  The worker reconciles from a copy of  *)
(* the SQBDeployment and lists the claims from a cache, each of an age of  *)
(* its own; the clean-up is right because a claim only comes from a copy   *)
(* that wants it, and every later copy wants it too, until a user drops it *)
(* or marks the SQBDeployment.                                             *)
(*                                                                         *)
(* And what the worker leaves when it has nothing to do: wanted claims     *)
(* bound, routes where public entries are, unless a step is lost for good, *)
(* and no claim of one that went by way of the mark but those its clean-up *)
(* did not see or left alone.                                              *)
(***************************************************************************)
EXTENDS SdObjects, TLAPS

-----------------------------------------------------------------------------
(* Types.                                                                  *)

Pcs == {"idle", "claims", "make", "strays", "drop", "route", "finish"}
Worker == [pc : Pcs, key : SDs \cup {Nil}, in : SdObj \cup {Nil},
           exists : SUBSET Claims, todo : SUBSET Claims]
Names == {"sd", "route"} \X SDs \cup {"claim"} \X Claims

Hist == [dropped : SUBSET Claims, unmarked : SUBSET SDs, missed : SUBSET Claims,
         switched : BOOLEAN, lost : SUBSET SDs]

\* TypeOK with the domains of the functions, and whom the worker works for.
TInv ==
    /\ sd \in [SDs -> SdObj \cup {Nil}] /\ sdSeen \in [SDs -> SdObj \cup {Nil}]
    /\ claims \in [Claims -> {"none", "bound", "going"}] /\ claimsSeen \in SUBSET Claims
    /\ routes \in SUBSET SDs /\ routesSeen \in SUBSET SDs
    /\ late \in SUBSET Names
    /\ settings \in SUBSET {"claims", "routes"} /\ app \in BOOLEAN
    /\ queue \in SUBSET SDs
    /\ w \in Worker
    /\ w.pc = "idle" => w = Resting
    /\ w.pc # "idle" => w.key \in SDs /\ w.in \in SdObj
    /\ hist \in Hist
    /\ count \in [ops : 0 .. MaxOps, faults : 0 .. MaxFaults]

LEMMA InitTypes == Init => TInv
<1> SUFFICES ASSUME Init PROVE TInv OBVIOUS
<1>1. Resting \in Worker /\ Resting.pc = "idle" BY DEF Resting, Worker, Pcs
<1>2. sd \in [SDs -> SdObj \cup {Nil}] BY DEF Init
<1> QED BY <1>1, <1>2, BoundAssumption DEF Init, TInv, Hist

LEMMA UserTypes ==
    ASSUME TInv, \/ \E s \in SDs, o \in SdObj \cup {Nil} : EditSd(s, o)
                 \/ \E x \in {"claims", "routes"} : EditSettings(x)
                 \/ EditApp
    PROVE  TInv'
<1> USE DEF TInv, UserStep, objects, caches, Hist
<1>0. UserStep => count' \in [ops : 0 .. MaxOps, faults : 0 .. MaxFaults]
  BY BoundAssumption
<1>1. CASE \E s \in SDs, o \in SdObj \cup {Nil} : EditSd(s, o)
  <2>1. PICK s \in SDs, o \in SdObj \cup {Nil} : EditSd(s, o) BY <1>1
  <2>2. sd[s] # Nil => sd[s].want \in SUBSET Claims BY DEF SdObj
  <2>3. o # Nil => o.want \in SUBSET Claims BY DEF SdObj
  <2>4. hist' \in Hist
    BY <2>1, <2>2, <2>3 DEF EditSd
  <2>5. late' \in SUBSET Names
    <3>1. late' = late \cup {<<"sd", s>>} BY <2>1 DEF EditSd
    <3> QED BY <3>1 DEF Names
  <2>6. sd' \in [SDs -> SdObj \cup {Nil}] /\ UNCHANGED settings BY <2>1 DEF EditSd
  <2> QED BY <1>0, <2>1, <2>4, <2>5, <2>6 DEF EditSd
<1>2. CASE \E x \in {"claims", "routes"} : EditSettings(x)
  <2>1. /\ settings' \in SUBSET {"claims", "routes"} /\ UNCHANGED <<sd, late>>
        /\ hist' = [hist EXCEPT !.switched = TRUE]
    BY <1>2 DEF EditSettings
  <2>2. hist' \in Hist
    BY <2>1
  <2> QED BY <1>0, <1>2, <2>1, <2>2 DEF EditSettings
<1>3. CASE EditApp BY <1>0, <1>3 DEF EditApp
<1> QED BY <1>1, <1>2, <1>3

LEMMA InformerTypes ==
    ASSUME TInv, \/ \E n \in Claims : Vanish(n) \/ DeliverClaim(n)
                 \/ \E s \in SDs : DeliverSd(s) \/ DeliverRoute(s)
    PROVE  TInv'
<1> USE DEF TInv, objects, caches, Names
<1>1. CASE \E n \in Claims : Vanish(n) BY <1>1 DEF Vanish
<1>2. CASE \E n \in Claims : DeliverClaim(n)
  <2>1. claimsSeen' \in SUBSET Claims /\ late' \in SUBSET Names
    BY <1>2 DEF DeliverClaim
  <2> QED BY <1>2, <2>1 DEF DeliverClaim
<1>3. CASE \E s \in SDs : DeliverSd(s)
  <2>1. sdSeen' \in [SDs -> SdObj \cup {Nil}] /\ late' \in SUBSET Names /\ queue' \in SUBSET SDs
    BY <1>3 DEF DeliverSd
  <2> QED BY <1>3, <2>1 DEF DeliverSd
<1>4. CASE \E s \in SDs : DeliverRoute(s)
  <2>1. routesSeen' \in SUBSET SDs /\ late' \in SUBSET Names
    BY <1>4 DEF DeliverRoute
  <2> QED BY <1>4, <2>1 DEF DeliverRoute
<1> QED BY <1>1, <1>2, <1>3, <1>4

\* What every step of the worker gives back.
WorkerStep ==
    /\ w' \in Worker /\ (w'.pc = "idle" => w' = Resting)
    /\ w'.pc # "idle" => w'.key \in SDs /\ w'.in \in SdObj
    /\ queue' \in SUBSET SDs

LEMMA RestingOK == Resting \in Worker /\ Resting.pc = "idle" BY DEF Resting, Worker, Pcs

LEMMA FailStep == ASSUME TInv, w.pc # "idle", Fail PROVE WorkerStep
  BY RestingOK DEF TInv, Fail, WorkerStep

\* The worker goes on, with its object and other lists.
GoesOn ==
    \E p \in Pcs \ {"idle"}, e \in SUBSET Claims, t \in SUBSET Claims :
        w' = [pc |-> p, key |-> w.key, in |-> w.in, exists |-> e, todo |-> t]

LEMMA GoOn ==
    ASSUME TInv, w.pc # "idle", GoesOn
    PROVE  w' \in Worker /\ w'.pc # "idle" /\ w'.key \in SDs /\ w'.in \in SdObj
<1>1. PICK p \in Pcs \ {"idle"}, e \in SUBSET Claims, t \in SUBSET Claims :
          w' = [pc |-> p, key |-> w.key, in |-> w.in, exists |-> e, todo |-> t]
  BY DEF GoesOn
<1>2. w.key \in SDs /\ w.in \in SdObj BY DEF TInv
<1> QED BY <1>1, <1>2 DEF Worker

\* A failing call leaves the worker idle, and its key waiting or lost; so does the want of
\* the application, with the key waiting.
LEMMA FailsStep ==
    ASSUME TInv, HandlerFails \/ Blocked
    PROVE  /\ UNCHANGED <<sd, sdSeen, claims, claimsSeen, routes, routesSeen, late, settings, app>>
           /\ w.pc # "idle" /\ w.key \in SDs /\ w' = Resting
           /\ hist' \in Hist /\ hist' = [hist EXCEPT !.lost = hist'.lost]
           /\ hist.lost \subseteq hist'.lost /\ w.key \in queue' \cup hist'.lost
           /\ queue' \in {queue, queue \cup {w.key}}
           /\ count' \in [ops : 0 .. MaxOps, faults : 0 .. MaxFaults]
<1> USE DEF TInv, Hist, Keep, Frame, objects, caches
<1>1. w.pc # "idle" BY DEF HandlerFails, Blocked
<1>2. Fail \/ GiveUp BY DEF HandlerFails, Blocked
<1>3. CASE Fail /\ UNCHANGED hist
  BY <1>1, <1>3, BoundAssumption DEF HandlerFails, Blocked, Fail
<1>4. CASE GiveUp /\ HandlerFails
  BY <1>1, <1>4, BoundAssumption DEF HandlerFails, GiveUp
<1> QED BY <1>3, <1>4 DEF HandlerFails, Blocked

LEMMA WorkTypes == ASSUME TInv, HandlerFails \/ DropFails \/ Work PROVE TInv'
<1> USE DEF TInv, Hist
<1>0. w = [pc |-> w.pc, key |-> w.key, in |-> w.in, exists |-> w.exists, todo |-> w.todo]
      /\ w.exists \in SUBSET Claims /\ w.todo \in SUBSET Claims /\ w.pc \in Pcs
  BY DEF Worker
<1>1. CASE HandlerFails \/ Blocked
  BY <1>1, FailsStep, RestingOK
<1>2. CASE DropFails
  <2>1. w' = [pc |-> "route", key |-> w.key, in |-> w.in, exists |-> w.exists, todo |-> {}]
    BY <1>0, <1>2 DEF DropFails
  <2>2. w.pc # "idle" /\ GoesOn BY <1>0, <1>2, <2>1 DEF DropFails, GoesOn, Pcs
  <2> QED BY <1>0, <1>2, <2>2, GoOn, BoundAssumption DEF DropFails, Frame, objects, caches
<1>3. CASE Begin
  <2>1. PICK s \in queue :
           /\ queue' = queue \ {s}
           /\ w' = IF sdSeen[s] = Nil THEN Resting
                   ELSE [Resting EXCEPT !.pc = "claims", !.key = s, !.in = sdSeen[s]]
           /\ hist' = [hist EXCEPT !.lost = @ \ {s}]
    BY <1>3 DEF Begin
  <2>2. w' \in Worker /\ (w'.pc = "idle" => w' = Resting)
        /\ (w'.pc # "idle" => w'.key \in SDs /\ w'.in \in SdObj)
    BY <2>1 DEF Resting, Worker, Pcs
  <2> QED BY <1>3, <2>1, <2>2 DEF Begin, Keep, Frame, objects, caches
<1>4. CASE ClaimList
  <2>1. w.in \in SdObj /\ w.in.want \in SUBSET Claims BY <1>4 DEF ClaimList, SdObj
  <2>2. w.pc # "idle" /\ GoesOn
    <3>1. CASE "claims" \notin settings
      <4>1. w' = [pc |-> "route", key |-> w.key, in |-> w.in, exists |-> w.exists,
                  todo |-> w.todo]
        BY <1>0, <1>4, <3>1 DEF ClaimList
      <4> QED BY <1>0, <1>4, <4>1 DEF ClaimList, GoesOn, Pcs
    <3>2. CASE "claims" \in settings /\ w.in.mark
      <4>1. w' = [pc |-> "drop", key |-> w.key, in |-> w.in, exists |-> w.exists,
                  todo |-> claimsSeen]
        BY <1>0, <1>4, <3>2 DEF ClaimList
      <4> QED BY <1>0, <1>4, <4>1 DEF ClaimList, GoesOn, Pcs
    <3>3. CASE "claims" \in settings /\ ~w.in.mark
      <4>1. w' = [pc |-> "make", key |-> w.key, in |-> w.in, exists |-> claimsSeen,
                  todo |-> w.in.want]
        BY <1>0, <1>4, <3>3 DEF ClaimList
      <4> QED BY <1>0, <1>4, <2>1, <4>1 DEF ClaimList, GoesOn, Pcs
    <3> QED BY <3>1, <3>2, <3>3
  <2>3. w' \in Worker /\ w'.pc # "idle" /\ w'.key \in SDs /\ w'.in \in SdObj
    BY <2>2, GoOn
  <2>4. hist' \in Hist
    BY <1>4 DEF ClaimList, Unlisted
  <2> QED BY <1>4, <2>3, <2>4 DEF ClaimList, Frame, objects, caches
<1>5. CASE Make
  <2>1. PICK n \in w.todo : MakeOne(n) BY <1>5 DEF Make
  <2>2. n \in Claims BY <1>0
  <2>3. /\ w' \in Worker /\ (w'.pc = "idle" => w' = Resting)
        /\ w'.pc # "idle" => w'.key \in SDs /\ w'.in \in SdObj
        /\ queue' \in SUBSET SDs
    <3>1. CASE Fail BY <1>5, <3>1, FailStep DEF Make, WorkerStep
    <3>2. ASSUME UNCHANGED queue, w' = [w EXCEPT !.todo = @ \ {n}, !.exists = @ \ {n}]
          PROVE  GoesOn
      <4>1. w' = [pc |-> "make", key |-> w.key, in |-> w.in, exists |-> w.exists \ {n},
                  todo |-> w.todo \ {n}]
        BY <1>0, <1>5, <3>2 DEF Make
      <4> QED BY <1>0, <4>1 DEF GoesOn, Pcs
    <3>3. ASSUME UNCHANGED queue, w' = [w EXCEPT !.todo = @ \ {n}] PROVE GoesOn
      <4>1. w' = [pc |-> "make", key |-> w.key, in |-> w.in, exists |-> w.exists,
                  todo |-> w.todo \ {n}]
        BY <1>0, <1>5, <3>3 DEF Make
      <4> QED BY <1>0, <4>1 DEF GoesOn, Pcs
    <3>4. \/ Fail
          \/ UNCHANGED queue /\ w' = [w EXCEPT !.todo = @ \ {n}, !.exists = @ \ {n}]
          \/ UNCHANGED queue /\ w' = [w EXCEPT !.todo = @ \ {n}]
      BY <2>1 DEF MakeOne
    <3>5. w.pc # "idle" BY <1>5 DEF Make
    <3>6. CASE UNCHANGED queue /\ GoesOn BY <3>5, <3>6, GoOn
    <3> QED BY <3>1, <3>2, <3>3, <3>4, <3>6
  <2>4. claims' \in [Claims -> {"none", "bound", "going"}] /\ late' \in SUBSET Names
    BY <2>1, <2>2 DEF MakeOne, Names
  <2> QED BY <1>5, <2>3, <2>4 DEF Make, Frame, objects, caches
<1>6. CASE MakeDone
  <2>1. w' = [pc |-> "strays", key |-> w.key, in |-> w.in, exists |-> {}, todo |-> w.exists]
    BY <1>0, <1>6 DEF MakeDone
  <2>2. w.pc # "idle" /\ GoesOn BY <1>0, <1>6, <2>1 DEF MakeDone, GoesOn, Pcs
  <2> QED BY <1>6, <2>2, GoOn DEF MakeDone, Keep, Frame, objects, caches
<1>7. CASE Drop
  <2>1. PICK n \in w.todo :
           /\ \/ Remove(n) /\ UNCHANGED hist
              \/ UNCHANGED <<claims, late>> /\ hist' = [hist EXCEPT !.missed = @ \cup {n}]
           /\ w' = [w EXCEPT !.todo = @ \ {n}]
    BY <1>7 DEF Drop
  <2>2. w' = [pc |-> w.pc, key |-> w.key, in |-> w.in, exists |-> w.exists, todo |-> w.todo \ {n}]
    BY <1>0, <2>1
  <2>3. w.pc # "idle" /\ GoesOn BY <1>0, <1>7, <2>2 DEF Drop, GoesOn
  <2>4. claims' \in [Claims -> {"none", "bound", "going"}] /\ late' \in SUBSET Names
    BY <1>0, <2>1 DEF Remove, Names
  <2>5. hist' \in Hist BY <1>0, <2>1
  <2> QED BY <1>7, <2>3, <2>4, <2>5, GoOn DEF Drop, Frame, objects, caches
<1>8. CASE DropDone \/ RouteSkip \/ RouteLeftAlone \/ RouteDelete
  <2>1. w' = [w EXCEPT !.pc = "route"] \/ w' = [w EXCEPT !.pc = "finish"]
    BY <1>8 DEF DropDone, RouteSkip, RouteLeftAlone, RouteDelete
  <2>2. w.pc # "idle" /\ GoesOn
    <3>1. \E p \in {"route", "finish"} :
              w' = [pc |-> p, key |-> w.key, in |-> w.in, exists |-> w.exists, todo |-> w.todo]
      BY <1>0, <2>1
    <3> QED BY <1>0, <1>8, <3>1 DEF DropDone, RouteSkip, RouteLeftAlone, RouteDelete, GoesOn, Pcs
  <2>3. routes' \in SUBSET SDs /\ late' \in SUBSET Names
    BY <1>8 DEF DropDone, RouteSkip, RouteLeftAlone, RouteDelete, Keep, objects, Names
  <2>4. hist' \in Hist
    BY <1>8 DEF DropDone, RouteSkip, RouteLeftAlone, RouteDelete, Keep
  <2> QED
    BY <1>8, <2>2, <2>3, <2>4, GoOn
    DEF DropDone, RouteSkip, RouteLeftAlone, RouteDelete, Keep, Frame, objects, caches
<1>9. CASE RoutePut
  <2>1. /\ w' \in Worker /\ (w'.pc = "idle" => w' = Resting)
        /\ w'.pc # "idle" => w'.key \in SDs /\ w'.in \in SdObj
        /\ queue' \in SUBSET SDs
    <3>1. CASE Fail BY <1>9, <3>1, FailStep DEF RoutePut, WorkerStep
    <3>2. ASSUME UNCHANGED queue, w' = [w EXCEPT !.pc = "finish"] PROVE GoesOn
      <4>1. w' = [pc |-> "finish", key |-> w.key, in |-> w.in, exists |-> w.exists,
                  todo |-> w.todo]
        BY <1>0, <3>2
      <4> QED BY <1>0, <4>1 DEF GoesOn, Pcs
    <3>3. w.pc # "idle" BY <1>9 DEF RoutePut
    <3>4. CASE UNCHANGED queue /\ GoesOn BY <3>3, <3>4, GoOn
    <3>5. Fail \/ (UNCHANGED queue /\ w' = [w EXCEPT !.pc = "finish"]) BY <1>9 DEF RoutePut
    <3> QED BY <3>1, <3>2, <3>4, <3>5
  <2>2. routes' \in SUBSET SDs /\ late' \in SUBSET Names
    BY <1>9 DEF RoutePut, Names
  <2> QED BY <1>9, <2>1, <2>2 DEF RoutePut, Frame, objects, caches
<1>10. CASE Finish
  <2>1. w' = Resting /\ w.key \in SDs BY <1>10 DEF Finish
  <2>2. sd' \in [SDs -> SdObj \cup {Nil}] /\ late' \in SUBSET Names
    BY <1>10, <2>1 DEF Finish, Names
  <2>3. sd[w.key] # Nil => sd[w.key].want \in SUBSET Claims BY <2>1 DEF SdObj
  <2>4. hist' \in Hist
    BY <1>10, <2>3 DEF Finish
  <2> QED BY <1>10, <2>1, <2>2, <2>4, RestingOK DEF Finish, Frame, objects, caches
<1> QED BY <1>1, <1>2, <1>3, <1>4, <1>5, <1>6, <1>7, <1>8, <1>9, <1>10 DEF Work

LEMMA TypesStay == ASSUME TInv, [Next]_vars PROVE TInv'
<1>1. CASE UNCHANGED vars BY <1>1 DEF vars, TInv
<1> QED BY <1>1, UserTypes, InformerTypes, WorkTypes DEF Next

\* Every variable keeps its type; an idle worker carries nothing over (HandleReconcile).
THEOREM SdObjectsTyped == Spec => []TypeOK
<1>1. TInv => TypeOK BY DEF TInv, TypeOK, Worker, Pcs, Names, Hist
<1> QED BY <1>1, InitTypes, TypesStay, PTL DEF Spec

-----------------------------------------------------------------------------
(* Claims.                                                                 *)

\* The instance ClaimKept is about: one SQBDeployment for the labels.
OneForTheLabels == \A s, t \in SDs : s = t

Wants(o, n) == Wanting(o) /\ n \in o.want

\* A claim that was not dropped since: whoever wants it is followed by all who are newer,
\* from the worker's copy to the cache's to the API server's.
Newer ==
    \A s \in SDs, n \in Claims \ hist.dropped :
        /\ Wants(sdSeen[s], n) => Wants(sd[s], n)
        /\ w.pc # "idle" /\ Wants(w.in, n) => Wants(sdSeen[s], n)

\* What is there, or in the cache, is wanted by the cache's copy and the worker's.
Made(n) == claims[n] # "none" \/ n \in claimsSeen

MadeIsWanted ==
    \A s \in SDs, n \in Claims \ hist.dropped :
        Made(n) => Wants(sdSeen[s], n) /\ (w.pc # "idle" => Wants(w.in, n))

\* The lists of the worker: what it is to make is wanted, what it has listed is to be made
\* until it is struck off, and only dropped claims are to be deleted.
Lists ==
    /\ w.pc = "make" => /\ ~w.in.mark /\ w.todo \subseteq w.in.want
                        /\ w.exists \subseteq w.todo \cup hist.dropped
    /\ w.pc \in {"strays", "drop"} => w.todo \subseteq hist.dropped

CInv == Newer /\ MadeIsWanted /\ Lists

LEMMA InitClaims == Init => CInv
  BY DEF Init, CInv, Newer, MadeIsWanted, Made, Lists, Resting

\* Users: who stops wanting a claim drops it.
LEMMA UserClaims ==
    ASSUME TInv, CInv, \/ \E s \in SDs, o \in SdObj \cup {Nil} : EditSd(s, o)
                       \/ \E x \in {"claims", "routes"} : EditSettings(x)
                       \/ EditApp
    PROVE  CInv'
<1>1. CASE \E s \in SDs, o \in SdObj \cup {Nil} : EditSd(s, o)
  <2>1. PICK s \in SDs, o \in SdObj \cup {Nil} : EditSd(s, o) BY <1>1
  <2>2. UNCHANGED <<claims, claimsSeen, sdSeen, w>> BY <2>1 DEF EditSd, UserStep, objects, caches
  <2>3. sd' = [sd EXCEPT ![s] = o] /\ sd \in [SDs -> SdObj \cup {Nil}]
    BY <2>1 DEF EditSd, TInv, Hist
  <2>4. /\ hist.dropped \subseteq hist'.dropped
        /\ \A n \in Claims : Wants(sd[s], n) /\ ~Wants(o, n) => n \in hist'.dropped
    BY <2>1 DEF EditSd, Wants, Wanting, TInv, Hist
  <2>5. Newer' BY <2>2, <2>3, <2>4 DEF CInv, Newer
  <2>6. MadeIsWanted' BY <2>2, <2>4 DEF CInv, MadeIsWanted, Made
  <2>7. Lists' BY <2>2, <2>4 DEF CInv, Lists
  <2> QED BY <2>5, <2>6, <2>7 DEF CInv
<1>2. CASE \E x \in {"claims", "routes"} : EditSettings(x)
  <2>1. UNCHANGED <<sd, claims, claimsSeen, sdSeen, w>>
        /\ hist' = [hist EXCEPT !.switched = TRUE]
    BY <1>2 DEF EditSettings, EditApp, UserStep, objects, caches
  <2>2. hist'.dropped = hist.dropped BY <2>1 DEF TInv
  <2> QED BY <2>1, <2>2 DEF CInv, Newer, MadeIsWanted, Made, Lists
<1>3. CASE EditApp
  BY <1>3 DEF EditApp, UserStep, objects, caches, CInv, Newer, MadeIsWanted, Made, Lists
<1> QED BY <1>1, <1>2, <1>3

LEMMA InformerClaims ==
    ASSUME TInv, CInv, \/ \E n \in Claims : Vanish(n) \/ DeliverClaim(n)
                       \/ \E s \in SDs : DeliverSd(s) \/ DeliverRoute(s)
    PROVE  CInv'
<1>1. UNCHANGED <<sd, w, hist>> BY DEF Vanish, DeliverClaim, DeliverSd, DeliverRoute
<1>2. CASE \E n \in Claims : Vanish(n) \/ DeliverClaim(n)
  <2>1. UNCHANGED sdSeen BY <1>2 DEF Vanish, DeliverClaim, caches
  <2>2. \A n \in Claims : Made(n)' => Made(n)
    BY <1>2 DEF Vanish, DeliverClaim, caches, objects, Made, TInv
  <2> QED BY <1>1, <2>1, <2>2 DEF CInv, Newer, MadeIsWanted, Lists
<1>3. CASE \E s \in SDs : DeliverSd(s) \/ DeliverRoute(s)
  <2>1. UNCHANGED <<claims, claimsSeen>> BY <1>3 DEF DeliverSd, DeliverRoute, objects
  <2>2. \A s \in SDs : sdSeen'[s] \in {sd[s], sdSeen[s]}
    BY <1>3 DEF DeliverSd, DeliverRoute, TInv
  <2>3. Newer' BY <1>1, <2>2 DEF CInv, Newer
  <2>4. MadeIsWanted' BY <1>1, <2>1, <2>2 DEF CInv, Newer, MadeIsWanted, Made
  <2> QED BY <1>1, <2>3, <2>4 DEF CInv, Lists
<1> QED BY <1>2, <1>3

\* A step of the worker that keeps its object, or lets go of it, and makes no claim.
LEMMA SameCopy ==
    ASSUME CInv, Lists', UNCHANGED <<sd, sdSeen, claimsSeen>>, hist'.dropped = hist.dropped,
           w'.pc # "idle" => w.pc # "idle" /\ w'.in = w.in,
           \A n \in Claims \ hist.dropped : claims'[n] # "none" => claims[n] # "none"
    PROVE  CInv'
  BY DEF CInv, Newer, MadeIsWanted, Made

LEMMA FailClaims ==
    ASSUME Fail PROVE w'.pc = "idle" /\ Lists'
  BY DEF Fail, Resting, Lists

LEMMA WorkClaims ==
    ASSUME TInv, CInv, OneForTheLabels, HandlerFails \/ DropFails \/ Work
    PROVE  CInv'
<1>0. w = [pc |-> w.pc, key |-> w.key, in |-> w.in, exists |-> w.exists, todo |-> w.todo]
      /\ w.exists \in SUBSET Claims /\ w.todo \in SUBSET Claims
      /\ (w.pc # "idle" => w.key \in SDs)
  BY DEF TInv, Worker
<1> USE DEF Keep, Frame, objects, caches
<1>1. CASE HandlerFails \/ Blocked
  <2>1. /\ UNCHANGED <<sd, sdSeen, claims, claimsSeen>> /\ hist'.dropped = hist.dropped
        /\ w' = Resting
    BY <1>1, FailsStep DEF TInv, Hist
  <2>2. w'.pc = "idle" /\ Lists' BY <2>1 DEF Resting, Lists
  <2> QED BY <2>1, <2>2, SameCopy
<1>2. CASE DropFails
  <2>1. /\ UNCHANGED <<sd, sdSeen, claims, claimsSeen>>
        /\ hist'.dropped = hist.dropped
        /\ w.pc # "idle" /\ w'.pc = "route" /\ w'.in = w.in
    BY <1>0, <1>2 DEF DropFails, TInv
  <2> QED BY <2>1, SameCopy DEF Lists
<1>3. CASE Begin
  <2>1. UNCHANGED <<sd, sdSeen, claims, claimsSeen>> /\ hist'.dropped = hist.dropped
    BY <1>3 DEF Begin, TInv, Hist
  <2>2. PICK s \in queue :
           w' = IF sdSeen[s] = Nil THEN Resting
                ELSE [Resting EXCEPT !.pc = "claims", !.key = s, !.in = sdSeen[s]]
    BY <1>3 DEF Begin
  <2>3. s \in SDs BY DEF TInv
  <2>4. w'.pc \in {"idle", "claims"} /\ (w'.pc # "idle" => w'.in = sdSeen[s])
    BY <2>2 DEF Resting
  <2>5. Lists' BY <2>4 DEF Lists
  <2>6. \A t \in SDs : w'.pc # "idle" => w'.in = sdSeen[t]
    BY <2>3, <2>4 DEF OneForTheLabels
  <2> QED BY <2>1, <2>5, <2>6 DEF CInv, Newer, MadeIsWanted, Made
<1>4. CASE ClaimList
  <2>1. UNCHANGED <<sd, sdSeen, claims, claimsSeen>> /\ hist'.dropped = hist.dropped
    BY <1>4 DEF ClaimList, TInv
  <2>2. w.pc # "idle" /\ w'.in = w.in /\ w.key \in SDs BY <1>0, <1>4 DEF ClaimList
  <2>3. \A n \in claimsSeen \ hist.dropped : Wants(w.in, n)
    BY <2>2 DEF CInv, MadeIsWanted, Made, TInv
  <2>4. Lists'
    <3>1. CASE "claims" \notin settings
      <4>1. w'.pc = "route" BY <1>0, <1>4, <3>1 DEF ClaimList
      <4> QED BY <4>1 DEF Lists
    <3>2. CASE "claims" \in settings /\ w.in.mark
      <4>1. w'.pc = "drop" /\ w'.todo = claimsSeen BY <1>0, <1>4, <3>2 DEF ClaimList
      <4>2. claimsSeen \subseteq hist.dropped BY <2>3, <3>2 DEF Wants, Wanting
      <4> QED BY <2>1, <4>1, <4>2 DEF Lists
    <3>3. CASE "claims" \in settings /\ ~w.in.mark
      <4>1. w'.pc = "make" /\ w'.todo = w.in.want /\ w'.exists = claimsSeen
        BY <1>0, <1>4, <3>3 DEF ClaimList
      <4>2. claimsSeen \subseteq w.in.want \cup hist.dropped BY <2>3 DEF Wants
      <4> QED BY <2>1, <2>2, <3>3, <4>1, <4>2 DEF Lists
    <3> QED BY <3>1, <3>2, <3>3
  <2> QED BY <2>1, <2>2, <2>4, SameCopy
<1>5. CASE Make
  <2>1. PICK n \in w.todo : MakeOne(n) BY <1>5 DEF Make
  <2>2. UNCHANGED <<sd, sdSeen, claimsSeen, hist>> /\ w.pc = "make" BY <1>5 DEF Make
  <2>3. CASE Fail /\ UNCHANGED claims BY <2>2, <2>3, FailClaims, SameCopy
  <2>4. CASE UNCHANGED claims /\ w' = [w EXCEPT !.todo = @ \ {n}, !.exists = @ \ {n}]
    <3>1. /\ w'.pc = "make" /\ w'.in = w.in
          /\ w'.todo = w.todo \ {n} /\ w'.exists = w.exists \ {n}
      BY <1>0, <2>2, <2>4
    <3>2. Lists' BY <2>2, <3>1 DEF CInv, Lists
    <3> QED BY <2>2, <2>4, <3>1, <3>2, SameCopy
  <2>5. CASE /\ n \notin w.exists /\ claims' = [claims EXCEPT ![n] = "bound"]
             /\ w' = [w EXCEPT !.todo = @ \ {n}]
    <3>1. /\ w'.pc = "make" /\ w'.in = w.in
          /\ w'.todo = w.todo \ {n} /\ w'.exists = w.exists
      BY <1>0, <2>2, <2>5
    <3>2. Lists' BY <2>2, <2>5, <3>1 DEF CInv, Lists
    <3>3. w.in \in SdObj BY <2>2 DEF TInv
    <3>4. Wants(w.in, n)
      BY <2>2, <3>3, NilAssumption DEF CInv, Lists, Wants, Wanting
    <3>5. \A s \in SDs : n \notin hist.dropped => Wants(sdSeen[s], n)
      BY <1>0, <2>2, <3>4 DEF CInv, Newer
    <3>6. \A m \in Claims : Made(m)' => Made(m) \/ m = n
      BY <2>2, <2>5 DEF Made, TInv
    <3>7. MadeIsWanted' BY <2>2, <3>1, <3>4, <3>5, <3>6 DEF CInv, MadeIsWanted
    <3>8. Newer' BY <2>2, <3>1 DEF CInv, Newer
    <3> QED BY <3>2, <3>7, <3>8 DEF CInv
  <2> QED BY <2>1, <2>3, <2>4, <2>5 DEF MakeOne
<1>6. CASE MakeDone
  <2>1. /\ UNCHANGED <<sd, sdSeen, claims, claimsSeen, hist>>
        /\ w.pc = "make" /\ w.todo = {}
        /\ w'.pc = "strays" /\ w'.in = w.in /\ w'.todo = w.exists
    BY <1>0, <1>6 DEF MakeDone
  <2>2. Lists' BY <2>1 DEF CInv, Lists
  <2> QED BY <2>1, <2>2, SameCopy
<1>7. CASE Drop
  <2>1. PICK n \in w.todo :
           /\ \/ Remove(n) /\ UNCHANGED hist
              \/ UNCHANGED <<claims, late>> /\ hist' = [hist EXCEPT !.missed = @ \cup {n}]
           /\ w' = [w EXCEPT !.todo = @ \ {n}]
    BY <1>7 DEF Drop
  <2>2. /\ UNCHANGED <<sd, sdSeen, claimsSeen>> /\ hist'.dropped = hist.dropped
        /\ w.pc \in {"strays", "drop"} /\ w'.pc = w.pc /\ w'.in = w.in
        /\ w'.todo = w.todo \ {n}
    BY <1>0, <1>7, <2>1 DEF Drop, TInv, Hist
  <2>3. Lists' BY <2>2 DEF CInv, Lists
  <2>4. \A m \in Claims : claims'[m] # "none" => claims[m] # "none"
    BY <2>1 DEF Remove, TInv
  <2> QED BY <2>2, <2>3, <2>4, SameCopy
<1>8. CASE DropDone \/ RouteSkip \/ RouteLeftAlone \/ RouteDelete
  <2>1. /\ UNCHANGED <<sd, sdSeen, claims, claimsSeen>> /\ w.pc # "idle"
        /\ hist'.dropped = hist.dropped
        /\ w'.pc \in {"route", "finish"} /\ w'.in = w.in
    BY <1>0, <1>8 DEF TInv, Hist, DropDone, RouteSkip, RouteLeftAlone, RouteDelete
  <2>2. Lists' BY <2>1 DEF Lists
  <2> QED BY <2>1, <2>2, SameCopy
<1>9. CASE RoutePut
  <2>1. UNCHANGED <<sd, sdSeen, claims, claimsSeen, hist>> /\ w.pc # "idle"
    BY <1>9 DEF RoutePut
  <2>2. CASE Fail BY <2>1, <2>2, FailClaims, SameCopy
  <2>3. CASE w' = [w EXCEPT !.pc = "finish"]
    <3>1. w'.pc = "finish" /\ w'.in = w.in BY <1>0, <2>3
    <3>2. Lists' BY <3>1 DEF Lists
    <3> QED BY <2>1, <3>1, <3>2, SameCopy
  <2> QED BY <1>9, <2>2, <2>3 DEF RoutePut
<1>10. CASE Finish
  <2>1. /\ UNCHANGED <<sdSeen, claims, claimsSeen>> /\ w.key \in SDs /\ w'.pc = "idle"
    BY <1>0, <1>10 DEF Finish, Resting
  <2>2. Lists' BY <2>1 DEF Lists
  <2>3. CASE UNCHANGED <<sd, hist>> BY <2>1, <2>2, <2>3, SameCopy
  <2>4. CASE /\ sd' = [sd EXCEPT ![w.key] = Nil]
             /\ hist' = [hist EXCEPT !.dropped = @ \cup sd[w.key].want]
    <3>1. hist'.dropped = hist.dropped \cup sd[w.key].want BY <2>4 DEF TInv
    <3>2. \A s \in SDs : s = w.key \/ sd'[s] = sd[s] BY <2>4 DEF TInv
    <3>3. Newer' BY <2>1, <3>1, <3>2 DEF CInv, Newer, Wants
    <3>4. MadeIsWanted' BY <2>1, <3>1 DEF CInv, MadeIsWanted, Made
    <3> QED BY <2>2, <3>3, <3>4 DEF CInv
  <2> QED BY <1>10, <2>3, <2>4 DEF Finish
<1> QED BY <1>1, <1>2, <1>3, <1>4, <1>5, <1>6, <1>7, <1>8, <1>9, <1>10 DEF Work

LEMMA ClaimsStay == ASSUME TInv, CInv, OneForTheLabels, [Next]_vars PROVE CInv'
<1>1. CASE UNCHANGED vars
  BY <1>1 DEF vars, CInv, Newer, MadeIsWanted, Made, Lists
<1> QED BY <1>1, UserClaims, InformerClaims, WorkClaims DEF Next

\* A bound claim that nobody dropped stays bound: only the worker's deletions end it.
LEMMA BoundStays ==
    ASSUME TInv, CInv, [Next]_vars, NEW n \in Claims, claims[n] = "bound", n \notin hist.dropped
    PROVE  claims'[n] = "bound"
<1>1. CASE \E m \in Claims : Vanish(m) BY <1>1 DEF Vanish, TInv
<1>2. CASE Make
  <2>1. PICK m \in w.todo : MakeOne(m) BY <1>2 DEF Make
  <2> QED BY <2>1 DEF MakeOne, TInv
<1>3. CASE Drop
  <2>1. PICK m \in w.todo : Remove(m) \/ UNCHANGED claims BY <1>3 DEF Drop
  <2>2. m # n BY <1>3 DEF Drop, CInv, Lists
  <2> QED BY <2>1, <2>2 DEF Remove, TInv
<1>4. CASE claims' = claims BY <1>4
<1> QED
  BY <1>1, <1>2, <1>3, <1>4
  DEF Next, vars, objects, EditSd, EditSettings, EditApp, UserStep, DeliverSd, DeliverClaim,
      DeliverRoute, HandlerFails, DropFails, Work, Begin, Blocked, ClaimList, MakeDone,
      DropDone, RouteSkip, RouteLeftAlone, RoutePut, RouteDelete, Finish, Keep

\* For any number of claims, user actions and failing calls, and caches of any age, no worker
\* deletes a claim that its SQBDeployment wants and never gave up (pvcHandler), as long as no
\* other SQBDeployment has the same labels.
THEOREM WantedClaimsStay == ASSUME OneForTheLabels PROVE Spec => ClaimKept
<1>1. TInv /\ [Next]_vars => TInv' BY TypesStay
<1>2. TInv /\ CInv /\ [Next]_vars => CInv' BY ClaimsStay
<1>3. TInv /\ CInv /\ [Next]_vars =>
          [\A n \in Claims :
             /\ claims[n] = "bound" /\ n \notin hist.dropped
             /\ \E s \in SDs : Live(s) /\ n \in sd[s].want
             => claims'[n] = "bound"]_vars
  BY BoundStays
<1> QED BY <1>1, <1>2, <1>3, InitTypes, InitClaims, PTL DEF Spec, ClaimKept

-----------------------------------------------------------------------------
(* At rest: what is wanted is there, and what is not, is not.              *)

Works(s) == w.pc # "idle" /\ w.key = s

\* A step of the worker between its first and its last: it goes on with its copy, or puts
\* the key back or loses it, and touches no SQBDeployment.
Between ==
    HandlerFails \/ Blocked \/ DropFails \/ ClaimList \/ Make \/ MakeDone \/ Drop \/ DropDone
    \/ RouteSkip \/ RoutePut \/ RouteLeftAlone \/ RouteDelete

LEMMA BetweenStep ==
    ASSUME TInv, Between
    PROVE  /\ UNCHANGED <<sd, sdSeen, settings>> /\ hist'.unmarked = hist.unmarked
           /\ hist.switched => hist'.switched
           /\ \A s \in SDs : <<"sd", s>> \in late' <=> <<"sd", s>> \in late
           /\ w.pc # "idle"
           /\ \/ w'.pc # "idle" /\ w'.key = w.key /\ w'.in = w.in /\ queue' = queue
              \/ w'.pc = "idle" /\ queue' = queue \cup {w.key}
              \/ w'.pc = "idle" /\ queue' = queue /\ w.key \in hist'.lost
           /\ hist.lost \subseteq hist'.lost
<1> USE DEF Keep, Frame, objects, caches
<1>1. /\ UNCHANGED <<sd, sdSeen, settings>> /\ hist'.unmarked = hist.unmarked /\ w.pc # "idle"
      /\ hist.switched => hist'.switched
      /\ hist.lost \subseteq hist'.lost
  BY FailsStep
  DEF Hist, Between, HandlerFails, DropFails, Blocked, ClaimList, Make, MakeDone, Drop,
      DropDone, RouteSkip, RouteLeftAlone, RoutePut, RouteDelete, TInv
<1>2. \A s \in SDs : <<"sd", s>> \in late' <=> <<"sd", s>> \in late
  <2>1. CASE Make
    <3>1. PICK n \in w.todo : MakeOne(n) BY <2>1 DEF Make
    <3> QED BY <3>1 DEF MakeOne
  <2>2. CASE Drop
    <3>1. PICK n \in w.todo : Remove(n) \/ UNCHANGED late BY <2>2 DEF Drop
    <3> QED BY <3>1 DEF Remove
  <2>3. CASE RoutePut \/ RouteDelete BY <2>3 DEF RoutePut, RouteDelete
  <2> QED
    BY <2>1, <2>2, <2>3, FailsStep
    DEF Between, HandlerFails, DropFails, Blocked, ClaimList, MakeDone, DropDone, RouteSkip,
        RouteLeftAlone
<1>3. \/ w'.pc # "idle" /\ w'.key = w.key /\ w'.in = w.in /\ queue' = queue
      \/ w'.pc = "idle" /\ queue' = queue \cup {w.key}
      \/ w'.pc = "idle" /\ queue' = queue /\ w.key \in hist'.lost
  <2>0. Fail => w'.pc = "idle" /\ queue' = queue \cup {w.key} BY DEF Fail, Resting
  <2>1. CASE HandlerFails \/ Blocked BY <2>1, FailsStep DEF Resting
  <2>2. CASE DropFails BY <1>1, <2>2 DEF DropFails, TInv, Worker
  <2>3. CASE ClaimList
    <3>1. w' = [w EXCEPT !.pc = "route"]
          \/ w' = [w EXCEPT !.pc = "drop", !.todo = claimsSeen]
          \/ w' = [w EXCEPT !.pc = "make", !.todo = w.in.want, !.exists = claimsSeen]
      BY <2>3 DEF ClaimList
    <3> QED BY <2>3, <3>1 DEF ClaimList, TInv, Worker
  <2>4. CASE Make
    <3>1. PICK n \in w.todo : MakeOne(n) BY <2>4 DEF Make
    <3>2. \/ Fail
          \/ UNCHANGED queue /\ w' = [w EXCEPT !.todo = @ \ {n}, !.exists = @ \ {n}]
          \/ UNCHANGED queue /\ w' = [w EXCEPT !.todo = @ \ {n}]
      BY <3>1 DEF MakeOne
    <3>3. w = [pc |-> w.pc, key |-> w.key, in |-> w.in, exists |-> w.exists, todo |-> w.todo]
      BY DEF TInv, Worker
    <3>4. ~Fail => w'.pc = w.pc /\ w'.key = w.key /\ w'.in = w.in /\ queue' = queue
      BY <3>2, <3>3
    <3> QED BY <1>1, <2>0, <3>4
  <2>5. CASE MakeDone BY <1>1, <2>5 DEF MakeDone, TInv, Worker
  <2>6. CASE Drop
    <3>1. PICK n \in w.todo : w' = [w EXCEPT !.todo = @ \ {n}] BY <2>6 DEF Drop
    <3> QED BY <1>1, <2>6, <3>1 DEF Drop, TInv, Worker
  <2>7. CASE DropDone \/ RouteSkip \/ RouteLeftAlone \/ RouteDelete
    BY <2>7 DEF DropDone, RouteSkip, RouteLeftAlone, RouteDelete, TInv, Worker
  <2>8. CASE RoutePut
    <3>1. Fail \/ (UNCHANGED queue /\ w' = [w EXCEPT !.pc = "finish"]) BY <2>8 DEF RoutePut
    <3> QED BY <2>0, <3>1 DEF TInv, Worker
  <2> QED BY <2>1, <2>2, <2>3, <2>4, <2>5, <2>6, <2>7, <2>8 DEF Between
<1> QED BY <1>1, <1>2, <1>3

LEMMA BeginStep ==
    ASSUME TInv, Begin
    PROVE  /\ UNCHANGED <<sd, sdSeen, settings, late, objects, claimsSeen>> /\ w.pc = "idle"
           /\ \E s \in queue :
                /\ queue' = queue \ {s}
                /\ hist' = [hist EXCEPT !.lost = hist.lost \ {s}]
                /\ IF sdSeen[s] = Nil THEN w'.pc = "idle"
                   ELSE w'.pc = "claims" /\ w'.key = s /\ w'.in = sdSeen[s]
                /\ w'.exists = {}
  BY DEF Begin, Resting, Frame, objects, caches

LEMMA FinishStep ==
    ASSUME TInv, Finish
    PROVE  /\ UNCHANGED <<sdSeen, settings, queue, objects, claimsSeen>>
           /\ hist'.unmarked = hist.unmarked /\ hist'.switched = hist.switched
           /\ hist.dropped \subseteq hist'.dropped
           /\ w.pc = "finish" /\ w'.pc = "idle" /\ w'.exists = {}
           /\ hist'.lost = hist.lost
           /\ \/ /\ w.in.mark /\ sd[w.key] # Nil
                 /\ sd' = [sd EXCEPT ![w.key] = Nil] /\ late' = late \cup {<<"sd", w.key>>}
              \/ UNCHANGED <<sd, late>>
  BY DEF Finish, Resting, Frame, caches, TInv, Hist

\* A cache without an event under way is right; a worker on an old copy will begin anew.
Current ==
    /\ \A s \in SDs : <<"sd", s>> \notin late => sdSeen[s] = sd[s]
    /\ w.pc # "idle" => w.in = sdSeen[w.key] \/ w.key \in queue

Marked(s) == sdSeen[s] # Nil /\ sdSeen[s].mark

\* An SQBDeployment that never went unmarked goes once: a mark is reconciled to its end before
\* the name can be taken again, and when it is gone no worker still has it.
MarkedOnce ==
    \A s \in SDs \ hist.unmarked :
        /\ Marked(s) =>
             /\ <<"sd", s>> \in late => s \notin queue /\ ~Works(s)
             /\ s \in queue => ~(Works(s) /\ w.in.mark)
        /\ Works(s) /\ w.in.mark => Marked(s)
        /\ sd[s] = Nil => ~Works(s) /\ (<<"sd", s>> \in late => s \notin queue)

LEMMA InitCurrent == Init => Current /\ MarkedOnce
<1> SUFFICES ASSUME Init PROVE Current /\ MarkedOnce OBVIOUS
<1>1. w.pc = "idle" /\ late = {} /\ sdSeen = sd BY DEF Init, Resting
<1> QED BY <1>1 DEF Current, MarkedOnce, Works

LEMMA CurrentStays == ASSUME TInv, Current, MarkedOnce, [Next]_vars PROVE Current' /\ MarkedOnce'
<1>0. hist.unmarked \in SUBSET SDs /\ (w.pc # "idle" => w.key \in SDs) BY DEF TInv, Hist
<1>1. CASE UNCHANGED vars BY <1>1 DEF vars, Current, MarkedOnce, Marked, Works
<1>2. CASE \E s \in SDs, o \in SdObj \cup {Nil} : EditSd(s, o)
  <2>1. PICK s \in SDs, o \in SdObj \cup {Nil} : EditSd(s, o) BY <1>2
  <2>2. /\ UNCHANGED <<sdSeen, w, queue>>
        /\ sd' = [sd EXCEPT ![s] = o] /\ late' = late \cup {<<"sd", s>>}
    BY <2>1 DEF EditSd, UserStep, caches
  <2>3. hist.unmarked \subseteq hist'.unmarked
    BY <2>1 DEF EditSd, TInv, Hist
  <2>4. sd[s] # Nil /\ o = Nil => s \in hist'.unmarked BY <2>1 DEF EditSd, TInv, Hist
  <2>5. sd[s] # Nil /\ sd[s].mark /\ o # Nil => FALSE BY <2>1 DEF EditSd
  <2>6. sd[s] = Nil => o # Nil BY <2>1 DEF EditSd
  <2>7. Current' BY <2>2 DEF Current, TInv
  <2>8. MarkedOnce'
    <3> SUFFICES ASSUME NEW t \in SDs \ hist'.unmarked
                 PROVE  /\ Marked(t)' =>
                             /\ <<"sd", t>> \in late' => t \notin queue' /\ ~Works(t)'
                             /\ t \in queue' => ~(Works(t)' /\ w'.in.mark)
                        /\ Works(t)' /\ w'.in.mark => Marked(t)'
                        /\ sd'[t] = Nil =>
                             ~Works(t)' /\ (<<"sd", t>> \in late' => t \notin queue')
      BY DEF MarkedOnce
    <3>1. t \in SDs \ hist.unmarked BY <2>3
    <3>2. CASE t # s BY <2>2, <3>1, <3>2 DEF MarkedOnce, Marked, Works, TInv
    <3>3. CASE t = s
      <4>1. sd'[t] = o /\ o # Nil BY <2>2, <2>4, <2>6, <3>3 DEF TInv
      <4>2. CASE Marked(t) /\ <<"sd", t>> \notin late
        BY <2>5, <3>3, <4>1, <4>2 DEF Current, Marked
      <4>3. CASE ~Marked(t) \/ <<"sd", t>> \in late
        BY <2>2, <3>1, <4>1, <4>3 DEF MarkedOnce, Marked, Works
      <4> QED BY <4>2, <4>3
    <3> QED BY <3>2, <3>3
  <2> QED BY <2>7, <2>8
<1>3. CASE \/ \E x \in {"claims", "routes"} : EditSettings(x)
           \/ EditApp
           \/ \E n \in Claims : Vanish(n) \/ DeliverClaim(n)
           \/ \E s \in SDs : DeliverRoute(s)
  <2>1. UNCHANGED <<sd, sdSeen, w, queue>> /\ hist'.unmarked = hist.unmarked
    BY <1>3
    DEF EditSettings, EditApp, UserStep, Vanish, DeliverClaim, DeliverRoute, caches, TInv,
        Hist
  <2>2. \A s \in SDs : <<"sd", s>> \in late' <=> <<"sd", s>> \in late
    <3>1. CASE \E x \in {"claims", "routes"} : EditSettings(x) BY <3>1 DEF EditSettings
    <3>2. CASE \E n \in Claims : Vanish(n) BY <3>2 DEF Vanish
    <3>3. CASE \E n \in Claims : DeliverClaim(n) BY <3>3 DEF DeliverClaim
    <3>4. CASE \E s \in SDs : DeliverRoute(s) BY <3>4 DEF DeliverRoute
    <3>5. CASE EditApp BY <3>5 DEF EditApp
    <3> QED BY <1>3, <3>1, <3>2, <3>3, <3>4, <3>5
  <2> QED BY <2>1, <2>2 DEF Current, MarkedOnce, Marked, Works
<1>4. CASE \E s \in SDs : DeliverSd(s)
  <2>1. PICK s \in SDs : DeliverSd(s) BY <1>4
  <2>2. /\ UNCHANGED <<sd, w, hist>> /\ <<"sd", s>> \in late /\ late' = late \ {<<"sd", s>>}
        /\ sdSeen' = [sdSeen EXCEPT ![s] = sd[s]] /\ queue' = queue \cup {s}
    BY <2>1 DEF DeliverSd
  <2>3. Current' BY <2>2 DEF Current, TInv
  <2>4. MarkedOnce'
    <3> SUFFICES ASSUME NEW t \in SDs \ hist.unmarked
                 PROVE  /\ Marked(t)' =>
                             /\ <<"sd", t>> \in late' => t \notin queue' /\ ~Works(t)'
                             /\ t \in queue' => ~(Works(t)' /\ w'.in.mark)
                        /\ Works(t)' /\ w'.in.mark => Marked(t)'
                        /\ sd'[t] = Nil =>
                             ~Works(t)' /\ (<<"sd", t>> \in late' => t \notin queue')
      BY <2>2 DEF MarkedOnce
    <3>1. CASE t # s BY <2>2, <3>1 DEF MarkedOnce, Marked, Works, TInv
    <3>2. CASE t = s
      <4>1. <<"sd", t>> \notin late' BY <2>2, <3>2
      <4>2. ~(Works(t) /\ w.in.mark) BY <2>2, <3>2 DEF MarkedOnce
      <4> QED BY <2>2, <4>1, <4>2 DEF MarkedOnce, Works
    <3> QED BY <3>1, <3>2
  <2> QED BY <2>3, <2>4
<1>5. CASE Between
  <2>1. Current' BY <1>0, <1>5, BetweenStep DEF Current
  <2>2. MarkedOnce'
    BY <1>0, <1>5, BetweenStep DEF MarkedOnce, Marked, Works
  <2> QED BY <2>1, <2>2
<1>6. CASE Begin
  <2>1. PICK s \in queue :
           /\ queue' = queue \ {s}
           /\ IF sdSeen[s] = Nil THEN w'.pc = "idle"
              ELSE w'.pc = "claims" /\ w'.key = s /\ w'.in = sdSeen[s]
    BY <1>6, BeginStep
  <2>2. UNCHANGED <<sd, sdSeen, late>> /\ hist'.unmarked = hist.unmarked /\ w.pc = "idle"
    BY <1>6, BeginStep DEF TInv, Hist
  <2>3. Current' BY <2>1, <2>2 DEF Current
  <2>4. MarkedOnce'
    <3> SUFFICES ASSUME NEW t \in SDs \ hist.unmarked
                 PROVE  /\ Marked(t)' =>
                             /\ <<"sd", t>> \in late' => t \notin queue' /\ ~Works(t)'
                             /\ t \in queue' => ~(Works(t)' /\ w'.in.mark)
                        /\ Works(t)' /\ w'.in.mark => Marked(t)'
                        /\ sd'[t] = Nil =>
                             ~Works(t)' /\ (<<"sd", t>> \in late' => t \notin queue')
      BY <2>2 DEF MarkedOnce
    <3>1. CASE t # s BY <2>1, <2>2, <3>1 DEF MarkedOnce, Marked, Works
    <3>2. CASE t = s
      <4>1. t \notin queue' BY <2>1, <3>2
      <4>2. Marked(t) => <<"sd", t>> \notin late BY <2>1, <3>2 DEF MarkedOnce
      <4>3. sd[t] = Nil => <<"sd", t>> \notin late BY <2>1, <3>2 DEF MarkedOnce
      <4>4. sd[t] = Nil => sdSeen[t] = Nil BY <4>3 DEF Current
      <4> QED BY <2>1, <2>2, <3>2, <4>1, <4>2, <4>4 DEF Marked, Works
    <3> QED BY <3>1, <3>2
  <2> QED BY <2>3, <2>4
<1>7. CASE Finish
  <2>1. /\ UNCHANGED <<sdSeen, queue>> /\ hist'.unmarked = hist.unmarked
        /\ w.pc = "finish" /\ w'.pc = "idle" /\ w.key \in SDs
        /\ \/ /\ w.in.mark /\ sd[w.key] # Nil
              /\ sd' = [sd EXCEPT ![w.key] = Nil] /\ late' = late \cup {<<"sd", w.key>>}
           \/ UNCHANGED <<sd, late>>
    BY <1>0, <1>7, FinishStep
  <2>2. Current' BY <2>1 DEF Current, TInv
  <2>3. MarkedOnce'
    <3> SUFFICES ASSUME NEW t \in SDs \ hist.unmarked
                 PROVE  /\ Marked(t)' =>
                             /\ <<"sd", t>> \in late' => t \notin queue' /\ ~Works(t)'
                             /\ t \in queue' => ~(Works(t)' /\ w'.in.mark)
                        /\ Works(t)' /\ w'.in.mark => Marked(t)'
                        /\ sd'[t] = Nil =>
                             ~Works(t)' /\ (<<"sd", t>> \in late' => t \notin queue')
      BY <2>1 DEF MarkedOnce
    <3>1. ~Works(t)' BY <2>1 DEF Works
    <3>2. CASE t # w.key \/ UNCHANGED <<sd, late>>
      BY <2>1, <3>1, <3>2 DEF MarkedOnce, Marked, TInv
    <3>3. CASE t = w.key /\ w.in.mark
      BY <2>1, <3>1, <3>3 DEF MarkedOnce, Marked, Works
    <3> QED BY <2>1, <3>2, <3>3
  <2> QED BY <2>2, <2>3
<1> QED BY <1>1, <1>2, <1>3, <1>4, <1>5, <1>6, <1>7 DEF Next, Work, Between

\* A public entry, not marked, is what the route is for.
Asks(o) == o.public /\ ~o.mark

RoutesOn == "routes" \in settings /\ ~hist.switched
ClaimsOn == "claims" \in settings /\ ~hist.switched

\* The route is as the cached copy asks, or a reconcile is to come, on its way to the route, or
\* lost; past it, the route is as the worker's copy asks, or lost; none is left of who went by
\* the mark.
RouteRight ==
    RoutesOn =>
        /\ \A s \in SDs : sdSeen[s] # Nil =>
             \/ s \in queue \/ s \in hist.lost \/ (s \in routes <=> Asks(sdSeen[s]))
             \/ Works(s) /\ w.pc # "finish"
        /\ w.pc = "finish" => /\ w.key \in routes => Asks(w.in)
                              /\ Asks(w.in) => w.key \in routes \cup hist.lost
        /\ \A s \in SDs \ hist.unmarked : sd[s] = Nil => s \notin routes

LEMMA InitRoutes == Init => RouteRight
  BY DEF Init, RouteRight, Resting

LEMMA SwitchesStay ==
    ASSUME TInv, [Next]_vars, ~hist'.switched
    PROVE  ~hist.switched /\ UNCHANGED settings
<1>1. CASE UNCHANGED vars BY <1>1 DEF vars
<1>2. CASE \E s \in SDs, o \in SdObj \cup {Nil} : EditSd(s, o)
  <2>1. PICK s \in SDs, o \in SdObj \cup {Nil} : EditSd(s, o) BY <1>2
  <2>2. hist'.switched = hist.switched BY <2>1 DEF EditSd, TInv, Hist
  <2> QED BY <2>1, <2>2 DEF EditSd
<1>3. CASE \E x \in {"claims", "routes"} : EditSettings(x)
  BY <1>3 DEF EditSettings, TInv, Hist
<1>8. CASE EditApp BY <1>8 DEF EditApp
<1>4. CASE \/ \E n \in Claims : Vanish(n) \/ DeliverClaim(n)
           \/ \E s \in SDs : DeliverSd(s) \/ DeliverRoute(s)
  BY <1>4 DEF Vanish, DeliverClaim, DeliverSd, DeliverRoute
<1>5. CASE Between BY <1>5, BetweenStep
<1>6. CASE Begin BY <1>6, BeginStep DEF TInv, Hist
<1>7. CASE Finish BY <1>7, FinishStep
<1> QED BY <1>1, <1>2, <1>3, <1>4, <1>5, <1>6, <1>7, <1>8 DEF Next, Work, Between

\* Nothing but the worker touches routes.
LEMMA RoutesAlone ==
    ASSUME TInv, [Next]_vars, ~RoutePut, ~RouteDelete
    PROVE  UNCHANGED routes
  BY
  DEF Next, vars, objects, EditSd, EditSettings, EditApp, UserStep, Vanish, DeliverSd,
      DeliverClaim, DeliverRoute, HandlerFails, DropFails, Work, Begin, Blocked, ClaimList,
      Make, MakeDone, Drop, DropDone, RouteSkip, RouteLeftAlone, Finish, Keep

LEMMA RouteStays ==
    ASSUME TInv, Current, MarkedOnce, RouteRight, [Next]_vars
    PROVE  RouteRight'
<1> SUFFICES ASSUME RoutesOn'
             PROVE  /\ \A s \in SDs : sdSeen'[s] # Nil =>
                         \/ s \in queue' \/ s \in hist'.lost
                         \/ (s \in routes' <=> Asks(sdSeen'[s]))
                         \/ Works(s)' /\ w'.pc # "finish"
                    /\ w'.pc = "finish" =>
                         /\ w'.key \in routes' => Asks(w'.in)
                         /\ Asks(w'.in) => w'.key \in routes' \cup hist'.lost
                    /\ \A s \in SDs \ hist'.unmarked : sd'[s] = Nil => s \notin routes'
  BY DEF RouteRight, Asks
<1>0. /\ RoutesOn /\ "routes" \in settings
      /\ hist.unmarked \in SUBSET SDs /\ (w.pc # "idle" => w.key \in SDs)
  BY SwitchesStay DEF RoutesOn, TInv, Hist
<1>a. /\ \A s \in SDs : sdSeen[s] # Nil =>
           \/ s \in queue \/ s \in hist.lost \/ (s \in routes <=> Asks(sdSeen[s]))
           \/ Works(s) /\ w.pc # "finish"
      /\ w.pc = "finish" => /\ w.key \in routes => Asks(w.in)
                            /\ Asks(w.in) => w.key \in routes \cup hist.lost
      /\ \A s \in SDs \ hist.unmarked : sd[s] = Nil => s \notin routes
  BY <1>0 DEF RouteRight
<1>1. CASE UNCHANGED vars BY <1>a, <1>1 DEF vars, Works
<1>2. CASE \E s \in SDs, o \in SdObj \cup {Nil} : EditSd(s, o)
  <2>1. PICK s \in SDs, o \in SdObj \cup {Nil} : EditSd(s, o) BY <1>2
  <2>2. UNCHANGED <<sdSeen, w, queue, routes>> /\ sd' = [sd EXCEPT ![s] = o]
    BY <2>1 DEF EditSd, UserStep, caches, objects
  <2>3. hist.unmarked \subseteq hist'.unmarked /\ hist'.lost = hist.lost
    BY <2>1 DEF EditSd, TInv, Hist
  <2>4. o = Nil => s \in hist'.unmarked BY <2>1 DEF EditSd, TInv, Hist
  <2>5. \A t \in SDs \ hist'.unmarked : sd'[t] = Nil => sd[t] = Nil BY <2>2, <2>4 DEF TInv
  <2> QED BY <1>a, <2>2, <2>3, <2>5 DEF Works
<1>3. CASE \/ \E x \in {"claims", "routes"} : EditSettings(x)
           \/ EditApp
           \/ \E n \in Claims : Vanish(n) \/ DeliverClaim(n)
           \/ \E s \in SDs : DeliverRoute(s)
  <2>1. /\ UNCHANGED <<sd, sdSeen, w, queue, routes>>
        /\ hist'.unmarked = hist.unmarked /\ hist'.lost = hist.lost
    BY <1>3
    DEF EditSettings, EditApp, UserStep, Vanish, DeliverClaim, DeliverRoute, caches, objects,
        TInv, Hist
  <2> QED BY <1>a, <2>1 DEF Works
<1>4. CASE \E s \in SDs : DeliverSd(s)
  <2>1. PICK s \in SDs : DeliverSd(s) BY <1>4
  <2>2. UNCHANGED <<sd, w, hist, routes>> /\ queue' = queue \cup {s}
        /\ \A t \in SDs : t # s => sdSeen'[t] = sdSeen[t]
    BY <2>1 DEF DeliverSd, objects, TInv
  <2> QED BY <1>a, <2>2 DEF Works
<1>5. CASE Begin
  <2>1. PICK s \in queue :
           /\ queue' = queue \ {s} /\ hist' = [hist EXCEPT !.lost = hist.lost \ {s}]
           /\ IF sdSeen[s] = Nil THEN w'.pc = "idle"
              ELSE w'.pc = "claims" /\ w'.key = s /\ w'.in = sdSeen[s]
    BY <1>5, BeginStep
  <2>2. UNCHANGED <<sd, sdSeen, routes>> /\ w.pc = "idle" BY <1>5, BeginStep DEF objects
  <2>3. hist'.unmarked = hist.unmarked /\ hist'.lost = hist.lost \ {s}
    BY <2>1 DEF TInv, Hist
  <2> QED BY <1>a, <2>1, <2>2, <2>3 DEF Works
<1>6. CASE Finish
  <2>1. /\ UNCHANGED <<sdSeen, queue, routes>> /\ hist'.unmarked = hist.unmarked
        /\ w.pc = "finish" /\ w'.pc = "idle"
        /\ w.key \in SDs
        /\ hist'.lost = hist.lost
        /\ (w.in.mark /\ sd' = [sd EXCEPT ![w.key] = Nil]) \/ UNCHANGED sd
    BY <1>0, <1>6, FinishStep DEF objects
  <2>2. \A s \in SDs : sd'[s] = Nil => sd[s] = Nil \/ (s = w.key /\ s \notin routes)
    BY <1>a, <2>1 DEF Asks, TInv
  <2> QED BY <1>a, <2>1, <2>2 DEF Works
<1>7. CASE Between
  <2>1. /\ UNCHANGED <<sd, sdSeen>> /\ hist'.unmarked = hist.unmarked /\ w.pc # "idle"
        /\ \/ w'.pc # "idle" /\ w'.key = w.key /\ w'.in = w.in /\ queue' = queue
           \/ w'.pc = "idle" /\ queue' = queue \cup {w.key}
           \/ w'.pc = "idle" /\ queue' = queue /\ w.key \in hist'.lost
        /\ hist.lost \subseteq hist'.lost
    BY <1>7, BetweenStep
  <2>2. CASE RoutePut
    <3>1. ~Fail => w'.pc = "finish" /\ routes' = routes \cup {w.key}
      BY <2>2 DEF RoutePut, TInv, Worker
    <3>2. Fail => UNCHANGED routes /\ w'.pc = "idle"
      <4>1. Fail => w'.pc = "idle" BY DEF Fail, Resting
      <4>2. w' = [w EXCEPT !.pc = "finish"] => w'.pc = "finish" BY DEF TInv, Worker
      <4> QED BY <2>2, <4>1, <4>2 DEF RoutePut
    <3>3. w.in.public /\ ~w.in.mark /\ w.key \in SDs BY <1>0, <2>2 DEF RoutePut
    <3>4. \A s \in SDs \ hist.unmarked : sd[s] = Nil => s # w.key
      BY <2>1 DEF MarkedOnce, Works
    <3>5. CASE Fail BY <1>a, <2>1, <3>2, <3>5 DEF Works
    <3>6. CASE ~Fail
      <4>1. Asks(w'.in) BY <2>1, <3>1, <3>3, <3>6 DEF Asks
      <4> QED BY <1>a, <2>1, <3>1, <3>3, <3>4, <3>6, <4>1 DEF Works, Current
    <3> QED BY <3>5, <3>6
  <2>3. CASE RouteDelete
    <3>1. w'.pc = "finish" /\ routes' = routes \ {w.key} /\ w.key \in SDs /\ ~Asks(w.in)
      BY <1>0, <2>3 DEF RouteDelete, Asks, TInv, Worker
    <3>2. ~Asks(w'.in) BY <2>1, <3>1
    <3> QED BY <1>a, <2>1, <3>1, <3>2 DEF Works, Current
  <2>4. CASE RouteLeftAlone
    <3>1. /\ w.key \in SDs /\ UNCHANGED routes /\ w.key \in routes \cup hist'.lost
          /\ w'.pc = "finish" /\ Asks(w.in)
      BY <1>0, <2>4 DEF RouteLeftAlone, Asks, objects, TInv, Worker, Hist
    <3> QED BY <1>a, <2>1, <3>1 DEF Works, Current
  <2>5. CASE ~RoutePut /\ ~RouteDelete /\ ~RouteLeftAlone
    <3>1. UNCHANGED routes BY <2>5, RoutesAlone
    <3>2. (w'.pc # "finish" /\ w.pc # "finish") \/ w'.pc = "idle"
      <4>1. CASE HandlerFails \/ Blocked BY <4>1, FailsStep DEF Resting
      <4>2. CASE DropFails BY <4>2 DEF DropFails, TInv, Worker
      <4>3. CASE ClaimList
        <5>1. w' = [w EXCEPT !.pc = "route"]
              \/ w' = [w EXCEPT !.pc = "drop", !.todo = claimsSeen]
              \/ w' = [w EXCEPT !.pc = "make", !.todo = w.in.want, !.exists = claimsSeen]
          BY <4>3 DEF ClaimList
        <5> QED BY <4>3, <5>1 DEF ClaimList, TInv, Worker
      <4>4. CASE Make
        <5>1. PICK n \in w.todo : MakeOne(n) BY <4>4 DEF Make
        <5>2. \/ Fail \/ w' = [w EXCEPT !.todo = @ \ {n}, !.exists = @ \ {n}]
              \/ w' = [w EXCEPT !.todo = @ \ {n}]
          BY <5>1 DEF MakeOne
        <5>3. w = [pc |-> w.pc, key |-> w.key, in |-> w.in, exists |-> w.exists, todo |-> w.todo]
          BY DEF TInv, Worker
        <5>4. ~Fail => w'.pc = w.pc BY <5>2, <5>3
        <5> QED BY <4>4, <5>4 DEF Make, Fail, Resting
      <4>5. CASE MakeDone BY <4>5 DEF MakeDone, TInv, Worker
      <4>6. CASE Drop
        <5>1. PICK n \in w.todo : w' = [w EXCEPT !.todo = @ \ {n}] BY <4>6 DEF Drop
        <5> QED BY <4>6, <5>1 DEF Drop, TInv, Worker
      <4>7. CASE DropDone BY <4>7 DEF DropDone, TInv, Worker
      <4>8. ~RouteSkip BY <1>0 DEF RouteSkip
      <4> QED BY <1>7, <2>5, <4>1, <4>2, <4>3, <4>4, <4>5, <4>6, <4>7, <4>8 DEF Between
    <3> QED BY <1>a, <2>1, <3>1, <3>2 DEF Works, Current
  <2> QED BY <2>2, <2>3, <2>4, <2>5
<1> QED BY <1>1, <1>2, <1>3, <1>4, <1>5, <1>6, <1>7 DEF Next, Work, Between

\* No event under way, no key waiting, no worker at work.
AtRest == queue = {} /\ late = {} /\ w.pc = "idle"

\* While the switch stays on, whenever nothing is left to do, of the live SQBDeployments that
\* are due exactly those with a public entry have a route, and none is left of one that went
\* by way of the mark (specialVirtualServiceHandler.Handle).
RoutesAtRest ==
    AtRest /\ RoutesOn =>
        \A s \in SDs : /\ Due(s) => (s \in routes <=> sd[s].public)
                       /\ sd[s] = Nil /\ s \in routes => s \in hist.unmarked

\* For any number of SQBDeployments, failing calls and user actions, and however late the
\* caches: a route put or deleted from an old copy is followed by another attempt, unless an
\* error that is not retried, as a refused Deployment's, or KubeVela's label loses the step.
THEOREM RoutesRest == Spec => []RoutesAtRest
<1>1. TInv /\ [Next]_vars => TInv' BY TypesStay
<1>2. TInv /\ Current /\ MarkedOnce /\ [Next]_vars => Current' /\ MarkedOnce' BY CurrentStays
<1>3. TInv /\ Current /\ MarkedOnce /\ RouteRight /\ [Next]_vars => RouteRight' BY RouteStays
<1>4. Current /\ RouteRight => RoutesAtRest
  BY DEF Current, RouteRight, RoutesAtRest, AtRest, Due, Live, Wanting, Asks, Works
<1> QED BY <1>1, <1>2, <1>3, <1>4, InitTypes, InitCurrent, InitRoutes, PTL DEF Spec

\* A claim that nobody dropped is not on its way out; the cache and the worker's list know
\* it only if it is bound.
MadeBound ==
    \A n \in Claims \ hist.dropped :
        claims[n] # "going" /\ (n \in claimsSeen \cup w.exists => claims[n] = "bound")

\* A claim that the cached copy wants, and nobody dropped, is bound, or a reconcile is to
\* come, is lost, or has it still to make.
ClaimRight ==
    ClaimsOn =>
        \A s \in SDs, n \in Claims \ hist.dropped : Wants(sdSeen[s], n) =>
            \/ s \in queue \/ s \in hist.lost \/ claims[n] = "bound"
            \/ Works(s) /\ (w.pc = "claims" \/ (w.pc = "make" /\ n \in w.todo))

LEMMA InitMade == Init => MadeBound /\ ClaimRight
  BY DEF Init, MadeBound, ClaimRight, Resting, Wants, Wanting

LEMMA DroppedStays == ASSUME TInv, [Next]_vars PROVE hist.dropped \subseteq hist'.dropped
<1>1. CASE \E s \in SDs, o \in SdObj \cup {Nil} : EditSd(s, o)
  <2>1. PICK s \in SDs, o \in SdObj \cup {Nil} : EditSd(s, o) BY <1>1
  <2> QED BY <2>1 DEF EditSd, TInv, Hist
<1>2. CASE Finish BY <1>2, FinishStep
<1>3. CASE hist'.dropped = hist.dropped BY <1>3
<1>4. CASE HandlerFails \/ Blocked BY <1>4, FailsStep DEF TInv, Hist
<1>5. CASE Begin \/ Drop \/ RouteLeftAlone BY <1>5 DEF Begin, Drop, RouteLeftAlone, TInv, Hist
<1> QED
  BY <1>1, <1>2, <1>3, <1>4, <1>5
  DEF Next, vars, EditSettings, EditApp, Vanish, DeliverSd, DeliverClaim, DeliverRoute,
      DropFails, Work, ClaimList, Make, MakeDone, DropDone, RouteSkip, RoutePut, RouteDelete,
      Keep, TInv, Hist

LEMMA MadeBoundStays == ASSUME TInv, CInv, MadeBound, [Next]_vars PROVE MadeBound'
<1>1. hist.dropped \subseteq hist'.dropped BY DroppedStays
<1>2. \A n \in Claims \ hist'.dropped : claims'[n] # "going"
  <2>1. CASE Drop
    <3>1. PICK n \in w.todo : Remove(n) \/ UNCHANGED claims BY <2>1 DEF Drop
    <3>2. n \in hist.dropped BY <2>1 DEF Drop, CInv, Lists
    <3> QED BY <1>1, <3>1, <3>2 DEF Remove, MadeBound, TInv
  <2>2. CASE Make
    <3>1. PICK n \in w.todo : MakeOne(n) BY <2>2 DEF Make
    <3> QED BY <1>1, <3>1 DEF MakeOne, MadeBound, TInv
  <2>3. CASE \E n \in Claims : Vanish(n) BY <1>1, <2>3 DEF Vanish, MadeBound, TInv
  <2>4. CASE UNCHANGED claims BY <1>1, <2>4 DEF MadeBound
  <2> QED
    BY <2>1, <2>2, <2>3, <2>4
    DEF Next, vars, objects, EditSd, EditSettings, EditApp, UserStep, DeliverSd, DeliverClaim,
        DeliverRoute, HandlerFails, DropFails, Work, Begin, Blocked, ClaimList, MakeDone,
        DropDone, RouteSkip, RouteLeftAlone, RoutePut, RouteDelete, Finish, Keep
<1>3. \A n \in Claims \ hist'.dropped :
          n \in claimsSeen' \cup w'.exists => n \in claimsSeen \cup w.exists \/ claims[n] = "bound"
  <2>1. \A n \in claimsSeen' : n \in claimsSeen \/ claims[n] # "none"
    BY
    DEF Next, vars, caches, EditSd, EditSettings, EditApp, UserStep, Vanish, DeliverSd,
        DeliverClaim, DeliverRoute, HandlerFails, DropFails, Work, Begin, Blocked, ClaimList,
        Make, MakeDone, Drop, DropDone, RouteSkip, RouteLeftAlone, RoutePut, RouteDelete,
        Finish, Frame
  <2>2. w'.exists \subseteq claimsSeen \cup w.exists
    <3>0. w = [pc |-> w.pc, key |-> w.key, in |-> w.in, exists |-> w.exists, todo |-> w.todo]
      BY DEF TInv, Worker
    <3>1. CASE Make
      <4>1. PICK n \in w.todo : MakeOne(n) BY <3>1 DEF Make
      <4>2. \/ Fail \/ w' = [w EXCEPT !.todo = @ \ {n}, !.exists = @ \ {n}]
            \/ w' = [w EXCEPT !.todo = @ \ {n}]
        BY <4>1 DEF MakeOne
      <4>3. Fail => w'.exists = {} BY DEF Fail, Resting
      <4> QED BY <3>0, <4>2, <4>3
    <3>2. CASE ClaimList
      <4>1. w' = [w EXCEPT !.pc = "route"]
            \/ w' = [w EXCEPT !.pc = "drop", !.todo = claimsSeen]
            \/ w' = [w EXCEPT !.pc = "make", !.todo = w.in.want, !.exists = claimsSeen]
        BY <3>2 DEF ClaimList
      <4> QED BY <3>0, <4>1
    <3>3. CASE Drop
      <4>1. PICK n \in w.todo : w' = [w EXCEPT !.todo = @ \ {n}] BY <3>3 DEF Drop
      <4> QED BY <3>0, <4>1
    <3>4. CASE Begin BY <3>4, BeginStep
    <3>5. CASE Finish BY <3>5, FinishStep
    <3>6. CASE HandlerFails \/ Blocked BY <3>6, FailsStep DEF Resting
    <3>7. CASE RoutePut
      <4>1. Fail \/ w' = [w EXCEPT !.pc = "finish"] BY <3>7 DEF RoutePut
      <4>2. Fail => w'.exists = {} BY DEF Fail, Resting
      <4> QED BY <3>0, <4>1, <4>2
    <3>8. CASE DropFails \/ MakeDone \/ DropDone \/ RouteSkip \/ RouteLeftAlone \/ RouteDelete
      BY <3>0, <3>8 DEF DropFails, MakeDone, DropDone, RouteSkip, RouteLeftAlone, RouteDelete
    <3>9. CASE UNCHANGED w BY <3>9
    <3> QED
      BY <3>1, <3>2, <3>3, <3>4, <3>5, <3>6, <3>7, <3>8, <3>9
      DEF Next, vars, EditSd, EditSettings, EditApp, UserStep, Vanish, DeliverSd, DeliverClaim,
          DeliverRoute, Work
  <2>3. claims \in [Claims -> {"none", "bound", "going"}] BY DEF TInv
  <2> QED BY <1>1, <2>1, <2>2, <2>3 DEF MadeBound
<1>4. \A n \in Claims \ hist'.dropped : n \in claimsSeen' \cup w'.exists => claims'[n] = "bound"
  BY <1>1, <1>3, BoundStays DEF MadeBound
<1> QED BY <1>2, <1>4 DEF MadeBound

LEMMA ClaimStays ==
    ASSUME TInv, CInv, MadeBound, Current, ClaimRight, [Next]_vars
    PROVE  ClaimRight'
<1> SUFFICES ASSUME ClaimsOn', NEW s \in SDs, NEW n \in Claims \ hist'.dropped,
                    Wants(sdSeen'[s], n)
             PROVE  \/ s \in queue' \/ s \in hist'.lost \/ claims'[n] = "bound"
                    \/ Works(s)' /\ (w'.pc = "claims" \/ (w'.pc = "make" /\ n \in w'.todo))
  BY DEF ClaimRight, Wants, Wanting
<1>0. ClaimsOn /\ n \notin hist.dropped /\ "claims" \in settings
  BY SwitchesStay, DroppedStays DEF ClaimsOn
<1>1. CASE claims[n] = "bound" BY <1>0, <1>1, BoundStays
<1>2. CASE sdSeen'[s] # sdSeen[s]
  <2>1. PICK t \in SDs : DeliverSd(t)
    BY <1>2
    DEF Next, vars, caches, EditSd, EditSettings, EditApp, UserStep, Vanish, DeliverClaim,
        DeliverRoute, HandlerFails, DropFails, Work, Begin, Blocked, ClaimList, Make,
        MakeDone, Drop, DropDone, RouteSkip, RouteLeftAlone, RoutePut, RouteDelete, Finish,
        Frame
  <2>2. s = t BY <1>2, <2>1 DEF DeliverSd, TInv
  <2> QED BY <2>1, <2>2 DEF DeliverSd
<1> SUFFICES ASSUME claims[n] # "bound", sdSeen'[s] = sdSeen[s]
             PROVE  \/ s \in queue' \/ s \in hist'.lost \/ claims'[n] = "bound"
                    \/ Works(s)' /\ (w'.pc = "claims" \/ (w'.pc = "make" /\ n \in w'.todo))
  BY <1>1, <1>2
<1>3. \/ s \in queue \/ s \in hist.lost
      \/ Works(s) /\ (w.pc = "claims" \/ (w.pc = "make" /\ n \in w.todo))
  BY <1>0 DEF ClaimRight
<1>4. CASE UNCHANGED w /\ queue \subseteq queue' /\ hist.lost \subseteq hist'.lost
  BY <1>3, <1>4 DEF Works
<1>5. CASE Begin
  <2>1. PICK t \in queue :
           /\ queue' = queue \ {t} /\ hist' = [hist EXCEPT !.lost = hist.lost \ {t}]
           /\ IF sdSeen[t] = Nil THEN w'.pc = "idle"
              ELSE w'.pc = "claims" /\ w'.key = t /\ w'.in = sdSeen[t]
    BY <1>5, BeginStep
  <2>2. sdSeen[s] # Nil /\ w.pc = "idle" BY <1>5, BeginStep DEF Wants, Wanting
  <2>3. hist'.lost = hist.lost \ {t} BY <2>1 DEF TInv, Hist
  <2> QED BY <1>3, <2>1, <2>2, <2>3 DEF Works
<1>6. CASE Finish BY <1>3, <1>6, FinishStep DEF Works
<1>7. CASE Between
  <2>1. /\ w.pc # "idle"
        /\ \/ w'.pc # "idle" /\ w'.key = w.key /\ w'.in = w.in /\ queue' = queue
           \/ w'.pc = "idle" /\ queue' = queue \cup {w.key}
           \/ w'.pc = "idle" /\ queue' = queue /\ w.key \in hist'.lost
        /\ hist.lost \subseteq hist'.lost
    BY <1>7, BetweenStep
  <2>2. CASE s \in queue \cup hist.lost \/ w'.pc = "idle" BY <1>3, <2>1, <2>2 DEF Works
  <2>3. CASE s \notin queue \cup hist.lost /\ w'.pc # "idle"
    <3>1. Works(s) /\ w.in = sdSeen[s] /\ Works(s)'
      BY <1>3, <2>1, <2>3 DEF Works, Current
    <3>2. CASE w.pc = "claims"
      <4>1. ClaimList
        BY <1>7, <2>3, <3>2, FailsStep
        DEF Between, Resting, DropFails, Make, MakeDone, Drop, DropDone, RouteSkip,
            RouteLeftAlone, RoutePut, RouteDelete
      <4>2. ~w.in.mark /\ n \in w.in.want BY <3>1 DEF Wants, Wanting
      <4>3. w' = [w EXCEPT !.pc = "make", !.todo = w.in.want, !.exists = claimsSeen]
        BY <1>0, <4>1, <4>2 DEF ClaimList
      <4> QED BY <3>1, <4>2, <4>3 DEF TInv, Worker
    <3>3. CASE w.pc = "make" /\ n \in w.todo
      <4>1. Make
        BY <1>7, <2>3, <3>3, FailsStep
        DEF Between, Resting, DropFails, ClaimList, MakeDone, Drop, DropDone, RouteSkip,
            RouteLeftAlone, RoutePut, RouteDelete
      <4>2. PICK m \in w.todo : MakeOne(m) BY <4>1 DEF Make
      <4>3. n \notin w.exists \cup claimsSeen /\ claims[n] # "going"
        BY <1>0 DEF MadeBound
      <4>4. CASE m = n
        <5>1. ~Fail BY <2>3 DEF Fail, Resting
        <5> QED BY <4>2, <4>3, <4>4, <5>1 DEF MakeOne, TInv
      <4>5. CASE m # n
        <5>0. w = [pc |-> w.pc, key |-> w.key, in |-> w.in, exists |-> w.exists, todo |-> w.todo]
          BY DEF TInv, Worker
        <5>1. \/ Fail \/ w' = [w EXCEPT !.todo = @ \ {m}, !.exists = @ \ {m}]
              \/ w' = [w EXCEPT !.todo = @ \ {m}]
          BY <4>2 DEF MakeOne
        <5>2. ~Fail BY <2>3 DEF Fail, Resting
        <5>3. w'.pc = "make" /\ n \in w'.todo BY <3>3, <4>5, <5>0, <5>1, <5>2
        <5> QED BY <3>1, <5>3
      <4> QED BY <4>4, <4>5
    <3> QED BY <1>3, <2>3, <3>2, <3>3
  <2> QED BY <2>2, <2>3
<1>8. CASE \/ UNCHANGED vars
           \/ \E t \in SDs, o \in SdObj \cup {Nil} : EditSd(t, o)
           \/ \E x \in {"claims", "routes"} : EditSettings(x)
           \/ EditApp
           \/ \E m \in Claims : Vanish(m) \/ DeliverClaim(m)
           \/ \E t \in SDs : DeliverSd(t) \/ DeliverRoute(t)
  <2>1. UNCHANGED w /\ queue \subseteq queue'
    BY <1>8
    DEF vars, EditSd, EditSettings, EditApp, UserStep, Vanish, DeliverSd, DeliverClaim,
        DeliverRoute
  <2>2. hist'.lost = hist.lost
    <3>1. CASE \E t \in SDs, o \in SdObj \cup {Nil} : EditSd(t, o)
      <4>1. PICK t \in SDs, o \in SdObj \cup {Nil} : EditSd(t, o) BY <3>1
      <4> QED BY <4>1 DEF EditSd, TInv, Hist
    <3>2. CASE \E x \in {"claims", "routes"} : EditSettings(x)
      BY <3>2 DEF EditSettings, TInv, Hist
    <3>3. CASE UNCHANGED hist BY <3>3
    <3> QED
      BY <1>8, <3>1, <3>2, <3>3
      DEF vars, EditApp, Vanish, DeliverSd, DeliverClaim, DeliverRoute
  <2> QED BY <1>4, <2>1, <2>2
<1> QED BY <1>5, <1>6, <1>7, <1>8 DEF Next, Work, Between

\* While the switch stays on, whenever nothing is left to do, every claim that a live
\* SQBDeployment that is due wants, and never gave up, is bound (pvcHandler.CreateOrUpdate).
ClaimsAtRest ==
    AtRest /\ ClaimsOn =>
        \A s \in SDs : Due(s) => \A n \in sd[s].want \ hist.dropped : claims[n] = "bound"

\* For any number of claims, failing calls and user actions, and however late the caches: a
\* list of claims that was cut short, but for an error that is not retried, is taken up again,
\* and the retry makes the rest.
THEOREM WantedClaimsRest == ASSUME OneForTheLabels PROVE Spec => []ClaimsAtRest
<1>1. TInv /\ [Next]_vars => TInv' BY TypesStay
<1>2. TInv /\ CInv /\ [Next]_vars => CInv' BY ClaimsStay
<1>3. TInv /\ Current /\ MarkedOnce /\ [Next]_vars => Current' /\ MarkedOnce' BY CurrentStays
<1>4. TInv /\ CInv /\ MadeBound /\ [Next]_vars => MadeBound' BY MadeBoundStays
<1>5. TInv /\ CInv /\ MadeBound /\ Current /\ ClaimRight /\ [Next]_vars => ClaimRight'
  BY ClaimStays
<1>6. TInv /\ Current /\ ClaimRight => ClaimsAtRest
  <2> SUFFICES ASSUME TInv, Current, ClaimRight, AtRest, ClaimsOn, NEW s \in SDs, Due(s),
                      NEW n \in sd[s].want \ hist.dropped
               PROVE  claims[n] = "bound"
    BY DEF ClaimsAtRest
  <2>1. sdSeen[s] = sd[s] BY DEF AtRest, Current
  <2>2. sd[s] \in SdObj /\ n \in Claims BY DEF Due, Live, Wanting, SdObj, TInv
  <2> QED BY <2>1, <2>2 DEF AtRest, ClaimRight, Due, Live, Wants, Works
<1> QED
  BY <1>1, <1>2, <1>3, <1>4, <1>5, <1>6, InitTypes, InitClaims, InitCurrent, InitMade, PTL
  DEF Spec

\* What a marked reconcile leaves bound, once its list is worked off, it has missed; so has
\* the one that ended an SQBDeployment.
LeftBehind ==
    ClaimsOn =>
        /\ w.pc = "strays" => ~w.in.mark
        /\ \A n \in Claims : claims[n] = "bound" =>
             /\ w.pc \in {"drop", "route", "finish"} /\ w.in.mark =>
                  n \in hist.missed \/ (w.pc = "drop" /\ n \in w.todo)
             /\ \A s \in SDs \ hist.unmarked : sd[s] = Nil => n \in hist.missed

LEMMA InitLeft == Init => LeftBehind
  BY DEF Init, LeftBehind, Resting

LEMMA MissedStays == ASSUME TInv, [Next]_vars PROVE hist.missed \subseteq hist'.missed
<1>1. CASE \E s \in SDs, o \in SdObj \cup {Nil} : EditSd(s, o)
  <2>1. PICK s \in SDs, o \in SdObj \cup {Nil} : EditSd(s, o) BY <1>1
  <2> QED BY <2>1 DEF EditSd, TInv, Hist
<1>2. CASE Finish BY <1>2 DEF Finish, TInv, Hist
<1>3. CASE ClaimList \/ DropFails BY <1>3 DEF ClaimList, DropFails, TInv, Hist
<1>5. CASE Drop BY <1>5 DEF Drop, TInv, Hist
<1>6. CASE HandlerFails \/ Blocked BY <1>6, FailsStep DEF TInv, Hist
<1>7. CASE Begin BY <1>7, BeginStep DEF TInv, Hist
<1>8. CASE RouteLeftAlone BY <1>8 DEF RouteLeftAlone, TInv, Hist
<1>4. CASE hist'.missed = hist.missed BY <1>4
<1> QED
  BY <1>1, <1>2, <1>3, <1>4, <1>5, <1>6, <1>7, <1>8
  DEF Next, vars, EditSettings, EditApp, Vanish, DeliverSd, DeliverClaim, DeliverRoute, Work,
      Make, MakeDone, DropDone, RouteSkip, RoutePut, RouteDelete, Keep, TInv, Hist

\* A step of the worker on a marked copy makes no claim, and works off its list.
LEMMA MarkedWork ==
    ASSUME TInv, CInv, LeftBehind, ClaimsOn, Between, w.in.mark,
           w'.pc \in {"drop", "route", "finish"}, NEW n \in Claims, claims'[n] = "bound"
    PROVE  n \in hist'.missed \/ (w'.pc = "drop" /\ n \in w'.todo)
<1>0. w = [pc |-> w.pc, key |-> w.key, in |-> w.in, exists |-> w.exists, todo |-> w.todo]
      /\ "claims" \in settings
  BY DEF TInv, Worker, ClaimsOn
<1>1. hist.missed \subseteq hist'.missed BY MissedStays DEF Between, Next, Work
<1>2. CASE ClaimList
  <2>1. w' = [w EXCEPT !.pc = "drop", !.todo = claimsSeen] BY <1>0, <1>2 DEF ClaimList
  <2>2. w'.pc = "drop" /\ w'.todo = claimsSeen BY <1>0, <2>1
  <2>3. hist' = [hist EXCEPT !.missed = @ \cup Unlisted] /\ UNCHANGED claims
    BY <1>2, <2>2 DEF ClaimList, objects
  <2>4. n \in Unlisted \/ n \in claimsSeen BY <2>3 DEF Unlisted
  <2> QED BY <2>2, <2>3, <2>4 DEF TInv
<1>3. CASE Drop
  <2>1. PICK m \in w.todo :
           /\ \/ Remove(m)
              \/ UNCHANGED claims /\ hist' = [hist EXCEPT !.missed = @ \cup {m}]
           /\ w' = [w EXCEPT !.todo = @ \ {m}]
    BY <1>3 DEF Drop
  <2>2. w'.pc = w.pc /\ w'.todo = w.todo \ {m} BY <1>0, <2>1
  <2>3. claims[n] = "bound" /\ (n # m \/ n \in hist'.missed) BY <2>1 DEF Remove, TInv, Hist
  <2>4. w.pc = "drop" BY <1>3 DEF LeftBehind, Drop
  <2> QED BY <1>1, <2>2, <2>3, <2>4 DEF LeftBehind
<1>4. CASE DropFails
  <2>1. w' = [w EXCEPT !.pc = "route", !.todo = {}] /\ w.pc = "drop" /\ UNCHANGED claims
        /\ hist' = [hist EXCEPT !.missed = @ \cup w.todo]
    BY <1>4 DEF DropFails, objects
  <2> QED BY <2>1 DEF LeftBehind, TInv
<1>5. CASE DropDone
  <2>1. w.pc = "drop" /\ w.todo = {} /\ UNCHANGED claims
    BY <1>5 DEF DropDone, LeftBehind, Keep, objects
  <2> QED BY <1>1, <2>1 DEF LeftBehind
<1>6. CASE RouteSkip \/ RouteDelete
  <2>1. w.pc = "route" /\ UNCHANGED claims BY <1>6 DEF RouteSkip, RouteDelete, Keep, objects
  <2> QED BY <1>1, <2>1 DEF LeftBehind
<1>7. ~RoutePut /\ ~RouteLeftAlone /\ ~Make /\ ~MakeDone
  BY DEF RoutePut, RouteLeftAlone, Make, MakeDone, CInv, Lists
<1>8. ~HandlerFails /\ ~Blocked BY FailsStep DEF Resting
<1> QED BY <1>2, <1>3, <1>4, <1>5, <1>6, <1>7, <1>8 DEF Between

\* Of who is gone, no worker makes a claim.
LEMMA NoneMade ==
    ASSUME TInv, MarkedOnce, OneForTheLabels, [Next]_vars,
           NEW s \in SDs \ hist.unmarked, sd[s] = Nil,
           NEW n \in Claims, claims'[n] = "bound"
    PROVE  claims[n] = "bound"
<1>1. CASE Make
  <2>1. w.pc # "idle" /\ w.key \in SDs BY <1>1 DEF Make, TInv
  <2>2. w.key = s BY <2>1 DEF OneForTheLabels
  <2> QED BY <2>1, <2>2 DEF MarkedOnce, Works
<1>2. CASE Drop
  <2>1. PICK m \in w.todo : Remove(m) \/ UNCHANGED claims BY <1>2 DEF Drop
  <2> QED BY <2>1 DEF Remove, TInv
<1>3. CASE \E m \in Claims : Vanish(m) BY <1>3 DEF Vanish, TInv
<1>4. CASE UNCHANGED claims BY <1>4
<1> QED
  BY <1>1, <1>2, <1>3, <1>4
  DEF Next, vars, objects, EditSd, EditSettings, EditApp, UserStep, DeliverSd, DeliverClaim,
      DeliverRoute, HandlerFails, DropFails, Work, Begin, Blocked, ClaimList, MakeDone,
      DropDone, RouteSkip, RouteLeftAlone, RoutePut, RouteDelete, Finish, Keep

LEMMA LeftStays ==
    ASSUME TInv, CInv, MarkedOnce, OneForTheLabels, LeftBehind, [Next]_vars
    PROVE  LeftBehind'
<1> SUFFICES ASSUME ClaimsOn'
             PROVE  /\ w'.pc = "strays" => ~w'.in.mark
                    /\ \A n \in Claims : claims'[n] = "bound" =>
                         /\ w'.pc \in {"drop", "route", "finish"} /\ w'.in.mark =>
                              n \in hist'.missed \/ (w'.pc = "drop" /\ n \in w'.todo)
                         /\ \A s \in SDs \ hist'.unmarked : sd'[s] = Nil => n \in hist'.missed
  BY DEF LeftBehind
<1>0. ClaimsOn BY SwitchesStay DEF ClaimsOn
<1>1. hist.missed \subseteq hist'.missed BY MissedStays
<1>2. hist.unmarked \subseteq hist'.unmarked
  <2>1. CASE \E s \in SDs, o \in SdObj \cup {Nil} : EditSd(s, o)
    <3>1. PICK s \in SDs, o \in SdObj \cup {Nil} : EditSd(s, o) BY <2>1
    <3> QED BY <3>1 DEF EditSd, TInv, Hist
  <2>2. CASE Finish BY <2>2, FinishStep
  <2>3. CASE Between BY <2>3, BetweenStep
  <2>4. CASE hist'.unmarked = hist.unmarked BY <2>4
  <2>5. CASE Begin BY <2>5, BeginStep DEF TInv, Hist
  <2> QED
    BY <2>1, <2>2, <2>3, <2>4, <2>5
    DEF Next, vars, EditSettings, EditApp, Vanish, DeliverSd, DeliverClaim, DeliverRoute, Work,
        Between, TInv, Hist
<1>3. ASSUME w'.pc = "strays" PROVE ~w'.in.mark
  <2>1. CASE MakeDone
    <3>1. w'.in = w.in BY <2>1 DEF MakeDone, TInv, Worker
    <3> QED BY <2>1, <3>1 DEF MakeDone, CInv, Lists
  <2>2. CASE Drop
    <3>1. PICK m \in w.todo : w' = [w EXCEPT !.todo = @ \ {m}] BY <2>2 DEF Drop
    <3>2. w'.in = w.in /\ w'.pc = w.pc BY <3>1 DEF TInv, Worker
    <3> QED BY <1>0, <1>3, <3>2 DEF LeftBehind
  <2>3. CASE UNCHANGED w BY <1>0, <1>3, <2>3 DEF LeftBehind
  <2>4. CASE Make
    <3>1. PICK n \in w.todo : MakeOne(n) BY <2>4 DEF Make
    <3>2. w = [pc |-> w.pc, key |-> w.key, in |-> w.in, exists |-> w.exists, todo |-> w.todo]
      BY DEF TInv, Worker
    <3>3. Fail \/ w'.pc = w.pc BY <3>1, <3>2 DEF MakeOne
    <3> QED BY <1>3, <2>4, <3>3 DEF Make, Fail, Resting
  <2>5. CASE ClaimList
    <3>1. w' = [w EXCEPT !.pc = "route"]
          \/ w' = [w EXCEPT !.pc = "drop", !.todo = claimsSeen]
          \/ w' = [w EXCEPT !.pc = "make", !.todo = w.in.want, !.exists = claimsSeen]
      BY <2>5 DEF ClaimList
    <3>2. w = [pc |-> w.pc, key |-> w.key, in |-> w.in, exists |-> w.exists, todo |-> w.todo]
      BY DEF TInv, Worker
    <3>3. w'.pc # "strays" BY <3>1, <3>2
    <3> QED BY <1>3, <3>3
  <2>6. CASE Begin BY <1>3, <2>6, BeginStep
  <2>7. CASE Finish BY <1>3, <2>7, FinishStep
  <2>8. CASE DropFails \/ DropDone \/ RouteSkip \/ RouteLeftAlone \/ RouteDelete
    BY <1>3, <2>8 DEF DropFails, DropDone, RouteSkip, RouteLeftAlone, RouteDelete, TInv, Worker
  <2>9. CASE HandlerFails \/ Blocked BY <1>3, <2>9, FailsStep DEF Resting
  <2>10. CASE RoutePut
    <3>1. Fail \/ w' = [w EXCEPT !.pc = "finish"] BY <2>10 DEF RoutePut
    <3> QED BY <1>3, <3>1 DEF Fail, Resting, TInv, Worker
  <2> QED
    BY <2>1, <2>2, <2>3, <2>4, <2>5, <2>6, <2>7, <2>8, <2>9, <2>10
    DEF Next, vars, EditSd, EditSettings, EditApp, UserStep, Vanish, DeliverSd, DeliverClaim,
        DeliverRoute, Work
<1>4. ASSUME NEW n \in Claims, claims'[n] = "bound", w'.pc \in {"drop", "route", "finish"},
             w'.in.mark
      PROVE  n \in hist'.missed \/ (w'.pc = "drop" /\ n \in w'.todo)
  <2>1. CASE Between
    <3>1. w'.in = w.in BY <1>4, <2>1, BetweenStep
    <3> QED BY <1>0, <1>4, <2>1, <3>1, MarkedWork
  <2>2. ~Begin /\ ~Finish BY <1>4, BeginStep, FinishStep
  <2>3. CASE UNCHANGED w
    <3>1. claims[n] = "bound" \/ Make \/ Drop
      BY <1>4, <2>2, <2>3
      DEF Next, vars, objects, EditSd, EditSettings, EditApp, UserStep, Vanish, DeliverSd,
          DeliverClaim, DeliverRoute, HandlerFails, DropFails, Work, Blocked, ClaimList,
          MakeDone, DropDone, RouteSkip, RouteLeftAlone, RoutePut, RouteDelete, Keep, TInv
    <3> QED BY <1>0, <1>1, <1>4, <2>1, <2>3, <3>1 DEF LeftBehind, Between
  <2> QED
    BY <2>1, <2>2, <2>3
    DEF Next, vars, EditSd, EditSettings, EditApp, UserStep, Vanish, DeliverSd, DeliverClaim,
        DeliverRoute, Work, Between
<1>5. ASSUME NEW n \in Claims, claims'[n] = "bound", NEW s \in SDs \ hist'.unmarked, sd'[s] = Nil
      PROVE  n \in hist'.missed
  <2>1. CASE sd[s] = Nil BY <1>0, <1>1, <1>2, <1>5, <2>1, NoneMade DEF LeftBehind
  <2>2. CASE sd[s] # Nil
    <3>1. CASE \E t \in SDs, o \in SdObj \cup {Nil} : EditSd(t, o)
      <4>1. PICK t \in SDs, o \in SdObj \cup {Nil} : EditSd(t, o) BY <3>1
      <4>2. s = t /\ o = Nil BY <1>5, <2>2, <4>1 DEF EditSd, TInv, Hist
      <4> QED BY <1>5, <2>2, <4>1, <4>2 DEF EditSd, TInv, Hist
    <3>2. CASE Finish
      <4>1. w.in.mark /\ UNCHANGED claims /\ w.pc = "finish"
        BY <1>5, <2>2, <3>2, FinishStep DEF objects
      <4> QED BY <1>0, <1>1, <1>5, <4>1 DEF LeftBehind
    <3>3. CASE UNCHANGED sd BY <1>5, <2>2, <3>3
    <3> QED
      BY <3>1, <3>2, <3>3, BetweenStep, BeginStep
      DEF Next, vars, EditSettings, EditApp, Vanish, DeliverSd, DeliverClaim, DeliverRoute,
          Work, Between
  <2> QED BY <2>1, <2>2
<1> QED BY <1>3, <1>4, <1>5

\* For any number of claims, failures and user actions, and however late the caches: the
\* clean-up is done before the SQBDeployment goes, and nothing is made for it afterwards; what
\* it leaves is what the list lacked, a failed deletion cut off, or KubeVela's label kept.
THEOREM ClaimsGoBefore == ASSUME OneForTheLabels PROVE Spec => []ClaimsGo
<1>1. TInv /\ [Next]_vars => TInv' BY TypesStay
<1>2. TInv /\ CInv /\ [Next]_vars => CInv' BY ClaimsStay
<1>3. TInv /\ Current /\ MarkedOnce /\ [Next]_vars => Current' /\ MarkedOnce' BY CurrentStays
<1>4. TInv /\ CInv /\ MarkedOnce /\ LeftBehind /\ [Next]_vars => LeftBehind' BY LeftStays
<1>5. LeftBehind => ClaimsGo BY DEF LeftBehind, ClaimsOn, ClaimsGo
<1> QED BY <1>1, <1>2, <1>3, <1>4, <1>5, InitTypes, InitClaims, InitCurrent, InitLeft, PTL DEF Spec

=============================================================================
