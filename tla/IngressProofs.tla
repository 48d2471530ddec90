---------------------------- MODULE IngressProofs ----------------------------
(***************************************************************************)
(* The clean-up of an application never cuts a standing public entry, for  *)
(* any number of domains, SQBDeployments and classes, and whatever the     *)
(* ages of the caches.                                                     *)
(*                                                                         *)
(* The argument: an ingress of an entry only comes from a copy of its      *)
(* SQBDeployment that the cache held before; while the entry stands, the   *)
(* cache cannot forget it again.  So whoever finds the ingress in a list   *)
(* finds the entry in every later list of SQBDeployments, and the worker   *)
(* of the SQBDeployments does not hold an older copy.                      *)
(***************************************************************************)
EXTENDS IngressSync, TLAPS

Entry(s, c) == <<"entry", <<s, c>>>>

\* A worker that is not idle holds a copy.
Holding ==
    /\ appW.pc # "idle" => appW.in \in AppObj
    /\ sdW.pc # "idle" => sdW.key \in SDs /\ sdW.in \in SdObj

\* Without an event under way the cache holds the server's copy.
Fresh == \A s \in SDs \ late : sdSeen[s] = sd[s]

TInv == TypeOK /\ Holding /\ Fresh

\* The entry (s, c) stands, or its SQBDeployment was withdrawn at some time; and the
\* same as the cache has it.
Stands(s, c) == s \in hist.withdrawn \/ (Public(sd[s]) /\ sd[s].class = c)
Known(s, c) == s \in hist.withdrawn \/ (Public(sdSeen[s]) /\ sdSeen[s].class = c)

\* What the cache has open was opened.
SeenStands == \A s \in SDs : Public(sdSeen[s]) => Stands(s, sdSeen[s].class)

\* Who has an ingress, or is about to, is known to the cache.
MadeKnown ==
    \A s \in SDs, c \in Classes :
        Entry(s, c) \in ing \cup seen \cup appW.todo => Known(s, c)
MakingKnown == sdW.pc # "idle" /\ Public(sdW.in) => Known(sdW.key, sdW.in.class)

\* The application's worker writes domains only, and unless all shall go it deletes
\* no known entry.
WritesDomains ==
    appW.pc = "ingress" => \A s \in SDs, c \in Classes : Entry(s, c) \notin appW.todo
SparesKnown ==
    appW.pc = "delete" /\ ~Closed(appW.in)
        => \A s \in SDs, c \in Classes : Entry(s, c) \in appW.todo => s \in hist.withdrawn

\* An SQBDeployment's worker that finds its entry closed has not an old copy in hand.
ClosedIsNew ==
    sdW.pc = "ingress" /\ ~Public(sdW.in)
        => \A c \in Classes : Entry(sdW.key, c) \in ing => sdW.key \in hist.withdrawn

KInv ==
    /\ SeenStands /\ MadeKnown /\ MakingKnown
    /\ WritesDomains /\ SparesKnown /\ ClosedIsNew

-----------------------------------------------------------------------------
(* Names *)

\* Names of domains and entries are told apart, and those of entries by SQBDeployment
\* and class (getIngressName).
LEMMA NameFacts ==
    /\ \A d \in Domains : DomainName(d) \in Names
    /\ \A s \in SDs, c \in Classes : Entry(s, c) \in Names
    /\ \A s, o : EntryName(s, o) = Entry(s, o.class)
    /\ \A s, c, t, e : Entry(s, c) = Entry(t, e) => s = t /\ c = e
    /\ \A d, s, c : DomainName(d) # Entry(s, c)
BY DEF DomainName, EntryName, Entry, Names

\* Only "no object" is no object.
LEMMA NilFacts == Nil \notin AppObj /\ Nil \notin SdObj
BY NilAssumption

\* The name of a copy's entry is a name.
LEMMA EntryNamed == ASSUME NEW s \in SDs, NEW o \in SdObj PROVE EntryName(s, o) \in Names
<1>1. o.class \in Classes
  BY DEF SdObj
<1>. QED
  BY <1>1, NameFacts

-----------------------------------------------------------------------------
(* Types *)

Hist == [withdrawn : SUBSET SDs, closed : BOOLEAN, lost : SUBSET ({"app"} \cup SDs)]

\* Taking up a key and giving it up touch the lost keys alone.
LEMMA LostOnly ==
    ASSUME TypeOK, NEW k \in {"app"} \cup SDs, Take(k) \/ GiveUp(k)
    PROVE  /\ hist' \in Hist /\ hist'.withdrawn = hist.withdrawn /\ hist'.closed = hist.closed
           /\ queue' \subseteq {"app"} \cup SDs
           /\ Take(k) => hist'.lost = hist.lost \ {k}
           /\ GiveUp(k) => hist'.lost = hist.lost \cup {k}
BY DEF Take, GiveUp, TypeOK, Hist

\* Types at the start.
LEMMA InitTInv == Init => TInv
<1>. SUFFICES ASSUME Init PROVE TInv
  OBVIOUS
<1>. USE DEF Init
<1>1. appW \in [pc : {"idle", "ingress", "sds", "delete"}, in : AppObj \cup {Nil},
                todo : SUBSET Names] /\ appW.pc = "idle"
  BY DEF Resting
<1>2. sdW \in [pc : {"idle", "ingress", "finish"}, key : SDs \cup {Nil},
               in : SdObj \cup {Nil}] /\ sdW.pc = "idle"
  BY DEF SdResting
<1>3. hist \in Hist
  <2>1. (app # Nil /\ Closed(app)) \in BOOLEAN
    BY DEF Closed
  <2>. QED
    BY <2>1 DEF Hist
<1>4. app \in AppObj \cup {Nil} /\ sd \in [SDs -> SdObj \cup {Nil}]
  OBVIOUS
<1>5. TypeOK
  BY <1>1, <1>2, <1>3, <1>4 DEF TypeOK, Hist
<1>6. Holding /\ Fresh
  BY <1>1, <1>2 DEF Holding, Fresh
<1>. QED
  BY <1>5, <1>6 DEF TInv

\* Users keep types.
LEMMA EditTInv ==
    ASSUME TInv, \/ \E a \in AppObj \cup {Nil} : EditApp(a)
                 \/ \E s \in SDs, o \in SdObj \cup {Nil} : EditSd(s, o)
    PROVE  TInv'
<1>. USE DEF TInv, UserStep, Counted, caches, Hist
<1>1. ASSUME NEW a \in AppObj \cup {Nil}, EditApp(a) PROVE TInv'
  <2>1. hist' \in Hist
    <3>1. (hist.closed \/ Closed(a)) \in BOOLEAN
      OBVIOUS
    <3>. QED
      BY <1>1, <3>1 DEF EditApp, TypeOK
  <2>2. TypeOK'
    BY <1>1, <2>1, BoundAssumption DEF EditApp, TypeOK
  <2>3. Holding' /\ Fresh'
    BY <1>1 DEF EditApp, Holding, Fresh, TypeOK
  <2>. QED
    BY <2>2, <2>3
<1>2. ASSUME NEW s \in SDs, NEW o \in SdObj \cup {Nil}, EditSd(s, o) PROVE TInv'
  <2>1. hist' \in Hist
    BY <1>2 DEF EditSd, TypeOK
  <2>2. sd' \in [SDs -> SdObj \cup {Nil}]
    BY <1>2 DEF EditSd, TypeOK
  <2>3. TypeOK'
    BY <1>2, <2>1, <2>2, BoundAssumption DEF EditSd, TypeOK
  <2>4. Holding' /\ Fresh'
    BY <1>2 DEF EditSd, Holding, Fresh, TypeOK
  <2>. QED
    BY <2>3, <2>4
<1>. QED
  BY <1>1, <1>2

\* Events keep types.
LEMMA EventTInv ==
    ASSUME TInv, \/ \E x \in {"app"} \cup SDs : Deliver(x)
                 \/ \E n \in Names : DeliverIngress(n)
                 \/ Resync
    PROVE  TInv'
<1>. USE DEF TInv, caches, crs
<1>1. ASSUME NEW x \in {"app"} \cup SDs, Deliver(x) PROVE TInv'
  <2>1. sdSeen' \in [SDs -> SdObj \cup {Nil}]
    BY <1>1 DEF Deliver, TypeOK
  <2>2. TypeOK'
    BY <1>1, <2>1 DEF Deliver, TypeOK
  <2>3. Holding' /\ Fresh'
    BY <1>1 DEF Deliver, Holding, Fresh, TypeOK
  <2>. QED
    BY <2>2, <2>3
<1>2. ASSUME NEW n \in Names, DeliverIngress(n) PROVE TInv'
  <2>1. TypeOK'
    BY <1>2 DEF DeliverIngress, TypeOK
  <2>2. Holding' /\ Fresh'
    BY <1>2 DEF DeliverIngress, Holding, Fresh
  <2>. QED
    BY <2>1, <2>2
<1>3. CASE Resync
  <2>1. TypeOK'
    BY <1>3 DEF Resync, TypeOK
  <2>2. Holding' /\ Fresh'
    BY <1>3 DEF Resync, Holding, Fresh
  <2>. QED
    BY <2>1, <2>2
<1>. QED
  BY <1>1, <1>2, <1>3

\* The part of TypeOK about ingresses.
IngTyped ==
    /\ ing \subseteq Names /\ lateIng \subseteq Names
    /\ \A n \in Names \ lateIng : n \in seen <=> n \in ing

\* A write of an ingress keeps it.
LEMMA WriteTyped ==
    ASSUME TypeOK, UNCHANGED seen,
           Stay \/ (\E n \in Names : Put(n) \/ Remove(n))
    PROVE  IngTyped'
BY DEF TypeOK, Stay, Put, Remove, LeftAlone, IngTyped

\* The application's worker marks the SQBDeployments in known.
Marks(known) ==
    /\ known \cap late = {}
    /\ sd' = [s \in SDs |-> IF s \in known THEN [sd[s] EXCEPT !.mark = TRUE] ELSE sd[s]]
    /\ late' \in {late \cup {s \in known : ~sd[s].mark},
                  late \cup {"app"} \cup {s \in known : ~sd[s].mark}}
    /\ app' = app \/ (app' = Nil /\ "app" \in late')
    /\ hist' = [hist EXCEPT !.withdrawn = @ \cup known]
    /\ UNCHANGED queue

\* What the last step of the application's worker does to the custom resources.
LEMMA FinishMarks ==
    ASSUME AppFinish
    PROVE  \/ UNCHANGED <<crs, hist>>
           \/ \E known \in SUBSET {s \in SDs : sdSeen[s] # Nil} : Marks(known)
<1>1. CASE UNCHANGED <<crs, hist>>
  BY <1>1
<1>2. CASE ~UNCHANGED <<crs, hist>>
  <2>1. PICK known \in SUBSET {s \in SDs : sdSeen[s] # Nil} :
          /\ known \cap late = {}
          /\ sd' = [s \in SDs |-> IF s \in known THEN [sd[s] EXCEPT !.mark = TRUE] ELSE sd[s]]
          /\ \/ app' = Nil /\ late' = late \cup {"app"} \cup {s \in known : ~sd[s].mark}
             \/ app' = app /\ late' = late \cup {s \in known : ~sd[s].mark}
          /\ hist' = [hist EXCEPT !.withdrawn = @ \cup known]
          /\ UNCHANGED queue
    BY <1>2 DEF AppFinish
  <2>. QED
    BY <2>1 DEF Marks
<1>. QED
  BY <1>1, <1>2

\* The application's worker keeps types.
LEMMA AppTInv == ASSUME TInv, AppWork PROVE TInv'
<1>. USE NilFacts DEF TInv, AppFrame, caches, crs
<1>1. CASE AppBegin
  <2>1. IngTyped'
    BY <1>1, WriteTyped DEF AppBegin
  <2>2. appSeen # Nil => {DomainName(d) : d \in appSeen.domains} \subseteq Names
    <3>. SUFFICES ASSUME appSeen # Nil, NEW d \in appSeen.domains
                  PROVE  DomainName(d) \in Names
      OBVIOUS
    <3>1. appSeen \in AppObj
      BY DEF TypeOK
    <3>2. d \in Domains
      BY <3>1 DEF AppObj
    <3>. QED
      BY <3>2, NameFacts
  <2>3. appW' \in [pc : {"idle", "ingress", "sds", "delete"}, in : AppObj \cup {Nil},
                   todo : SUBSET Names]
    <3>1. CASE appSeen = Nil
      BY <1>1, <3>1 DEF AppBegin, Resting
    <3>2. CASE appSeen # Nil /\ Closed(appSeen)
      BY <1>1, <3>2 DEF AppBegin, TypeOK
    <3>3. CASE appSeen # Nil /\ ~Closed(appSeen)
      BY <1>1, <2>2, <3>3 DEF AppBegin, TypeOK
    <3>. QED
      BY <3>1, <3>2, <3>3
  <2>4. TypeOK'
    BY <1>1, <2>1, <2>3, LostOnly DEF AppBegin, TypeOK, IngTyped, Hist
  <2>5. Holding' /\ Fresh'
    BY <1>1 DEF AppBegin, Holding, Fresh, Resting, TypeOK
  <2>. QED
    BY <2>4, <2>5
<1>2. CASE AppPut
  <2>. PICK n \in appW.todo :
         \/ Put(n) /\ appW' = [appW EXCEPT !.todo = @ \ {n}] /\ UNCHANGED queue
         \/ PutFails(n) /\ AppFails
    BY <1>2 DEF AppPut
  <2>1. n \in Names
    BY DEF TypeOK
  <2>2. IngTyped'
    BY <1>2, <2>1, WriteTyped DEF AppPut, AppFails
  <2>3. appW' \in [pc : {"idle", "ingress", "sds", "delete"}, in : AppObj \cup {Nil},
                   todo : SUBSET Names]
    BY DEF AppFails, Resting, TypeOK
  <2>4. queue' \subseteq {"app"} \cup SDs
    BY DEF AppFails, Fail, TypeOK
  <2>5. TypeOK'
    BY <1>2, <2>2, <2>3, <2>4 DEF AppPut, TypeOK, IngTyped
  <2>6. Holding' /\ Fresh'
    BY <1>2 DEF AppPut, AppFails, Holding, Fresh, Resting, TypeOK
  <2>. QED
    BY <2>5, <2>6
<1>3. CASE AppList
  <2>1. IngTyped'
    BY <1>3, WriteTyped DEF AppList
  <2>2. TypeOK'
    BY <1>3, <2>1 DEF AppList, TypeOK, IngTyped
  <2>3. Holding' /\ Fresh'
    BY <1>3 DEF AppList, Holding, Fresh, TypeOK
  <2>. QED
    BY <2>2, <2>3
<1>4. CASE AppKeep
  <2>1. IngTyped'
    BY <1>4, WriteTyped DEF AppKeep
  <2>2. TypeOK'
    BY <1>4, <2>1 DEF AppKeep, TypeOK, IngTyped
  <2>3. Holding' /\ Fresh'
    BY <1>4 DEF AppKeep, Holding, Fresh, TypeOK
  <2>. QED
    BY <2>2, <2>3
<1>5. CASE AppDelete
  <2>. PICK n \in appW.todo : Remove(n) /\ appW' = [appW EXCEPT !.todo = @ \ {n}]
    BY <1>5 DEF AppDelete
  <2>1. n \in Names
    BY DEF TypeOK
  <2>2. IngTyped'
    BY <1>5, <2>1, WriteTyped DEF AppDelete
  <2>3. TypeOK'
    BY <1>5, <2>2 DEF AppDelete, TypeOK, IngTyped
  <2>4. Holding' /\ Fresh'
    BY <1>5 DEF AppDelete, Holding, Fresh, TypeOK
  <2>. QED
    BY <2>3, <2>4
<1>6. CASE AppFinish
  <2>1. IngTyped'
    BY <1>6, WriteTyped DEF AppFinish, Stay, AppFails
  <2>2. appW' = Resting
    BY <1>6 DEF AppFinish, AppFails
  <2>3. CASE UNCHANGED <<crs, hist>>
    <3>1. queue' \subseteq {"app"} \cup SDs
      BY <1>6 DEF AppFinish, AppFails, Fail, TypeOK
    <3>2. TypeOK'
      BY <1>6, <2>1, <2>2, <2>3, <3>1 DEF AppFinish, TypeOK, IngTyped, Resting
    <3>3. Holding' /\ Fresh'
      BY <1>6, <2>2, <2>3 DEF AppFinish, Holding, Fresh, Resting
    <3>. QED
      BY <3>2, <3>3
  <2>4. ASSUME NEW known \in SUBSET {s \in SDs : sdSeen[s] # Nil}, Marks(known) PROVE TInv'
    <3>1. \A s \in known : sd[s] \in SdObj /\ sd[s] = sdSeen[s]
      BY <2>4 DEF Fresh, TypeOK, Marks
    <3>2. \A s \in known : [sd[s] EXCEPT !.mark = TRUE] \in SdObj
      BY <3>1 DEF SdObj
    <3>3. sd' \in [SDs -> SdObj \cup {Nil}]
      BY <2>4, <3>2 DEF TypeOK, Marks
    <3>4. hist' \in Hist
      BY <2>4 DEF TypeOK, Marks, Hist
    <3>5. TypeOK'
      <4>1. app' \in AppObj \cup {Nil} /\ late' \subseteq {"app"} \cup SDs
        BY <2>4 DEF TypeOK, Marks
      <4>. QED
        BY <1>6, <2>1, <2>2, <2>4, <3>3, <3>4, <4>1 DEF AppFinish, TypeOK, IngTyped, Resting, Marks, Hist
    <3>6. \A s \in known : sd[s].mark => [sd[s] EXCEPT !.mark = TRUE] = sd[s]
      BY <3>1 DEF SdObj
    <3>7. Fresh'
      <4>. SUFFICES ASSUME NEW s \in SDs \ late' PROVE sdSeen'[s] = sd'[s]
        BY DEF Fresh
      <4>1. s \notin late /\ sdSeen'[s] = sd[s]
        BY <1>6, <2>4 DEF AppFinish, Fresh, Marks
      <4>2. CASE s \in known
        <5>1. sd[s].mark
          BY <2>4, <4>2 DEF Marks
        <5>. QED
          BY <2>4, <3>6, <4>1, <4>2, <5>1 DEF Marks
      <4>3. CASE s \notin known
        BY <2>4, <4>1, <4>3 DEF Marks
      <4>. QED
        BY <4>2, <4>3
    <3>8. Holding'
      BY <1>6, <2>2 DEF AppFinish, Holding, Resting
    <3>. QED
      BY <3>5, <3>7, <3>8
  <2>. QED
    BY <1>6, <2>3, <2>4, FinishMarks
<1>. QED
  BY <1>1, <1>2, <1>3, <1>4, <1>5, <1>6 DEF AppWork

\* The SQBDeployments' worker keeps types.
LEMMA SdTInv == ASSUME TInv, SdWork PROVE TInv'
<1>. USE NilFacts DEF TInv, SdFrame, caches
<1>. DEFINE SdWTyped == sdW \in [pc : {"idle", "ingress", "finish"}, key : SDs \cup {Nil},
                                 in : SdObj \cup {Nil}]
<1>1. SdResting \in [pc : {"idle", "ingress", "finish"}, key : SDs \cup {Nil},
                     in : SdObj \cup {Nil}]
  BY DEF SdResting
<1>2. CASE SdBegin
  <2>. PICK s \in SDs \cap queue :
         /\ Take(s)
         /\ sdW' = IF sdSeen[s] = Nil THEN SdResting
                   ELSE [pc |-> "ingress", key |-> s, in |-> sdSeen[s]]
    BY <1>2 DEF SdBegin
  <2>1. SdWTyped' /\ (sdW'.pc # "idle" => sdW'.key \in SDs /\ sdW'.in \in SdObj)
    BY <1>1 DEF TypeOK, SdResting
  <2>2. IngTyped'
    BY <1>2, WriteTyped DEF SdBegin
  <2>3. TypeOK'
    BY <1>2, <2>1, <2>2, LostOnly DEF SdBegin, TypeOK, IngTyped, Hist
  <2>4. Holding' /\ Fresh'
    BY <1>2, <2>1 DEF SdBegin, Holding, Fresh
  <2>. QED
    BY <2>3, <2>4
<1>3. CASE SdBlocked
  <2>1. IngTyped'
    BY <1>3, WriteTyped DEF SdBlocked
  <2>2. queue' \subseteq {"app"} \cup SDs
    BY <1>3 DEF SdBlocked, Fail, Holding, TypeOK
  <2>3. TypeOK'
    BY <1>1, <1>3, <2>1, <2>2 DEF SdBlocked, TypeOK, IngTyped
  <2>4. Holding' /\ Fresh'
    BY <1>3 DEF SdBlocked, Holding, Fresh, SdResting
  <2>. QED
    BY <2>3, <2>4
<1>4. CASE SdPut
  <2>1. sdW.key \in SDs /\ sdW.in \in SdObj
    BY <1>4 DEF SdPut, Holding
  <2>2. EntryName(sdW.key, sdW.in) \in Names
    BY <2>1, EntryNamed
  <2>3. IngTyped'
    BY <1>4, <2>2, WriteTyped DEF SdPut
  <2>4. sdW' = SdResting \/ sdW' = [sdW EXCEPT !.pc = "finish"]
    BY <1>4 DEF SdPut, SdNext
  <2>5. SdWTyped' /\ (sdW'.pc # "idle" => sdW'.key \in SDs /\ sdW'.in \in SdObj)
    BY <1>1, <2>1, <2>4 DEF TypeOK, SdResting
  <2>6. queue' \subseteq {"app"} \cup SDs
    BY <1>4, <2>1 DEF SdPut, Fail, TypeOK
  <2>7. TypeOK'
    BY <1>4, <2>3, <2>5, <2>6 DEF SdPut, TypeOK, IngTyped
  <2>8. Holding' /\ Fresh'
    BY <1>4, <2>5 DEF SdPut, Holding, Fresh
  <2>. QED
    BY <2>7, <2>8
<1>5. CASE SdDelete
  <2>1. sdW.key \in SDs /\ sdW.in \in SdObj
    BY <1>5 DEF SdDelete, Holding
  <2>2. EntryName(sdW.key, sdW.in) \in Names
    BY <2>1, EntryNamed
  <2>3. IngTyped'
    BY <1>5, <2>2, WriteTyped DEF SdDelete
  <2>4. sdW' = SdResting \/ sdW' = [sdW EXCEPT !.pc = "finish"]
    BY <1>5 DEF SdDelete, SdNext
  <2>5. SdWTyped' /\ (sdW'.pc # "idle" => sdW'.key \in SDs /\ sdW'.in \in SdObj)
    BY <1>1, <2>1, <2>4 DEF TypeOK, SdResting
  <2>6. TypeOK'
    BY <1>5, <2>3, <2>5 DEF SdDelete, TypeOK, IngTyped
  <2>7. Holding' /\ Fresh'
    BY <1>5, <2>5 DEF SdDelete, Holding, Fresh
  <2>. QED
    BY <2>6, <2>7
<1>6. CASE SdFinish
  <2>1. sdW.key \in SDs
    BY <1>6 DEF SdFinish, Holding
  <2>2. sd' \in [SDs -> SdObj \cup {Nil}]
    BY <1>6 DEF SdFinish, TypeOK
  <2>3. hist' \in Hist
    BY <1>6, <2>1 DEF SdFinish, TypeOK, Hist
  <2>4. TypeOK'
    BY <1>1, <1>6, <2>1, <2>2, <2>3 DEF SdFinish, TypeOK, Hist
  <2>5. Holding' /\ Fresh'
    BY <1>6 DEF SdFinish, Holding, Fresh, SdResting, TypeOK
  <2>. QED
    BY <2>4, <2>5
<1>. QED
  BY <1>2, <1>3, <1>4, <1>5, <1>6 DEF SdWork

\* What a refused call leaves: an idle worker, and a key that waits or is lost.
Gave(k) ==
    /\ k \in {"app"} \cup SDs
    /\ hist' \in Hist /\ hist'.withdrawn = hist.withdrawn /\ hist'.closed = hist.closed
    /\ queue \subseteq queue' /\ queue' \subseteq {"app"} \cup SDs
    /\ hist'.lost \subseteq hist.lost \cup {k} /\ hist.lost \subseteq hist'.lost
    /\ k \in queue' \cup hist'.lost
    /\ UNCHANGED <<crs, caches, ing, lateIng>>

LEMMA RefusedGave ==
    ASSUME TInv
    PROVE  /\ AppRefused => Gave("app") /\ appW' = Resting /\ UNCHANGED sdW
           /\ SdRefused => /\ Gave(sdW.key) /\ sdW' = SdResting /\ UNCHANGED appW
                           /\ sdW.key \in SDs
<1>. USE DEF TInv
<1>1. ASSUME NEW k \in {"app"} \cup SDs, Refused(k), UNCHANGED <<crs, caches>> PROVE Gave(k)
  <2>1. CASE Fail(k) /\ UNCHANGED hist
    BY <1>1, <2>1 DEF Refused, Fail, Gave, Stay, TypeOK, Hist
  <2>2. CASE GiveUp(k)
    BY <1>1, <2>2, LostOnly DEF Refused, GiveUp, Gave, Stay
  <2>. QED
    BY <1>1, <2>1, <2>2 DEF Refused
<1>2. SdRefused => sdW.key \in SDs
  BY DEF SdRefused, Holding
<1>. QED
  BY <1>1, <1>2 DEF AppRefused, SdRefused

\* A refused call keeps types.
LEMMA RefusedTInv == ASSUME TInv, AppRefused \/ SdRefused PROVE TInv'
<1>. PICK k : Gave(k)
  BY RefusedGave
<1>1. ops' \in Nat
  BY BoundAssumption DEF AppRefused, SdRefused, Refused, Counted, TInv, TypeOK
<1>2. /\ appW' \in [pc : {"idle", "ingress", "sds", "delete"}, in : AppObj \cup {Nil},
                     todo : SUBSET Names]
      /\ sdW' \in [pc : {"idle", "ingress", "finish"}, key : SDs \cup {Nil}, in : SdObj \cup {Nil}]
  BY RefusedGave DEF Resting, SdResting, TInv, TypeOK
<1>3. TypeOK'
  BY <1>1, <1>2 DEF Gave, crs, caches, TInv, TypeOK, Hist
<1>4. Holding' /\ Fresh'
  BY RefusedGave DEF Gave, crs, caches, TInv, Holding, Fresh, Resting, SdResting
<1>. QED
  BY <1>3, <1>4 DEF TInv

\* TInv is inductive.
LEMMA NextTInv == ASSUME TInv, [Next]_vars PROVE TInv'
<1>1. CASE UNCHANGED vars
  BY <1>1 DEF vars, TInv, TypeOK, Holding, Fresh
<1>. QED
  BY <1>1, EditTInv, EventTInv, AppTInv, SdTInv, RefusedTInv DEF Next

-----------------------------------------------------------------------------
(* What the cache knows *)

\* The names to keep hold every entry the cache has open.
LEMMA KeptIfSeen ==
    ASSUME TInv, NEW s \in SDs, Public(sdSeen[s])
    PROVE  Entry(s, sdSeen[s].class) \in Keep(appW.in, sdSeen)
BY NameFacts DEF Keep, Entries, Public

\* At the start there are no ingresses and idle workers.
LEMMA InitKInv == Init => KInv
<1>. SUFFICES ASSUME Init PROVE KInv
  OBVIOUS
<1>. USE DEF Init, Resting, SdResting
<1>1. SeenStands
  BY DEF SeenStands, Stands
<1>2. MadeKnown /\ MakingKnown /\ WritesDomains /\ SparesKnown /\ ClosedIsNew
  BY DEF MadeKnown, MakingKnown, WritesDomains, SparesKnown, ClosedIsNew
<1>. QED
  BY <1>1, <1>2 DEF KInv

\* Users change no cache; an entry that closes is remembered.
LEMMA EditKInv ==
    ASSUME TInv, KInv, \/ \E a \in AppObj \cup {Nil} : EditApp(a)
                       \/ \E s \in SDs, o \in SdObj \cup {Nil} : EditSd(s, o)
    PROVE  KInv'
<1>1. /\ UNCHANGED <<appSeen, sdSeen, seen, ing, appW, sdW>>
      /\ hist.withdrawn \subseteq hist'.withdrawn
  BY DEF EditApp, EditSd, UserStep, caches, TInv, TypeOK
<1>2. SeenStands'
  <2>1. CASE \E a \in AppObj \cup {Nil} : EditApp(a)
    BY <1>1, <2>1 DEF EditApp, KInv, SeenStands, Stands, Public
  <2>2. CASE \E s \in SDs, o \in SdObj \cup {Nil} : EditSd(s, o)
    <3>. PICK s \in SDs, o \in SdObj \cup {Nil} : EditSd(s, o)
      BY <2>2
    <3>. SUFFICES ASSUME NEW t \in SDs, Public(sdSeen[t]) PROVE Stands(t, sdSeen[t].class)'
      BY <1>1 DEF SeenStands, Public
    <3>1. Stands(t, sdSeen[t].class)
      BY DEF KInv, SeenStands
    <3>2. CASE t = s /\ Public(sd[s]) /\ ~(Public(o) /\ o.class = sd[s].class)
      BY <3>2 DEF EditSd, Stands, TInv, TypeOK
    <3>3. CASE ~(t = s /\ Public(sd[s]) /\ ~(Public(o) /\ o.class = sd[s].class))
      BY <1>1, <3>1, <3>3 DEF EditSd, Stands, Public, TInv, TypeOK
    <3>. QED
      BY <3>2, <3>3
  <2>. QED
    BY <2>1, <2>2
<1>3. MadeKnown' /\ MakingKnown'
  BY <1>1 DEF KInv, MadeKnown, MakingKnown, Known, Public
<1>4. WritesDomains' /\ SparesKnown' /\ ClosedIsNew'
  BY <1>1 DEF KInv, WritesDomains, SparesKnown, ClosedIsNew, Public, Closed
<1>. QED
  BY <1>2, <1>3, <1>4 DEF KInv

\* The cache forgets no entry that stands.
LEMMA EventKInv ==
    ASSUME TInv, KInv, \/ \E x \in {"app"} \cup SDs : Deliver(x)
                       \/ \E n \in Names : DeliverIngress(n)
                       \/ Resync
    PROVE  KInv'
<1>1. UNCHANGED <<sd, ing, appW, sdW, hist>>
  BY DEF Deliver, DeliverIngress, Resync, crs
<1>2. \A t \in SDs : sdSeen'[t] = sdSeen[t] \/ sdSeen'[t] = sd[t]
  BY DEF Deliver, DeliverIngress, Resync, crs, caches, TInv, TypeOK
<1>3. \A t \in SDs : \A c : Known(t, c) => Known(t, c)'
  BY <1>1, <1>2 DEF Known, KInv, SeenStands, Stands, Public
<1>4. SeenStands'
  BY <1>1, <1>2 DEF SeenStands, Stands, Public, KInv
<1>5. seen' \subseteq seen \cup ing
  BY DEF Deliver, DeliverIngress, Resync, caches
<1>6. MadeKnown' /\ MakingKnown'
  <2>1. MadeKnown'
    BY <1>1, <1>3, <1>5 DEF MadeKnown, KInv
  <2>2. MakingKnown'
    BY <1>1, <1>3 DEF MakingKnown, KInv, Public, TInv, Holding
  <2>. QED
    BY <2>1, <2>2
<1>7. WritesDomains' /\ SparesKnown' /\ ClosedIsNew'
  BY <1>1 DEF KInv, WritesDomains, SparesKnown, ClosedIsNew, Public, Closed
<1>. QED
  BY <1>4, <1>6, <1>7 DEF KInv

\* The application's worker makes domains; what it deletes, the cache does not keep.
LEMMA AppKInv == ASSUME TInv, KInv, AppWork PROVE KInv'
<1>. USE DEF AppFrame, caches, crs
<1>1. UNCHANGED <<sdSeen, seen, sdW>>
  BY DEF AppWork, AppBegin, AppPut, AppList, AppKeep, AppDelete, AppFinish
<1>2. hist.withdrawn \subseteq hist'.withdrawn
  BY LostOnly, FinishMarks DEF AppWork, AppBegin, AppPut, AppList, AppKeep, AppDelete, Marks, TInv, TypeOK
<1>3. \A t, c : Known(t, c) => Known(t, c)'
  BY <1>1, <1>2 DEF Known
<1>4. SeenStands'
  <2>1. CASE UNCHANGED sd
    BY <1>1, <1>2, <2>1 DEF KInv, SeenStands, Stands, Public
  <2>2. CASE AppFinish /\ ~UNCHANGED sd
    <3>. PICK known \in SUBSET {s \in SDs : sdSeen[s] # Nil} : Marks(known)
      BY <2>2, FinishMarks
    <3>1. hist'.withdrawn = hist.withdrawn \cup known /\ \A s \in SDs \ known : sd'[s] = sd[s]
      BY DEF Marks, TInv, TypeOK
    <3>. QED
      BY <1>1, <3>1 DEF KInv, SeenStands, Stands, Public
  <2>3. UNCHANGED sd \/ AppFinish
    BY DEF AppWork, AppBegin, AppPut, AppList, AppKeep, AppDelete
  <2>. QED
    BY <2>1, <2>2, <2>3
<1>5. MakingKnown'
  BY <1>1, <1>3 DEF KInv, MakingKnown, Public
<1>6. ing' \subseteq ing \cup appW.todo
  BY DEF AppWork, AppBegin, AppPut, AppList, AppKeep, AppDelete, AppFinish, AppFails,
         Stay, Put, Remove, LeftAlone
<1>7. appW.pc # "ingress" => ing' \subseteq ing
  BY DEF AppWork, AppBegin, AppPut, AppList, AppKeep, AppDelete, AppFinish, AppFails,
         Stay, Remove, LeftAlone
<1>8. ClosedIsNew'
  BY <1>1, <1>2, <1>6, <1>7 DEF KInv, ClosedIsNew, WritesDomains, Public, TInv, Holding
<1>9. AppBegin => \A s, c : Entry(s, c) \notin appW'.todo
  <2>. SUFFICES ASSUME AppBegin, NEW s, NEW c, Entry(s, c) \in appW'.todo PROVE FALSE
    OBVIOUS
  <2>1. Entry(s, c) \in {DomainName(d) : d \in appSeen.domains}
    BY DEF AppBegin, Resting
  <2>. QED
    BY <2>1, NameFacts
<1>10. ~AppBegin => appW'.todo \subseteq seen \cup appW.todo
  <2>1. CASE AppPut
    <3>1. CASE appW' = Resting
      BY <3>1 DEF Resting
    <3>2. CASE \E n \in appW.todo : appW' = [appW EXCEPT !.todo = @ \ {n}]
      BY <3>2 DEF TInv, TypeOK
    <3>. QED
      BY <2>1, <3>1, <3>2 DEF AppPut, AppFails
  <2>2. CASE AppList
    BY <2>2 DEF AppList, TInv, TypeOK
  <2>3. CASE AppKeep
    BY <2>3 DEF AppKeep, TInv, TypeOK
  <2>4. CASE AppDelete
    BY <2>4 DEF AppDelete, TInv, TypeOK
  <2>5. CASE AppFinish
    BY <2>5 DEF AppFinish, AppFails, Resting
  <2>. QED
    BY <2>1, <2>2, <2>3, <2>4, <2>5 DEF AppWork
<1>11. MadeKnown'
  BY <1>1, <1>3, <1>6, <1>9, <1>10 DEF KInv, MadeKnown
<1>12. WritesDomains'
  <2>1. CASE AppBegin
    BY <1>9, <2>1 DEF WritesDomains
  <2>2. CASE AppPut
    <3>1. appW'.todo \subseteq appW.todo \/ appW'.pc = "idle"
      <4>1. CASE appW' = Resting
        BY <4>1 DEF Resting
      <4>2. CASE \E n \in appW.todo : appW' = [appW EXCEPT !.todo = @ \ {n}]
        BY <4>2 DEF TInv, TypeOK
      <4>. QED
        BY <2>2, <4>1, <4>2 DEF AppPut, AppFails
    <3>. QED
      BY <2>2, <3>1 DEF AppPut, KInv, WritesDomains
  <2>3. CASE AppList
    BY <2>3 DEF AppList, TInv, TypeOK, WritesDomains
  <2>4. CASE AppKeep
    BY <2>4 DEF AppKeep, TInv, TypeOK, WritesDomains
  <2>5. CASE AppDelete
    BY <2>5 DEF AppDelete, TInv, TypeOK, WritesDomains
  <2>6. CASE AppFinish
    BY <2>6 DEF AppFinish, AppFails, Resting, WritesDomains
  <2>. QED
    BY <2>1, <2>2, <2>3, <2>4, <2>5, <2>6 DEF AppWork
<1>13. SparesKnown'
  <2>1. CASE AppKeep
    <3>. SUFFICES ASSUME NEW s \in SDs, NEW c \in Classes, Entry(s, c) \in appW'.todo
                  PROVE  s \in hist'.withdrawn
      BY DEF SparesKnown
    <3>1. Known(s, c) /\ Entry(s, c) \notin Keep(appW.in, sdSeen)
      BY <2>1 DEF AppKeep, KInv, MadeKnown, TInv, TypeOK
    <3>. QED
      BY <1>2, <3>1, KeptIfSeen DEF Known
  <2>2. CASE AppDelete
    BY <1>2, <2>2 DEF AppDelete, KInv, SparesKnown, TInv, TypeOK, Closed
  <2>3. CASE AppList
    BY <2>3 DEF AppList, SparesKnown, TInv, TypeOK, Closed
  <2>4. CASE AppBegin \/ AppPut \/ AppFinish
    BY <2>4 DEF AppBegin, AppPut, AppFinish, AppFails, Resting, SparesKnown, TInv, TypeOK
  <2>. QED
    BY <2>1, <2>2, <2>3, <2>4 DEF AppWork
<1>. QED
  BY <1>4, <1>5, <1>8, <1>11, <1>12, <1>13 DEF KInv

\* The SQBDeployments' worker acts on what the cache held when it began.
LEMMA SdKInv == ASSUME TInv, KInv, SdWork PROVE KInv'
<1>. USE DEF SdFrame, caches
<1>1. UNCHANGED <<sdSeen, seen, appW>>
  BY DEF SdWork, SdBegin, SdBlocked, SdPut, SdDelete, SdFinish
<1>2. hist.withdrawn \subseteq hist'.withdrawn
  BY LostOnly DEF SdWork, SdBegin, SdBlocked, SdPut, SdDelete, SdFinish, TInv, TypeOK
<1>3. \A t, c : Known(t, c) => Known(t, c)'
  BY <1>1, <1>2 DEF Known
<1>4. SeenStands'
  <2>1. CASE SdFinish
    BY <1>1, <2>1 DEF SdFinish, KInv, SeenStands, Stands, Public, TInv, TypeOK, Holding
  <2>2. CASE ~SdFinish
    BY <1>1, <1>2, <2>2 DEF SdWork, SdBegin, SdBlocked, SdPut, SdDelete, KInv, SeenStands,
                           Stands, Public
  <2>. QED
    BY <2>1, <2>2
<1>5. WritesDomains' /\ SparesKnown'
  BY <1>1, <1>2 DEF KInv, WritesDomains, SparesKnown, Closed
<1>6. ASSUME NEW s \in SDs, NEW c \in Classes, Entry(s, c) \in ing' \ ing
      PROVE  s = sdW.key /\ c = sdW.in.class /\ Public(sdW.in) /\ sdW.pc = "ingress"
             /\ SdPut
  BY <1>6, NameFacts DEF SdWork, SdBegin, SdBlocked, SdPut, SdDelete, SdFinish, Stay,
                         Put, Remove, LeftAlone
<1>7. MadeKnown'
  BY <1>1, <1>3, <1>6 DEF KInv, MadeKnown, MakingKnown
<1>8. CASE SdBegin
  <2>. PICK s \in SDs \cap queue :
         sdW' = IF sdSeen[s] = Nil THEN SdResting
                ELSE [pc |-> "ingress", key |-> s, in |-> sdSeen[s]]
    BY <1>8 DEF SdBegin
  <2>1. MakingKnown'
    BY <1>1 DEF MakingKnown, Known, SdResting, Public
  <2>2. ClosedIsNew'
    BY <1>1, <1>2, <1>8 DEF ClosedIsNew, SdBegin, Stay, SdResting, Public, KInv, MadeKnown, Known
  <2>. QED
    BY <1>4, <1>5, <1>7, <2>1, <2>2 DEF KInv
<1>9. CASE ~SdBegin
  <2>1. sdW'.pc # "ingress"
    BY <1>9 DEF SdWork, SdBlocked, SdPut, SdDelete, SdFinish, SdNext, SdResting, TInv, TypeOK
  <2>2. sdW'.pc # "idle" => sdW.pc # "idle" /\ sdW'.key = sdW.key /\ sdW'.in = sdW.in
    BY <1>9 DEF SdWork, SdBlocked, SdPut, SdDelete, SdFinish, SdNext, SdResting, TInv, TypeOK
  <2>3. MakingKnown'
    BY <1>3, <2>2 DEF KInv, MakingKnown, Public
  <2>4. ClosedIsNew'
    BY <2>1 DEF ClosedIsNew
  <2>. QED
    BY <1>4, <1>5, <1>7, <2>3, <2>4 DEF KInv
<1>. QED
  BY <1>8, <1>9

\* A refused call leaves no ingress and no copy behind.
LEMMA RefusedKInv == ASSUME TInv, KInv, AppRefused \/ SdRefused PROVE KInv'
<1>. PICK k : Gave(k)
  BY RefusedGave
<1>1. UNCHANGED <<sd, sdSeen, seen, ing>> /\ hist'.withdrawn = hist.withdrawn
  BY DEF Gave, crs, caches
<1>2. /\ UNCHANGED appW \/ appW' = Resting
      /\ UNCHANGED sdW \/ sdW' = SdResting
  BY RefusedGave
<1>3. SeenStands'
  BY <1>1 DEF KInv, SeenStands, Stands, Public
<1>4. MadeKnown' /\ MakingKnown'
  BY <1>1, <1>2 DEF KInv, MadeKnown, MakingKnown, Known, Public, Resting, SdResting
<1>5. WritesDomains' /\ SparesKnown' /\ ClosedIsNew'
  BY <1>1, <1>2 DEF KInv, WritesDomains, SparesKnown, ClosedIsNew, Public, Closed, Resting, SdResting
<1>. QED
  BY <1>3, <1>4, <1>5 DEF KInv

\* KInv is inductive relative to TInv.
LEMMA NextKInv == ASSUME TInv, KInv, [Next]_vars PROVE KInv'
<1>1. CASE UNCHANGED vars
  BY <1>1 DEF vars, KInv, SeenStands, MadeKnown, MakingKnown, WritesDomains, SparesKnown,
              ClosedIsNew, Stands, Known, Public, Closed
<1>. QED
  BY <1>1, EditKInv, EventKInv, AppKInv, SdKInv, RefusedKInv DEF Next

-----------------------------------------------------------------------------
(* Theorems *)

\* Every variable keeps its type, and every worker that is not idle holds a copy.
THEOREM IngressTyped == Spec => []TypeOK
<1>1. Spec => []TInv
  BY InitTInv, NextTInv, PTL DEF Spec
<1>2. TInv => TypeOK
  BY DEF TInv
<1>. QED
  BY <1>1, <1>2, PTL

\* The invariant holds.
LEMMA IngressInvariant == Spec => [](TInv /\ KInv)
BY InitTInv, NextTInv, InitKInv, NextKInv, PTL DEF Spec

\* A standing entry's ingress goes only where all of the application's do
\* (CreateOrUpdateForSqbapplication, DeleteForSqbdeployment).
LEMMA StepKeepsEntry ==
    ASSUME TInv, KInv, Next, NEW s \in SDs, Firm(s), EntryName(s, sd[s]) \in ing \ ing'
    PROVE  appW.pc = "delete" /\ Closed(appW.in)
<1>. DEFINE n == EntryName(s, sd[s])
<1>1. sd[s] \in SdObj /\ s \notin hist.withdrawn
  BY DEF Firm, Public, TInv, TypeOK
<1>2. sd[s].class \in Classes /\ n = Entry(s, sd[s].class)
  BY <1>1, NameFacts DEF SdObj
<1>3. AppDelete \/ SdDelete
  BY DEF Next, EditApp, EditSd, UserStep, Deliver, DeliverIngress, Resync, AppWork, SdWork,
         AppBegin, AppPut, AppList, AppKeep, AppFinish, AppFails, SdBegin, SdBlocked,
         SdPut, SdFinish, AppRefused, SdRefused, Refused, Stay, Put, LeftAlone
<1>4. CASE AppDelete
  <2>1. n \in appW.todo /\ appW.pc = "delete"
    BY <1>4 DEF AppDelete, Remove, LeftAlone, Stay
  <2>. QED
    BY <1>1, <1>2, <2>1 DEF KInv, SparesKnown
<1>5. CASE SdDelete
  <2>1. n = EntryName(sdW.key, sdW.in) /\ sdW.pc = "ingress" /\ ~Public(sdW.in)
    BY <1>5 DEF SdDelete, Remove, LeftAlone, Stay
  <2>2. s = sdW.key
    BY <1>2, <2>1, NameFacts
  <2>. QED
    BY <1>1, <1>2, <2>1, <2>2 DEF KInv, ClosedIsNew
<1>. QED
  BY <1>3, <1>4, <1>5

\* The clean-up of an application never cuts a standing public entry, whatever the ages
\* of the two lists it compares, and neither does the SQBDeployments' worker.
THEOREM StandingEntriesStay == Spec => EntryKept
<1>1. TInv /\ KInv /\ [Next]_vars
        => [\A s \in SDs : Firm(s) /\ EntryName(s, sd[s]) \in ing \ ing'
                           => appW.pc = "delete" /\ Closed(appW.in)]_vars
  BY StepKeepsEntry
<1>. QED
  BY <1>1, IngressInvariant, PTL DEF Spec, EntryKept

-----------------------------------------------------------------------------
(* Nothing that is wanted is left undone *)

\* A worker on an old copy of the application will begin anew.
AppCurrent ==
    /\ appW.pc # "idle" => appW.in = appSeen \/ "app" \in queue
    /\ "app" \notin late => appSeen = app

\* A domain of the cached application has its ingress and keeps it, or is still to be
\* written, or the application's key waits or is lost.
DomainsMade ==
    appSeen # Nil /\ ~Closed(appSeen) =>
        \/ "app" \in queue \cup hist.lost
        \/ \A d \in appSeen.domains :
             \/ DomainName(d) \in VelaIng
             \/ DomainName(d) \in ing /\ (appW.pc = "delete" => DomainName(d) \notin appW.todo)
             \/ appW.pc = "ingress" /\ DomainName(d) \in appW.todo

\* Who never closed is closed in no copy.
OpenKnown ==
    ~hist.closed =>
        /\ app # Nil => ~Closed(app)
        /\ appSeen # Nil => ~Closed(appSeen)
        /\ appW.pc # "idle" => ~Closed(appW.in)

\* An entry that is due has its ingress, or its key waits, or the worker is about to write it,
\* or an event is under way.
EntriesMade ==
    ~hist.closed =>
        \A s \in SDs \ late : Due(s) =>
            \/ s \in queue \/ EntryName(s, sd[s]) \in ing
            \/ sdW.pc = "ingress" /\ sdW.key = s /\ sdW.in = sd[s]

WInv == AppCurrent /\ DomainsMade /\ OpenKnown /\ EntriesMade

LEMMA InitWInv == Init => WInv
<1>. SUFFICES ASSUME Init PROVE WInv
  OBVIOUS
<1>1. "app" \in queue /\ SDs \subseteq queue /\ appW.pc = "idle"
  BY DEF Init, Resting
<1>2. OpenKnown
  BY <1>1 DEF Init, OpenKnown
<1>3. AppCurrent
  BY <1>1 DEF Init, AppCurrent
<1>. QED
  BY <1>1, <1>2, <1>3 DEF WInv, DomainsMade, EntriesMade

\* What steps outside the workers do.
LEMMA OutsideWInv ==
    ASSUME TInv, WInv, \/ \E a \in AppObj \cup {Nil} : EditApp(a)
                       \/ \E s \in SDs, o \in SdObj \cup {Nil} : EditSd(s, o)
                       \/ \E x \in {"app"} \cup SDs : Deliver(x)
                       \/ \E n \in Names : DeliverIngress(n)
                       \/ Resync
    PROVE  WInv'
<1>. USE DEF WInv
<1>1. UNCHANGED <<ing, appW, sdW>> /\ queue \subseteq queue'
  BY DEF EditApp, EditSd, UserStep, Deliver, DeliverIngress, Resync
<1>0. hist'.lost = hist.lost
  BY DEF EditApp, EditSd, Deliver, DeliverIngress, Resync, TInv, TypeOK
<1>2. appSeen' = appSeen \/ (appSeen' = app /\ "app" \in queue')
  BY DEF EditApp, EditSd, UserStep, Deliver, DeliverIngress, Resync, caches
<1>3. /\ ~hist'.closed => ~hist.closed /\ (app' # Nil => app' = app \/ ~Closed(app'))
      /\ hist.withdrawn \subseteq hist'.withdrawn
  <2>1. CASE \E a \in AppObj \cup {Nil} : EditApp(a)
    <3>1. PICK a \in AppObj \cup {Nil} : EditApp(a)
      BY <2>1
    <3>2. /\ app' = a /\ hist'.closed = (hist.closed \/ (a # Nil /\ Closed(a)))
          /\ hist'.withdrawn = hist.withdrawn
      BY <3>1 DEF EditApp, TInv, TypeOK
    <3>. QED
      BY <3>2
  <2>2. CASE ~\E a \in AppObj \cup {Nil} : EditApp(a)
    BY <2>2 DEF EditSd, Deliver, DeliverIngress, Resync, crs, TInv, TypeOK
  <2>. QED
    BY <2>1, <2>2
<1>4. \A s \in SDs \ late' : sd'[s] = sd[s] /\ (s \in late => s \in queue')
  BY DEF EditApp, EditSd, UserStep, Deliver, DeliverIngress, Resync, crs, TInv, TypeOK
<1>5. AppCurrent'
  <2>1. "app" \notin late' => appSeen' = app'
    BY NameAssumption DEF AppCurrent, EditApp, EditSd, UserStep, Deliver, DeliverIngress, Resync, crs, caches
  <2>. QED
    BY <1>1, <1>2, <2>1 DEF AppCurrent
<1>6. DomainsMade'
  BY <1>0, <1>1, <1>2 DEF DomainsMade, Closed
<1>7. hist.closed \in BOOLEAN /\ hist'.closed \in BOOLEAN
  BY EditTInv, EventTInv DEF TInv, TypeOK
<1>8. OpenKnown'
  BY <1>1, <1>2, <1>3, <1>7 DEF OpenKnown, Closed
<1>9. EntriesMade'
  <2>. SUFFICES ASSUME ~hist'.closed, NEW s \in SDs \ late', Due(s)'
                PROVE  \/ s \in queue' \/ EntryName(s, sd'[s]) \in ing'
                       \/ sdW'.pc = "ingress" /\ sdW'.key = s /\ sdW'.in = sd'[s]
    BY DEF EntriesMade, EntryName
  <2>1. CASE s \in late
    BY <1>4, <2>1
  <2>2. CASE s \notin late
    <3>1. sd'[s] = sd[s] /\ Due(s)
      BY <1>0, <1>3, <1>4 DEF Due, Firm, Public, EntryName
    <3>. QED
      BY <1>1, <1>3, <1>7, <2>2, <3>1 DEF EntriesMade
  <2>. QED
    BY <2>1, <2>2
<1>. QED
  BY <1>5, <1>6, <1>8, <1>9

\* A step of a worker keeps the standing entries it finds made, and forgets no key.
LEMMA WorkKeeps ==
    ASSUME TInv, KInv, WInv, AppWork \/ SdWork, ~hist'.closed, NEW s \in SDs \ late', Due(s)'
    PROVE  /\ ~hist.closed /\ s \notin late /\ Firm(s) /\ Firm(s)' /\ sd'[s] = sd[s]
           /\ EntryName(s, sd[s]) \notin VelaIng
           /\ EntryName(s, sd[s]) \in ing => EntryName(s, sd[s]) \in ing'
<1>1. hist'.closed = hist.closed /\ hist.withdrawn \subseteq hist'.withdrawn /\ late \subseteq late'
  BY LostOnly, FinishMarks DEF Marks, AppWork, SdWork, AppBegin, AppPut, AppList, AppKeep, AppDelete, SdBegin,
         SdBlocked, SdPut, SdDelete, SdFinish, crs, TInv, TypeOK
<1>0. Firm(s)' /\ EntryName(s, sd'[s]) \notin VelaIng
  BY DEF Due, EntryName
<1>2. sd'[s] = sd[s]
  <2>1. CASE AppFinish /\ ~UNCHANGED crs
    <3>. PICK known \in SUBSET {t \in SDs : sdSeen[t] # Nil} : Marks(known)
      BY <2>1, FinishMarks
    <3>1. s \notin known
      BY <1>0 DEF Marks, Firm, TInv, TypeOK
    <3>. QED
      BY <3>1 DEF Marks
  <2>2. CASE SdFinish
    <3>1. s # sdW.key \/ UNCHANGED sd
      BY <1>0, <2>2 DEF SdFinish, Firm, Public, TInv, TypeOK
    <3>. QED
      BY <2>2, <3>1 DEF SdFinish, TInv, TypeOK
  <2>3. CASE ~SdFinish /\ ~(AppFinish /\ ~UNCHANGED crs)
    BY <2>3 DEF AppWork, SdWork, AppBegin, AppPut, AppList, AppKeep, AppDelete, SdBegin, SdBlocked,
                SdPut, SdDelete, crs
  <2>. QED
    BY <2>1, <2>2, <2>3
<1>3. Firm(s)
  BY <1>0, <1>1, <1>2 DEF Firm, Public
<1>4. ~(appW.pc = "delete" /\ Closed(appW.in))
  BY <1>1 DEF WInv, OpenKnown
<1>5. EntryName(s, sd[s]) \in ing => EntryName(s, sd[s]) \in ing'
  <2>1. Next
    BY DEF Next
  <2>. QED
    BY <1>3, <1>4, <2>1, StepKeepsEntry
<1>6. ~hist.closed /\ s \notin late
  BY <1>1
<1>. QED
  BY <1>0, <1>2, <1>3, <1>5, <1>6

LEMMA AppWInv == ASSUME TInv, KInv, WInv, AppWork PROVE WInv'
<1>. USE DEF WInv, AppFrame, caches, crs
<1>1. UNCHANGED <<appSeen, sdW>> /\ (~AppBegin => queue \subseteq queue')
      /\ queue \ {"app"} \subseteq queue'
  BY DEF Take, AppWork, AppBegin, AppPut, AppList, AppKeep, AppDelete, AppFinish, AppFails, Fail
<1>2. /\ AppBegin => appW' = Resting \/ (appW'.in = appSeen /\ appSeen # Nil)
      /\ ~AppBegin /\ appW'.pc # "idle" => appW.pc # "idle" /\ appW'.in = appW.in
  <2>1. AppBegin => appW' = Resting \/ (appW'.in = appSeen /\ appSeen # Nil)
    BY DEF AppBegin
  <2>2. CASE AppPut
    <3>1. appW' = Resting \/ \E n \in appW.todo : appW' = [appW EXCEPT !.todo = @ \ {n}]
      BY <2>2 DEF AppPut, AppFails
    <3>. QED
      BY <2>1, <2>2, <3>1 DEF AppPut, Resting, TInv, TypeOK
  <2>3. CASE AppList \/ AppKeep \/ AppDelete
    BY <2>1, <2>3 DEF AppList, AppKeep, AppDelete, TInv, TypeOK
  <2>4. CASE AppFinish
    BY <2>1, <2>4 DEF AppFinish, AppFails, Resting
  <2>. QED
    BY <2>1, <2>2, <2>3, <2>4 DEF AppWork
<1>0. /\ ~AppBegin => hist'.lost = hist.lost
      /\ hist.lost \ {"app"} \subseteq hist'.lost
      /\ hist'.closed = hist.closed
  BY LostOnly, FinishMarks DEF Marks, AppWork, AppBegin, AppPut, AppList, AppKeep, AppDelete, TInv, TypeOK
<1>3. AppCurrent'
  <2>1. (app' = app /\ late \subseteq late') \/ "app" \in late'
    BY FinishMarks DEF Marks, AppWork, AppBegin, AppPut, AppList, AppKeep, AppDelete
  <2>. QED
    BY <1>1, <1>2, <2>1 DEF AppCurrent, Resting
<1>4. OpenKnown'
  <2>1. app' = Nil \/ app' = app
    BY FinishMarks DEF Marks, AppWork, AppBegin, AppPut, AppList, AppKeep, AppDelete
  <2>. QED
    BY <1>0, <1>1, <1>2, <2>1 DEF OpenKnown, Closed, Resting
<1>5. DomainsMade'
  <2>. SUFFICES ASSUME appSeen # Nil, ~Closed(appSeen), "app" \notin queue' \cup hist'.lost, NEW d \in appSeen.domains,
                       DomainName(d) \notin VelaIng
                PROVE  LET n == DomainName(d) IN
                       \/ n \in ing' /\ (appW'.pc = "delete" => n \notin appW'.todo)
                       \/ appW'.pc = "ingress" /\ n \in appW'.todo
    BY <1>1 DEF DomainsMade, Closed, DomainName
  <2>. DEFINE n == DomainName(d)
  <2>1. CASE AppBegin
    BY <2>1 DEF AppBegin
  <2>2. CASE ~AppBegin
    <3>1. /\ appW.pc # "idle" => appW.in = appSeen
          /\ \/ n \in ing /\ (appW.pc = "delete" => n \notin appW.todo)
             \/ appW.pc = "ingress" /\ n \in appW.todo
      BY <1>0, <1>1, <2>2 DEF AppCurrent, DomainsMade
    <3>2. CASE AppPut
      <4>. PICK m \in appW.todo : Put(m) /\ appW' = [appW EXCEPT !.todo = @ \ {m}]
        BY <3>2 DEF AppPut, AppFails, Fail
      <4>. QED
        BY <3>1, <3>2 DEF AppPut, Put, LeftAlone, Stay, TInv, TypeOK
    <3>3. CASE AppList
      BY <3>1, <3>3 DEF AppList, Stay, TInv, TypeOK
    <3>4. CASE AppKeep
      <4>1. n \in Keep(appW.in, sdSeen)
        BY <3>1, <3>4 DEF Keep, AppKeep
      <4>. QED
        BY <3>1, <3>4, <4>1 DEF AppKeep, Stay, TInv, TypeOK
    <3>5. CASE AppDelete
      BY <3>1, <3>5 DEF AppDelete, Remove, LeftAlone, Stay, TInv, TypeOK
    <3>6. CASE AppFinish
      BY <3>1, <3>6 DEF AppFinish, AppFails, Stay, Resting
    <3>. QED
      BY <2>2, <3>2, <3>3, <3>4, <3>5, <3>6 DEF AppWork
  <2>. QED
    BY <2>1, <2>2
<1>6. EntriesMade'
  <2>. SUFFICES ASSUME ~hist'.closed, NEW s \in SDs \ late', Due(s)'
                PROVE  \/ s \in queue' \/ EntryName(s, sd'[s]) \in ing'
                       \/ sdW'.pc = "ingress" /\ sdW'.key = s /\ sdW'.in = sd'[s]
    BY DEF EntriesMade, EntryName
  <2>1. s # "app" /\ s \notin hist'.lost
    BY NameAssumption DEF Due
  <2>2. Due(s)
    BY <1>0, <2>1, WorkKeeps DEF Due
  <2>. QED
    BY <1>1, <2>1, <2>2, WorkKeeps DEF EntriesMade
<1>. QED
  BY <1>3, <1>4, <1>5, <1>6

LEMMA SdWInv == ASSUME TInv, KInv, WInv, SdWork PROVE WInv'
<1>. USE DEF WInv, SdFrame, caches
<1>1. UNCHANGED <<app, appSeen, sdSeen, appW>>
  BY DEF SdWork, SdBegin, SdBlocked, SdPut, SdDelete, SdFinish
<1>2. /\ "app" \in queue => "app" \in queue'
      /\ "app" \in hist.lost => "app" \in hist'.lost
      /\ hist'.closed = hist.closed
  BY NameAssumption, LostOnly DEF Take, SdWork, SdBegin, SdBlocked, SdPut, SdDelete, SdFinish, Fail, TInv, TypeOK
<1>3. \A d : DomainName(d) \in ing => DomainName(d) \in ing'
  BY NameFacts DEF SdWork, SdBegin, SdBlocked, SdPut, SdDelete, SdFinish, Stay, Put, Remove, LeftAlone
<1>4. AppCurrent' /\ OpenKnown' /\ DomainsMade'
  <2>1. AppCurrent'
    <3>1. "app" \in late => "app" \in late'
      BY DEF SdWork, SdBegin, SdBlocked, SdPut, SdDelete, SdFinish
    <3>. QED
      BY <1>1, <1>2, <3>1 DEF AppCurrent
  <2>2. OpenKnown'
    BY <1>1, <1>2 DEF OpenKnown, Closed
  <2>3. DomainsMade'
    BY <1>1, <1>2, <1>3 DEF DomainsMade, Closed, DomainName
  <2>. QED
    BY <2>1, <2>2, <2>3
<1>5. EntriesMade'
  <2>. SUFFICES ASSUME ~hist'.closed, NEW s \in SDs \ late', Due(s)'
                PROVE  \/ s \in queue' \/ EntryName(s, sd'[s]) \in ing'
                       \/ sdW'.pc = "ingress" /\ sdW'.key = s /\ sdW'.in = sd'[s]
    BY DEF EntriesMade, EntryName
  <2>1. /\ s \notin late /\ Firm(s) /\ sd'[s] = sd[s] /\ sdSeen[s] = sd[s] /\ ~hist.closed
        /\ EntryName(s, sd[s]) \in ing => EntryName(s, sd[s]) \in ing'
        /\ EntryName(s, sd[s]) \notin VelaIng
    BY WorkKeeps DEF TInv, Fresh
  <2>2. CASE SdBegin
    <3>1. PICK t \in SDs \cap queue :
            /\ Take(t)
            /\ sdW' = IF sdSeen[t] = Nil THEN SdResting
                      ELSE [pc |-> "ingress", key |-> t, in |-> sdSeen[t]]
      BY <2>2 DEF SdBegin
    <3>2. CASE t = s
      BY <2>1, <3>1, <3>2 DEF Firm, Public
    <3>3. CASE t # s
      <4>1. s \notin hist.lost /\ (s \in queue => s \in queue')
        BY <3>1, <3>3, LostOnly DEF Take, Due, TInv
      <4>2. s \in queue \/ EntryName(s, sd[s]) \in ing
        BY <2>1, <2>2, <4>1 DEF Due, EntriesMade, SdBegin
      <4>. QED
        BY <2>1, <4>1, <4>2
    <3>. QED
      BY <3>2, <3>3
  <2>3. CASE ~SdBegin
    <3>1. hist'.lost = hist.lost /\ queue \subseteq queue'
      BY <2>3 DEF SdWork, SdBlocked, SdPut, SdDelete, SdFinish, Fail, TInv, TypeOK
    <3>2. \/ s \in queue \/ EntryName(s, sd[s]) \in ing
          \/ sdW.pc = "ingress" /\ sdW.key = s /\ sdW.in = sd[s]
      BY <2>1, <3>1 DEF Due, EntriesMade
    <3>3. CASE sdW.pc = "ingress" /\ sdW.key = s /\ sdW.in = sd[s]
      <4>1. CASE SdBlocked
        BY <3>3, <4>1 DEF SdBlocked, Fail
      <4>2. CASE SdPut
        BY <2>1, <3>3, <4>2 DEF SdPut, Put, LeftAlone, Fail
      <4>3. ~SdDelete /\ ~SdFinish
        BY <2>1, <3>3 DEF SdDelete, SdFinish, Firm
      <4>. QED
        BY <2>3, <4>1, <4>2, <4>3 DEF SdWork
    <3>. QED
      BY <2>1, <3>1, <3>2, <3>3
  <2>. QED
    BY <2>2, <2>3
<1>. QED
  BY <1>4, <1>5

\* A refused call: the key waits, or is lost.
LEMMA RefusedWInv == ASSUME TInv, WInv, AppRefused \/ SdRefused PROVE WInv'
<1>. USE DEF WInv
<1>. DEFINE key == IF AppRefused THEN "app" ELSE sdW.key
<1>1. /\ Gave(key)
      /\ AppRefused => appW' = Resting /\ UNCHANGED sdW
      /\ ~AppRefused => sdW' = SdResting /\ UNCHANGED appW
  BY RefusedGave
<1>2. /\ UNCHANGED <<app, sd, late, appSeen, ing>> /\ queue \subseteq queue'
      /\ hist'.withdrawn = hist.withdrawn /\ hist'.closed = hist.closed
      /\ hist.lost \subseteq hist'.lost /\ key \in queue' \cup hist'.lost
  BY <1>1 DEF Gave, crs, caches
<1>3. AppCurrent'
  BY <1>1, <1>2 DEF AppCurrent, Resting
<1>4. OpenKnown'
  BY <1>1, <1>2 DEF OpenKnown, Closed, Resting
<1>5. DomainsMade'
  <2>1. CASE AppRefused
    BY <1>2, <2>1 DEF DomainsMade
  <2>2. CASE ~AppRefused
    BY <1>1, <1>2, <2>2 DEF DomainsMade, Closed
  <2>. QED
    BY <2>1, <2>2
<1>6. EntriesMade'
  <2>. SUFFICES ASSUME ~hist'.closed, NEW s \in SDs \ late', Due(s)'
                PROVE  \/ s \in queue' \/ EntryName(s, sd'[s]) \in ing'
                       \/ sdW'.pc = "ingress" /\ sdW'.key = s /\ sdW'.in = sd'[s]
    BY DEF EntriesMade, EntryName
  <2>1. Due(s) /\ s \notin hist'.lost
    BY <1>2 DEF Due, Firm, Public, EntryName
  <2>. QED
    BY <1>1, <1>2, <2>1 DEF EntriesMade
<1>. QED
  BY <1>3, <1>4, <1>5, <1>6

LEMMA NextWInv == ASSUME TInv, KInv, WInv, [Next]_vars PROVE WInv'
<1>1. CASE UNCHANGED vars
  BY <1>1 DEF vars, WInv, AppCurrent, DomainsMade, OpenKnown, EntriesMade, Due, Firm, Public, Closed,
              DomainName, EntryName
<1>. QED
  BY <1>1, OutsideWInv, AppWInv, SdWInv, RefusedWInv DEF Next

\* Whenever nothing is left to do, every wanted ingress is there, for any number of domains,
\* SQBDeployments, user actions and failing calls, and whatever the caches showed on the way:
\* what fails on a late cache, or is written from an old copy, is followed by another attempt.
\* Excepted are the keys whose last reconcile ended in an error that is not retried, and the
\* ingresses with KubeVela's label.
THEOREM WantedIngressesRest == Spec => []IngressesAtRest
<1>1. Spec => []WInv
  BY InitWInv, NextWInv, IngressInvariant, PTL DEF Spec
<1>2. TInv /\ WInv => IngressesAtRest
  <2>. SUFFICES ASSUME TInv, WInv, AtRest, app # Nil
                PROVE  /\ ~Closed(app) /\ "app" \notin hist.lost => WantedDomains \subseteq ing
                       /\ ~hist.closed => \A s \in SDs : Due(s) => EntryName(s, sd[s]) \in ing
    BY DEF IngressesAtRest
  <2>1. appSeen = app
    BY DEF AtRest, WInv, AppCurrent
  <2>2. ASSUME ~Closed(app), "app" \notin hist.lost PROVE WantedDomains \subseteq ing
    BY <2>1, <2>2 DEF AtRest, WInv, DomainsMade, WantedDomains
  <2>3. ~hist.closed => \A s \in SDs : Due(s) => EntryName(s, sd[s]) \in ing
    BY DEF AtRest, WInv, EntriesMade
  <2>. QED
    BY <2>2, <2>3
<1>. QED
  BY <1>1, <1>2, IngressInvariant, PTL
=============================================================================
