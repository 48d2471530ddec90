--------------------------- MODULE ReadinessProofs ---------------------------
(***************************************************************************)
(* What the gate and the two reads of IsIstioInject guarantee, for every   *)
(* set of reconciles and of configurations, and for any number of edits    *)
(* and panics.                                                             *)
(*                                                                         *)
(* The induction needs, beyond the properties: whoever loads has a         *)
(* ConfigMap in hand; a loaded configuration is never unloaded; main holds *)
(* the lock exactly while it reads; and a reconcile inside IsIstioInject   *)
(* has seen the configuration in force.                                    *)
(*                                                                         *)
(* At the end: the last content of the ConfigMap is not lost, and the      *)
(* nested read lock is the only thing that can stop a load for good.       *)
(***************************************************************************)
EXTENDS Readiness, TLAPS

\* Whoever loads has read a ConfigMap.
Loading == config.pc \in {"lock", "load"} => config.data # Nil

\* A worker that has passed IsInitialized, and everything else, finds a configuration.
Loaded ==
    /\ initialized => conf # Nil
    /\ \A r \in Workers : worker[r].pc = "IsReady" => conf # Nil

\* main locks in "poll" and unlocks in "read".
MainLock == Holds("main", IF main.pc = "read" THEN 1 ELSE 0)

\* Between the first read of IsIstioInject and its end the configuration in force is seen.
Seen ==
    \A r \in Workers :
        \/ worker[r].pc = "IstioEnable" /\ Holds(r, 1)
        \/ worker[r].pc = "IstioInject"
        => conf \in worker[r].during

RInv ==
    /\ TypeOK /\ ConfiguredFirst /\ DecisionIsCurrent
    /\ Loading /\ Loaded /\ MainLock /\ Seen

-----------------------------------------------------------------------------

\* Nothing is loaded, held or decided when the process starts.
LEMMA InitRInv == Init => RInv
<1>. SUFFICES ASSUME Init PROVE RInv
  OBVIOUS
<1>. USE DEF Init
<1>1. worker \in [Workers -> [pc : Getters \cup {"idle", "decided"}, inject : BOOLEAN,
                              during : SUBSET (Configs \cup {Nil})]]
  BY DEF Resting
<1>2. mux \in [readers : [Workers \cup {"main"} -> 0 .. 2], writer : {"none", "waiting"}]
  BY DEF Unlocked
<1>3. \A r \in Workers \cup {"main"} : Holds(r, 0)
  BY DEF Unlocked, Holds
<1>4. \A r \in Workers : worker[r].pc = "idle"
  BY DEF Resting
<1>5. TypeOK
  BY <1>1, <1>2, <1>3 DEF TypeOK
<1>6. ConfiguredFirst /\ DecisionIsCurrent /\ Seen
  BY <1>4 DEF ConfiguredFirst, DecisionIsCurrent, Seen, Getters
<1>7. Loading /\ Loaded /\ MainLock
  BY <1>3, <1>4 DEF Loading, Loaded, MainLock
<1>. QED
  BY <1>5, <1>6, <1>7 DEF RInv

\* A change of the ConfigMap touches neither the configuration nor who reads it.
LEMMA EditRInv == ASSUME RInv, NEW c \in Configs \cup {Nil}, Edit(c) PROVE RInv'
<1>. USE DEF Edit, entity
<1>1. TypeOK'
  BY BoundAssumption DEF RInv, TypeOK, Holds
<1>2. ConfiguredFirst' /\ DecisionIsCurrent' /\ Seen'
  BY DEF RInv, ConfiguredFirst, DecisionIsCurrent, Seen, Holds
<1>3. Loading' /\ Loaded' /\ MainLock'
  BY DEF RInv, Loading, Loaded, MainLock, Holds
<1>. QED
  BY <1>1, <1>2, <1>3 DEF RInv

\* Before and after FromMap the ConfigMap controller works on its own.
LEMMA LoadRInv == ASSUME RInv, Get \/ Lock \/ Log PROVE RInv'
<1>. USE DEF entity
<1>1. TypeOK'
  <2>1. CASE Get
    BY <2>1 DEF RInv, TypeOK, Holds, Get
  <2>2. CASE Lock
    BY <2>2 DEF RInv, TypeOK, Holds, Lock
  <2>3. CASE Log
    BY <2>3 DEF RInv, TypeOK, Holds, Log
  <2>. QED
    BY <2>1, <2>2, <2>3
<1>2. ConfiguredFirst' /\ DecisionIsCurrent' /\ Loaded'
  BY DEF RInv, ConfiguredFirst, DecisionIsCurrent, Loaded, Get, Lock, Log
<1>3. \A p \in Workers \cup {"main"}, n \in 0 .. 2 : Holds(p, n)' <=> Holds(p, n)
  BY DEF RInv, TypeOK, Holds, Get, Lock, Log
<1>4. Seen' /\ MainLock'
  BY <1>3 DEF RInv, Seen, MainLock, Get, Lock, Log
<1>5. Loading'
  BY DEF RInv, TypeOK, Loading, Get, Lock, Log
<1>. QED
  BY <1>1, <1>2, <1>4, <1>5 DEF RInv

\* FromMap runs when nobody holds the lock: nobody is between two reads unawares.
LEMMA FromMapRInv == ASSUME RInv, FromMap PROVE RInv'
<1>. USE DEF FromMap, Witnessed
<1>1. config.data \in Configs \cup {Nil} /\ config.data # Nil
  BY DEF RInv, TypeOK, Loading
<1>2. \A p \in Workers \cup {"main"}, n \in 0 .. 2 : Holds(p, n)' <=> Holds(p, n)
  BY DEF RInv, TypeOK, Holds
<1>3. \A r \in Workers : worker'[r].pc = worker[r].pc /\ worker'[r].inject = worker[r].inject
  BY DEF RInv, TypeOK
<1>4. \A r \in Workers :
         /\ worker[r].during \subseteq worker'[r].during
         /\ worker[r].pc = "IstioInject" => config.data \in worker'[r].during
  BY DEF RInv, TypeOK
<1>5. TypeOK'
  <2>1. worker' \in [Workers -> [pc : Getters \cup {"idle", "decided"}, inject : BOOLEAN,
                                 during : SUBSET (Configs \cup {Nil})]]
    BY <1>1 DEF RInv, TypeOK
  <2>2. \A r \in Workers : ~Holds(r, 0)' => worker'[r].pc \in Getters
    BY <1>2, <1>3 DEF RInv, TypeOK
  <2>3. timers' \in Nat
    BY DEF RInv, TypeOK
  <2>4. mux' \in [readers : [Workers \cup {"main"} -> 0 .. 2], writer : {"none", "waiting"}]
    BY DEF RInv, TypeOK
  <2>5. config' \in [pc : {"idle", "lock", "load", "log"}, data : Configs \cup {Nil}]
    BY DEF RInv, TypeOK
  <2>. QED
    BY <1>1, <2>1, <2>2, <2>3, <2>4, <2>5 DEF RInv, TypeOK
<1>6. ConfiguredFirst' /\ Loaded'
  BY <1>1 DEF ConfiguredFirst, Loaded
<1>7. DecisionIsCurrent'
  BY <1>3, <1>4 DEF RInv, DecisionIsCurrent
<1>8. Seen'
  BY <1>1, <1>2, <1>3, <1>4 DEF Seen, NoReaders, Holds, RInv, TypeOK
<1>9. Loading' /\ MainLock'
  BY <1>2 DEF RInv, TypeOK, Loading, MainLock
<1>. QED
  BY <1>5, <1>6, <1>7, <1>8, <1>9 DEF RInv

\* The timer only makes the operator ready.
LEMMA TimerRInv == ASSUME RInv, Timer PROVE RInv'
<1>. USE DEF Timer
<1>1. TypeOK'
  BY DEF RInv, TypeOK, Holds
<1>2. ConfiguredFirst' /\ DecisionIsCurrent' /\ Seen'
  BY DEF RInv, ConfiguredFirst, DecisionIsCurrent, Seen, Holds
<1>3. Loading' /\ Loaded' /\ MainLock'
  BY DEF RInv, Loading, Loaded, MainLock, Holds
<1>. QED
  BY <1>1, <1>2, <1>3 DEF RInv

\* main takes and returns its own read lock; a panic is a new start.
LEMMA MainRInv == ASSUME RInv, Poll \/ Read \/ Second \/ Deadline \/ Panic PROVE RInv'
<1>. USE DEF entity
<1>1. CASE Poll \/ Read
  <2>. USE <1>1, ConfigAssumption DEF Poll, Read, RLock, RUnlock
  <2>1. mux' \in [readers : [Workers \cup {"main"} -> 0 .. 2], writer : {"none", "waiting"}]
    BY DEF RInv, TypeOK, MainLock, Holds
  <2>2. \A r \in Workers, n \in 0 .. 2 : Holds(r, n)' <=> Holds(r, n)
    BY DEF RInv, TypeOK, Holds
  <2>3. TypeOK'
    <3>1. main' \in [pc : {"poll", "read", "select", "done"}, deadline : BOOLEAN]
      BY DEF RInv, TypeOK
    <3>2. \A r \in Workers : ~Holds(r, 0)' => worker'[r].pc \in Getters
      BY <2>2 DEF RInv, TypeOK
    <3>. QED
      BY <2>1, <3>1, <3>2 DEF RInv, TypeOK
  <2>4. ConfiguredFirst' /\ DecisionIsCurrent' /\ Seen'
    BY <2>2 DEF RInv, ConfiguredFirst, DecisionIsCurrent, Seen
  <2>5. MainLock'
    BY DEF RInv, TypeOK, MainLock, Holds
  <2>6. Loading' /\ Loaded'
    BY DEF RInv, Loading, Loaded
  <2>. QED
    BY <2>3, <2>4, <2>5, <2>6 DEF RInv
<1>2. CASE Second \/ Deadline
  <2>. USE <1>2 DEF Second, Deadline
  <2>1. TypeOK'
    BY DEF RInv, TypeOK, Holds
  <2>2. ConfiguredFirst' /\ DecisionIsCurrent' /\ Seen'
    BY DEF RInv, ConfiguredFirst, DecisionIsCurrent, Seen, Holds
  <2>3. Loading' /\ Loaded' /\ MainLock'
    BY DEF RInv, TypeOK, Loading, Loaded, MainLock, Holds
  <2>. QED
    BY <2>1, <2>2, <2>3 DEF RInv
<1>3. CASE Panic
  <2>. USE <1>3 DEF Panic
  <2>1. worker' \in [Workers -> [pc : Getters \cup {"idle", "decided"}, inject : BOOLEAN,
                                 during : SUBSET (Configs \cup {Nil})]]
    BY DEF Resting
  <2>2. mux' \in [readers : [Workers \cup {"main"} -> 0 .. 2], writer : {"none", "waiting"}]
    BY DEF Unlocked
  <2>3. \A p \in Workers \cup {"main"} : Holds(p, 0)'
    BY DEF Unlocked, Holds
  <2>4. \A r \in Workers : worker'[r].pc = "idle"
    BY DEF Resting
  <2>5. TypeOK'
    <3>1. budget' \in [edits : Nat, panics : Nat]
      BY BoundAssumption DEF RInv, TypeOK
    <3>2. \A r \in Workers : ~Holds(r, 0)' => worker'[r].pc \in Getters
      BY <2>3
    <3>. QED
      BY <2>1, <2>2, <3>1, <3>2 DEF RInv, TypeOK
  <2>6. ConfiguredFirst' /\ DecisionIsCurrent' /\ Seen'
    BY <2>4 DEF ConfiguredFirst, DecisionIsCurrent, Seen, Getters
  <2>7. Loading' /\ Loaded' /\ MainLock'
    BY <2>3, <2>4 DEF Loading, Loaded, MainLock
  <2>. QED
    BY <2>5, <2>6, <2>7 DEF RInv
<1>. QED
  BY <1>1, <1>2, <1>3

-----------------------------------------------------------------------------
(* The reconciles. *)

WorkerType == [pc : Getters \cup {"idle", "decided"}, inject : BOOLEAN,
               during : SUBSET (Configs \cup {Nil})]

\* What RInv says of one worker w that holds n read locks.
WorkerOK(w, n) ==
    /\ w.pc \in (Getters \cup {"decided"}) \ {"IsInitialized"} => conf # Nil
    /\ w.pc = "decided" => \E c \in w.during : w.inject = Injects(c)
    /\ (w.pc = "IstioEnable" /\ n = 1) \/ w.pc = "IstioInject" => conf \in w.during
    /\ n # 0 => w.pc \in Getters

\* RInv says it of each.
LEMMA EachWorkerOK == ASSUME RInv, NEW r \in Workers
                      PROVE  worker[r] \in WorkerType /\ WorkerOK(worker[r], mux.readers[r])
<1>1. worker[r] \in WorkerType
  BY DEF RInv, TypeOK, WorkerType
<1>2. worker[r].pc \in (Getters \cup {"decided"}) \ {"IsInitialized"} => conf # Nil
  BY DEF RInv, ConfiguredFirst, Loaded
<1>3. worker[r].pc = "decided" => \E c \in worker[r].during : worker[r].inject = Injects(c)
  BY DEF RInv, DecisionIsCurrent
<1>4. (worker[r].pc = "IstioEnable" /\ mux.readers[r] = 1) \/ worker[r].pc = "IstioInject"
      => conf \in worker[r].during
  BY DEF RInv, Seen, Holds
<1>5. mux.readers[r] # 0 => worker[r].pc \in Getters
  BY DEF RInv, TypeOK, Holds
<1>. QED
  BY <1>1, <1>2, <1>3, <1>4, <1>5 DEF WorkerOK

\* A step of one worker, which changes its own state and locks only, keeps RInv
\* if it keeps what RInv says of that worker.
LEMMA OneWorker ==
    ASSUME RInv, NEW r \in Workers, Elsewhere,
           NEW w \in WorkerType, worker' = [worker EXCEPT ![r] = w],
           NEW n \in 0 .. 2, mux' = [mux EXCEPT !.readers[r] = n],
           WorkerOK(w, n)
    PROVE  RInv'
<1>. USE DEF Elsewhere, entity
<1>1. worker'[r] = w /\ mux'.readers[r] = n
  BY DEF RInv, TypeOK
<1>2. \A q \in Workers \ {r} : worker'[q] = worker[q] /\ mux'.readers[q] = mux.readers[q]
  BY DEF RInv, TypeOK
<1>3. mux'.readers["main"] = mux.readers["main"]
  BY ConfigAssumption DEF RInv, TypeOK
<1>4. \A q \in Workers : ~Holds(q, 0)' => worker'[q].pc \in Getters
  BY <1>1, <1>2 DEF RInv, TypeOK, WorkerOK, Holds
<1>5. TypeOK'
  <2>1. worker' \in [Workers -> WorkerType]
    BY DEF RInv, TypeOK, WorkerType
  <2>2. mux' \in [readers : [Workers \cup {"main"} -> 0 .. 2], writer : {"none", "waiting"}]
    BY DEF RInv, TypeOK
  <2>. QED
    BY <1>4, <2>1, <2>2 DEF RInv, TypeOK, WorkerType
<1>6. ConfiguredFirst'
  BY <1>1, <1>2 DEF RInv, ConfiguredFirst, WorkerOK
<1>7. DecisionIsCurrent'
  BY <1>1, <1>2 DEF RInv, DecisionIsCurrent, WorkerOK
<1>8. Seen'
  BY <1>1, <1>2 DEF RInv, Seen, WorkerOK, Holds
<1>9. Loaded'
  BY <1>1, <1>2 DEF RInv, Loaded, WorkerOK, Getters
<1>10. Loading' /\ MainLock'
  BY <1>3 DEF RInv, Loading, MainLock, Holds
<1>. QED
  BY <1>5, <1>6, <1>7, <1>8, <1>9, <1>10 DEF RInv

\* The same for a step that moves the worker to another place in the code.
LEMMA Moves ==
    ASSUME RInv, NEW r \in Workers, Elsewhere,
           NEW pc \in Getters \cup {"idle", "decided"}, Goto(r, pc),
           NEW n \in 0 .. 2, mux' = [mux EXCEPT !.readers[r] = n],
           WorkerOK([worker[r] EXCEPT !.pc = pc], n)
    PROVE  RInv'
<1>. DEFINE w == [worker[r] EXCEPT !.pc = pc]
<1>1. w \in WorkerType
  BY EachWorkerOK DEF WorkerType
<1>2. worker' = [worker EXCEPT ![r] = w]
  BY DEF Goto
<1>. QED
  BY <1>1, <1>2, OneWorker

\* Every step of a reconcile keeps RInv.
LEMMA ReconcileRInv == ASSUME RInv, NEW r \in Workers, Begin(r) \/ Reconcile(r) PROVE RInv'
<1>. DEFINE w == worker[r]
            n == mux.readers[r]
<1>0. w \in WorkerType /\ WorkerOK(w, n) /\ n \in 0 .. 2
  BY EachWorkerOK DEF RInv, TypeOK
<1>1. mux = [mux EXCEPT !.readers[r] = n]
  BY DEF RInv, TypeOK
<1>2. worker = [worker EXCEPT ![r] = w]
  BY DEF RInv, TypeOK
<1>3. (initialized => conf # Nil) /\ {0, 1, 2} \subseteq 0 .. 2
  BY DEF RInv, Loaded
<1>4. CASE Begin(r)
  <2>1. WorkerOK([w EXCEPT !.pc = "IsInitialized"], n)
    BY <1>0 DEF WorkerOK, WorkerType, Getters
  <2>. QED
    BY <1>0, <1>1, <1>4, <2>1, Moves DEF Begin, Getters
<1>5. CASE Enter(r)
  <2>. DEFINE v == IF w.pc = "IstioEnable" THEN [w EXCEPT !.during = {conf}] ELSE w
  <2>1. worker' = [worker EXCEPT ![r] = v]
    BY <1>2, <1>5 DEF Enter
  <2>2. mux' = [mux EXCEPT !.readers[r] = 1]
    BY <1>0, <1>5 DEF Enter, RLock, Holds
  <2>3. v \in WorkerType
    BY <1>0 DEF WorkerType, RInv, TypeOK
  <2>4. WorkerOK(v, 1)
    BY <1>0, <1>5 DEF WorkerOK, WorkerType, Enter
  <2>. QED
    BY <1>3, <1>5, <2>1, <2>2, <2>3, <2>4, OneWorker DEF Enter
<1>6. CASE IsInitialized(r)
  <2>. DEFINE pc == IF initialized THEN "IsReady" ELSE "idle"
  <2>1. mux' = [mux EXCEPT !.readers[r] = 0]
    BY <1>6 DEF IsInitialized, RUnlock, Holds
  <2>2. WorkerOK([w EXCEPT !.pc = pc], 0) /\ pc \in Getters \cup {"idle", "decided"}
    BY <1>0, <1>3 DEF WorkerOK, WorkerType, Getters
  <2>. QED
    BY <1>6, <2>1, <2>2, <1>3, Moves DEF IsInitialized
<1>7. CASE IsReady(r)
  <2>. DEFINE pc == IF ready THEN Operate(r) ELSE "idle"
  <2>1. mux' = [mux EXCEPT !.readers[r] = 0]
    BY <1>7 DEF IsReady, RUnlock, Holds
  <2>2. WorkerOK([w EXCEPT !.pc = pc], 0) /\ pc \in Getters \cup {"idle", "decided"}
    BY <1>0, <1>7 DEF WorkerOK, WorkerType, Getters, IsReady, Operate
  <2>. QED
    BY <1>7, <2>1, <2>2, <1>3, Moves DEF IsReady
<1>8. CASE GetDomainNames(r)
  <2>1. mux' = [mux EXCEPT !.readers[r] = 2]
    BY <1>8 DEF GetDomainNames, RLock, Holds
  <2>2. WorkerOK(w, 2)
    BY <1>0, <1>8 DEF WorkerOK, GetDomainNames, Getters
  <2>. QED
    BY <1>0, <1>2, <1>3, <1>8, <2>1, <2>2, OneWorker DEF GetDomainNames
<1>9. CASE GetDomainNameByClass(r)
  <2>1. mux' = [mux EXCEPT !.readers[r] = 0]
    BY <1>9 DEF GetDomainNameByClass, RUnlock, Holds
  <2>2. CASE r \in Defaulting
    <3>1. WorkerOK([w EXCEPT !.pc = "IstioEnable"], 0)
      BY <1>0, <1>9 DEF WorkerOK, WorkerType, Getters, GetDomainNameByClass
    <3>. QED
      BY <1>3, <1>9, <2>1, <2>2, <3>1, Moves DEF GetDomainNameByClass, Getters
  <2>3. CASE r \notin Defaulting
    <3>1. Resting \in WorkerType /\ WorkerOK(Resting, 0)
      BY DEF Resting, WorkerType, WorkerOK, Getters
    <3>. QED
      BY <1>3, <1>9, <2>1, <2>3, <3>1, OneWorker DEF GetDomainNameByClass
  <2>. QED
    BY <2>2, <2>3
<1>10. CASE IstioEnable(r)
  <2>1. mux' = [mux EXCEPT !.readers[r] = 0]
    BY <1>10 DEF IstioEnable, RUnlock, Holds
  <2>2. conf \in w.during /\ conf # Nil
    BY <1>0, <1>10 DEF WorkerOK, Getters, IstioEnable, Holds
  <2>3. CASE conf \in Enabled
    <3>1. WorkerOK([w EXCEPT !.pc = "IstioInject"], 0)
      BY <1>0, <2>2 DEF WorkerOK, WorkerType, Getters
    <3>. QED
      BY <1>10, <2>1, <2>3, <3>1, <1>3, Moves DEF IstioEnable, Getters
  <2>4. CASE conf \notin Enabled
    <3>. DEFINE v == [w EXCEPT !.pc = "decided", !.inject = FALSE]
    <3>1. worker' = [worker EXCEPT ![r] = v]
      BY <1>10, <2>4 DEF IstioEnable, RInv, TypeOK
    <3>2. v \in WorkerType
      BY <1>0 DEF WorkerType
    <3>3. v.inject = Injects(conf)
      <4>1. Injects(conf) = FALSE
        BY <2>4 DEF Injects
      <4>. QED
        BY <1>0, <4>1 DEF WorkerType
    <3>4. WorkerOK(v, 0)
      BY <1>0, <2>2, <3>3 DEF WorkerOK, WorkerType
    <3>. QED
      BY <1>10, <2>1, <3>1, <3>2, <3>4, <1>3, OneWorker DEF IstioEnable
  <2>. QED
    BY <2>3, <2>4
<1>11. CASE IstioInject(r)
  <2>. DEFINE v == [w EXCEPT !.pc = "decided", !.inject = Injects(conf)]
  <2>1. mux' = [mux EXCEPT !.readers[r] = 0]
    BY <1>11 DEF IstioInject, RUnlock, Holds
  <2>2. conf \in w.during /\ conf # Nil
    BY <1>0, <1>11 DEF WorkerOK, Getters, IstioInject
  <2>3. worker' = [worker EXCEPT ![r] = v]
    BY <1>11 DEF IstioInject, RInv, TypeOK
  <2>4. v \in WorkerType
    <3>1. Injects(conf) \in BOOLEAN
      BY DEF Injects
    <3>. QED
      BY <1>0, <3>1 DEF WorkerType
  <2>5. WorkerOK(v, 0)
    BY <1>0, <2>2 DEF WorkerOK, WorkerType
  <2>. QED
    BY <1>11, <2>1, <2>3, <2>4, <2>5, <1>3, OneWorker DEF IstioInject
<1>12. CASE End(r)
  <2>. DEFINE v == IF r \in Entering THEN [Resting EXCEPT !.pc = "GetDomainNameByClass"] ELSE Resting
  <2>1. v \in WorkerType /\ WorkerOK(v, n)
    BY <1>0, <1>12 DEF Resting, WorkerType, WorkerOK, Getters, End
  <2>. QED
    BY <1>0, <1>1, <1>12, <2>1, OneWorker DEF End
<1>. QED
  BY <1>4, <1>5, <1>6, <1>7, <1>8, <1>9, <1>10, <1>11, <1>12 DEF Reconcile

-----------------------------------------------------------------------------

\* RInv holds in every state the process can reach.
THEOREM RInvHolds == Spec => []RInv
<1>1. RInv /\ [Next]_vars => RInv'
  <2>. SUFFICES ASSUME RInv, [Next]_vars PROVE RInv'
    OBVIOUS
  <2>1. CASE \E c \in Configs \cup {Nil} : Edit(c)
    BY <2>1, EditRInv
  <2>2. CASE Load
    BY <2>2, LoadRInv, FromMapRInv DEF Load
  <2>3. CASE Timer
    BY <2>3, TimerRInv
  <2>4. CASE Poll \/ Read \/ Second \/ Deadline \/ Panic
    BY <2>4, MainRInv
  <2>5. CASE \E r \in Workers : Begin(r) \/ Reconcile(r)
    BY <2>5, ReconcileRInv
  <2>6. CASE UNCHANGED vars
    BY <2>6 DEF vars, RInv, TypeOK, ConfiguredFirst, DecisionIsCurrent, Loading, Loaded,
                MainLock, Seen, Holds
  <2>. QED
    BY <2>1, <2>2, <2>3, <2>4, <2>5, <2>6 DEF Next
<1>. QED
  BY InitRInv, <1>1, PTL DEF Spec

\* No reconcile gets past the gate of HandleReconcile before a configuration was loaded,
\* with any number of workers, configurations, edits and panics.
THEOREM GateIsConfigured == Spec => []ConfiguredFirst
BY RInvHolds, PTL DEF RInv

\* IsIstioInject decides as one configuration in force during the call would have it.
THEOREM InjectIsCurrent == Spec => []DecisionIsCurrent
BY RInvHolds, PTL DEF RInv

\* Every variable keeps its type, and a worker holds the lock only inside a getter.
THEOREM ReadinessTyped == Spec => []TypeOK
BY RInvHolds, PTL DEF RInv

-----------------------------------------------------------------------------
(* What the liveness properties rest on, as invariants. *)

\* The last content is in the queue, on its way, or in force; with it comes the timer.
LoadInv ==
    /\ desired # Nil /\ ~due =>
          IF config.pc \in {"lock", "load"} THEN config.data = desired ELSE conf = desired
    /\ conf # Nil => initialized
    /\ initialized => ready \/ timers > 0

LEMMA LoadInvStays == ASSUME RInv, LoadInv, [Next]_vars PROVE LoadInv'
<1>. USE DEF LoadInv, entity
<1>1. CASE \E c \in Configs \cup {Nil} : Edit(c)
  BY <1>1 DEF Edit
<1>2. CASE Get \/ Lock \/ Log
  BY <1>2 DEF Get, Lock, Log, RInv, TypeOK
<1>3. CASE FromMap
  <2>1. timers' = IF ready THEN timers ELSE timers + 1
    BY <1>3 DEF FromMap
  <2>2. ready' = ready /\ timers \in Nat
    BY <1>3 DEF FromMap, RInv, TypeOK
  <2>3. config'.pc = "log" /\ conf' = config.data /\ initialized' = TRUE /\ UNCHANGED <<desired, due>>
    BY <1>3 DEF FromMap, RInv, TypeOK
  <2>4. ready' \/ timers' > 0
    BY <2>1, <2>2
  <2>. QED
    BY <1>3, <2>3, <2>4 DEF FromMap
<1>4. CASE Timer
  BY <1>4 DEF Timer
<1>5. CASE Panic
  BY <1>5 DEF Panic
<1>6. CASE UNCHANGED <<desired, due, entity, config>>
  BY <1>6
<1>. QED
  BY <1>1, <1>2, <1>3, <1>4, <1>5, <1>6
  DEF Next, vars, Load, Poll, Read, Second, Deadline, Begin, Reconcile, Enter, IsInitialized,
      IsReady, GetDomainNames, GetDomainNameByClass, IstioEnable, IstioInject, End, Elsewhere

\* With no event of the ConfigMap under way and its controller at rest, its content is in
\* force, and the operator is ready or a timer will make it so: no edit is lost between two
\* loads, and none to a panic (the ConfigMap's Reconcile, FromMap).
LoadedAtRest ==
    desired # Nil /\ ~due /\ config.pc = "idle" =>
        conf = desired /\ initialized /\ (ready \/ timers > 0)

\* For any number of edits, panics and reconciles.
THEOREM LastContentRests == Spec => []LoadedAtRest
<1>1. Init => LoadInv
  BY DEF Init, LoadInv
<1>2. LoadInv => LoadedAtRest
  BY DEF LoadInv, LoadedAtRest
<1>. QED
  BY <1>1, <1>2, LoadInvStays, RInvHolds, PTL DEF Spec

\* A second read lock is only taken inside GetDomainNameByClass, and a writer only waits in
\* FromMap.
LockInv ==
    /\ mux.writer = "waiting" <=> config.pc = "load"
    /\ \A r \in Workers : Holds(r, 2) => worker[r].pc = "GetDomainNameByClass"

LEMMA LockInvStays == ASSUME RInv, LockInv, [Next]_vars PROVE LockInv'
<1>. USE DEF LockInv
<1>1. CASE Get \/ Lock \/ Log
  <2>1. UNCHANGED worker /\ mux'.readers = mux.readers
    BY <1>1 DEF Get, Lock, Log, RInv, TypeOK
  <2>2. mux'.writer = "waiting" <=> config'.pc = "load"
    BY <1>1 DEF Get, Lock, Log, RInv, TypeOK
  <2>. QED
    BY <2>1, <2>2 DEF Holds
<1>2. CASE FromMap
  <2>1. mux'.writer = "none" /\ config'.pc = "log" /\ mux'.readers = mux.readers
    BY <1>2 DEF FromMap, RInv, TypeOK
  <2>2. \A r \in Workers : ~Holds(r, 2)
    BY <1>2 DEF FromMap, NoReaders, Holds, RInv, TypeOK
  <2>. QED
    BY <2>1, <2>2 DEF Holds
<1>3. CASE Poll \/ Read
  <2>1. UNCHANGED <<worker, config>> /\ mux'.writer = mux.writer
        /\ \A r \in Workers : mux'.readers[r] = mux.readers[r]
    BY <1>3, ConfigAssumption DEF Poll, Read, RLock, RUnlock, RInv, TypeOK
  <2>. QED
    BY <2>1 DEF Holds
<1>4. CASE Panic
  BY <1>4 DEF Panic, Unlocked, Holds
<1>5. ASSUME NEW r \in Workers, Begin(r) \/ Reconcile(r)
      PROVE  LockInv'
  <2>1. UNCHANGED config /\ mux'.writer = mux.writer
    BY <1>5 DEF Begin, Reconcile, Enter, IsInitialized, IsReady, GetDomainNames,
                GetDomainNameByClass, IstioEnable, IstioInject, End, Elsewhere, RLock, RUnlock,
                RInv, TypeOK
  <2>2. \A q \in Workers \ {r} : worker'[q] = worker[q] /\ mux'.readers[q] = mux.readers[q]
    BY <1>5 DEF Begin, Reconcile, Enter, IsInitialized, IsReady, GetDomainNames,
                GetDomainNameByClass, IstioEnable, IstioInject, End, Elsewhere, RLock, RUnlock,
                Goto, RInv, TypeOK
  <2>3. mux.readers[r] \in 0 .. 2
    BY DEF RInv, TypeOK
  <2>4. Holds(r, 2)' => worker'[r].pc = "GetDomainNameByClass"
    <3>1. CASE Begin(r) \/ End(r)
      <4>1. mux.readers[r] = 0
        BY <3>1 DEF Begin, End, RInv, TypeOK, Holds, Getters
      <4>. QED
        BY <3>1, <4>1 DEF Begin, End, Holds
    <3>2. CASE Enter(r)
      <4>1. mux'.readers[r] = 1
        BY <3>2 DEF Enter, RLock, Holds, RInv, TypeOK
      <4>. QED
        BY <4>1 DEF Holds
    <3>3. CASE GetDomainNames(r)
      BY <3>3 DEF GetDomainNames
    <3>4. CASE IsInitialized(r) \/ IsReady(r) \/ GetDomainNameByClass(r) \/ IstioEnable(r)
               \/ IstioInject(r)
      <4>1. mux'.readers[r] = 0
        BY <3>4 DEF IsInitialized, IsReady, GetDomainNameByClass, IstioEnable, IstioInject, RUnlock,
                    Holds, RInv, TypeOK
      <4>. QED
        BY <4>1 DEF Holds
    <3>. QED
      BY <1>5, <3>1, <3>2, <3>3, <3>4 DEF Reconcile
  <2>. QED
    BY <2>1, <2>2, <2>4 DEF Holds
<1>6. CASE UNCHANGED <<mux, config, worker>>
  BY <1>6 DEF Holds
<1>. QED
  BY <1>1, <1>2, <1>3, <1>4, <1>5, <1>6
  DEF Next, vars, Load, Edit, Timer, Second, Deadline

\* What a reader gives back at its next step.
CanUnlock(r) ==
    \/ worker[r].pc \in Getters \ {"GetDomainNameByClass"} /\ Holds(r, 1)
    \/ worker[r].pc = "GetDomainNameByClass" /\ Holds(r, 2)

\* A writer that waits is FromMap, and there is always a step that brings it closer to the
\* lock: its own, one of main or of a reader that unlocks.  The exception is a reader about
\* to take the lock for the second time: no other deadlock is in the code (IstioEnable,
\* IsReady and the other getters, GetDomainNameByClass).
OnlyNestedBlocks ==
    mux.writer = "waiting" =>
        \/ config.pc = "load" /\ NoReaders
        \/ main.pc = "read" \/ (\E r \in Workers : CanUnlock(r)) \/ NestedLock

\* For any number of reconciles and edits.
THEOREM NestedLockAlone == Spec => []OnlyNestedBlocks
<1>1. Init => LockInv
  BY DEF Init, LockInv, Unlocked, Resting, Holds
<1>2. RInv /\ LockInv => OnlyNestedBlocks
  <2>. SUFFICES ASSUME RInv, LockInv, mux.writer = "waiting", ~NoReaders, main.pc # "read"
                PROVE  (\E r \in Workers : CanUnlock(r)) \/ NestedLock
    BY DEF OnlyNestedBlocks, LockInv
  <2>1. PICK r \in Workers : mux.readers[r] # 0
    BY DEF NoReaders, Holds, RInv, TypeOK, MainLock
  <2>2. mux.readers[r] \in {1, 2} /\ worker[r].pc \in Getters
    BY <2>1 DEF RInv, TypeOK, Holds
  <2>. QED
    BY <2>2 DEF LockInv, CanUnlock, NestedLock, Holds
<1>. QED
  BY <1>1, <1>2, LockInvStays, RInvHolds, PTL DEF Spec
=============================================================================
