------------------------------ MODULE Readiness ------------------------------
(***************************************************************************)
(* From the start of the process to the first event it handles: the        *)
(* ConfigMap controller loads the global configuration behind a            *)
(* reader-writer lock, a timer makes the operator ready, a goroutine of    *)
(* main panics if nothing was loaded in time, and the reconciles ask the   *)
(* configuration, one locked getter after the other.                       *)
(*                                                                         *)
(* Lifecycle sees of all this the phases boot, waiting and ready.          *)
(***************************************************************************)
EXTENDS Naturals, FiniteSets

CONSTANTS
    Workers,        \* the goroutines that reconcile
    Defaulting,     \* those of applications with a domain that lacks its host
    Entering,       \* those of SQBDeployments, whose ingress has a default host
    Configs,        \* contents of the ConfigMap
    Enabled,        \* those with istioEnable
    Injecting,      \* those with istioInject
    Nil,            \* no ConfigMap; the zero value of the configuration
    MaxEdits,       \* bound on the changes of the ConfigMap
    MaxPanics       \* bound on the panics of main

ASSUME ConfigAssumption ==
    /\ Defaulting \subseteq Workers /\ Entering \subseteq Workers \ Defaulting
    /\ Enabled \subseteq Configs /\ Injecting \subseteq Configs /\ Nil \notin Configs
    /\ "main" \notin Workers
ASSUME BoundAssumption == MaxEdits \in Nat /\ MaxPanics \in Nat

VARIABLES
    desired,        \* the ConfigMap, as the informer's cache has it
    due,            \* whether its key is in the queue of the ConfigMap controller
    conf,           \* the fields of SQBConfigMapEntity
    initialized, ready,
    timers,         \* how many readiness timers run
    mux,            \* the RWMutex: read locks held, and the writer
    config,         \* the worker of the ConfigMap controller
    main,           \* initConfig
    worker,         \* the reconciles
    budget          \* edits and panics so far

vars == <<desired, due, conf, initialized, ready, timers, mux, config, main, worker, budget>>

entity == <<conf, initialized, ready, timers>>

Getters == {"IsInitialized", "IsReady", "GetDomainNameByClass", "IstioEnable", "IstioInject"}

-----------------------------------------------------------------------------
(* sync.RWMutex: a writer that waits keeps new readers out. *)

Unlocked == [readers |-> [p \in Workers \cup {"main"} |-> 0], writer |-> "none"]

RLock(p) == mux.writer = "none" /\ mux' = [mux EXCEPT !.readers[p] = @ + 1]
RUnlock(p, n) == mux' = [mux EXCEPT !.readers[p] = @ - n]
Holds(p, n) == mux.readers[p] = n
NoReaders == \A p \in DOMAIN mux.readers : Holds(p, 0)

-----------------------------------------------------------------------------

\* IsIstioInject of an application without the annotation, on one configuration.
Injects(c) == c \in Enabled \cap Injecting

Resting == [pc |-> "idle", inject |-> FALSE, during |-> {}]

Init ==
    /\ desired \in Configs \cup {Nil} /\ due = (desired # Nil)
    /\ conf = Nil /\ initialized = FALSE /\ ready = FALSE /\ timers = 0
    /\ mux = Unlocked
    /\ config = [pc |-> "idle", data |-> Nil]
    /\ main = [pc |-> "poll", deadline |-> FALSE]
    /\ worker = [r \in Workers |-> Resting]
    /\ budget = [edits |-> 0, panics |-> 0]

\* Mutant: once ready, updates of the ConfigMap are filtered.
EditUnseen(c) ==
    /\ c # desired /\ budget.edits < MaxEdits
    /\ budget' = [budget EXCEPT !.edits = @ + 1]
    /\ desired' = c /\ due' = (due \/ ~ready)
    /\ UNCHANGED <<entity, mux, config, main, worker>>

\* The ConfigMap is created, changed or deleted, and the event has arrived.
Edit(c) ==
    /\ c # desired /\ budget.edits < MaxEdits
    /\ budget' = [budget EXCEPT !.edits = @ + 1]
    /\ desired' = c /\ due' = TRUE
    /\ UNCHANGED <<entity, mux, config, main, worker>>

-----------------------------------------------------------------------------
(* The ConfigMap controller *)

\* Mutant: a ConfigMap that is not there is loaded like an empty one.
GetAnyway ==
    /\ config.pc = "idle" /\ due /\ due' = FALSE
    /\ config' = [pc |-> "lock", data |-> desired]
    /\ UNCHANGED <<desired, entity, mux, main, worker, budget>>

\* Reconcile: a ConfigMap that is not there ends it.
Get ==
    /\ config.pc = "idle" /\ due /\ due' = FALSE
    /\ config' = [pc |-> IF desired = Nil THEN "idle" ELSE "lock", data |-> desired]
    /\ UNCHANGED <<desired, entity, mux, main, worker, budget>>

\* FromMap asks for the write lock ...
Lock ==
    /\ config.pc = "lock" /\ mux.writer = "none"
    /\ mux' = [mux EXCEPT !.writer = "waiting"]
    /\ config' = [config EXCEPT !.pc = "load"]
    /\ UNCHANGED <<desired, due, entity, main, worker, budget>>

\* Whoever is in the middle of IsIstioInject sees the new configuration, too.
Witnessed(c) ==
    worker' = [r \in Workers |->
        IF worker[r].pc \in {"IstioEnable", "IstioInject"}
        THEN [worker[r] EXCEPT !.during = @ \cup {c}] ELSE worker[r]]

\* Mutant: the timer is the business of the second load.
FromMapLate ==
    /\ config.pc = "load" /\ NoReaders
    /\ conf' = config.data /\ initialized' = TRUE
    /\ timers' = IF initialized /\ ~ready THEN timers + 1 ELSE timers
    /\ mux' = [mux EXCEPT !.writer = "none"]
    /\ config' = [config EXCEPT !.pc = "log"]
    /\ Witnessed(config.data)
    /\ UNCHANGED <<desired, due, ready, main, budget>>

\* Mutant: the write lock is not given back.
FromMapLocked ==
    /\ config.pc = "load" /\ NoReaders
    /\ conf' = config.data /\ initialized' = TRUE
    /\ timers' = IF ready THEN timers ELSE timers + 1
    /\ config' = [config EXCEPT !.pc = "log"]
    /\ Witnessed(config.data)
    /\ UNCHANGED <<desired, due, ready, mux, main, budget>>

\* ... and has it once the readers are gone: all fields, a timer while not ready, unlock.
FromMap ==
    /\ config.pc = "load" /\ NoReaders
    /\ conf' = config.data /\ initialized' = TRUE
    /\ timers' = IF ready THEN timers ELSE timers + 1
    /\ mux' = [mux EXCEPT !.writer = "none"]
    /\ config' = [config EXCEPT !.pc = "log"]
    /\ Witnessed(config.data)
    /\ UNCHANGED <<desired, due, ready, main, budget>>

\* ToString, for the log: the only writer reads.
Log ==
    /\ config.pc = "log" /\ config' = [config EXCEPT !.pc = "idle"]
    /\ UNCHANGED <<desired, due, entity, mux, main, worker, budget>>

\* A timer fires; its goroutine writes without the lock.
Timer ==
    /\ timers > 0 /\ timers' = timers - 1 /\ ready' = TRUE
    /\ UNCHANGED <<desired, due, conf, initialized, mux, config, main, worker, budget>>

-----------------------------------------------------------------------------
(* initConfig *)

Poll ==
    /\ main.pc = "poll" /\ RLock("main") /\ main' = [main EXCEPT !.pc = "read"]
    /\ UNCHANGED <<desired, due, entity, config, worker, budget>>

Read ==
    /\ main.pc = "read" /\ RUnlock("main", 1)
    /\ main' = [main EXCEPT !.pc = IF initialized THEN "done" ELSE "select"]
    /\ UNCHANGED <<desired, due, entity, config, worker, budget>>

\* time.After wins the select.
Second ==
    /\ main.pc = "select" /\ main' = [main EXCEPT !.pc = "poll"]
    /\ UNCHANGED <<desired, due, entity, mux, config, worker, budget>>

\* Sixty seconds have passed.
Deadline ==
    /\ main.pc # "done" /\ ~main.deadline /\ main' = [main EXCEPT !.deadline = TRUE]
    /\ UNCHANGED <<desired, due, entity, mux, config, worker, budget>>

\* The process dies and is started again; the informer lists the ConfigMap.
Panic ==
    /\ main.pc = "select" /\ main.deadline /\ budget.panics < MaxPanics
    /\ budget' = [budget EXCEPT !.panics = @ + 1]
    /\ due' = (desired # Nil) /\ UNCHANGED desired
    /\ conf' = Nil /\ initialized' = FALSE /\ ready' = FALSE /\ timers' = 0
    /\ mux' = Unlocked
    /\ config' = [pc |-> "idle", data |-> Nil]
    /\ main' = [pc |-> "poll", deadline |-> FALSE]
    /\ worker' = [r \in Workers |-> Resting]

-----------------------------------------------------------------------------
(* A reconcile *)

Elsewhere == UNCHANGED <<desired, due, entity, config, main, budget>>

Goto(r, pc) == worker' = [worker EXCEPT ![r].pc = pc]

\* HandleReconcile begins.
Begin(r) ==
    /\ worker[r].pc = "idle" /\ Goto(r, "IsInitialized")
    /\ UNCHANGED mux /\ Elsewhere

\* Every getter takes the read lock first.
Enter(r) ==
    /\ worker[r].pc \in Getters /\ Holds(r, 0) /\ RLock(r)
    /\ IF worker[r].pc = "IstioEnable"
       THEN worker' = [worker EXCEPT ![r].during = {conf}]
       ELSE UNCHANGED worker
    /\ Elsewhere

\* Not initialized: come back in a second.
IsInitialized(r) ==
    /\ worker[r].pc = "IsInitialized" /\ Holds(r, 1) /\ RUnlock(r, 1)
    /\ Goto(r, IF initialized THEN "IsReady" ELSE "idle")
    /\ Elsewhere

\* Where Operate goes: the default hosts of an application's domains come before istio.
Operate(r) == IF r \in Defaulting THEN "GetDomainNameByClass" ELSE "IstioEnable"

\* Mutant: returns without unlocking when not ready.
IsReadyLeak(r) ==
    /\ worker[r].pc = "IsReady" /\ Holds(r, 1)
    /\ IF ready THEN RUnlock(r, 1) ELSE UNCHANGED mux
    /\ Goto(r, IF ready THEN Operate(r) ELSE "idle")
    /\ Elsewhere

\* Not ready: the event is dropped.
IsReady(r) ==
    /\ worker[r].pc = "IsReady" /\ Holds(r, 1) /\ RUnlock(r, 1)
    /\ Goto(r, IF ready THEN Operate(r) ELSE "idle")
    /\ Elsewhere

\* GetDomainNameByClass calls GetDomainNames, which takes the read lock again ...
GetDomainNames(r) ==
    /\ worker[r].pc = "GetDomainNameByClass" /\ Holds(r, 1) /\ RLock(r)
    /\ UNCHANGED worker /\ Elsewhere

\* ... and both return.
GetDomainNameByClass(r) ==
    /\ worker[r].pc = "GetDomainNameByClass" /\ Holds(r, 2) /\ RUnlock(r, 2)
    /\ IF r \in Defaulting THEN Goto(r, "IstioEnable") ELSE worker' = [worker EXCEPT ![r] = Resting]
    /\ Elsewhere

\* IsIstioInject asks twice: whether istio is enabled ...
IstioEnable(r) ==
    /\ worker[r].pc = "IstioEnable" /\ Holds(r, 1) /\ RUnlock(r, 1)
    /\ IF conf \in Enabled THEN Goto(r, "IstioInject")
       ELSE worker' = [worker EXCEPT ![r].pc = "decided", ![r].inject = FALSE]
    /\ Elsewhere

\* Mutant: the second getter trusts the first.
IstioInjectRaw(r) ==
    /\ worker[r].pc = "IstioInject" /\ Holds(r, 1) /\ RUnlock(r, 1)
    /\ worker' = [worker EXCEPT ![r].pc = "decided", ![r].inject = conf \in Injecting]
    /\ Elsewhere

\* ... and whether to inject, which looks at the first setting again.
IstioInject(r) ==
    /\ worker[r].pc = "IstioInject" /\ Holds(r, 1) /\ RUnlock(r, 1)
    /\ worker' = [worker EXCEPT ![r].pc = "decided", ![r].inject = Injects(conf)]
    /\ Elsewhere

\* The rest of the reconcile; an SQBDeployment's asks for the host of its ingress.
End(r) ==
    /\ worker[r].pc = "decided"
    /\ worker' = [worker EXCEPT ![r] =
                     IF r \in Entering THEN [Resting EXCEPT !.pc = "GetDomainNameByClass"] ELSE Resting]
    /\ UNCHANGED mux /\ Elsewhere

Reconcile(r) ==
    \/ Enter(r) \/ IsInitialized(r) \/ IsReady(r) \/ GetDomainNames(r)
    \/ GetDomainNameByClass(r) \/ IstioEnable(r) \/ IstioInject(r) \/ End(r)

Load == Get \/ Lock \/ FromMap \/ Log

Next ==
    \/ \E c \in Configs \cup {Nil} : Edit(c)
    \/ Load \/ Timer
    \/ Poll \/ Read \/ Second \/ Deadline \/ Panic
    \/ \E r \in Workers : Begin(r) \/ Reconcile(r)

Spec == Init /\ [][Next]_vars

\* Goroutines run and timers fire; edits, events and the deadline need not come.
Fairness ==
    /\ WF_vars(Load) /\ WF_vars(Timer) /\ WF_vars(Poll \/ Read \/ Second)
    /\ \A r \in Workers : WF_vars(Reconcile(r))

LiveSpec == Spec /\ Fairness

-----------------------------------------------------------------------------
(* Properties *)

\* Every variable has its type; who holds the lock is in a getter.
TypeOK ==
    /\ desired \in Configs \cup {Nil} /\ due \in BOOLEAN /\ conf \in Configs \cup {Nil}
    /\ initialized \in BOOLEAN /\ ready \in BOOLEAN /\ timers \in Nat
    /\ mux \in [readers : [Workers \cup {"main"} -> 0 .. 2], writer : {"none", "waiting"}]
    /\ config \in [pc : {"idle", "lock", "load", "log"}, data : Configs \cup {Nil}]
    /\ main \in [pc : {"poll", "read", "select", "done"}, deadline : BOOLEAN]
    /\ worker \in [Workers -> [pc : Getters \cup {"idle", "decided"}, inject : BOOLEAN,
                               during : SUBSET (Configs \cup {Nil})]]
    /\ budget \in [edits : Nat, panics : Nat]
    /\ \A r \in Workers : ~Holds(r, 0) => worker[r].pc \in Getters

\* No reconcile gets past the gate of HandleReconcile before a configuration was
\* loaded, however loads, timers, edits and panics interleave.
ConfiguredFirst ==
    \A r \in Workers :
        worker[r].pc \in (Getters \cup {"decided"}) \ {"IsInitialized", "IsReady"} => conf # Nil

\* Although IsIstioInject reads the configuration twice and lets go of the lock in
\* between, what it decides is right for one configuration in force meanwhile.
DecisionIsCurrent ==
    \A r \in Workers :
        worker[r].pc = "decided" => \E c \in worker[r].during : worker[r].inject = Injects(c)

\* A reader inside GetDomainNameByClass about to lock again, and a writer that waits for it.
NestedLock ==
    mux.writer = "waiting" /\ \E r \in Workers : worker[r].pc = "GetDomainNameByClass" /\ Holds(r, 1)

\* The last content of the ConfigMap ends up in force ("changes of the configuration
\* take effect for the services created later", README.md).
EditsApplied == <>[](desired # Nil => conf = desired)

\* The same, and nothing but the nested read lock stands against it (FromMap).
EditsAppliedOrNested == EditsApplied \/ <>NestedLock

\* Once there is a ConfigMap the operator becomes ready, panics of main notwithstanding.
BecomesReady == <>[](desired # Nil => ready)

\* A reconcile that has begun ends: nobody waits for the lock for ever, unless two
\* calls of it are nested (HandleReconcile, IsIstioInject).
ReconcilesEndOrNested ==
    \A r \in Workers : (worker[r].pc # "idle") ~> (worker[r].pc = "idle" \/ NestedLock)
=============================================================================
