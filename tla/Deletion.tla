------------------------------ MODULE Deletion ------------------------------
(***************************************************************************)
(* What the delete annotation promises.  Owners (applications, planes) and *)
(* children (SQBDeployments) carry a mark once a user has put the checksum *)
(* of the name on them, or on an owner of theirs; each child may have a    *)
(* workload, and each owner lists workloads in its status.  The operator   *)
(* removes nothing that nobody asked it to, ends a workload before its     *)
(* child goes, and lets no workload vanish that a status still lists.      *)
(***************************************************************************)
EXTENDS Naturals

CONSTANTS
    Owners, Children,
    Owns                \* <<owner, child>>: the child carries the owner's label

VARIABLES
    there,      \* the owners and children that exist
    marked,     \* those with the mark
    deps,       \* each child's workload: "none", "running", "ending"
    listed,     \* each owner's status: the children whose workloads it names
    asked,      \* whatever a user ever put the mark on
    users       \* user actions so far

vars == <<there, marked, deps, listed, asked, users>>

Deployed == {c \in Children : deps[c] # "none"}

\* The deletion of c was asked for, on c or on an owner.
Asked(c) == c \in asked \/ \E x \in asked : <<x, c>> \in Owns

Init ==
    /\ there \subseteq Owners \cup Children
    /\ deps \in [Children -> {"none", "running"}]
    /\ listed \in [Owners -> SUBSET Deployed]
    /\ marked = {} /\ asked = {} /\ users = 0

-----------------------------------------------------------------------------
(* Users *)

Create(x) ==
    /\ x \notin there /\ there' = there \cup {x}
    /\ UNCHANGED <<marked, listed, asked>>

Ask(x) ==
    /\ x \in there /\ marked' = marked \cup {x} /\ asked' = asked \cup {x}
    /\ UNCHANGED <<there, listed>>

\* What is gone has no mark and no status.
Gone(x) ==
    /\ x \in there /\ there' = there \ {x} /\ marked' = marked \ {x}
    /\ listed' = [o \in Owners |-> IF o = x THEN {} ELSE listed[o]]

Delete(x) == Gone(x) /\ UNCHANGED asked

Edit == UNCHANGED <<there, marked, listed, asked>>

User ==
    /\ users' = users + 1 /\ UNCHANGED deps
    /\ Edit \/ \E x \in Owners \cup Children : Create(x) \/ Ask(x) \/ Delete(x)

-----------------------------------------------------------------------------
(* The operator *)

\* The cascade marks a child of a marked owner.
Mark(c) ==
    /\ c \in there /\ Asked(c) /\ marked' = marked \cup {c}
    /\ UNCHANGED <<there, deps, listed>>

Workload(c, from, to) ==
    /\ deps[c] = from /\ deps' = [deps EXCEPT ![c] = to]
    /\ UNCHANGED <<there, marked, listed>>

Deploy(c) == Workload(c, "none", "running")
End(c) == Workload(c, "running", "ending") /\ Asked(c)
Vanish(c) == Workload(c, "ending", "none") /\ \A x \in Owners : c \notin listed[x]

\* A status is written; it names what is deployed.
List(x) ==
    /\ x \in there
    /\ \E C \in SUBSET Deployed : listed' = [listed EXCEPT ![x] = C]
    /\ UNCHANGED <<there, marked, deps>>

RemoveOwner(x) == x \in asked /\ Gone(x) /\ UNCHANGED deps

RemoveChild(c) == Asked(c) /\ deps[c] # "running" /\ Gone(c) /\ UNCHANGED deps

Operator ==
    /\ UNCHANGED <<asked, users>>
    /\ \/ \E x \in Owners : RemoveOwner(x) \/ List(x)
       \/ \E c \in Children : Mark(c) \/ Deploy(c) \/ End(c) \/ Vanish(c) \/ RemoveChild(c)

-----------------------------------------------------------------------------
Next == User \/ Operator

Spec == Init /\ [][Next]_vars
=============================================================================
