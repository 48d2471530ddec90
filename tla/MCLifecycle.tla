----------------------------- MODULE MCLifecycle -----------------------------
(* Instances of Lifecycle for TLC. *)
EXTENDS Lifecycle

CONSTANTS app, plane, sd1

OneSD == {sd1}
OneApp == {app}
OnePlane == {plane}
AppOfAll == [s \in SDs |-> app]
PlaneOfAll == [s \in SDs |-> plane]
NoSD == {}
Everything == Ref
AllButPlanes == {r \in Ref : r[1] # "plane"}
OwningApp == {<<"app", app>>}
Owning == {<<"app", app>>, <<"plane", plane>>}
OnlyPlane == {<<"plane", plane>>}
OnlyDep == {<<"dep", sd1>>}
NoRef == {}

LivePaths == {"create", "mark", "toggle"}
RecreatePaths == {"create", "recreate", "mark"}
MarkPaths == {"mark", "toggle"}
TogglePaths == {"create", "toggle"}
AllPaths == UserActions
FirstTimePaths == UserActions \ {"recreate"}

\* An operator that is up, fairly scheduled.
UpInit == Init /\ phase = "ready"
LiveSpec == UpInit /\ [][Next]_vars /\ Fairness
=============================================================================
