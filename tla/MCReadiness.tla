----------------------------- MODULE MCReadiness -----------------------------
(* Instances of Readiness for TLC. *)
EXTENDS Readiness

CONSTANTS app, sd, plain, meshed

TwoWorkers == {app, sd}
Nobody == {}
Applications == {app}
SQBDeployments == {sd}
TwoConfigs == {plain, meshed}
MeshedOnly == {meshed}
PlainOnly == {plain}
=============================================================================
