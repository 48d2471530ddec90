---------------------------- MODULE MCIngressSync ----------------------------
(* Instances of IngressSync for TLC. *)
EXTENDS IngressSync

CONSTANTS d1, sd1, nginx, vpc

OneDomain == {d1}
OneSD == {sd1}
OneClass == {nginx}
TwoClasses == {nginx, vpc}

\* KubeVela's label: on nothing; on the application; on the ingress of the entry in the
\* class where no SQBDeployment starts.
NoLabel == {}
OnlyApp == {"app"}
OnlyVpc == {<<"entry", <<sd1, vpc>>>>}

\* Nothing distinguishes one class from another, and one closed application from another:
\* SQBDeployments start with nginx, the application with its domain.
NginxInit ==
    /\ Init
    /\ \A s \in SDs : sd[s] # Nil => sd[s].class = nginx
    /\ app # Nil => app.domains = Domains

NginxSpec == NginxInit /\ [][Next]_vars /\ Fairness
=============================================================================
