----------------------------- MODULE MCSdObjects -----------------------------
(* Instances of SdObjects for TLC. *)
EXTENDS SdObjects

CONSTANTS sd1, c1, c2

OneSD == {sd1}
TwoClaims == {c1, c2}

\* Nothing distinguishes one claim from another: who starts with one, starts with c1.  The
\* claims are switched on at first, without which a reconcile is the same, but shorter; and
\* the application is there, to be lost and found again by user actions.
FirstInit ==
    /\ Init /\ "claims" \in settings /\ app
    /\ \A s \in SDs : sd[s] # Nil => sd[s].want # {c2}

FirstSpec == FirstInit /\ [][Next]_vars /\ Fairness
=============================================================================
