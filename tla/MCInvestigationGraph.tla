----------------------- MODULE MCInvestigationGraph -----------------------
(* Model-checking instance of InvestigationGraph: a diagnostic check, two  *)
(* runbook searches for a pool of one, and a check outside the policy.     *)
EXTENDS InvestigationGraph

CONSTANTS diagnostic, search, search2, forbidden

Checks == {diagnostic, search, search2, forbidden}
Searches == {search, search2}
Permitted == {diagnostic, search, search2}
=============================================================================
