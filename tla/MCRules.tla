------------------------------- MODULE MCRules -------------------------------
(* Instances of RulesConfig for TLC: a rule of a user is a model value, the   *)
(* rule of a provider and those of a profile are strings.                     *)
EXTENDS RulesConfig

CONSTANTS u1, u2, a

Set(n) == "set-" \o n

\* Downloads are explored with one custom rule at most.
FewDuringDownload == jobs = {} \/ Len(OrEmpty(custom)) <= 1

TwoContents ==
  {[rules |-> <<"p1">>, providers |-> {}],
   [rules |-> <<Set("n"), "p1">>, providers |-> {}]}
=============================================================================
