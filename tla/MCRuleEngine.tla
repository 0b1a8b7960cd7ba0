---------------------------- MODULE MCRuleEngine ----------------------------
(* RuleEngine on small checklists, for TLC. *)
EXTENDS RuleEngine
=============================================================================
