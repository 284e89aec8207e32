----------------------------- MODULE MCRunEngine -----------------------------
(***************************************************************************)
(* Small instances of RunEngine for TLC.                                   *)
(***************************************************************************)
EXTENDS RunEngine

OneWorkflow == {FeatureDevelopment}

(* "research" stands for any workflow id that main does not register.      *)
TwoWorkflows == {FeatureDevelopment, "research"}

=============================================================================
