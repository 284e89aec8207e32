--------------------------- MODULE MCAgentSession ---------------------------
(* Reports for TLC: two artifacts and a finding beside items that say too  *)
(* little; and data that is no report.                                     *)
EXTENDS AgentSession

Report(outcome, parses, artifacts, findings) ==
  [outcome |-> outcome, parses |-> parses, error |-> FALSE,
   artifacts |-> artifacts, findings |-> findings]

MCReports ==
  {Report("revise", TRUE, <<"spec", Blank, "plan">>, <<Blank, "IMPLEMENTATION_BUG">>),
   Report("failed", FALSE, <<"spec">>, <<>>)}

=============================================================================
