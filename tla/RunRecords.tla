----------------------------- MODULE RunRecords -----------------------------
(***************************************************************************)
(* What internal/domain says of the append-only records of a run, in the   *)
(* types that keep them in memory: EventLog, RunClarifications and         *)
(* RunArtifacts. Each operation is one step, nothing is ever taken back,   *)
(* numbers and versions have no gaps, and the artifact added last is the   *)
(* active one. The repository keeps the same records in SQLite, for        *)
(* callers that run at once; RunDatabase shows that it keeps this promise. *)
(***************************************************************************)
EXTENDS Naturals, Sequences

CONSTANTS
  Runs,      \* identifiers of workflow runs
  Names,     \* the kind and name of an artifact
  Payloads   \* what an event, a clarification or an artifact says

VARIABLES
  log,             \* EventLog.entries
  clarifications,  \* RunClarifications.Items
  history,         \* RunArtifacts.items: the versions of each artifact
  active           \* RunArtifacts.latest: the version of the last one added

recordVars == <<log, clarifications, history, active>>

RInit ==
  /\ log = [r \in Runs |-> <<>>]
  /\ clarifications = [r \in Runs |-> <<>>]
  /\ history = [r \in Runs |-> [n \in Names |-> <<>>]]
  /\ active = [r \in Runs |-> [n \in Names |-> 0]]

(* EventLog.Append: prev_seq is the number of the entry before.            *)
AppendEvent(r, data) ==
  LET n == Len(log[r]) IN
  /\ log' = [log EXCEPT ![r] =
       Append(@, [seq |-> n + 1, prev |-> IF n = 0 THEN 0 ELSE @[n].seq, data |-> data])]
  /\ UNCHANGED <<clarifications, history, active>>

(* RunClarifications.Add                                                   *)
AddClarification(r, data) ==
  /\ clarifications' = [clarifications EXCEPT ![r] =
       Append(@, [seq |-> Len(@) + 1, data |-> data])]
  /\ UNCHANGED <<log, history, active>>

(* RunArtifacts.Add: the versions of each kind and name count from 1.      *)
AddArtifact(r, n, data) ==
  /\ history' = [history EXCEPT ![r][n] =
       Append(@, [version |-> Len(@) + 1, data |-> data])]
  /\ active' = [active EXCEPT ![r][n] = Len(history[r][n]) + 1]
  /\ UNCHANGED <<log, clarifications>>

RNext ==
  \E r \in Runs, data \in Payloads :
    \/ AppendEvent(r, data)
    \/ AddClarification(r, data)
    \/ \E n \in Names : AddArtifact(r, n, data)

RSpec == RInit /\ [][RNext]_recordVars

=============================================================================
