---------------------------- MODULE AgentAttempts ----------------------------
(***************************************************************************)
(* What agents.Runner promises the stages of one run: each call of Run is  *)
(* one attempt, one at a time. An attempt either gives up, or its agent    *)
(* completes once and says what it did; from then on Run stores items of   *)
(* what was said, and of nothing else, and it returns what was said when   *)
(* all of it is stored. There are no sessions here, no polls, no streams   *)
(* and no events; AgentSession shows that Run keeps this promise.          *)
(***************************************************************************)
EXTENDS Naturals, Sequences

CONSTANTS
  MaxAttempts,  \* bound on the calls of Run
  Kinds,        \* the values of Outcome.Kind
  Names,        \* names of artifacts
  Classes       \* classes of findings

VARIABLES
  attempts,  \* the number of attempts so far; the last one is under way or over
  step,      \* what the last attempt is doing
  said,      \* the Outcome of the attempt whose items are being stored
  returned,  \* what Run returned for each attempt
  versions,  \* the versions of each artifact, each with its attempt
  found      \* the findings, each with its attempt

attemptVars == <<attempts, step, said, returned, versions, found>>

Outcome == [kind : Kinds, artifacts : SUBSET Names, findings : SUBSET Classes]
Nothing == [kind |-> "pending"]
Failure == [kind |-> "error"]

AInit ==
  /\ attempts = 0
  /\ step = "idle"
  /\ said = Nothing
  /\ returned = [a \in 1 .. MaxAttempts |-> Nothing]
  /\ versions = [n \in Names |-> <<>>]
  /\ found = {}

Ends(attempt, what) ==
  /\ step' = "idle"
  /\ said' = Nothing
  /\ returned' = [returned EXCEPT ![attempt] = what]

(* An attempt begins, or fails as soon as it has begun.                    *)
Begin ==
  /\ step = "idle"
  /\ attempts < MaxAttempts
  /\ attempts' = attempts + 1
  /\ \/ step' = "running" /\ UNCHANGED <<said, returned>>
     \/ Ends(attempts + 1, Failure)
  /\ UNCHANGED <<versions, found>>

Complete ==
  /\ step = "running"
  /\ step' = "storing"
  /\ said' \in Outcome
  /\ UNCHANGED <<attempts, returned, versions, found>>

StoreArtifact ==
  /\ step = "storing"
  /\ \E n \in said.artifacts : versions' = [versions EXCEPT ![n] = Append(@, attempts)]
  /\ UNCHANGED <<attempts, step, said, returned, found>>

StoreFinding ==
  /\ step = "storing"
  /\ \E c \in said.findings : found' = found \union {[session |-> attempts, class |-> c]}
  /\ UNCHANGED <<attempts, step, said, returned, versions>>

IsLatest(n) == versions[n] # <<>> /\ versions[n][Len(versions[n])] = attempts

Return ==
  /\ step = "storing"
  /\ \A n \in said.artifacts : IsLatest(n)
  /\ \A c \in said.findings : [session |-> attempts, class |-> c] \in found
  /\ Ends(attempts, said)
  /\ UNCHANGED <<attempts, versions, found>>

GiveUp ==
  /\ step # "idle"
  /\ Ends(attempts, Failure)
  /\ UNCHANGED <<attempts, versions, found>>

ANext == Begin \/ Complete \/ StoreArtifact \/ StoreFinding \/ Return \/ GiveUp

ASpec == AInit /\ [][ANext]_attemptVars

=============================================================================
