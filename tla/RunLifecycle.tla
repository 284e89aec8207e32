---------------------------- MODULE RunLifecycle ----------------------------
(***************************************************************************)
(* What internal/domain and ARCHITECTURE.md promise of a workflow run: it  *)
(* is created NEW, it moves along the edges of CanTransition only, each    *)
(* move checked and made in one step, and a terminal state absorbs it. A   *)
(* run that clients may cancel is let off the last promise as far as the   *)
(* code breaks it, and no further.                                         *)
(***************************************************************************)
EXTENDS Domain

CONSTANTS
  Runs,          \* identifiers of workflow runs
  Cancellable    \* the runs that some client may cancel

VARIABLE state   \* the state of each run, "ABSENT" before it is created

LInit == state = [r \in Runs |-> "ABSENT"]

LCreate(r) ==
  /\ state[r] = "ABSENT"
  /\ state' = [state EXCEPT ![r] = "NEW"]

LMove(r) ==
  \E to \in RunStates :
    /\ CanTransition(state[r], to)
    /\ state' = [state EXCEPT ![r] = to]

(* A cancellation and the worker write the same row, each on the strength  *)
(* of what it read before: one of them overwrites the other's terminal     *)
(* state. Neither DONE nor FAILED is ever taken up again.                  *)
LRace(r) ==
  /\ r \in Cancellable
  /\ IsTerminal(state[r])
  /\ \E to \in RunStates \ {"NEW"} :
       /\ "CANCELED" \in {state[r], to}
       /\ state' = [state EXCEPT ![r] = to]

LNext == \E r \in Runs : LCreate(r) \/ LMove(r) \/ LRace(r)

LSpec == LInit /\ [][LNext]_state

=============================================================================
