\* A client polls a run's events and goes on from latest_seq.
SPECIFICATION Spec
CONSTANTS
  Runs = {r1}
  Names = {n1}
  NoName = NoName
  Payloads = {p1}
  Attentions = {a1}
  Answers = {yes, no}
  Connections = {c1, c2}
  NoConnection = NoConnection
  Readers = {reader}
  MaxRecords = 2
INVARIANTS
  PollsSkipDelivered
