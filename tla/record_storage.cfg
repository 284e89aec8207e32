\* Two connections, artifacts of two names, one attention, one paging client.
SPECIFICATION FairSpec
CONSTANTS
  Runs = {r1}
  Names = {n1, n2}
  NoName = NoName
  Payloads = {p1}
  Attentions = {a1}
  Answers = {yes, no}
  Connections = {c1, c2}
  NoConnection = NoConnection
  Readers = {reader}
  MaxRecords = 2
INVARIANTS
  TypeOK
  ActiveIsLatest
  ReadersMissNothing
PROPERTIES
  RecordsSpec
  OverwritesRunOut
  LockReleased
