\* Two clients answer one attention at once.
SPECIFICATION Spec
CONSTANTS
  Runs = {r1}
  Names = {n1}
  NoName = NoName
  Payloads = {p1}
  Attentions = {a1}
  Answers = {yes, no}
  Connections = {c1, c2}
  NoConnection = NoConnection
  Readers = {reader}
  MaxRecords = 2
PROPERTIES
  AnswerIsFinal
