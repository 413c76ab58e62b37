CONSTANTS
  Payload = {a, b}
  NoPayload = NoPayload
  Capacity = 3
  MaxSeq = 7
  MaxBatch = 2
SPECIFICATION Spec
INVARIANTS AnswersWhenComplete ReturnsWhatWasMissed
PROPERTY ImplementsWindow
