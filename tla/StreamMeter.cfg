SPECIFICATION StreamSpec
CONSTANTS
  OpenAILines <- ChatLines
  AnthropicLines <- MessageLines
  MaxLines = 3
  BufSize = 2
  Nil = Nil
CHECK_DEADLOCK FALSE
INVARIANTS
  BilledAsReceived
  ClientSeesUpstream
PROPERTIES
  CopyEnds
