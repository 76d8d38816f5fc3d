SPECIFICATION Spec
CONSTANTS
  anna = anna
  bert = bert
  None = None
  Undefined = Undefined
  Threw = Threw
  NoBlockPing = NoBlockPing
PROPERTIES CallsEnd  PeersComeBack
CHECK_DEADLOCK FALSE
