SPECIFICATION KSpec
CONSTANTS
  Conn = {c1, c2}
  NoConn = NoConn
  Kinds <- OneKind
  e = e  f = f
  Sets = {e, f}
  Empty = e
  Room = 1
INVARIANTS
  KTypeOK
  AnswerComesFirst
CHECK_DEADLOCK FALSE
PROPERTIES
  SubscriberFollows
  ClosedIsForgotten
