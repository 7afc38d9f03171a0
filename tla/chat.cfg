SPECIFICATION MCSpec

CONSTANTS
  s1 = s1
  m1 = m1
  r1 = r1
  Session = {s1, s2}
  Watcher = {w1}
  Message = {m1, m2}
  Reply = {r1, r2}
  Ending = {e1}
  NoMessage = NoMessage
  MaxConv = 3
  ChannelSize = 1
  QueueSize = 1
  MaxOpened = 2
  MaxFaults = 2

INVARIANT ShownIsStored
PROPERTY UserSkipsNoConversation
PROPERTY RepliesKept
PROPERTY SentReplyStored
PROPERTY ConversationGreeted
CHECK_DEADLOCK FALSE
