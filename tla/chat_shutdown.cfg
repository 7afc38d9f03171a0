SPECIFICATION Spec

CONSTANTS
  Session = {}
  Watcher = {}
  Message = {}
  Reply = {r1, r2}
  Ending = {}
  NoMessage = NoMessage
  MaxConv = 1
  ChannelSize = 1
  QueueSize = 2
  MaxOpened = 0
  MaxFaults = 1

PROPERTY ShutdownKeepsReplies
CHECK_DEADLOCK FALSE
