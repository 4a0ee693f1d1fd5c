SPECIFICATION Spec
CONSTANTS
  root1 = root1
  root2 = root2
  thread1 = thread1
  search = search
  freeze = freeze
  Messages = {root1}
  Conversation <- MCConversation
  Channel <- MCChannel
  Retained = {"root"}
  Tools = {search}
  Known = {search}
  Evolving = {search}
  Denied = {}
  Released = {"tools"}
  Controls = {}
  Operation <- MCOperation
  MaxRounds = 1
  MaxHistory = 3
  MaxRevisions = 1
CHECK_DEADLOCK FALSE
INVARIANT AttributedTools
