\* Default priorities, as the server sends; dead memory keeps its bytes.
SPECIFICATION Spec
CONSTANTS
  m1 = m1  m2 = m2  m3 = m3  e1 = e1  e2 = e2
  NoMsg = NoMsg  Garbage = Garbage  DeadReads = {}
  Msgs <- MCMsgs
  Entities <- MCEntities
  Receiver <- MCReceiver
  Players <- MCPlayers
  Type <- MCType
  Priority <- MCDefaultPriority
  Delay <- MCDelay
  Start = 5
  MaxNow = 5
PROPERTIES HandlesWhatItTook
