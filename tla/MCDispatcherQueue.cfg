\* Mixed priorities, senders and registrations interleaved with the dispatcher.
SPECIFICATION Spec
CONSTANTS
  m1 = m1  m2 = m2  m3 = m3  e1 = e1  e2 = e2
  NoMsg = NoMsg  Garbage = Garbage  DeadReads = {Garbage}
  Msgs <- MCMsgs
  Entities <- MCEntities
  Receiver <- MCReceiver
  Players <- MCPlayers
  Type <- MCType
  Priority <- MCPriority
  Delay <- MCDelay
  Start = 5
  MaxNow = 6
INVARIANTS TypeOK Conservation OneCallPerPop
PROPERTIES UrgentFirst Drains
