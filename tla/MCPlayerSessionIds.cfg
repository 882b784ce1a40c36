\* Two clients on two network threads, both entering a player that exists.
SPECIFICATION Spec
CONSTANTS
  c1 = c1  c2 = c2  None = None
  Clients <- MCClients
  Home <- MCTwoThreads
  Account <- MCAccount
  Counter0 = 1
  MaxId = 3
  Objects = {1, 2, 3, 4, 5, 6, 7, 8, 9, 10, 11}
  RedisFails = FALSE
INVARIANTS UniqueIds
