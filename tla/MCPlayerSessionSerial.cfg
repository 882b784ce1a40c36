\* Two clients on one network thread, one entering a player not created yet; Redis may fail.
SPECIFICATION Spec
CONSTANTS
  c1 = c1  c2 = c2  None = None
  Clients <- MCClients
  Home <- MCOneThread
  Account <- MCAccountAhead
  Counter0 = 1
  MaxId = 3
  Objects = {1, 2, 3, 4, 5, 6, 7, 8, 9, 10, 11}
  RedisFails = TRUE
INVARIANTS TypeOK UniqueIfIssued FoundById
PROPERTIES RecordKept ReturnsIfIssued
