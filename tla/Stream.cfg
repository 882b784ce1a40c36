\* Four messages of any kinds; a read holds up to two and a half.
SPECIFICATION Spec
CONSTANTS
  N = 4
  FieldLen = 2
  BufferSize = 10
CHECK_DEADLOCK FALSE
INVARIANTS TypeOK InStep OnceInOrder NearStuff WholeServed
PROPERTIES ReadsOn
