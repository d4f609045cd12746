\* Two readers race with a writer that may crash and be started again.
SPECIFICATION Spec
CONSTANTS
  r1 = r1
  r2 = r2
  c1 = c1
  c2 = c2
  Readers <- MCReaders
  Cells <- MCCells
  MaxRetries = 2
  MaxWrites = 3
  SeqModulus = 8
SYMMETRY Symmetry
INVARIANTS
  TypeOK
  SuccessorUnblocksReaders
PROPERTY
  ImplementsRegister
