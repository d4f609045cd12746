\* One reader races with a writer that may crash and be started again.
SPECIFICATION Spec
CONSTANTS
  r1 = r1
  c1 = c1
  c2 = c2
  Readers <- MCReaders
  Cells <- MCCells
  MaxRetries = 3
  MaxWrites = 4
  SeqModulus = 16
SYMMETRY Symmetry
INVARIANTS
  TypeOK
  RetriesNeedWrites
  RelaxedWholeUnlessReused
PROPERTY
  ImplementsRegister
