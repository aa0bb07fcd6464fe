\* Any number of runs over a project that changes between and during them.
SPECIFICATION Spec
CONSTANTS
  Models = {m1, m2}
  Absent = Absent
  Unreadable = Unreadable
SYMMETRY Symmetry
INVARIANTS IInv
PROPERTIES Configures RemovedGoes AsksToDisconnect RunAgain
