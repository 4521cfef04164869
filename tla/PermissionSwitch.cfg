SPECIFICATION Spec
CONSTANTS
  Tools = {bash}
  Inputs = {plain, special}
INVARIANTS TypeOK AuthorityBounds
PROPERTY RaisingModeNeverDenies
