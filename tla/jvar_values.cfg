CONSTANTS
  Var = {a}
  Name = {k}
  Simple = {"integer"}
  Datum = {"x", "y"}
  Object = {1, 2, 3}
  MaxSlots = 2
  MaxPath = 3
SPECIFICATION Spec
INVARIANTS
  TypeOK
  OneOwner
  NoLeak
PROPERTIES
  ValuesPromised
VIEW View
CHECK_DEADLOCK FALSE
