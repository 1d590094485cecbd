CONSTANTS
  Exc = {x1, x2}
  Error = {e1, e2}
  Local = {l1, l2, l3}
  Nothing = Nothing
  None = None
  Unknown = Unknown
  MaxWraps = 2
  MaxDepth = 2
SPECIFICATION Spec
INVARIANTS
  TypeOK
  ReferencesValid
PROPERTIES
  PassageKept
