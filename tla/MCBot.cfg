SPECIFICATION Spec
CONSTANTS
  t1 = t1
  t2 = t2
  o1 = o1
  o2 = o2
  o3 = o3
  Tasks = {t1, t2}
  Objects = {o1, o2, o3}
  Templates = {1, 2}
  Variables <- ItsVariables
  v = v
  w = w
  Accounts = {v, w}
  None = None
SYMMETRY Symmetry
INVARIANTS
  TypeOK
  FiltersFitTemplate
  LostAtMostTwice
PROPERTIES
  AccountsLeaveByDelete
  RulesLeaveByDelete
