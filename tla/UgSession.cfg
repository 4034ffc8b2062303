CONSTANTS
  None = None
  t1 = t1 t2 = t2
  Task = {t1, t2}
  FsFaults = FALSE
SPECIFICATION Spec
PROPERTY DeadIdNotReused
