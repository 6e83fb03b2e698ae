\* A window that is moved from one handle to another.
SPECIFICATION Spec
CONSTANTS
  Handle = {h1, h2}
  Impl = {w1}
  Parent = {p1}
  Null = Null
INVARIANTS
  OneHandleDeletes
CHECK_DEADLOCK FALSE
