\* Two schedulers come and go while the label is refreshed, or the kernel has no
\* sched_ext.  Deadlock is not checked: without sched_ext and without a
\* configuration, so without a timer, nothing is left to move.
SPECIFICATION Spec
CONSTANTS
  lavd = lavd
  beerland = beerland
  Ops <- MCOps
  NoText = NoText
  Unknown = Unknown
  States <- MCStates
INVARIANTS
  TypeOK
  NoStaleName
PROPERTIES
  LabelCatchesUp
CHECK_DEADLOCK FALSE
