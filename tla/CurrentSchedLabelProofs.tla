----------------------- MODULE CurrentSchedLabelProofs -----------------------
(***************************************************************************)
(* Safety of the indicator, for any set of schedulers and kernel states.   *)
(***************************************************************************)
EXTENDS CurrentSchedLabel, TLAPS

\* While the refresh is between its two reads, the name it will find has been
\* in the file since the refresh began.
LabelInv ==
  /\ TypeOK
  /\ NoStaleName
  /\ reading => ops \in seen

\* At first there is no scheduler and no refresh.
LEMMA LabelInit == Init => LabelInv
BY LabelAssumption DEF Init, LabelInv, TypeOK, NoStaleName

\* One step per action: the kernel's moves are seen by a refresh under way, and
\* only a refresh writes the label.
LEMMA LabelNext == LabelInv /\ [Next]_vars => LabelInv'
<1> SUFFICES ASSUME LabelInv, [Next]_vars PROVE LabelInv'
  OBVIOUS
<1> USE LabelAssumption DEF LabelInv, TypeOK, NoStaleName
<1>1. ASSUME NEW s \in Ops, Enabling(s) PROVE LabelInv'
  BY <1>1 DEF Enabling, KernelTo
<1>2. CASE Enabled
  BY <1>2 DEF Enabled, KernelTo
<1>3. CASE Disabling
  BY <1>3 DEF Disabling, KernelTo
<1>4. CASE Removed
  BY <1>4 DEF Removed, KernelTo
<1>5. CASE ReadState
  BY <1>5 DEF ReadState
<1>6. CASE ReadOps
  BY <1>6 DEF ReadOps
<1>7. CASE Block
  BY <1>7 DEF Block
<1>8. CASE Unblock
  BY <1>8 DEF Unblock
<1>9. CASE UNCHANGED vars
  BY <1>9 DEF vars
<1>10. QED
  BY <1>1, <1>2, <1>3, <1>4, <1>5, <1>6, <1>7, <1>8, <1>9 DEF Next

\* The label's types: what the two files can hold, jobs only in a window whose
\* buttons are connected, refreshes only with a timer.
THEOREM LabelTypes == Spec => []TypeOK
<1>1. LabelInv => TypeOK
  BY DEF LabelInv
<1>2. QED
  BY LabelInit, LabelNext, <1>1, PTL DEF Spec

\* However schedulers come and go between the two reads of a refresh, the name
\* it leaves belongs to a scheduler that was loaded while it lasted.
THEOREM LabelNeverStale == Spec => []NoStaleName
<1>1. LabelInv => NoStaleName
  BY DEF LabelInv
<1>2. QED
  BY LabelInit, LabelNext, <1>1, PTL DEF Spec
=============================================================================
