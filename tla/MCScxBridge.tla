----------------------------- MODULE MCScxBridge -----------------------------
(***************************************************************************)
(* Values for the constants of ScxBridge that a .cfg cannot write.         *)
(***************************************************************************)
EXTENDS ScxBridge, TLC

CONSTANT x

MCStockArgs == [p \in Sched \X Mode |-> x]
MCDefaultConfig == [BlankConfig EXCEPT !.default_mode = AutoMode]
MCListed == Sched
MCInitialEtc == {None, Garbled}
MCNoFile == {None}
MCAnyUnits == Units
MCCalmUnits == {[loader |-> FALSE, legacy |-> [enabled |-> FALSE, active |-> TRUE]]}
\* Two applications are alike.
MCSymmetry == Permutations(Manager)
MCFaultKinds == FaultKinds
=============================================================================
