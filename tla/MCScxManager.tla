----------------------------- MODULE MCScxManager -----------------------------
(***************************************************************************)
(* One scheduler the bridge knows and one it does not, two of the profiles *)
(* and a file that has arguments for one of them.                          *)
(***************************************************************************)
EXTENDS ScxManager, SchedModes, TLC

CONSTANTS lavd, custom

MCSched == {lavd}
MCListed == {lavd, custom}

One == << <<"x">> >>
MCArgList == {<< >>, One}
MCTyped == {<< >>, <<"x", " ">>}

MCStockArgs == [p \in Sched \X Mode |-> << >>]
MCDefaultConfig == [BlankConfig EXCEPT !.default_mode = AutoMode]
MCInitialEtc == {[MCDefaultConfig EXCEPT !.scheds[<<lavd, "Gaming">>] = One]}
MCCalmUnits == {[loader |-> FALSE, legacy |-> [enabled |-> FALSE, active |-> TRUE]]}

MCResource ==
  [schedulers |-> lavd :> [title |-> "lavd", hardware |-> <<"amd">>],
   profiles |-> [Auto   |-> [description |-> "auto"],
                 Gaming |-> [byScheduler |-> lavd :> "gaming lavd"]]]
=============================================================================
