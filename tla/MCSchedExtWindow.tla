--------------------------- MODULE MCSchedExtWindow ---------------------------
(***************************************************************************)
(* Three schedulers: one with profiles, one without, and one the catalogue *)
(* and the bridge do not know.  The catalogue has one profile of each      *)
(* kind: with a description and one of the scheduler's own, with only the  *)
(* one or the other, with an empty one, and none at all.                   *)
(***************************************************************************)
EXTENDS SchedExtWindow, TLC

CONSTANTS lavd, beerland, custom

MCSched == {lavd, beerland}
MCListed == {lavd, beerland, custom}

One == << <<"x">> >>
Two == << <<"x">>, <<"x">> >>
Gap == << <<"x">>, << >>, <<"x">> >>
Spaced == << <<"x", " ", "x">> >>     \* only a hand-edited file can hold it
Hollow == << << >> >>
MCArgList == {<< >>, One, Two, Gap, Spaced, Hollow}
MCTyped == {<< >>, <<" ", "x", "\t">>, <<"x", " ", " ", "x">>}

MCStockArgs ==
  [p \in Sched \X Mode |-> IF p = <<lavd, "Gaming">> THEN One ELSE << >>]
MCDefaultConfig == BlankConfig
MCSavedConfig == {BlankConfig, WithArgs(BlankConfig, lavd, "Server", Spaced)}

MCResource ==
  [schedulers |-> (lavd :> [title |-> "lavd", hardware |-> <<"amd">>, workloads |-> <<"games">>])
                  @@ (beerland :> [title |-> "beerland", workloads |-> <<"servers">>]),
   profiles |-> [Auto       |-> [description |-> "auto", byScheduler |-> beerland :> "auto beer"],
                 Gaming     |-> [description |-> "gaming", byScheduler |-> lavd :> "gaming lavd"],
                 Powersave  |-> [description |-> "power", byScheduler |-> lavd :> ""],
                 Lowlatency |-> [byScheduler |-> lavd :> "latency lavd"]]]
=============================================================================
