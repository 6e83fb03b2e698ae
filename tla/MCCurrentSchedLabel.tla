------------------------- MODULE MCCurrentSchedLabel --------------------------
EXTENDS CurrentSchedLabel

CONSTANTS lavd, beerland

\* Two schedulers, so that one can replace the other between two reads.
MCOps == {lavd, beerland}
MCStates == {"disabled", "enabling", "disabling"}
=============================================================================
