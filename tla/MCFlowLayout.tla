---------------------------- MODULE MCFlowLayout -----------------------------
EXTENDS FlowLayout

MCSize == [w : {1, 2, 4}, h : {1, 3}]
=============================================================================
