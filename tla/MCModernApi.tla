------------------------------ MODULE MCModernApi -----------------------------
(* Cuts at and beside the borders of the fields of every layout. *)
EXTENDS ModernApi

MCTexts == {<< >>, <<<<"x", 0, 1>>>>}
MCKeys == {[id |-> "a", len |-> 32], [id |-> "b", len |-> 32], [id |-> "a", len |-> 64]}
MCCuts == {0, 23, 24, 32, 39, 40, 47, 48, 63, 64, 65}
MCLengths == {-1, 0, 1, 32, 8160, 8161, 16320, 16321}
===============================================================================
