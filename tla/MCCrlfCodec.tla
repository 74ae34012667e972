----------------------------- MODULE MCCrlfCodec ------------------------------
(* Every text of up to six bytes over CR, LF and one ordinary byte. *)
EXTENDS CrlfCodec, SequencesExt

MCByte == {"a", "CR", "LF"}

MCTexts == BoundedSeq(MCByte, 6)
===============================================================================
