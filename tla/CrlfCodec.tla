------------------------------ MODULE CrlfCodec -------------------------------
(***************************************************************************)
(* crlf_encode and crlf_decode of src/src/pgp.rs, the convert-crlf option.  *)
(*                                                                         *)
(* A call of pgp_*_encrypt with convert-crlf=1 runs the text through       *)
(* crlf_encode, one byte at a time, and stores the result in the literal   *)
(* packet; a call of pgp_*_decrypt with convert-crlf=1 runs the packet's   *)
(* body through crlf_decode.  The packet may also come from another        *)
(* OpenPGP program, with any bytes in it.                                  *)
(*                                                                         *)
(* The code's index runs from 0 to the length, index here from 1 to the    *)
(* length plus 1.  `at' and `kept' are history variables: they record      *)
(* where bytes went and came from, and no action reads them.               *)
(***************************************************************************)
EXTENDS Integers, Sequences

CONSTANTS
  Byte, CR, LF,   \* the bytes that occur, and the two that are special
  Texts           \* the texts to encode and the packet bodies to decode

ASSUME BytesDiffer == CR \in Byte /\ LF \in Byte /\ CR # LF
ASSUME TextsType == Texts \subseteq Seq(Byte)

VARIABLES
  pc,       \* "encode" and "decode": the loop that runs; "done"
  maker,    \* "us" if crlf_encode made the body, "other" if another program did
  text,     \* the argument of crlf_encode
  body,     \* its output so far, then the argument of crlf_decode
  count,    \* how many bytes of text the encoder has consumed
  index,    \* the byte of body the decoder looks at
  output,   \* the decoder's output so far
  at,       \* at[k]: where in body byte k of text was put
  kept      \* kept[k]: where in body byte k of output was found

vars == <<pc, maker, text, body, count, index, output, at, kept>>

Init ==
  /\ \/ maker = "us" /\ pc = "encode" /\ text \in Texts /\ body = << >>
     \/ maker = "other" /\ pc = "decode" /\ text = << >> /\ body \in Texts
  /\ count = 0 /\ index = 1
  /\ output = << >> /\ at = << >> /\ kept = << >>
-------------------------------------------------------------------------------
EncodedPlain(b) == <<b>>

(* What crlf_encode pushes for one byte. *)
Encoded(b) == IF b = LF THEN <<CR, b>> ELSE <<b>>

EncodeByte ==
  /\ pc = "encode" /\ count < Len(text)
  /\ body' = body \o Encoded(text[count + 1])
  /\ count' = count + 1
  /\ at' = Append(at, Len(body'))
  /\ UNCHANGED <<pc, maker, text, index, output, kept>>

EncodeReturn ==
  /\ pc = "encode" /\ count = Len(text)
  /\ pc' = "decode"
  /\ UNCHANGED <<maker, text, body, count, index, output, at, kept>>

SkipsAnyCR(w, i) == w[i] = CR /\ i < Len(w)

SkipsBeforeCR(w, i) == w[i] = CR /\ i < Len(w) /\ w[i + 1] \in {CR, LF}

(* crlf_decode drops the byte at i: it is a CR, and a LF follows. *)
Skips(w, i) == w[i] = CR /\ i < Len(w) /\ w[i + 1] = LF

(* Where the byte that one iteration pushes is. *)
Pushed(w, i) == IF Skips(w, i) THEN i + 1 ELSE i

AdvanceTwice(w, i) == i + 2

Advance(w, i) == Pushed(w, i) + 1

DecodeByte ==
  /\ pc = "decode" /\ index <= Len(body)
  /\ output' = Append(output, body[Pushed(body, index)])
  /\ index' = Advance(body, index)
  /\ kept' = Append(kept, Pushed(body, index))
  /\ UNCHANGED <<pc, maker, text, body, count, at>>

DecodeReturn ==
  /\ pc = "decode" /\ index > Len(body)
  /\ pc' = "done"
  /\ UNCHANGED <<maker, text, body, count, index, output, at, kept>>

Done == pc = "done" /\ UNCHANGED vars

Next == EncodeByte \/ EncodeReturn \/ DecodeByte \/ DecodeReturn \/ Done

Spec == Init /\ [][Next]_vars
-------------------------------------------------------------------------------
(* The loops of crlf_encode and crlf_decode index inside their arguments:   *)
(* the lookahead of the decoder never moves its index past the end.         *)
TypeOK ==
  /\ pc \in {"encode", "decode", "done"}
  /\ maker \in {"us", "other"}
  /\ text \in Seq(Byte) /\ body \in Seq(Byte) /\ output \in Seq(Byte)
  /\ count \in 0 .. Len(text)
  /\ index \in 1 .. Len(body) + 1
  /\ at \in Seq(Nat) /\ kept \in Seq(Nat)

(* Decrypting with convert-crlf=1 what was encrypted with it gives back the *)
(* text, byte for byte, also when the text holds lone CRs, CR LF pairs or   *)
(* ends in a CR: the decoder takes away what the encoder added, no more.    *)
RoundTrip == pc = "done" /\ maker = "us" => output = text

(* The packet body the encoder hands on has no bare LF: every line ends in  *)
(* CR LF, which is what the readers of a text packet expect.                *)
NoBareLF ==
  maker = "us" /\ pc # "encode" =>
    \A i \in 1 .. Len(body) : body[i] = LF => i > 1 /\ body[i - 1] = CR

(* The decoder loses no byte of any body but a CR directly before a LF:     *)
(* its output is, in order, the bytes at all the other places.              *)
DecodeExact ==
  pc = "done" =>
    /\ Len(kept) = Len(output)
    /\ \A k \in 1 .. Len(output) : kept[k] \in 1 .. Len(body) /\ output[k] = body[kept[k]]
    /\ \A j, k \in 1 .. Len(kept) : j < k => kept[j] < kept[k]
    /\ \A i \in 1 .. Len(body) :
         (\E k \in 1 .. Len(kept) : kept[k] = i)
           <=> ~(body[i] = CR /\ i < Len(body) /\ body[i + 1] = LF)
===============================================================================
