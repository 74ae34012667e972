------------------------------ MODULE PgpPayload ------------------------------
(***************************************************************************)
(* What src/src/pgp.rs puts into the literal packet of a message and how   *)
(* it turns the packet back into an SQL value (write_payload,              *)
(* inspect_literal_format, decrypted_text).                                *)
(*                                                                         *)
(* Compression wraps the literal packet and is undone by the reader before *)
(* anything looks at the packet, so it is left out.  The two CRLF          *)
(* conversions are parameters here: CrlfCodec models their loops and       *)
(* CrlfCodecProofs proves CrlfLossless of them.                            *)
(***************************************************************************)
EXTENDS PgpTypes

CONSTANTS
  Data,          \* the values to encrypt, as bytes
  Bodies,        \* the contents of literal packets, Data among them
  HasNul,        \* the contents with a NUL byte
  Utf8,          \* the contents that are valid UTF-8
  crlf_encode,
  crlf_decode,
  NoValue        \* in place of the value of a call that ends with an error

ASSUME PayloadTypes ==
  /\ Data \subseteq Bodies /\ HasNul \subseteq Bodies /\ Utf8 \subseteq Bodies
  /\ NoValue \notin Bodies
  /\ crlf_encode \in [Data -> Bodies]
  /\ crlf_decode \in [Bodies -> Bodies]

ASSUME CrlfLossless == \A d \in Data : crlf_decode[crlf_encode[d]] = d

(* The values of the SQL type text. *)
TextData == {d \in Data : d \in Utf8 /\ d \notin HasNul}

(* The SQL type a function takes or returns. *)
SqlType == {"text", "bytea"}

(* DataFormat; other programs also write formats this code does not know. *)
Format == {"binary", "text", "unicode", "unknown"}

Literal == [format : Format, body : Bodies]

(* write_payload converts line endings of text only. *)
Converts(t, o) == t = "text" /\ o.convert_crlf

write_payload(d, t, o) ==
  [format |-> IF t = "bytea" THEN "binary"
              ELSE IF o.unicode_mode THEN "unicode" ELSE "text",
   body   |-> IF Converts(t, o) THEN crlf_encode[d] ELSE d]

(* How a call ends: with a value, or with an error and none. *)
Ok(v) == [outcome |-> "ok", value |-> v]
Fail(e) == [outcome |-> e, value |-> NoValue]

decrypted_text_nul(l, crlf) ==
  LET d == IF crlf THEN crlf_decode[l.body] ELSE l.body IN
  IF l.format \notin {"text", "unicode"} THEN Fail("not text")
  ELSE IF d \notin Utf8 THEN Fail("not UTF-8")
  ELSE Ok(d)

decrypted_text(l, crlf) ==
  LET d == IF crlf THEN crlf_decode[l.body] ELSE l.body IN
  IF l.format \notin {"text", "unicode"} THEN Fail("not text")
  ELSE IF d \in HasNul THEN Fail("NUL byte")
  ELSE IF d \notin Utf8 THEN Fail("not UTF-8")
  ELSE Ok(d)

(* The value a decrypt function makes of the packet: pgp_*_decrypt_bytea    *)
(* hands on the bytes, whatever convert-crlf says.                          *)
Returned(l, t, crlf) == IF t = "bytea" THEN Ok(l.body) ELSE decrypted_text(l, crlf)
===============================================================================
