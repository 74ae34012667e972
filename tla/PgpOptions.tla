------------------------------ MODULE PgpOptions ------------------------------
(***************************************************************************)
(* The two option parsers of src/src/pgp.rs.                               *)
(*                                                                         *)
(* Every pgp_*_encrypt function hands its options text to parse_options,   *)
(* every pgp_*_decrypt function to parse_decrypt_options.  Both split the  *)
(* text at commas, drop the empty pieces and walk the rest from left to    *)
(* right; the first piece they dislike aborts the SQL call.  This module   *)
(* runs both parsers on one text, the way an application does that keeps   *)
(* one options setting for both directions.                                *)
(*                                                                         *)
(* A piece `name=value' is the record [name, value] of the trimmed,        *)
(* lower-case texts.  A piece without `=' is rejected by both parsers, as  *)
(* an unknown name is, and is represented by one.                          *)
(***************************************************************************)
EXTENDS PgpTypes, Sequences

CONSTANTS
  IntOf,    \* what str::parse makes of a text: an integer, or -1 if it is none
  Inputs    \* the option texts of interest, already split into pieces

Text == DOMAIN IntOf

Item == [name : STRING, value : Text]

ASSUME IntOfType == IntOf \in [Text -> Int]
ASSUME InputsType == Inputs \subseteq Seq(Item)

-------------------------------------------------------------------------------
parse_cipher(v) ==
  IF v \in {"bf", "blowfish"} THEN "bf"
  ELSE IF v \in {"aes", "aes128"} THEN "aes128"
  ELSE v

CipherText == Cipher \cup {"blowfish", "aes"}

S2kCipherText == {"bf", "aes", "aes128", "aes192", "aes256"}

LevelRangeTen == 0 .. 10

(* compress-level: one decimal digit. *)
LevelRange == 0 .. 9

MdcTextAny == {"0", "1"}

(* disable-mdc is parsed as a boolean, and refused when it is set. *)
MdcText == {"0"}

(* The options parse_boolean_option reads for parse_options. *)
Switch == {"unicode-mode", "convert-crlf", "sess-key", "ignore-cipher-failure"}

(* The pieces the loop of parse_options accepts. *)
EncryptAccepts(n, v) ==
  \/ n = "cipher-algo" /\ v \in CipherText
  \/ n = "compress-algo" /\ v \in {"0", "1", "2"}
  \/ n = "compress-level" /\ IntOf[v] \in LevelRange
  \/ n \in Switch /\ v \in {"0", "1"}
  \/ n = "s2k-mode" /\ IntOf[v] \in {0, 1, 3}
  \/ n = "s2k-digest-algo" /\ v \in {"md5", "sha1"}
  \/ n = "s2k-cipher-algo" /\ v \in S2kCipherText
  \/ n = "s2k-count" /\ IntOf[v] \in S2kCountRange
  \/ n = "disable-mdc" /\ v \in MdcText

StoreFirstMode(o, n, v) ==
  [cipher            |-> IF n = "cipher-algo" THEN parse_cipher(v) ELSE o.cipher,
   compression       |-> IF n = "compress-algo" THEN v ELSE o.compression,
   compression_level |-> IF n = "compress-level" THEN IntOf[v] ELSE o.compression_level,
   unicode_mode      |-> IF n = "unicode-mode" THEN (v = "1") ELSE o.unicode_mode,
   convert_crlf      |-> IF n = "convert-crlf" THEN (v = "1") ELSE o.convert_crlf,
   s2k_mode          |-> IF n = "s2k-mode" /\ o.s2k_mode = 3 THEN IntOf[v] ELSE o.s2k_mode,
   s2k_count         |-> IF n = "s2k-count" THEN IntOf[v] ELSE o.s2k_count,
   s2k_digest        |-> IF n = "s2k-digest-algo" THEN v ELSE o.s2k_digest,
   s2k_cipher        |-> IF n = "s2k-cipher-algo" THEN parse_cipher(v) ELSE o.s2k_cipher,
   use_session_key   |-> IF n = "sess-key" THEN (v = "1") ELSE o.use_session_key]

(* What an accepted piece does to the options read so far.  disable-mdc     *)
(* and ignore-cipher-failure set nothing.                                   *)
Store(o, n, v) ==
  [cipher            |-> IF n = "cipher-algo" THEN parse_cipher(v) ELSE o.cipher,
   compression       |-> IF n = "compress-algo" THEN v ELSE o.compression,
   compression_level |-> IF n = "compress-level" THEN IntOf[v] ELSE o.compression_level,
   unicode_mode      |-> IF n = "unicode-mode" THEN (v = "1") ELSE o.unicode_mode,
   convert_crlf      |-> IF n = "convert-crlf" THEN (v = "1") ELSE o.convert_crlf,
   s2k_mode          |-> IF n = "s2k-mode" THEN IntOf[v] ELSE o.s2k_mode,
   s2k_count         |-> IF n = "s2k-count" THEN IntOf[v] ELSE o.s2k_count,
   s2k_digest        |-> IF n = "s2k-digest-algo" THEN v ELSE o.s2k_digest,
   s2k_cipher        |-> IF n = "s2k-cipher-algo" THEN parse_cipher(v) ELSE o.s2k_cipher,
   use_session_key   |-> IF n = "sess-key" THEN (v = "1") ELSE o.use_session_key]

EncryptionOnlyShort ==
  {"cipher-algo", "compress-algo", "compress-level", "disable-mdc", "sess-key",
   "s2k-mode", "s2k-count", "s2k-digest-algo", "unicode-mode"}

(* Options parse_decrypt_options skips without looking at their value. *)
EncryptionOnly ==
  {"cipher-algo", "compress-algo", "compress-level", "disable-mdc", "sess-key",
   "s2k-mode", "s2k-count", "s2k-digest-algo", "s2k-cipher-algo", "unicode-mode"}

DecryptAccepts(n, v) ==
  \/ n \in EncryptionOnly
  \/ n \in {"convert-crlf", "ignore-cipher-failure"} /\ v \in {"0", "1"}
-------------------------------------------------------------------------------
Parser == {"encrypt", "decrypt"}

VARIABLES
  input,     \* the pieces of the options text
  pos,       \* pos[p]: the piece parser p looks at next
  status,    \* status[p]: "loop", or how the call of the parser ended
  parsed,    \* PgpOptions of parse_options
  dparsed    \* DecryptOptions of parse_decrypt_options

vars == <<input, pos, status, parsed, dparsed>>

Init ==
  /\ input \in Inputs
  /\ pos = [p \in Parser |-> 1]
  /\ status = [p \in Parser |-> "loop"]
  /\ parsed = DefaultOptions
  /\ dparsed = [convert_crlf |-> FALSE]

Looking(p) == status[p] = "loop" /\ pos[p] <= Len(input)

Finishing(p) == status[p] = "loop" /\ pos[p] > Len(input)

(* The piece in front of the parser aborts the call. *)
Reject(p) ==
  /\ Looking(p)
  /\ LET it == input[pos[p]] IN
       \/ p = "encrypt" /\ ~EncryptAccepts(it.name, it.value)
       \/ p = "decrypt" /\ ~DecryptAccepts(it.name, it.value)
  /\ status' = [status EXCEPT ![p] = "error"]
  /\ UNCHANGED <<input, pos, parsed, dparsed>>

(* One accepted iteration of the loop of parse_options. *)
EncryptItem ==
  /\ Looking("encrypt")
  /\ LET it == input[pos["encrypt"]] IN
       /\ EncryptAccepts(it.name, it.value)
       /\ parsed' = Store(parsed, it.name, it.value)
  /\ pos' = [pos EXCEPT !["encrypt"] = @ + 1]
  /\ UNCHANGED <<input, status, dparsed>>

(* One accepted iteration of the loop of parse_decrypt_options. *)
DecryptItem ==
  /\ Looking("decrypt")
  /\ LET it == input[pos["decrypt"]] IN
       /\ DecryptAccepts(it.name, it.value)
       /\ dparsed' = IF it.name = "convert-crlf"
                       THEN [convert_crlf |-> it.value = "1"]
                       ELSE dparsed
  /\ pos' = [pos EXCEPT !["decrypt"] = @ + 1]
  /\ UNCHANGED <<input, status, parsed>>

CountFitsAnyMode(o) == TRUE

(* The check parse_options makes after its loop. *)
CountFits(o) == o.s2k_count = NoCount \/ o.s2k_mode = 3

EncryptReturn ==
  /\ Finishing("encrypt")
  /\ status' = [status EXCEPT !["encrypt"] = IF CountFits(parsed) THEN "ok" ELSE "error"]
  /\ UNCHANGED <<input, pos, parsed, dparsed>>

DecryptReturn ==
  /\ Finishing("decrypt")
  /\ status' = [status EXCEPT !["decrypt"] = "ok"]
  /\ UNCHANGED <<input, pos, parsed, dparsed>>

Done ==
  /\ \A p \in Parser : status[p] # "loop"
  /\ UNCHANGED vars

Next ==
  \/ \E p \in Parser : Reject(p)
  \/ EncryptItem
  \/ DecryptItem
  \/ EncryptReturn
  \/ DecryptReturn
  \/ Done

Spec == Init /\ [][Next]_vars
-------------------------------------------------------------------------------
(* Whatever texts are read, the loops of both parsers leave options in      *)
(* their ranges: compress-level is a digit, s2k-mode is 0, 1 or 3 (so the   *)
(* unreachable arm of make_s2k is) and s2k-count is one an S2K can hold.    *)
TypeOK ==
  /\ input \in Inputs
  /\ pos \in [Parser -> 1 .. Len(input) + 1]
  /\ status \in [Parser -> {"loop", "ok", "error"}]
  /\ parsed \in PgpOptions
  /\ dparsed \in [convert_crlf : BOOLEAN]

(* A setting accepted when encrypting is accepted when decrypting, and     *)
(* both calls then agree about CRLF conversion: parse_decrypt_options must *)
(* know every name parse_options knows and resolve repetitions alike.      *)
ParsersAgree ==
  (status["encrypt"] = "ok" /\ status["decrypt"] # "loop") =>
    /\ status["decrypt"] = "ok"
    /\ dparsed.convert_crlf = parsed.convert_crlf

(* An accepted text that names s2k-count anywhere ends up with the         *)
(* iterated S2K, whichever of s2k-mode and s2k-count comes first: the      *)
(* check after the loop of parse_options sees the final mode.              *)
CountImpliesIterated ==
  status["encrypt"] = "ok" =>
    \A k \in 1 .. Len(input) : input[k].name = "s2k-count" => parsed.s2k_mode = 3

(* No accepted text asks for a message without integrity protection, not   *)
(* even one that takes the request back later.                             *)
MdcNeverDisabled ==
  status["encrypt"] = "ok" =>
    \A k \in 1 .. Len(input) : input[k].name = "disable-mdc" => input[k].value = "0"

(* The place of the last piece named n among the first m of s, 0 if there   *)
(* is none, as a set with that one element.                                 *)
LastOf(s, m, n) ==
  {k \in 0 .. m : /\ k > 0 => s[k].name = n
                  /\ \A j \in k + 1 .. m : s[j].name # n}

(* x is what the last piece named n among the first m of s makes of its     *)
(* value with f, and d if no piece is named n.                              *)
SetByLast(s, m, n, x, d, f) ==
  \E k \in LastOf(s, m, n) : x = IF k = 0 THEN d ELSE f[s[k].value]

(* How a field reads the text of a value. *)
AsText   == [v \in Text |-> v]
AsCipher == [v \in Text |-> parse_cipher(v)]
AsSwitch == [v \in Text |-> v = "1"]

(* At every iteration of parse_options each field holds what the last piece *)
(* for it among those read says, and its default if there was none: no      *)
(* option touches the field of another, and repetitions resolve to the last.*)
LastSettingWins ==
  LET d == DefaultOptions
      Set(n, x, default, f) == SetByLast(input, pos["encrypt"] - 1, n, x, default, f)
  IN
  /\ Set("cipher-algo", parsed.cipher, d.cipher, AsCipher)
  /\ Set("compress-algo", parsed.compression, d.compression, AsText)
  /\ Set("compress-level", parsed.compression_level, d.compression_level, IntOf)
  /\ Set("unicode-mode", parsed.unicode_mode, d.unicode_mode, AsSwitch)
  /\ Set("convert-crlf", parsed.convert_crlf, d.convert_crlf, AsSwitch)
  /\ Set("s2k-mode", parsed.s2k_mode, d.s2k_mode, IntOf)
  /\ Set("s2k-count", parsed.s2k_count, d.s2k_count, IntOf)
  /\ Set("s2k-digest-algo", parsed.s2k_digest, d.s2k_digest, AsText)
  /\ Set("s2k-cipher-algo", parsed.s2k_cipher, d.s2k_cipher, AsCipher)
  /\ Set("sess-key", parsed.use_session_key, d.use_session_key, AsSwitch)
===============================================================================
