------------------------------ MODULE PgpSetting ------------------------------
(***************************************************************************)
(* An application that keeps one options text for both directions: the two *)
(* parsers of PgpOptions in front of the pgp_sym_* functions of PgpSym.    *)
(* pgp_sym_encrypt runs with what parse_options made of the text,          *)
(* pgp_sym_decrypt with what parse_decrypt_options made of it.             *)
(***************************************************************************)
EXTENDS PgpSym

CONSTANTS IntOf, Inputs

VARIABLES input, pos, status, parsed, dparsed

Parsers == INSTANCE PgpOptions

ASSUME SettingConstants ==
  /\ IntOf \in [DOMAIN IntOf -> Int]
  /\ Inputs \subseteq Seq([name : STRING, value : DOMAIN IntOf])

pvars == <<input, pos, status, parsed, dparsed>>

SettingInit == Init /\ Parsers!Init

(* A parser takes a step of its loop, or aborts the call. *)
Parse == Parsers!Next /\ UNCHANGED vars

pgp_sym_encrypt(d, t, pw, r) ==
  /\ status["encrypt"] = "ok"
  /\ SymEncrypt(d, t, pw, parsed, r)
  /\ UNCHANGED pvars

(* The cipher and the cipher of the key packet do not fit each other. *)
pgp_sym_encrypt_refused ==
  /\ status["encrypt"] = "ok"
  /\ SymEncryptRefused(parsed)
  /\ UNCHANGED pvars

pgp_sym_decrypt(m, t, pw) ==
  /\ status["decrypt"] = "ok"
  /\ SymDecrypt(m, pw, t, dparsed.convert_crlf)
  /\ UNCHANGED pvars

SettingNext ==
  \/ Parse
  \/ \E d \in Data, t \in SqlType, pw \in Password, r \in RandomU32 : pgp_sym_encrypt(d, t, pw, r)
  \/ pgp_sym_encrypt_refused
  \/ \E m \in 1 .. Len(store), t \in SqlType, pw \in Password : pgp_sym_decrypt(m, t, pw)
  \/ DecryptStep /\ UNCHANGED pvars

SettingSpec == SettingInit /\ [][SettingNext]_<<vars, pvars>>
-------------------------------------------------------------------------------
(* Whatever options text encrypted a value decrypts it: the text is not     *)
(* refused, and the password and the SQL type the value was encrypted with  *)
(* return the value itself, through both parsers, the key packet, the       *)
(* literal packet and the line ending conversion.                           *)
SettingReadsBack ==
  store # << >> =>
    /\ status["decrypt"] # "error"
    /\ call.pc = "returned" /\ call.pw \in Msg.from.passwords /\ call.type = Msg.from.type
         => call.result = Ok(Msg.from.data)
===============================================================================
