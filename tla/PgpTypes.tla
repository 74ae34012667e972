------------------------------- MODULE PgpTypes -------------------------------
(* The parsed options of src/src/pgp.rs, shared by the parsers, the         *)
(* symmetric and the public-key functions.                                  *)
EXTENDS Integers

(* SymmetricAlgorithm, by its first name in parse_cipher. *)
Cipher == {"bf", "aes128", "aes192", "aes256", "3des", "cast5"}

NoCipher == "none"    \* s2k_cipher: None
NoCount == 0          \* s2k_count: None

(* The octet counts an iterated S2K can hold. *)
S2kCountRange == {c \in Nat : 1024 <= c /\ c <= 65011712}

(* The text_input field is the SQL function's own and not an option: it is  *)
(* an argument of the operators that read it.                               *)
PgpOptions == [cipher            : Cipher,
               compression       : {"0", "1", "2"},
               compression_level : 0 .. 9,
               unicode_mode      : BOOLEAN,
               convert_crlf      : BOOLEAN,
               s2k_mode          : {0, 1, 3},
               s2k_count         : {c \in Nat : c = NoCount \/ c \in S2kCountRange},
               s2k_digest        : {"md5", "sha1"},
               s2k_cipher        : {NoCipher} \cup Cipher,
               use_session_key   : BOOLEAN]

DefaultOptions == [cipher |-> "aes128", compression |-> "0",
                   compression_level |-> 6, unicode_mode |-> FALSE,
                   convert_crlf |-> FALSE, s2k_mode |-> 3,
                   s2k_count |-> NoCount, s2k_digest |-> "sha1",
                   s2k_cipher |-> NoCipher, use_session_key |-> FALSE]
===============================================================================
