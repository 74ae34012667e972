---------------------------- MODULE MCSqlFunctions ----------------------------
(* Spellings of the names where the two tables differ or could be mixed up. *)
EXTENDS SqlFunctions

MCPlain ==
  [n \in {"SHA-512", "sha512", "sha3-256", "SHA3256", "sha3-512", "sha-3512", "blake2b",
          "BLAKE2B-512", "sha-2"} |->
     CASE n \in {"SHA-512", "sha512"} -> "sha512" [] n \in {"sha3-256", "SHA3256"} -> "sha3256"
       [] n \in {"sha3-512", "sha-3512"} -> "sha3512" [] n = "blake2b" -> "blake2b"
       [] n = "BLAKE2B-512" -> "blake2b512" [] OTHER -> "sha2"]
===============================================================================
