----------------------------- MODULE MCPgpOptions -----------------------------
(* Option texts of up to three pieces: for every option an accepted value,  *)
(* the values at the edges of its range, and one it must refuse.            *)
EXTENDS PgpOptions, SequencesExt

MCTexts == {"0", "1", "2", "3", "9", "10", "+1", "1023", "65011712",
            "65011713", "blowfish", "bf", "md5", "sha256"}

MCIntOf ==
  [v \in MCTexts |->
     CASE v = "0" -> 0 [] v \in {"1", "+1"} -> 1 [] v = "2" -> 2 [] v = "3" -> 3
       [] v = "9" -> 9 [] v = "10" -> 10 [] v = "1023" -> 1023
       [] v = "65011712" -> 65011712
       [] v = "65011713" -> 65011713 [] OTHER -> -1]

MCValues(n) ==
  CASE n = "cipher-algo" -> {"blowfish", "md5"}
    [] n = "compress-algo" -> {"2", "3"}
    [] n = "compress-level" -> {"9", "10"}
    [] n \in {"unicode-mode", "sess-key"} -> {"1"}
    [] n = "convert-crlf" -> {"0", "1", "+1"}
    [] n = "ignore-cipher-failure" -> {"1", "2"}
    [] n = "disable-mdc" -> {"0", "1"}
    [] n = "s2k-mode" -> {"0", "2", "3"}
    [] n = "s2k-count" -> {"1023", "65011712", "65011713"}
    [] n = "s2k-digest-algo" -> {"md5", "sha256"}
    [] n = "s2k-cipher-algo" -> {"bf", "blowfish"}
    [] OTHER -> {"1"}

MCNames == {"cipher-algo", "compress-algo", "compress-level", "disable-mdc", "sess-key",
            "s2k-mode", "s2k-count", "s2k-digest-algo", "s2k-cipher-algo", "unicode-mode",
            "convert-crlf", "ignore-cipher-failure", "no-such-option"}

MCItems == UNION {{[name |-> n, value |-> v] : v \in MCValues(n)} : n \in MCNames}

MCInputs == BoundedSeq(MCItems, 3)
===============================================================================
