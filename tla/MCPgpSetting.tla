----------------------------- MODULE MCPgpSetting -----------------------------
(* Options texts of up to three pieces that bear on keys, packets and line  *)
(* endings, repetitions and contradictions among them.                      *)
EXTENDS PgpSetting, SequencesExt

P(n, v) == [name |-> n, value |-> v]

MCItems == {P("convert-crlf", "1"), P("convert-crlf", "0"), P("sess-key", "1"), P("s2k-mode", "0"),
            P("s2k-mode", "3"), P("s2k-count", "1024"), P("cipher-algo", "bf"), P("cipher-algo", "aes"),
            P("s2k-cipher-algo", "blowfish"), P("s2k-cipher-algo", "bf"), P("unicode-mode", "1")}

MCInputs == BoundedSeq(MCItems, 3)

MCIntOf == [v \in {p.value : p \in MCItems} |->
              CASE v = "0" -> 0 [] v = "1" -> 1 [] v = "3" -> 3 [] v = "1024" -> 1024 [] OTHER -> -1]

(* A line feed, CR LF, and CR CR LF, the encoded form of CR LF. *)
MCEncode == [d \in {"lf", "crlf"} |-> IF d = "lf" THEN "crlf" ELSE "crcrlf"]
MCDecode == [b \in {"lf", "crlf", "crcrlf"} |-> IF b = "crcrlf" THEN "crlf" ELSE "lf"]
===============================================================================
