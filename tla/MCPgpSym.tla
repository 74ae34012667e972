------------------------------- MODULE MCPgpSym -------------------------------
(* Values of one or two bytes that tell the conversions and the checks of   *)
(* decrypted_text apart, and options that tell the packets apart.           *)
EXTENDS PgpSym, SequencesExt

Enc(s) == FlattenSeq([k \in 1 .. Len(s) |-> IF s[k] = "LF" THEN <<"CR", "LF">> ELSE <<s[k]>>])

Dec(s) ==
  LET dropped == {k \in 1 .. Len(s) - 1 : s[k] = "CR" /\ s[k + 1] = "LF"} IN
  FlattenSeq([k \in 1 .. Len(s) |-> IF k \in dropped THEN << >> ELSE <<s[k]>>])

MCData == {<<"LF">>, <<"CR", "LF">>, <<"NUL">>, <<"xFF">>}
MCBodies == MCData \cup {Enc(d) : d \in MCData}
MCEncode == [d \in MCData |-> Enc(d)]
MCDecode == [b \in MCBodies |-> Dec(b)]
MCHasNul == {b \in MCBodies : \E k \in 1 .. Len(b) : b[k] = "NUL"}
MCUtf8 == {b \in MCBodies : \A k \in 1 .. Len(b) : b[k] # "xFF"}

MCOptions ==
  LET d == DefaultOptions IN
  {d, [d EXCEPT !.convert_crlf = TRUE],
   [d EXCEPT !.cipher = "aes256", !.unicode_mode = TRUE],
   [d EXCEPT !.cipher = "aes256", !.s2k_cipher = "aes128"],
   [d EXCEPT !.cipher = "aes256", !.s2k_cipher = "aes128", !.use_session_key = TRUE],
   [d EXCEPT !.s2k_mode = 0], [d EXCEPT !.s2k_mode = 1, !.convert_crlf = TRUE],
   [d EXCEPT !.s2k_count = 65011712, !.s2k_cipher = "aes128"]}

(* Around the largest value of the modulus of default_s2k_count. *)
MCRandom == {0, 188416, 188417, 2147483647}

MCOtherSkesks == {<< >>, <<"p">>, <<"p", "q">>, <<"q", "p">>}
MCOtherLiterals == {[format |-> f, body |-> b] : f \in {"binary", "text", "unknown"}, b \in MCData}

(* For the keys of several messages: one value, and every way to get a key. *)
MCKeyOptions ==
  LET d == DefaultOptions IN
  {d, [d EXCEPT !.use_session_key = TRUE],
   [d EXCEPT !.s2k_mode = 0], [d EXCEPT !.s2k_mode = 0, !.cipher = "bf"],
   [d EXCEPT !.s2k_mode = 0, !.use_session_key = TRUE],
   [d EXCEPT !.s2k_mode = 1],
   [d EXCEPT !.s2k_mode = 1, !.cipher = "aes256", !.s2k_cipher = "aes192"]}
MCOneSkesk == {<<"p">>}
MCOneLiteral == {[format |-> "binary", body |-> <<"LF">>]}
MCKeyData == {<<"LF">>}
MCKeyEncode == [d \in MCKeyData |-> Enc(d)]
===============================================================================
