------------------------------- MODULE MCPgpPub -------------------------------
(* Two people: a certificate with a signing key and two encryption keys,    *)
(* one of which expires, and one with a single key that goes live late; the *)
(* secret halves unprotected, protected, and with a placeholder.            *)
EXTENDS PgpPub

Sub(id, from, until, secret) ==
  [id |-> id, transport |-> TRUE, supported |-> TRUE, revoked |-> FALSE,
   from |-> from, until |-> until, secret |-> secret]

Signer(secret) == [Sub("S", 0, 9, secret) EXCEPT !.transport = FALSE]
Revoked == [Sub("R", 0, 9, NoSecret) EXCEPT !.revoked = TRUE]
Alien == [Sub("X", 0, 9, NoSecret) EXCEPT !.supported = FALSE]

MCPublic == {<<Signer(NoSecret), Revoked, Alien, Sub("A", 0, 1, NoSecret), Sub("B", 0, 9, NoSecret)>>,
             <<Sub("C", 1, 9, NoSecret)>>}

MCSecret == {<<Signer(Plain), Sub("A", 0, 1, Plain), Sub("B", 0, 9, Locked("p"))>>,
             <<Signer(Stub), Sub("A", 0, 1, Plain)>>,
             <<Signer(NoSecret), Sub("B", 0, 9, Locked("q"))>>,
             <<Sub("C", 1, 9, Locked("p"))>>}

MCCerts == MCPublic \cup MCSecret

MCOptions == {DefaultOptions,
              [DefaultOptions EXCEPT !.convert_crlf = TRUE, !.cipher = "aes256"]}

MCOtherEsks == {<<ForKey("C", "C"), ForPassword, ForKey("B", "B")>>,
                <<ForKey("C", "C"), ForKey(Anonymous, "A")>>,
                <<ForKey(Anonymous, "A")>>, <<ForPassword>>, << >>}

MCOtherLiterals == {[format |-> "text", body |-> "lf"], [format |-> "binary", body |-> "lf"]}

(* A line feed, and CR LF, its encoded form. *)
MCEncode == [d \in {"lf"} |-> "crlf"]
MCDecode == [b \in {"lf", "crlf"} |-> "lf"]
===============================================================================
