------------------------------ MODULE MCRawCipher -----------------------------
(* Two applications: one with keys at every edge of the key rules and few   *)
(* data, one with data at every edge of a block and few keys.               *)
EXTENDS RawCipher

Rep(n, b) == [i \in 1 .. n |-> b]
T(c, m, p) == [cipher |-> c, mode |-> m, pad |-> p]

MCKeyTypes == {T("aes", "", ""), T("rijndael", "ecb", "pad:pkcs"), T("bf", "", ""),
               T("blowfish", "ecb", "pad:none"), T("rc4", "", "")}

MCKeys ==
  {Rep(n, 7) : n \in {0, 15, 16, 17, 24, 25, 32, 33, 56, 57}}
  \cup {Rep(16, 7) \o <<0>>, Rep(15, 7) \o <<0>>, <<0>>, Rep(24, 7) \o <<0>>, Rep(55, 7) \o <<8>>,
        <<1>>, <<1, 1>>, <<1, 2>>, <<1, 2, 1, 2>>, <<1, 2, 3>>, <<1, 2, 3, 1>>,
        <<1, 2, 3, 1, 2, 3>>, <<1, 2, 1, 2, 1>>}

MCIvs == {<< >>, <<9>>, <<9, 0>>}

MCTypes == {T(c, m, p) : c \in {"aes", "bf"}, m \in {"cbc", "cfb", "ecb"}, p \in {"", "pad:none"}}
           \cup {T("aes", "ctr", ""), T("blowfish", "", "pad:zero")}

(* Zeros, data that ends like a padding, and data that does not. *)
MCTexts == {Rep(n, 7) : n \in {0, 1, 7, 8, 9, 15, 16, 17}}
           \cup {Rep(16, 0), Rep(15, 7) \o <<1>>, Rep(8, 8), Rep(8, 7) \o Rep(8, 8), Rep(16, 16)}

MCApps == {[types |-> MCKeyTypes, keys |-> MCKeys, ivs |-> {<< >>}, texts |-> {Rep(8, 7)}],
           [types |-> MCTypes, keys |-> {<<1>>, <<2>>}, ivs |-> MCIvs, texts |-> MCTexts]}
===============================================================================
