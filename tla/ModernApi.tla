------------------------------- MODULE ModernApi ------------------------------
(***************************************************************************)
(* The modern authenticated API of src/src/modern.rs: the envelopes of     *)
(* xchacha20poly1305_encrypt, secretbox and box_seal, Ed25519 signatures,  *)
(* X25519 and HKDF.  (Argon2id is in PasswordHash.)                        *)
(*                                                                         *)
(* An envelope is the sequence of its bytes, each a triple of the field it *)
(* belongs to, the call that made it and its place, at the real lengths.   *)
(* The open functions cut what they are given by position; the library     *)
(* behind them, external, accepts fields that belong together under the    *)
(* key they were made with.  What they are given may be cut short, run on, *)
(* be changed in one byte, or be put together from two envelopes.          *)
(***************************************************************************)
EXTENDS Integers, Sequences

CONSTANTS
  Texts,      \* the data, as sequences of bytes
  Keys,       \* [id, len]: a secret and how many bytes of it are supplied
  Ads,        \* associated data
  Cuts,       \* the places where envelopes are cut or changed
  Lengths,    \* the output lengths asked of HKDF
  MaxMade     \* bound: envelopes and signatures ever made

ASSUME ModernConstants ==
  /\ \A d \in Texts : d \in Seq({d[i] : i \in DOMAIN d})
  /\ Keys \subseteq [id : STRING, len : Nat] /\ Cuts \subseteq Nat
  /\ Lengths \subseteq Int /\ MaxMade \in Nat
-------------------------------------------------------------------------------
Fn == {"aead", "secretbox", "box_seal"}

Chars(field, n, len) == [i \in 1 .. len |-> <<field, n, i>>]

(* A nonce of 24 bytes, or an ephemeral public key of 32. *)
HeadLen(fn) == IF fn = "box_seal" THEN 32 ELSE 24
MacLen == 16

(* The two layouts: nonce, ciphertext, tag; and nonce or key, MAC,          *)
(* ciphertext.                                                              *)
Envelope(fn, n, len) ==
  IF fn = "aead" THEN Chars("head", n, 24) \o Chars("body", n, len) \o Chars("mac", n, 16)
  ELSE Chars("head", n, HeadLen(fn)) \o Chars("mac", n, MacLen) \o Chars("body", n, len)

exact_array(bytes, len) == bytes = len

TooShortByOne(fn, n) == n <= HeadLen(fn) + MacLen

TooShortNoMac(fn, n) == n < 24

(* `envelope is too short'; for the AEAD it is from_bytes that says so. *)
TooShort(fn, n) == n < HeadLen(fn) + MacLen

NoAd == "none"

AdIgnored(ad) == NoAd

(* The associated data that reaches the library: Some(associated_data). *)
AdUsed(ad) == ad

Panic == <<<<"panic", 0, 0>>>>

(* A slice of the code, which panics out of range. *)
Slice(s, a, b) == IF a <= b /\ b <= Len(s) THEN SubSeq(s, a + 1, b) ELSE Panic

(* head, MAC and ciphertext, as the open functions cut them. *)
Fields(fn, s) ==
  LET h == HeadLen(fn) IN
  [head |-> Slice(s, 0, h),
   mac  |-> IF fn = "aead" THEN Slice(s, Len(s) - 16, Len(s)) ELSE Slice(s, h, h + MacLen),
   body |-> IF fn = "aead" THEN Slice(s, h, Len(s) - 16) ELSE Slice(s, h + MacLen, Len(s))]
-------------------------------------------------------------------------------
VARIABLES
  made,      \* what was sealed or signed, with which key
  answer     \* the last call of another function, and what it returned

vars == <<made, answer>>

None == [fn |-> "none"]

Init == made = << >> /\ answer = None

(* xchacha20poly1305_encrypt, secretbox and box_seal with a good key: the   *)
(* nonce or the ephemeral key is fresh.                                     *)
Seal(fn, d, key, ad) ==
  /\ answer = None /\ Len(made) < MaxMade
  /\ exact_array(key.len, 32)
  /\ made' = Append(made, [fn |-> fn, key |-> key.id, ad |-> AdUsed(ad), asked |-> ad,
                           data |-> d, bytes |-> Envelope(fn, Len(made) + 1, Len(d))])
  /\ UNCHANGED answer

(* sign_with_defaults puts the signature in front of the data; ed25519_sign *)
(* cuts it off.                                                             *)
ed25519_sign(d, key) ==
  /\ answer = None /\ Len(made) < MaxMade
  /\ exact_array(key.len, 64)
  /\ made' = Append(made, [fn |-> "sign", key |-> key.id, ad |-> NoAd, asked |-> NoAd,
                           data |-> d,
                           bytes |-> Slice(Chars("sig", Len(made) + 1, 64) \o d, 0, 64)])
  /\ UNCHANGED answer

(* What the library opens, as a set of at most one call. *)
Genuine(fn, s, key, ad) ==
  {n \in 1 .. Len(made) :
     /\ made[n].fn = fn /\ made[n].key = key /\ made[n].ad = ad
     /\ Fields(fn, s) = [head |-> Chars("head", n, HeadLen(fn)), mac |-> Chars("mac", n, MacLen),
                         body |-> Chars("body", n, Len(made[n].data))]}

Opened(fn, s, key, ad) ==
  IF TooShort(fn, Len(s)) \/ ~exact_array(key.len, 32) THEN "error"
  ELSE IF \E f \in {"head", "mac", "body"} : Fields(fn, s)[f] = Panic THEN "panic"
  ELSE IF Genuine(fn, s, key.id, AdUsed(ad)) = {} THEN "error"
  ELSE "ok"

(* xchacha20poly1305_decrypt, secretbox_open and box_seal_open.  The two    *)
(* halves of a box key belong together or the call fails as with a wrong    *)
(* one.                                                                     *)
Open(fn, s, key, ad) ==
  /\ answer = None
  /\ LET r == Opened(fn, s, key, ad) IN
     answer' = [fn |-> fn, bytes |-> s, key |-> key, ad |-> ad, result |-> r,
                value |-> IF r = "ok"
                            THEN made[CHOOSE n \in Genuine(fn, s, key.id, AdUsed(ad)) : TRUE].data
                            ELSE << >>]
  /\ UNCHANGED made

SignatureFitsAny(n) == TRUE

SignatureFits(n) == exact_array(n, 64)

(* The library splits signature and data again behind 64 bytes. *)
ed25519_verify(d, sig, key) ==
  LET signed == sig \o d IN
  /\ answer = None
  /\ answer' = [fn |-> "verify", bytes |-> sig, data |-> d, key |-> key,
                result |->
                  IF ~SignatureFits(Len(sig)) \/ ~exact_array(key.len, 32) THEN "error"
                  ELSE IF \E n \in 1 .. Len(made) :
                            /\ made[n].fn = "sign" /\ made[n].key = key.id
                            /\ signed = Chars("sig", n, 64) \o made[n].data
                    THEN "yes" ELSE "no"]
  /\ UNCHANGED made

(* crypto_scalarmult: the two sides get the same point, or an error if the  *)
(* library refuses the public key.                                          *)
x25519(a, b) ==
  /\ answer = None
  /\ \E r \in {"ok", "error"} :
       /\ r = "ok" => exact_array(a.len, 32) /\ exact_array(b.len, 32)
       /\ answer' = [fn |-> "x25519", result |-> r, shared |-> {a.id, b.id}]
  /\ UNCHANGED made

HkdfRangeFromZero == 0 .. 16320

(* validate_hkdf_length, and the limit of expand: 255 blocks of the hash. *)
HkdfRange == 1 .. 16320
HashLen(h) == IF h = "sha256" THEN 32 ELSE 64
ExpandFits(h, len) == len <= 255 * HashLen(h)

hkdf(h, len) ==
  /\ answer = None
  /\ answer' = [fn |-> "hkdf", hash |-> h, len |-> len,
                result |-> IF len \in HkdfRange /\ ExpandFits(h, len) THEN "ok" ELSE "error"]
  /\ UNCHANGED made

(* What may have become of envelope n on its way. *)
Arrived(n) ==
  LET s == made[n].bytes IN
  {s, s \o <<<<"body", n, Len(made[n].data) + 1>>>>}
  \cup {SubSeq(s, 1, k) : k \in {c \in Cuts : c < Len(s)}}
  \cup {[s EXCEPT ![k] = <<"noise", 0, 0>>] : k \in {c \in Cuts : 0 < c /\ c <= Len(s)}}
  \cup UNION {{SubSeq(s, 1, k) \o SubSeq(made[m].bytes, k + 1, Len(made[m].bytes)) :
                  k \in {c \in Cuts : c < Len(s)}} : m \in 1 .. Len(made) \ {n}}

(* Only the AEAD has an argument for associated data. *)
AdsOf(fn) == IF fn = "aead" THEN Ads ELSE {NoAd}

Forget == answer # None /\ answer' = None /\ UNCHANGED made

Next ==
  \/ \E fn \in Fn, d \in Texts, key \in Keys : \E ad \in AdsOf(fn) : Seal(fn, d, key, ad)
  \/ \E d \in Texts, key \in Keys : ed25519_sign(d, key)
  \/ \E fn \in Fn, n \in 1 .. Len(made), key \in Keys :
       /\ made[n].fn # "sign"
       /\ \E ad \in AdsOf(fn), s \in Arrived(n) : Open(fn, s, key, ad)
  \/ \E n \in 1 .. Len(made), key \in Keys, c \in Cuts, d \in Texts :
       LET signed == made[n].bytes \o d IN
       /\ made[n].fn = "sign" /\ c <= Len(signed)
       /\ ed25519_verify(SubSeq(signed, c + 1, Len(signed)), SubSeq(signed, 1, c), key)
  \/ \E a, b \in Keys : x25519(a, b)
  \/ \E h \in {"sha256", "sha512"}, len \in Lengths : hkdf(h, len)
  \/ Forget

Spec == Init /\ [][Next]_vars
-------------------------------------------------------------------------------
(* Envelopes have the documented lengths, no call panics on a slice, and    *)
(* what an open function returns is one of the data.                        *)
TypeOK ==
  /\ \A n \in 1 .. Len(made) :
       Len(made[n].bytes) = IF made[n].fn = "sign" THEN 64
                            ELSE HeadLen(made[n].fn) + 16 + Len(made[n].data)
  /\ answer # None => answer.result \in {"ok", "error", "yes", "no"}
  /\ answer.fn \in Fn => answer.value \in Texts \cup {<< >>}

(* What an open function returns was sealed, by the same construction,      *)
(* under that key and that associated data, and its envelope has arrived    *)
(* untouched: no cut, no byte too many, nothing of another envelope.        *)
OpensOnlyGenuine ==
  answer.fn \in Fn /\ answer.result = "ok" =>
    \E n \in 1 .. Len(made) :
      /\ made[n].fn = answer.fn /\ made[n].key = answer.key.id /\ answer.key.len = 32
      /\ made[n].asked = answer.ad
      /\ answer.bytes = made[n].bytes /\ answer.value = made[n].data

(* Every envelope opens with its key, the one of empty data included: it    *)
(* is as short as the length checks allow.                                  *)
GenuineOpens ==
  answer.fn \in Fn =>
    \A n \in 1 .. Len(made) :
      (/\ made[n].fn = answer.fn /\ answer.bytes = made[n].bytes
       /\ answer.key = [id |-> made[n].key, len |-> 32] /\ made[n].asked = answer.ad)
        => answer.result = "ok" /\ answer.value = made[n].data

(* ed25519_verify accepts a signature for the data it was made of and no    *)
(* other split of the same bytes into signature and data, under the key it  *)
(* was made with, if that is a public key by its length.                    *)
SignatureBinds ==
  answer.fn = "verify" =>
    (answer.result = "yes" <=>
       /\ answer.key.len = 32
       /\ \E n \in 1 .. Len(made) : /\ made[n].fn = "sign" /\ made[n].key = answer.key.id
                                    /\ made[n].bytes = answer.bytes
                                    /\ made[n].data = answer.data)

(* HKDF returns any number of bytes its definition allows, one to 255       *)
(* blocks of the hash, and refuses all others.                              *)
HkdfLength ==
  answer.fn = "hkdf" =>
    (answer.result = "ok" <=> answer.len \in 1 .. 255 * (IF answer.hash = "sha256" THEN 32 ELSE 64))
===============================================================================
