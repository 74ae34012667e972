------------------------------- MODULE RawCipher ------------------------------
(***************************************************************************)
(* The raw ciphers of src/src/raw.rs: encrypt, decrypt, encrypt_iv and     *)
(* decrypt_iv.  An application stores a ciphertext under one type, key and *)
(* IV of those it uses and decrypts it later under any of them.            *)
(*                                                                         *)
(* Data, keys and IVs are sequences of bytes at their real lengths; names  *)
(* of types are split into cipher, mode and padding.  The block ciphers    *)
(* and their modes, which are libraries, are symbolic at the level of      *)
(* blocks: a block is the set of the terms whose exclusive or it is, so    *)
(* that the zero block is {} and the modes are the equations they are.     *)
(* Bytes nobody can predict are Noise.                                     *)
(***************************************************************************)
EXTENDS Integers, Sequences

CONSTANT Apps    \* the applications: [types, keys, ivs, texts], what each uses

Byte == 0 .. 255
Noise == -1

(* A part of a type name that is left out is "". *)
ASSUME RawConstants ==
  \A a \in Apps :
    /\ a.types \subseteq [cipher : STRING, mode : STRING, pad : STRING]
    /\ \A s \in a.keys \cup a.ivs \cup a.texts : s \in Seq(Byte)
-------------------------------------------------------------------------------
Refused == [alg |-> "none", mode |-> "none", padding |-> "none"]

Base(n) == IF n \in {"aes", "rijndael"} THEN "aes"
           ELSE IF n \in {"bf", "blowfish"} THEN "bf" ELSE "none"

parse_type(t) ==
  IF \/ Base(t.cipher) = "none"
     \/ t.mode \notin {"", "cbc", "cfb", "ecb"}
     \/ t.pad \notin {"", "pad:pkcs", "pad:none"}
    THEN Refused
    ELSE [alg     |-> Base(t.cipher),
          mode    |-> IF t.mode = "" THEN "cbc" ELSE t.mode,
          padding |-> IF t.pad = "pad:none" THEN "none" ELSE "pkcs"]

BlockSize(alg) == IF alg = "aes" THEN 16 ELSE 8

(* The first n bytes, filled up with zeros. *)
fixed(n, s) == [i \in 1 .. n |-> IF i <= Len(s) THEN s[i] ELSE 0]

AesTierLow(n) == IF n < 16 THEN 16 ELSE IF n < 24 THEN 24 ELSE 32

AesTier(n) == IF n <= 16 THEN 16 ELSE IF n <= 24 THEN 24 ELSE 32

FoldedLenFour(n) == IF 0 < n /\ n < 4 THEN 4 ELSE n

(* n bytes repeated, whole, until there are four. *)
FoldedLen(n) == IF 0 < n /\ n < 4 THEN ((3 + n) \div n) * n ELSE n

blowfish_key(key) ==
  LET n == IF Len(key) <= 56 THEN Len(key) ELSE 56 IN
  [i \in 1 .. FoldedLen(n) |-> key[((i - 1) % n) + 1]]

(* Blowfish's key schedule reads 72 bytes, over and over from the key. *)
Stream(s) == [i \in 1 .. 72 |-> s[((i - 1) % Len(s)) + 1]]

KeyFits(alg, key) == IF alg = "aes" THEN Len(key) <= 32 ELSE blowfish_key(key) # << >>

(* The key a cipher is set up with. *)
CipherKey(alg, key) ==
  IF alg = "aes" THEN fixed(AesTier(Len(key)), key) ELSE Stream(blowfish_key(key))
-------------------------------------------------------------------------------
(* A block of known bytes, a block encrypted, and one decrypted that was    *)
(* not encrypted under this key.                                            *)
Known(s) == IF \A i \in 1 .. Len(s) : s[i] = 0 THEN {} ELSE {[bytes |-> s]}
Enc(k, x) == {[enc |-> k, of |-> x]}
Dec(k, y) ==
  IF \E x \in {a.of : a \in {b \in y : "enc" \in DOMAIN b}} : y = Enc(k, x)
    THEN (CHOOSE a \in y : TRUE).of
    ELSE {[dec |-> k, of |-> y]}

Xor(x, y) == (x \ y) \cup (y \ x)

ByteOf(x, j) ==
  IF x = {} THEN 0
  ELSE IF \E a \in x : x = {a} /\ "bytes" \in DOMAIN a THEN (CHOOSE a \in x : TRUE).bytes[j]
  ELSE Noise

Blocks(n, bs) == (n + bs - 1) \div bs

(* The i-th block of s, of which the last may be short. *)
Block(s, bs, i) ==
  SubSeq(s, (i - 1) * bs + 1, IF i * bs <= Len(s) THEN i * bs ELSE Len(s))

(* A block under cbc, ecb and cfb_mode, behind the block prev of ciphertext. *)
EncryptBlock(mode, k, p, prev) ==
  IF mode = "ecb" THEN Enc(k, p)
  ELSE IF mode = "cbc" THEN Enc(k, Xor(p, prev))
  ELSE Xor(p, Enc(k, prev))

DecryptBlock(mode, k, c, prev) ==
  IF mode = "ecb" THEN Dec(k, c)
  ELSE IF mode = "cbc" THEN Xor(Dec(k, c), prev)
  ELSE Xor(c, Enc(k, prev))

(* The Encryptors: the blocks of the ciphertext, with the IV as block 0. *)
EncryptBlocks(mode, bs, k, iv, s) ==
  LET c[i \in 0 .. Blocks(Len(s), bs)] ==
        IF i = 0 THEN iv ELSE EncryptBlock(mode, k, Known(Block(s, bs, i)), c[i - 1])
  IN [i \in 1 .. Blocks(Len(s), bs) |-> c[i]]

(* The Decryptors: the bytes of the plaintext.  A ciphertext of the other   *)
(* algorithm is noise.                                                      *)
DecryptBytes(alg, mode, k, iv, c) ==
  LET bs == BlockSize(alg)
      prev(i) == IF i = 1 THEN iv ELSE c.blocks[i - 1]
      p(i) == DecryptBlock(mode, k, c.blocks[i], prev(i))
  IN [n \in 1 .. c.len |->
        IF c.alg # alg THEN Noise ELSE ByteOf(p(((n - 1) \div bs) + 1), ((n - 1) % bs) + 1)]

(* Pkcs7: one to bs bytes are added, each their number. *)
PadLen(n, bs) == bs - (n % bs)
Pad(s, bs) == s \o [i \in 1 .. PadLen(Len(s), bs) |-> PadLen(Len(s), bs)]

Ok(s) == [outcome |-> "ok", value |-> s]
Error == [outcome |-> "error", value |-> << >>]

(* Any padding may seem to be at the end of noise. *)
Unpad(s, bs) ==
  LET cut(p) == Ok(SubSeq(s, 1, Len(s) - p)) IN
  IF s = << >> THEN {Error}
  ELSE IF s[Len(s)] = Noise THEN {Error} \cup {cut(p) : p \in 1 .. bs}
  ELSE IF /\ s[Len(s)] \in 1 .. bs
          /\ \A i \in Len(s) - s[Len(s)] + 1 .. Len(s) : s[i] = s[Len(s)]
    THEN {cut(s[Len(s)])}
  ELSE {Error}
-------------------------------------------------------------------------------
VARIABLES
  stored,    \* the ciphertext in the application's table
  from,      \* the arguments it was made of, which decrypt does not see
  answer     \* the last call of decrypt, with what it returned

vars == <<stored, from, answer>>

None == [pc |-> "none"]

Init == stored = None /\ from = None /\ answer = None

Aligned(t, n) == t.mode = "cfb" \/ t.padding = "pkcs" \/ n % BlockSize(t.alg) = 0

(* What encrypt_iv, and encrypt with its empty IV, return. *)
Encrypted(d, key, iv, t) ==
  LET bs == BlockSize(t.alg)
      s == IF t.mode # "cfb" /\ t.padding = "pkcs" THEN Pad(d, bs) ELSE d
  IN [alg |-> t.alg, len |-> Len(s),
      blocks |-> EncryptBlocks(t.mode, bs, CipherKey(t.alg, key), Known(fixed(bs, iv)), s)]

(* NoPadding panics on data that does not fill its last block; that and the *)
(* other errors store nothing.                                              *)
Encrypt(app, d, key, iv, type) ==
  LET t == parse_type(type) IN
  /\ stored = None
  /\ t # Refused /\ KeyFits(t.alg, key) /\ Aligned(t, Len(d))
  /\ stored' = Encrypted(d, key, iv, t)
  /\ from' = [app |-> app, data |-> d, key |-> key, iv |-> iv, type |-> t]
  /\ UNCHANGED answer

(* What decrypt_iv, and decrypt with its empty IV, may return. *)
Decrypted(c, key, iv, t) ==
  LET bs == BlockSize(t.alg)
      s == DecryptBytes(t.alg, t.mode, CipherKey(t.alg, key), Known(fixed(bs, iv)), c)
  IN IF t.mode = "cfb" THEN {Ok(s)}
     ELSE IF c.len % bs # 0 THEN {Error}
     ELSE IF t.padding = "pkcs" THEN Unpad(s, bs)
     ELSE {Ok(s)}

Decrypt(key, iv, type) ==
  LET t == parse_type(type) IN
  /\ stored # None /\ answer = None
  /\ \E r \in IF t = Refused \/ ~KeyFits(t.alg, key) THEN {Error}
              ELSE Decrypted(stored, key, iv, t) :
       answer' = [key |-> key, iv |-> iv, type |-> t, result |-> r]
  /\ UNCHANGED <<stored, from>>

(* The application is done with the row. *)
Delete ==
  /\ answer # None
  /\ stored' = None /\ from' = None /\ answer' = None

Next ==
  \/ \E a \in Apps : \E d \in a.texts, key \in a.keys, iv \in a.ivs, type \in a.types :
       Encrypt(a, d, key, iv, type)
  \/ /\ stored # None
     /\ \E key \in from.app.keys, iv \in from.app.ivs, type \in from.app.types :
          Decrypt(key, iv, type)
  \/ Delete

Spec == Init /\ [][Next]_vars
-------------------------------------------------------------------------------
ZeroPadded(s, i) == IF i <= Len(s) THEN s[i] ELSE 0

(* Two keys mean the same cipher: for AES they are in the same of the tiers *)
(* of 16, 24 and 32 bytes and equal up to trailing zeros there; for         *)
(* Blowfish their first 56 bytes, repeated for ever, are the same.          *)
SameKey(alg, k1, k2) ==
  IF alg = "aes"
    THEN /\ \A b \in {16, 24, 32} : Len(k1) <= b <=> Len(k2) <= b
         /\ \A i \in 1 .. 32 : ZeroPadded(k1, i) = ZeroPadded(k2, i)
    ELSE LET at(k, i) == k[((i - 1) % (IF Len(k) <= 56 THEN Len(k) ELSE 56)) + 1] IN
         /\ k1 # << >> /\ k2 # << >>
         /\ \A i \in 1 .. 72 : at(k1, i) = at(k2, i)

SameIv(alg, mode, v1, v2) ==
  mode = "ecb" \/ \A i \in 1 .. BlockSize(alg) : ZeroPadded(v1, i) = ZeroPadded(v2, i)

(* The caller uses what the ciphertext was made with, whatever name the     *)
(* type, and whatever bytes the key, goes by.  Padding is no matter to CFB. *)
SameCipher(a, f) ==
  /\ a.type.alg = f.type.alg /\ a.type.mode = f.type.mode
  /\ a.type.mode # "cfb" => a.type.padding = f.type.padding
  /\ SameKey(f.type.alg, a.key, f.key)
  /\ SameIv(f.type.alg, f.type.mode, a.iv, f.iv)

(* decrypt undoes encrypt for every pair of names, keys and IVs that mean   *)
(* the same: the aliases of parse_type, the key tiers of aes_key, the       *)
(* folding of blowfish_key and the zero IV of the functions without one.    *)
RoundTrip ==
  answer # None /\ SameCipher(answer, from) => answer.result = Ok(from.data)

(* Nobody reads the data with a key that means another cipher, nor, in the  *)
(* same chained mode, with another IV: no two keys are mapped to one.       *)
KeyMatters ==
  answer # None /\ from.data # << >> /\ answer.result = Ok(from.data) =>
    /\ answer.type.alg = from.type.alg
    /\ SameKey(from.type.alg, answer.key, from.key)
    /\ answer.type.mode = from.type.mode =>
         SameIv(from.type.alg, from.type.mode, answer.iv, from.iv)
===============================================================================
