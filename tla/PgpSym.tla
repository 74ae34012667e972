-------------------------------- MODULE PgpSym --------------------------------
(***************************************************************************)
(* Password encryption: sym_encrypt, sym_decrypt, PasswordHelper and the   *)
(* four pgp_sym_* SQL functions of src/src/pgp.rs.                          *)
(*                                                                         *)
(* Messages of other OpenPGP programs, with several session key packets,   *)
(* enter the store too, and stored messages may be damaged.                *)
(***************************************************************************)
EXTENDS PgpMessages

CONSTANTS
  RandomU32,     \* what four random octets may spell
  OtherSkesks    \* the password lists of other programs' messages

ASSUME SymConstants == RandomU32 \subseteq Nat /\ OtherSkesks \subseteq Seq(Password)
-------------------------------------------------------------------------------
(* SymmetricAlgorithm::key_size. *)
key_size(c) == IF c = "aes256" THEN 32 ELSE IF c \in {"aes192", "3des"} THEN 24 ELSE 16

default_s2k_count_off(r) == 65536 + (r % (253952 - 65536 + 2))

(* MIN + r % (MAX - MIN + 1): all of MIN .. MAX can come out. *)
default_s2k_count(r) == 65536 + (r % (253952 - 65536 + 1))

NoSalt == 0

make_s2k_unsalted(o, salt, r) ==
  [mode |-> o.s2k_mode, digest |-> o.s2k_digest,
   salt |-> IF o.s2k_mode = 3 THEN salt ELSE NoSalt,
   count |-> IF o.s2k_mode # 3 THEN NoCount
             ELSE IF o.s2k_count # NoCount THEN o.s2k_count ELSE default_s2k_count(r)]

(* The string-to-key specifier, with a fresh salt and the count asked of    *)
(* S2K::new_iterated.                                                       *)
make_s2k(o, salt, r) ==
  [mode |-> o.s2k_mode, digest |-> o.s2k_digest,
   salt |-> IF o.s2k_mode \in {1, 3} THEN salt ELSE NoSalt,
   count |-> IF o.s2k_mode # 3 THEN NoCount
             ELSE IF o.s2k_count # NoCount THEN o.s2k_count ELSE default_s2k_count(r)]

(* S2K::derive_key. *)
derive_key(pw, s2k, size) == <<"derived", pw, s2k, size>>

NoEsk == <<"no esk">>

(* SKESK4::new and SKESK4::with_password: a session key packet without and  *)
(* with an encrypted session key in it.                                     *)
SkeskDirect(c, s2k) == [cipher |-> c, s2k |-> s2k, esk |-> NoEsk]
SkeskWithKey(payload, c, s2k, key, pw) ==
  [cipher |-> c, s2k |-> s2k,
   esk |-> <<derive_key(pw, s2k, key_size(c)), payload, key>>]

(* SKESK4::decrypt: the cipher and the key the packet yields. *)
SkeskDecrypt(sk, pw) ==
  LET k == derive_key(pw, sk.s2k, key_size(sk.cipher)) IN
  IF sk.esk = NoEsk THEN <<sk.cipher, k>>
  ELSE IF sk.esk[1] = k THEN <<sk.esk[2], sk.esk[3]>>
  ELSE <<sk.cipher, Garbage>>
-------------------------------------------------------------------------------
vars == <<store, fresh, call>>

Init == store = << >> /\ fresh = 0 /\ call = Idle

S2kCipher(o) == IF o.s2k_cipher = NoCipher THEN o.cipher ELSE o.s2k_cipher

CiphersAlways(o) == TRUE

(* The packet without an encrypted session key names one cipher only. *)
CiphersFit(o) == o.use_session_key \/ S2kCipher(o) = o.cipher

(* pgp_sym_encrypt and pgp_sym_encrypt_bytea. *)
SymEncrypt(d, t, pw, o, r) ==
  LET s2k == make_s2k(o, fresh + 1, r)
      key == IF o.use_session_key THEN Session(fresh + 2)
             ELSE derive_key(pw, s2k, key_size(o.cipher))
      skesk == IF o.use_session_key
                 THEN SkeskWithKey(o.cipher, S2kCipher(o), s2k, key, pw)
                 ELSE SkeskDirect(S2kCipher(o), s2k)
  IN
  /\ CanStore
  /\ t = "text" => d \in TextData
  /\ CiphersFit(o)
  /\ store' = Append(store, Message("us", <<skesk>>, o.cipher, key, write_payload(d, t, o),
                                    [data |-> d, type |-> t, passwords |-> {pw},
                                     crlf |-> o.convert_crlf]))
  /\ fresh' = fresh + 2
  /\ UNCHANGED call

(* Bound: random values drawn before a refused call. *)
MaxDraws == 2 * MaxMessages

(* The same functions refusing the options: make_s2k has drawn its salt. *)
SymEncryptRefused(o) ==
  /\ call = Idle /\ fresh < MaxDraws
  /\ ~CiphersFit(o)
  /\ fresh' = fresh + 1
  /\ UNCHANGED <<store, call>>

(* Another program stores a message for each of several passwords. *)
OtherEncrypt(pws, l) ==
  LET key == Session(fresh + 1)
      s2k(k) == [mode |-> 3, digest |-> "sha1", salt |-> fresh + 1 + k, count |-> 65536]
  IN
  /\ CanStore
  /\ store' = Append(store,
       Message("other",
               [k \in 1 .. Len(pws) |-> SkeskWithKey("aes256", "aes256", s2k(k), key, pws[k])],
               "aes256", key, l,
               [data |-> l.body, type |-> "bytea",
                passwords |-> {pws[k] : k \in 1 .. Len(pws)}, crlf |-> FALSE]))
  /\ fresh' = fresh + 1 + Len(pws)
  /\ UNCHANGED call
-------------------------------------------------------------------------------
(* pgp_sym_decrypt and pgp_sym_decrypt_bytea have parsed their options. *)
SymDecrypt(m, pw, t, crlf) ==
  /\ call = Idle
  /\ call' = [pc |-> "open", m |-> m, pw |-> pw, type |-> t, crlf |-> crlf,
              i |-> 1, got |-> <<"none", Garbage>>, result |-> Fail("none")]
  /\ UNCHANGED <<store, fresh>>

(* DecryptorBuilder::from_bytes. *)
OpenMessage ==
  /\ call.pc = "open"
  /\ \/ Msg.damage = "framing" /\ Return(Fail("invalid message"))
     \/ Msg.damage # "framing" /\ call' = [call EXCEPT !.pc = "skesk"]
  /\ UNCHANGED <<store, fresh>>

SkipSkesk(i) == i + 2

NextSkesk(i) == i + 1

(* One iteration of the loop of PasswordHelper::decrypt. *)
TrySkesk ==
  /\ call.pc = "skesk" /\ call.i <= Len(Msg.esks)
  /\ Offer(SkeskDecrypt(Msg.esks[call.i], call.pw), [call EXCEPT !.i = NextSkesk(call.i)])
  /\ UNCHANGED <<store, fresh>>

NoSkeskLeft ==
  /\ call.pc = "skesk" /\ call.i > Len(Msg.esks)
  /\ Return(Fail("incorrect password"))
  /\ UNCHANGED <<store, fresh>>

DecryptStep == OpenMessage \/ TrySkesk \/ NoSkeskLeft \/ ReadToEnd \/ Answer

Next ==
  \/ \E d \in Data, t \in SqlType, pw \in Password, o \in Options, r \in RandomU32 :
       SymEncrypt(d, t, pw, o, r)
  \/ \E o \in Options : SymEncryptRefused(o)
  \/ \E pws \in OtherSkesks, l \in OtherLiterals : OtherEncrypt(pws, l)
  \/ \E m \in 1 .. Len(store), where \in {"framing", "body"} : Damage(m, where)
  \/ \E m \in 1 .. Len(store), pw \in Password, t \in SqlType, crlf \in BOOLEAN :
       SymDecrypt(m, pw, t, crlf)
  \/ DecryptStep

Spec == Init /\ [][Next]_vars
-------------------------------------------------------------------------------
(* What s2k-count asked for, or what default_s2k_count may draw. *)
S2kCount ==
  {c \in S2kCountRange : (\E o \in Options : o.s2k_count = c) \/ (65536 <= c /\ c <= 253952)}

(* Stored packets are well formed, with the count default_s2k_count or the  *)
(* option promises, and the loop of PasswordHelper stays inside its list.   *)
TypeOK ==
  /\ MessagesOK
  /\ \A m \in 1 .. Len(store) : \A i \in 1 .. Len(store[m].esks) :
       LET s2k == store[m].esks[i].s2k IN
       /\ s2k.mode \in {0, 1, 3} /\ s2k.salt \in 0 .. fresh
       /\ IF s2k.mode = 3 THEN s2k.count \in S2kCount ELSE s2k.count = NoCount
  /\ call.pc \in {"idle", "open", "skesk", "read", "returned"}
  /\ call # Idle => call.i \in 1 .. Len(Msg.esks) + 1

(* A decrypt call that succeeds was made with a password of the message, on *)
(* an undamaged message, whatever keys passed the quick check on the way;   *)
(* and if it reads the message as it was written, it returns what was       *)
(* encrypted.                                                               *)
Authentic ==
  Returns("ok") =>
    /\ Msg.damage = "none" /\ call.pw \in Msg.from.passwords
    /\ ReadsAsWritten => call.result.value = Msg.from.data

(* Whatever options a message was encrypted with, its password decrypts it: *)
(* the session key packet describes the key and the cipher of the body, and *)
(* no check of decrypted_text refuses a text that was encrypted as one.     *)
HolderReads ==
  (/\ call.pc = "returned" /\ Msg.maker = "us" /\ Msg.damage = "none"
   /\ call.pw \in Msg.from.passwords /\ ReadsAsWritten)
    => call.result = Ok(Msg.from.data)

(* "incorrect password" is never the answer to a right one on an intact     *)
(* message: the loop tries every session key packet before it gives up, and *)
(* goes on behind one that fails.                                           *)
BlamesPasswordRightly ==
  Returns("incorrect password") =>
    Msg.damage # "none" \/ call.pw \notin Msg.from.passwords

(* Whatever another program wrote into a message, a value pgp_sym_decrypt   *)
(* returns is a valid SQL text: UTF-8 without NUL, from a text packet.      *)
TextIsValid ==
  Returns("ok") /\ call.type = "text" =>
    /\ call.result.value \in Utf8 /\ call.result.value \notin HasNul
    /\ Msg.literal.format \in {"text", "unicode"}

(* Two messages are encrypted under the same key only if both take their    *)
(* key from the same password by the simple S2K, without a session key.     *)
KeysFresh ==
  \A i, j \in 1 .. Len(store) :
    i # j /\ store[i].key = store[j].key =>
      \A k \in {i, j} :
        /\ store[k].esks[1].s2k.mode = 0 /\ store[k].esks[1].esk = NoEsk
        /\ store[k].from.passwords = store[i].from.passwords

SymErrors == {"invalid message", "incorrect password", "decryption failed",
              "not text", "NUL byte", "not UTF-8"}
SealedByPassword(m) == m.from.passwords
SymSealed == INSTANCE SealedStore WITH
  Reader <- Password, Errors <- SymErrors,
  sealed <- Sealed(SealedByPassword), request <- Request({call.pw})
(* The pgp_sym_* functions are a store of sealed values, whose readers are  *)
(* the passwords: a message never changes but by damage, and no step of a   *)
(* decrypt call shows anything of it before the integrity code is checked.  *)
SymImplementsSealedStore == SymSealed!SSpec
===============================================================================
