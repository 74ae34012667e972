----------------------------- MODULE PgpSymProofs -----------------------------
(***************************************************************************)
(* Proofs about PgpSym, for every set of passwords, options, values and    *)
(* messages of other programs, and for stores of any length, and about     *)
(* PgpSetting: an application that keeps one options text for both         *)
(* directions gets back what it encrypted, whatever the text.              *)
(*                                                                         *)
(* The argument has two halves.  MessageInv says of every stored message   *)
(* what an encrypt call established: which passwords unseal it, what its   *)
(* literal packet reads back as, where its key comes from.  CallInv says   *)
(* what a decrypt call has found out so far.  No step of a call changes a  *)
(* message, and messages only change between calls.                        *)
(***************************************************************************)
EXTENDS PgpSetting, SequenceTheorems, TLAPS

(* The sets the variables range over. *)
S2k == [mode : {0, 1, 3}, digest : {"md5", "sha1"}, salt : Nat, count : Nat]
Derived == {derive_key(pw, s, n) : pw \in Password, s \in S2k, n \in Nat}
KeyTerm == Derived \cup {Session(n) : n \in Nat} \cup {Garbage}
Esk == {NoEsk} \cup (KeyTerm \X Cipher \X KeyTerm)
Skesk == [cipher : Cipher, s2k : S2k, esk : Esk]
From == [data : Bodies, type : SqlType, passwords : SUBSET Password, crlf : BOOLEAN]
Stored == [maker : {"us", "other"}, esks : Seq(Skesk), cipher : Cipher, key : KeyTerm,
           literal : Literal, from : From, damage : {"none", "framing", "body"}]
Result == [outcome : {"ok", "none"} \cup SymErrors, value : Bodies \cup {NoValue}]
Call == [pc : {"open", "skesk", "read", "returned"}, m : Nat, pw : Password, type : SqlType,
         crlf : BOOLEAN, i : Nat, got : (Cipher \cup {"none"}) \X KeyTerm, result : Result]

Shapes ==
  /\ store \in Seq(Stored) /\ Len(store) <= MaxMessages /\ fresh \in Nat
  /\ call = Idle \/ (call \in Call /\ call.m \in 1 .. Len(store)
                     /\ call.i \in 1 .. Len(Msg.esks) + 1)

(* Some packet of the message yields its cipher and key for the password:   *)
(* exactly the passwords the message was encrypted with do that.            *)
Unseals(m, pw) == \E k \in 1 .. Len(m.esks) : SkeskDecrypt(m.esks[k], pw) = <<m.cipher, m.key>>
PasswordsUnseal(m) == \A pw \in Password : pw \in m.from.passwords <=> Unseals(m, pw)

(* Read as it was written, the literal packet gives back the value. *)
ReadsBack(m) ==
  \A t \in SqlType, c \in BOOLEAN :
    t = m.from.type /\ (t = "text" => c = m.from.crlf) =>
      Returned(m.literal, t, c) = Ok(m.from.data)

(* Where the key comes from: a session key of its own, or the password and  *)
(* the S2K of the only packet, salted freshly unless the S2K is simple.     *)
KeyOrigin(m, drawn) ==
  \/ \E n \in 1 .. drawn : m.key = Session(n)
  \/ /\ Len(m.esks) = 1 /\ m.esks[1].esk = NoEsk
     /\ m.esks[1].s2k.mode # 0 => m.esks[1].s2k.salt \in 1 .. drawn
     /\ \E pw \in Password, n \in Nat :
          m.from.passwords = {pw} /\ m.key = derive_key(pw, m.esks[1].s2k, n)

MessageInv(m, drawn) ==
  /\ PasswordsUnseal(m) /\ ReadsBack(m) /\ KeyOrigin(m, drawn)
  /\ m.maker = "us" => Len(m.esks) = 1

(* The packets the loop has passed do not fit, if the message is intact. *)
PassedUnfit ==
  call.pc \in {"open", "skesk"} /\ Msg.damage = "none" =>
    \A k \in 1 .. call.i - 1 : SkeskDecrypt(Msg.esks[k], call.pw) # <<Msg.cipher, Msg.key>>

(* The key the packet is read with is what the packet at hand yields. *)
GotFromPacket ==
  call.pc = "read" =>
    call.i \in 1 .. Len(Msg.esks) /\ call.got = SkeskDecrypt(Msg.esks[call.i], call.pw)

(* What each way to return says about the message and the password. *)
ReturnInv ==
  call.pc = "returned" =>
    \/ /\ call.result = Returned(Msg.literal, call.type, call.crlf)
       /\ Msg.damage = "none" /\ call.pw \in Msg.from.passwords
    \/ call.result = Fail("invalid message") /\ Msg.damage # "none"
    \/ /\ call.result = Fail("incorrect password")
       /\ Msg.damage # "none" \/ call.pw \notin Msg.from.passwords
    \/ /\ call.result = Fail("decryption failed")
       /\ Msg.maker = "us" => Msg.damage # "none" \/ call.pw \notin Msg.from.passwords

CallInv == call # Idle => PassedUnfit /\ GotFromPacket /\ ReturnInv

IInv == Shapes /\ (\A m \in 1 .. Len(store) : MessageInv(store[m], fresh)) /\ CallInv
-------------------------------------------------------------------------------
(* Keys are equal only if they come from the same place. *)
LEMMA DeriveInjective ==
  ASSUME NEW p, NEW q, NEW s, NEW u, NEW m, NEW n, derive_key(p, s, m) = derive_key(q, u, n)
  PROVE  p = q /\ s = u /\ m = n
  BY DEF derive_key

(* A derived key, a session key and what a wrong key makes of one differ. *)
LEMMA TermsDiffer ==
  ASSUME NEW p, NEW s, NEW m, NEW n, NEW k
  PROVE  /\ derive_key(p, s, m) # Session(n) /\ derive_key(p, s, m) # Garbage
         /\ Session(n) # Garbage
         /\ Session(n) = Session(k) => n = k
  BY DEF derive_key, Session, Garbage

(* An encrypted session key is not the absence of one. *)
LEMMA EskPresent ==
  ASSUME NEW a, NEW b, NEW c
  PROVE  <<a, b, c>> # NoEsk
  BY DEF NoEsk

(* The packet without a session key yields the derived key. *)
LEMMA DirectDecrypt ==
  ASSUME NEW c, NEW s, NEW pw
  PROVE  SkeskDecrypt(SkeskDirect(c, s), pw) = <<c, derive_key(pw, s, key_size(c))>>
  BY DEF SkeskDirect, SkeskDecrypt

(* The packet with one yields it for its password and garbage for others. *)
LEMMA WithKeyDecrypt ==
  ASSUME NEW b, NEW c, NEW s, NEW k, NEW p, NEW q
  PROVE  SkeskDecrypt(SkeskWithKey(b, c, s, k, p), q) = IF q = p THEN <<b, k>> ELSE <<c, Garbage>>
PROOF
  <1> DEFINE sk == SkeskWithKey(b, c, s, k, p)
  <1>1. /\ sk.s2k = s /\ sk.cipher = c
        /\ sk.esk = <<derive_key(p, s, key_size(c)), b, k>>
    BY DEF SkeskWithKey
  <1>2. sk.esk # NoEsk
    BY <1>1, EskPresent
  <1>3. sk.esk[1] = derive_key(p, s, key_size(c)) /\ sk.esk[2] = b /\ sk.esk[3] = k
    BY <1>1
  <1>4. sk.esk[1] = derive_key(q, s, key_size(c)) <=> q = p
    BY <1>3, DeriveInjective
  <1> HIDE DEF sk
  <1>5. QED
    BY <1>1, <1>2, <1>3, <1>4 DEF SkeskDecrypt, sk
-------------------------------------------------------------------------------
(* The message pgp_sym_encrypt makes after n random draws. *)
SymMessage(d, t, pw, o, r, n) ==
  LET s2k == make_s2k(o, n + 1, r)
      key == IF o.use_session_key THEN Session(n + 2)
             ELSE derive_key(pw, s2k, key_size(o.cipher))
      skesk == IF o.use_session_key
                 THEN SkeskWithKey(o.cipher, S2kCipher(o), s2k, key, pw)
                 ELSE SkeskDirect(S2kCipher(o), s2k)
  IN Message("us", <<skesk>>, o.cipher, key, write_payload(d, t, o),
             [data |-> d, type |-> t, passwords |-> {pw}, crlf |-> o.convert_crlf])

(* The message of another program for the passwords pws. *)
OtherMessage(pws, l, n) ==
  LET key == Session(n + 1)
      s2k(k) == [mode |-> 3, digest |-> "sha1", salt |-> n + 1 + k, count |-> 65536]
  IN Message("other",
             [k \in 1 .. Len(pws) |-> SkeskWithKey("aes256", "aes256", s2k(k), key, pws[k])],
             "aes256", key, l,
             [data |-> l.body, type |-> "bytea",
              passwords |-> {pws[k] : k \in 1 .. Len(pws)}, crlf |-> FALSE])

(* make_s2k makes an S2K of the mode the options ask for, salted with what  *)
(* was drawn if the mode has a salt at all.                                 *)
LEMMA MakeS2k ==
  ASSUME NEW o \in PgpOptions, NEW n \in Nat, NEW r \in Nat
  PROVE  /\ make_s2k(o, n, r) \in S2k
         /\ make_s2k(o, n, r).mode = o.s2k_mode
         /\ make_s2k(o, n, r).salt = IF o.s2k_mode = 0 THEN 0 ELSE n
PROOF
  <1>1. /\ o.s2k_mode \in {0, 1, 3} /\ o.s2k_digest \in {"md5", "sha1"} /\ o.s2k_count \in Nat
    BY DEF PgpOptions
  <1>2. default_s2k_count(r) \in Nat
    BY DEF default_s2k_count
  <1>3. QED
    BY <1>1, <1>2 DEF make_s2k, S2k, NoSalt, NoCount

(* The literal packet of a value is one, and reads back as the value.       *)
LEMMA PayloadReadsBack ==
  ASSUME NEW d \in Data, NEW t \in SqlType, NEW o \in PgpOptions, t = "text" => d \in TextData
  PROVE  /\ write_payload(d, t, o) \in Literal
         /\ Returned(write_payload(d, t, o), t, o.convert_crlf) = Ok(d)
         /\ t = "bytea" => \A c \in BOOLEAN : Returned(write_payload(d, t, o), t, c) = Ok(d)
PROOF
  <1> DEFINE l == write_payload(d, t, o)
  <1>1. o.convert_crlf \in BOOLEAN /\ o.unicode_mode \in BOOLEAN
    BY DEF PgpOptions
  <1>2. /\ l.body = IF Converts(t, o) THEN crlf_encode[d] ELSE d
        /\ l.format = IF t = "bytea" THEN "binary" ELSE IF o.unicode_mode THEN "unicode" ELSE "text"
    BY DEF write_payload
  <1>3. l \in Literal
    BY PayloadTypes DEF write_payload, Literal, Format
  <1>4. CASE t = "bytea"
    BY <1>2, <1>3, <1>4 DEF Returned, Converts
  <1>5. CASE t = "text"
    <2>1. (IF o.convert_crlf THEN crlf_decode[l.body] ELSE l.body) = d
      BY <1>1, <1>2, <1>5, CrlfLossless DEF Converts
    <2>2. d \in Utf8 /\ d \notin HasNul
      BY <1>5 DEF TextData
    <2>3. l.format \in {"text", "unicode"}
      BY <1>1, <1>2, <1>5
    <2>4. decrypted_text(l, o.convert_crlf) = Ok(d)
      BY <2>1, <2>2, <2>3 DEF decrypted_text
    <2>5. QED
      BY <1>3, <1>5, <2>4 DEF Returned
  <1>6. QED
    BY <1>4, <1>5 DEF SqlType

(* What pgp_sym_encrypt stores unseals with the password it was given and   *)
(* with no other, and reads back as the value.                              *)
LEMMA SymMessageInv ==
  ASSUME NEW d \in Data, NEW t \in SqlType, NEW pw \in Password, NEW o \in PgpOptions,
         NEW r \in Nat, NEW n \in Nat, t = "text" => d \in TextData, CiphersFit(o)
  PROVE  /\ SymMessage(d, t, pw, o, r, n) \in Stored
         /\ MessageInv(SymMessage(d, t, pw, o, r, n), n + 2)
         /\ SymMessage(d, t, pw, o, r, n).damage = "none"
PROOF
  <1> DEFINE s2k == make_s2k(o, n + 1, r)
             key == IF o.use_session_key THEN Session(n + 2)
                    ELSE derive_key(pw, s2k, key_size(o.cipher))
             sk == IF o.use_session_key
                     THEN SkeskWithKey(o.cipher, S2kCipher(o), s2k, key, pw)
                     ELSE SkeskDirect(S2kCipher(o), s2k)
             m == SymMessage(d, t, pw, o, r, n)
  <1>1. /\ m.maker = "us" /\ m.esks = <<sk>> /\ m.cipher = o.cipher /\ m.key = key
        /\ m.literal = write_payload(d, t, o) /\ m.damage = "none"
        /\ m.from = [data |-> d, type |-> t, passwords |-> {pw}, crlf |-> o.convert_crlf]
        /\ m = [maker |-> "us", esks |-> <<sk>>, cipher |-> o.cipher, key |-> key,
                literal |-> write_payload(d, t, o), from |-> m.from, damage |-> "none"]
    BY DEF SymMessage, Message
  <1>2. /\ o.cipher \in Cipher /\ S2kCipher(o) \in Cipher /\ o.use_session_key \in BOOLEAN
        /\ o.convert_crlf \in BOOLEAN /\ o.s2k_mode \in {0, 1, 3}
    BY DEF PgpOptions, S2kCipher
  <1>3. /\ s2k \in S2k /\ s2k.mode = o.s2k_mode
        /\ s2k.salt = IF o.s2k_mode = 0 THEN 0 ELSE n + 1
    BY MakeS2k
  <1>4. \A c : key_size(c) \in Nat
    BY DEF key_size
  <1> HIDE DEF m, s2k
  <1>5. key \in KeyTerm /\ derive_key(pw, s2k, key_size(S2kCipher(o))) \in KeyTerm
    BY <1>3, <1>4 DEF KeyTerm, Derived
  <1>6. sk \in Skesk
    <2> HIDE DEF key
    <2>1. NoEsk \in Esk /\ <<derive_key(pw, s2k, key_size(S2kCipher(o))), o.cipher, key>> \in Esk
      BY <1>2, <1>5 DEF Esk
    <2>2. QED
      BY <1>2, <1>3, <2>1 DEF Skesk, SkeskWithKey, SkeskDirect
  <1>7. m \in Stored
    <2> HIDE DEF sk, key
    <2>1. m.from \in From
      BY <1>1, <1>2, PayloadTypes DEF From
    <2>2. write_payload(d, t, o) \in Literal
      BY PayloadReadsBack
    <2>3. <<sk>> \in Seq(Skesk)
      BY <1>6
    <2>4. QED
      BY <1>1, <1>2, <1>5, <2>1, <2>2, <2>3 DEF Stored
  <1>8. \A q \in Password : SkeskDecrypt(sk, q) = <<o.cipher, key>> <=> q = pw
    <2> SUFFICES ASSUME NEW q \in Password
                 PROVE  SkeskDecrypt(sk, q) = <<o.cipher, key>> <=> q = pw
      OBVIOUS
    <2>1. CASE o.use_session_key
      <3>1. SkeskDecrypt(sk, q) = IF q = pw THEN <<o.cipher, key>> ELSE <<S2kCipher(o), Garbage>>
        BY <2>1, WithKeyDecrypt
      <3>2. key # Garbage
        BY <2>1, TermsDiffer
      <3> HIDE DEF sk, key
      <3>3. QED
        BY <3>1, <3>2
    <2>2. CASE ~o.use_session_key
      <3>1. S2kCipher(o) = o.cipher
        BY <2>2 DEF CiphersFit
      <3>2. SkeskDecrypt(sk, q) = <<o.cipher, derive_key(q, s2k, key_size(o.cipher))>>
        BY <2>2, <3>1, DirectDecrypt
      <3>3. derive_key(q, s2k, key_size(o.cipher)) = derive_key(pw, s2k, key_size(o.cipher))
              <=> q = pw
        BY DeriveInjective
      <3>4. QED
        BY <2>2, <3>2, <3>3
    <2>3. QED
      BY <1>2, <2>1, <2>2
  <1>9. PasswordsUnseal(m)
    <2> HIDE DEF sk, key
    <2>1. m.from.passwords = {pw} /\ Len(m.esks) = 1 /\ m.esks[1] = sk
      BY <1>1
    <2>2. QED
      BY <1>1, <1>8, <2>1 DEF PasswordsUnseal, Unseals
  <1>10. ReadsBack(m)
    <2>1. m.from.type = t /\ m.from.crlf = o.convert_crlf /\ m.from.data = d
      BY <1>1
    <2>2. QED
      BY <1>1, <2>1, PayloadReadsBack DEF ReadsBack, SqlType
  <1>11. KeyOrigin(m, n + 2)
    <2>1. CASE o.use_session_key
      BY <1>1, <2>1 DEF KeyOrigin
    <2>2. CASE ~o.use_session_key
      <3>1. sk.esk = NoEsk /\ sk.s2k = s2k
        BY <2>2 DEF SkeskDirect
      <3>2. key = derive_key(pw, s2k, key_size(o.cipher))
        BY <2>2
      <3> HIDE DEF sk, key
      <3>3. Len(m.esks) = 1 /\ m.esks[1] = sk /\ m.from.passwords = {pw}
        BY <1>1
      <3>4. s2k.mode # 0 => s2k.salt \in 1 .. n + 2
        BY <1>3
      <3>5. QED
        BY <1>1, <1>4, <3>1, <3>2, <3>3, <3>4 DEF KeyOrigin
    <2>3. QED
      BY <1>2, <2>1, <2>2
  <1>12. QED
    BY <1>1, <1>7, <1>9, <1>10, <1>11 DEF MessageInv, m

(* What another program stores unseals with the passwords it was made for   *)
(* and with no other.                                                       *)
LEMMA OtherMessageInv ==
  ASSUME NEW pws \in Seq(Password), NEW l \in Literal, NEW n \in Nat
  PROVE  /\ OtherMessage(pws, l, n) \in Stored
         /\ MessageInv(OtherMessage(pws, l, n), n + 1 + Len(pws))
         /\ OtherMessage(pws, l, n).damage = "none"
         /\ OtherMessage(pws, l, n).key = Session(n + 1)
PROOF
  <1> DEFINE key == Session(n + 1)
             s2k(k) == [mode |-> 3, digest |-> "sha1", salt |-> n + 1 + k, count |-> 65536]
             sk(k) == SkeskWithKey("aes256", "aes256", s2k(k), key, pws[k])
             esks == [k \in 1 .. Len(pws) |-> sk(k)]
             from == [data |-> l.body, type |-> "bytea",
                      passwords |-> {pws[k] : k \in 1 .. Len(pws)}, crlf |-> FALSE]
             m == OtherMessage(pws, l, n)
  <1>1. /\ m.maker = "other" /\ m.esks = esks /\ m.cipher = "aes256" /\ m.key = key
        /\ m.literal = l /\ m.damage = "none" /\ m.from = from
        /\ m = [maker |-> "other", esks |-> esks, cipher |-> "aes256", key |-> key,
                literal |-> l, from |-> from, damage |-> "none"]
    BY DEF OtherMessage, Message
  <1> HIDE DEF m
  <1>2. \A k \in 1 .. Len(pws) : sk(k) \in Skesk
    <2> SUFFICES ASSUME NEW k \in 1 .. Len(pws) PROVE sk(k) \in Skesk
      OBVIOUS
    <2>1. pws[k] \in Password /\ s2k(k) \in S2k /\ key_size("aes256") \in Nat
      BY DEF S2k, key_size
    <2> HIDE DEF s2k
    <2>2. key \in KeyTerm /\ derive_key(pws[k], s2k(k), key_size("aes256")) \in KeyTerm
      BY <2>1 DEF KeyTerm, Derived
    <2> HIDE DEF key
    <2>3. <<derive_key(pws[k], s2k(k), key_size("aes256")), "aes256", key>> \in Esk
      BY <2>2 DEF Esk, Cipher
    <2>4. QED
      BY <2>1, <2>3 DEF Skesk, SkeskWithKey, Cipher
  <1>3. \A k \in 1 .. Len(pws), q \in Password :
          SkeskDecrypt(sk(k), q) = <<"aes256", key>> <=> q = pws[k]
    <2> SUFFICES ASSUME NEW k \in 1 .. Len(pws), NEW q \in Password
                 PROVE  SkeskDecrypt(sk(k), q) = <<"aes256", key>> <=> q = pws[k]
      OBVIOUS
    <2>1. key # Garbage
      BY TermsDiffer
    <2> HIDE DEF s2k, key
    <2>2. SkeskDecrypt(sk(k), q) = IF q = pws[k] THEN <<"aes256", key>> ELSE <<"aes256", Garbage>>
      BY WithKeyDecrypt
    <2> HIDE DEF sk
    <2>3. QED
      BY <2>1, <2>2
  <1>4. key \in KeyTerm
    BY DEF KeyTerm
  <1> HIDE DEF sk
  <1>5. esks \in Seq(Skesk) /\ Len(esks) = Len(pws) /\ \A k \in 1 .. Len(pws) : esks[k] = sk(k)
    BY <1>2
  <1> HIDE DEF esks
  <1>6. from \in From /\ l.body \in Bodies
    BY DEF From, Literal, SqlType
  <1>7. m \in Stored
    <2> HIDE DEF key, from
    <2>1. QED
      BY <1>1, <1>4, <1>5, <1>6 DEF Stored, Cipher
  <1>8. PasswordsUnseal(m)
    <2>1. \A q : q \in m.from.passwords <=> \E k \in 1 .. Len(pws) : q = pws[k]
      BY <1>1
    <2> HIDE DEF key, from, s2k
    <2>2. ASSUME NEW q \in Password, NEW k \in 1 .. Len(pws)
          PROVE  SkeskDecrypt(m.esks[k], q) = <<m.cipher, m.key>> <=> q = pws[k]
      BY <1>1, <1>3, <1>5
    <2>3. Len(m.esks) = Len(pws)
      BY <1>1, <1>5
    <2>4. QED
      BY <2>1, <2>2, <2>3, Zenon DEF PasswordsUnseal, Unseals
  <1>9. ReadsBack(m)
    BY <1>1 DEF ReadsBack, Returned
  <1>10. KeyOrigin(m, n + 1 + Len(pws))
    BY <1>1 DEF KeyOrigin
  <1>11. QED
    BY <1>1, <1>7, <1>8, <1>9, <1>10 DEF MessageInv, m
-------------------------------------------------------------------------------
(* Drawing more random values takes nothing away from a message. *)
LEMMA MessageKept ==
  ASSUME NEW m \in Stored, NEW a \in Nat, NEW b \in Nat, a <= b, MessageInv(m, a)
  PROVE  MessageInv(m, b)
PROOF
  <1>1. ASSUME ~ \E j \in 1 .. a : m.key = Session(j)
        PROVE  m.esks[1].s2k.salt \in Nat
    <2>1. Len(m.esks) = 1
      BY <1>1 DEF MessageInv, KeyOrigin
    <2>2. m.esks \in Seq(Skesk)
      BY DEF Stored
    <2>3. m.esks[1] \in Skesk
      BY <2>1, <2>2
    <2>4. QED
      BY <2>3 DEF Skesk, S2k
  <1>2. QED
    BY <1>1 DEF MessageInv, KeyOrigin

(* What an encrypt call leaves behind, whoever makes it. *)
LEMMA AppendInv ==
  ASSUME IInv, NEW m \in Stored, NEW n \in Nat, n >= fresh, MessageInv(m, n), CanStore,
         store' = Append(store, m), fresh' = n, call' = call
  PROVE  IInv'
PROOF
  <1>1. /\ store \in Seq(Stored) /\ Len(store) <= MaxMessages /\ fresh \in Nat
        /\ call = Idle /\ Len(store) < MaxMessages
    BY DEF IInv, Shapes, CanStore
  <1>2. /\ store' \in Seq(Stored) /\ Len(store') = Len(store) + 1
        /\ \A k \in 1 .. Len(store) : store'[k] = store[k]
        /\ store'[Len(store) + 1] = m
    BY <1>1
  <1>3. Shapes'
    BY <1>1, <1>2, MessageConstants DEF Shapes
  <1>4. ASSUME NEW k \in 1 .. Len(store')
        PROVE  MessageInv(store'[k], n)
    <2>1. CASE k = Len(store) + 1
      BY <1>2, <2>1
    <2>2. CASE k # Len(store) + 1
      <3>1. k \in 1 .. Len(store) /\ store'[k] = store[k] /\ store[k] \in Stored
        BY <1>1, <1>2, <2>2
      <3>2. MessageInv(store[k], fresh)
        BY <3>1 DEF IInv
      <3>3. QED
        BY <1>1, <3>1, <3>2, MessageKept
    <2>3. QED
      BY <2>1, <2>2
  <1>5. CallInv'
    BY <1>1 DEF CallInv
  <1>6. QED
    BY <1>3, <1>4, <1>5 DEF IInv

(* Damage does not touch what a message was made of. *)
LEMMA DamageInv ==
  ASSUME IInv, NEW m \in 1 .. Len(store), NEW where \in {"framing", "body"}, Damage(m, where)
  PROVE  IInv'
PROOF
  <1>1. /\ store \in Seq(Stored) /\ Len(store) <= MaxMessages /\ fresh \in Nat /\ call = Idle
        /\ store' = [store EXCEPT ![m].damage = where] /\ fresh' = fresh /\ call' = call
    BY DEF IInv, Shapes, Damage
  <1>2. ASSUME NEW k \in 1 .. Len(store)
        PROVE  /\ store'[k] \in Stored
               /\ store'[k].maker = store[k].maker /\ store'[k].esks = store[k].esks
               /\ store'[k].cipher = store[k].cipher /\ store'[k].key = store[k].key
               /\ store'[k].literal = store[k].literal /\ store'[k].from = store[k].from
    <2>1. store[k] \in Stored
      BY <1>1
    <2>2. store'[k] = IF k = m THEN [store[k] EXCEPT !.damage = where] ELSE store[k]
      BY <1>1
    <2>3. QED
      BY <2>1, <2>2 DEF Stored
  <1>3. store' \in Seq(Stored) /\ Len(store') = Len(store)
    BY <1>1, <1>2
  <1>4. Shapes'
    BY <1>1, <1>3 DEF Shapes
  <1>5. ASSUME NEW k \in 1 .. Len(store')
        PROVE  MessageInv(store'[k], fresh)
    <2>1. MessageInv(store[k], fresh) /\ k \in 1 .. Len(store)
      BY <1>3 DEF IInv
    <2>2. PasswordsUnseal(store'[k])
      BY <1>2, <2>1, Zenon DEF MessageInv, PasswordsUnseal, Unseals
    <2>3. ReadsBack(store'[k])
      BY <1>2, <2>1, Zenon DEF MessageInv, ReadsBack
    <2>4. KeyOrigin(store'[k], fresh)
      BY <1>2, <2>1, Zenon DEF MessageInv, KeyOrigin
    <2>5. QED
      BY <1>2, <2>1, <2>2, <2>3, <2>4 DEF MessageInv
  <1>6. CallInv'
    BY <1>1 DEF CallInv
  <1>7. QED
    BY <1>1, <1>4, <1>5, <1>6 DEF IInv

(* What is known of a call in progress. *)
LEMMA CallFacts ==
  ASSUME IInv, call.pc # "idle"
  PROVE  /\ call # Idle /\ call \in Call /\ call.m \in 1 .. Len(store)
         /\ Msg \in Stored /\ Msg.esks \in Seq(Skesk) /\ MessageInv(Msg, fresh)
         /\ call.i \in 1 .. Len(Msg.esks) + 1
PROOF
  <1>1. call # Idle
    BY DEF Idle
  <1>2. call \in Call /\ call.m \in 1 .. Len(store) /\ call.i \in 1 .. Len(Msg.esks) + 1
    BY <1>1 DEF IInv, Shapes
  <1>3. Msg \in Stored
    BY <1>2 DEF IInv, Shapes, Msg
  <1>4. MessageInv(Msg, fresh)
    BY <1>2 DEF IInv, Msg
  <1>5. QED
    BY <1>1, <1>2, <1>3, <1>4 DEF Stored

(* A packet yields a cipher and a key. *)
LEMMA SkeskYields ==
  ASSUME NEW sk \in Skesk, NEW pw \in Password
  PROVE  SkeskDecrypt(sk, pw) \in (Cipher \cup {"none"}) \X KeyTerm
PROOF
  <1> DEFINE k == derive_key(pw, sk.s2k, key_size(sk.cipher))
  <1>1. sk.cipher \in Cipher /\ sk.s2k \in S2k /\ sk.esk \in Esk /\ key_size(sk.cipher) \in Nat
    BY DEF Skesk, key_size
  <1>2. k \in KeyTerm /\ Garbage \in KeyTerm
    BY <1>1 DEF KeyTerm, Derived
  <1> HIDE DEF k
  <1>3. CASE sk.esk = NoEsk
    BY <1>1, <1>2, <1>3 DEF SkeskDecrypt, k
  <1>4. CASE sk.esk # NoEsk
    <2>1. sk.esk \in KeyTerm \X Cipher \X KeyTerm
      BY <1>1, <1>4 DEF Esk
    <2>2. sk.esk[2] \in Cipher /\ sk.esk[3] \in KeyTerm
      BY <2>1
    <2>3. QED
      BY <1>1, <1>2, <1>4, <2>2 DEF SkeskDecrypt, k
  <1>5. QED
    BY <1>3, <1>4

(* A step that leaves the messages alone leaves what is known of them. *)
LEMMA CallStepInv ==
  ASSUME IInv, UNCHANGED <<store, fresh>>, Shapes', CallInv'
  PROVE  IInv'
  BY DEF IInv

(* A call returns: nothing but its state and its result changes. *)
LEMMA ReturnShape ==
  ASSUME IInv, call.pc # "idle", NEW res \in Result, Return(res), UNCHANGED <<store, fresh>>
  PROVE  /\ Shapes' /\ call' # Idle /\ Msg' = Msg
         /\ call'.pc = "returned" /\ call'.result = res /\ call'.pw = call.pw
         /\ call'.type = call.type /\ call'.crlf = call.crlf /\ call'.m = call.m
PROOF
  <1>1. call \in Call /\ call.m \in 1 .. Len(store) /\ call.i \in 1 .. Len(Msg.esks) + 1
    BY CallFacts
  <1>2. /\ call' \in Call /\ call'.pc = "returned" /\ call'.result = res /\ call'.pw = call.pw
        /\ call'.type = call.type /\ call'.crlf = call.crlf /\ call'.m = call.m
        /\ call'.i = call.i
    BY <1>1 DEF Return, Call
  <1>3. Msg' = Msg
    BY <1>2 DEF Msg
  <1>4. Shapes'
    BY <1>1, <1>2, <1>3 DEF IInv, Shapes
  <1>5. QED
    BY <1>2, <1>3, <1>4 DEF Idle

(* A failure, and what a decrypt function makes of a packet, are results. *)
LEMMA Results ==
  ASSUME NEW l \in Literal, NEW t \in SqlType, NEW c \in BOOLEAN, NEW e \in {"none"} \cup SymErrors
  PROVE  Fail(e) \in Result /\ Returned(l, t, c) \in Result
PROOF
  <1>1. Fail(e) \in Result /\ Fail("not text") \in Result /\ Fail("NUL byte") \in Result
        /\ Fail("not UTF-8") \in Result
    BY DEF Fail, Result, SymErrors
  <1>2. l.body \in Bodies /\ crlf_decode[l.body] \in Bodies
    BY PayloadTypes DEF Literal
  <1>3. \A b \in Bodies : Ok(b) \in Result
    BY DEF Ok, Result, SymErrors
  <1>4. QED
    BY <1>1, <1>2, <1>3 DEF Returned, decrypted_text

(* pgp_sym_decrypt begins. *)
LEMMA SymDecryptInv ==
  ASSUME IInv, NEW m \in 1 .. Len(store), NEW pw \in Password, NEW t \in SqlType,
         NEW crlf \in BOOLEAN, SymDecrypt(m, pw, t, crlf)
  PROVE  IInv'
PROOF
  <1>1. /\ call' = [pc |-> "open", m |-> m, pw |-> pw, type |-> t, crlf |-> crlf,
                    i |-> 1, got |-> <<"none", Garbage>>, result |-> Fail("none")]
        /\ UNCHANGED <<store, fresh>>
    BY DEF SymDecrypt
  <1>2. <<"none", Garbage>> \in (Cipher \cup {"none"}) \X KeyTerm /\ Fail("none") \in Result
    BY DEF KeyTerm, Fail, Result, SymErrors
  <1>3. store \in Seq(Stored) /\ store[m] \in Stored
    BY DEF IInv, Shapes
  <1>4. Len(store[m].esks) \in Nat
    BY <1>3 DEF Stored
  <1>5. call' \in Call /\ call'.m = m /\ call'.pc = "open" /\ call'.i = 1
    BY <1>1, <1>2, <1>3 DEF Call
  <1>6. Msg' = store[m]
    BY <1>1, <1>5 DEF Msg
  <1>7. Shapes'
    BY <1>1, <1>3, <1>4, <1>5, <1>6 DEF IInv, Shapes
  <1>8. CallInv'
    BY <1>5 DEF CallInv, PassedUnfit, GotFromPacket, ReturnInv
  <1>9. QED
    BY <1>1, <1>7, <1>8, CallStepInv

(* DecryptorBuilder has parsed the message or refused it. *)
LEMMA OpenMessageInv ==
  ASSUME IInv, OpenMessage
  PROVE  IInv'
PROOF
  <1>1. call.pc = "open" /\ UNCHANGED <<store, fresh>>
    BY DEF OpenMessage
  <1>2. /\ call \in Call /\ call.m \in 1 .. Len(store) /\ call.i \in 1 .. Len(Msg.esks) + 1
    BY <1>1, CallFacts
  <1>3. CASE Msg.damage = "framing" /\ Return(Fail("invalid message"))
    <2>1. Fail("invalid message") \in Result
      BY DEF Fail, Result, SymErrors
    <2>2. /\ Shapes' /\ Msg' = Msg
          /\ call'.pc = "returned" /\ call'.result = Fail("invalid message")
      BY <1>1, <1>3, <2>1, ReturnShape
    <2>3. CallInv'
      BY <1>3, <2>2 DEF CallInv, PassedUnfit, GotFromPacket, ReturnInv
    <2>4. QED
      BY <1>1, <2>2, <2>3, CallStepInv
  <1>4. CASE call' = [call EXCEPT !.pc = "skesk"]
    <2>1. call' \in Call /\ call'.pc = "skesk" /\ call'.m = call.m /\ call'.i = call.i
      BY <1>2, <1>4 DEF Call
    <2>2. Msg' = Msg
      BY <1>1, <2>1 DEF Msg
    <2>3. Shapes'
      BY <1>1, <1>2, <2>1, <2>2 DEF IInv, Shapes
    <2>4. call'.pw = call.pw
      BY <1>2, <1>4 DEF Call
    <2>5. CallInv'
      BY <1>1, <2>1, <2>2, <2>4, CallFacts DEF IInv, CallInv, PassedUnfit, GotFromPacket, ReturnInv
    <2>6. QED
      BY <1>1, <2>3, <2>5, CallStepInv
  <1>5. QED
    BY <1>3, <1>4 DEF OpenMessage

(* One session key packet is tried: its key is taken, or it does not fit    *)
(* unless the message is damaged.                                           *)
LEMMA TrySkeskInv ==
  ASSUME IInv, TrySkesk
  PROVE  IInv'
PROOF
  <1> DEFINE got == SkeskDecrypt(Msg.esks[call.i], call.pw)
  <1>1. call.pc = "skesk" /\ call.i <= Len(Msg.esks) /\ UNCHANGED <<store, fresh>>
    BY DEF TrySkesk
  <1>2. /\ call \in Call /\ call.m \in 1 .. Len(store) /\ call.i \in 1 .. Len(Msg.esks)
        /\ Msg.esks \in Seq(Skesk) /\ call # Idle
    BY <1>1, CallFacts
  <1>3. got \in (Cipher \cup {"none"}) \X KeyTerm
    BY <1>2, SkeskYields DEF Call
  <1> HIDE DEF got
  <1>4. PICK looksRight \in QuickCheck(got) :
          call' = IF looksRight THEN [call EXCEPT !.pc = "read", !.got = got]
                  ELSE [call EXCEPT !.i = NextSkesk(call.i)]
    BY DEF TrySkesk, Offer, got
  <1>5. CASE looksRight
    <2>1. /\ call' \in Call /\ call'.pc = "read" /\ call'.got = got /\ call'.m = call.m
          /\ call'.i = call.i /\ call'.pw = call.pw
      BY <1>2, <1>3, <1>4, <1>5 DEF Call
    <2>2. Msg' = Msg
      BY <1>1, <2>1 DEF Msg
    <2>3. Shapes'
      BY <1>1, <1>2, <2>1, <2>2 DEF IInv, Shapes
    <2>4. CallInv'
      BY <1>2, <2>1, <2>2 DEF CallInv, PassedUnfit, GotFromPacket, ReturnInv, got
    <2>5. QED
      BY <1>1, <2>3, <2>4, CallStepInv
  <1>6. CASE ~looksRight
    <2>1. /\ call' \in Call /\ call'.pc = "skesk" /\ call'.m = call.m
          /\ call'.i = call.i + 1 /\ call'.pw = call.pw
      BY <1>1, <1>2, <1>4, <1>6 DEF Call, NextSkesk
    <2>2. Msg' = Msg
      BY <1>1, <2>1 DEF Msg
    <2>3. Shapes'
      BY <1>1, <1>2, <2>1, <2>2 DEF IInv, Shapes
    <2>4. Msg.damage = "none" => got # <<Msg.cipher, Msg.key>>
      BY <1>4, <1>6 DEF QuickCheck, RightKey
    <2>5. PassedUnfit
      BY <1>2 DEF IInv, CallInv
    <2>6. PassedUnfit'
      BY <1>1, <1>2, <2>1, <2>2, <2>4, <2>5 DEF PassedUnfit, got
    <2>7. CallInv'
      BY <2>1, <2>6 DEF CallInv, GotFromPacket, ReturnInv
    <2>8. QED
      BY <1>1, <2>3, <2>7, CallStepInv
  <1>7. QED
    BY <1>5, <1>6

(* The loop of PasswordHelper is through: no packet fits, so the password   *)
(* is none of the message's.                                                *)
LEMMA NoSkeskLeftInv ==
  ASSUME IInv, NoSkeskLeft
  PROVE  IInv'
PROOF
  <1>1. /\ call.pc = "skesk" /\ call.i > Len(Msg.esks) /\ UNCHANGED <<store, fresh>>
        /\ Return(Fail("incorrect password"))
    BY DEF NoSkeskLeft
  <1>2. /\ call # Idle /\ call \in Call /\ Msg.esks \in Seq(Skesk) /\ MessageInv(Msg, fresh)
        /\ call.i \in 1 .. Len(Msg.esks) + 1
    BY <1>1, CallFacts
  <1>3. Fail("incorrect password") \in Result
    BY DEF Fail, Result, SymErrors
  <1>4. /\ Shapes' /\ Msg' = Msg /\ call'.pw = call.pw
        /\ call'.pc = "returned" /\ call'.result = Fail("incorrect password")
    BY <1>1, <1>3, ReturnShape
  <1>5. Msg.damage # "none" \/ call.pw \notin Msg.from.passwords
    <2> DEFINE n == Len(Msg.esks)
    <2>1. n \in Nat
      BY <1>2
    <2> HIDE DEF n
    <2>2. call.i - 1 = n
      <3>1. call.i > n /\ call.i \in 1 .. n + 1
        BY <1>1, <1>2 DEF n
      <3>2. QED
        BY <2>1, <3>1
    <2>3. Msg.damage = "none" => ~Unseals(Msg, call.pw)
      BY <1>1, <1>2, <2>2 DEF IInv, CallInv, PassedUnfit, Unseals, n
    <2>4. QED
      BY <1>2, <2>3 DEF MessageInv, PasswordsUnseal, Call
  <1>6. CallInv'
    BY <1>4, <1>5 DEF CallInv, PassedUnfit, GotFromPacket, ReturnInv
  <1>7. QED
    BY <1>1, <1>4, <1>6, CallStepInv

(* The packet has been read to its end: the integrity code tells whether    *)
(* the key was the right one, and the right one comes from a right password.*)
LEMMA ReadToEndInv ==
  ASSUME IInv, ReadToEnd
  PROVE  IInv'
PROOF
  <1> DEFINE res == IF ReadsThrough(call.got) THEN Returned(Msg.literal, call.type, call.crlf)
                    ELSE Fail("decryption failed")
  <1>1. call.pc = "read" /\ Return(res) /\ UNCHANGED <<store, fresh>>
    BY DEF ReadToEnd
  <1>2. /\ call # Idle /\ call \in Call /\ Msg \in Stored /\ MessageInv(Msg, fresh)
    BY <1>1, CallFacts
  <1>3. Msg.literal \in Literal /\ call.type \in SqlType /\ call.crlf \in BOOLEAN
        /\ call.pw \in Password
    BY <1>2 DEF Stored, Call
  <1>4. /\ Returned(Msg.literal, call.type, call.crlf) \in Result
        /\ Fail("decryption failed") \in Result
    BY <1>3, Results DEF SymErrors
  <1>5. res \in Result
    BY <1>4
  <1> HIDE DEF res
  <1>6. /\ Shapes' /\ Msg' = Msg /\ call'.pw = call.pw /\ call'.type = call.type
        /\ call'.crlf = call.crlf /\ call'.pc = "returned" /\ call'.result = res
    BY <1>1, <1>5, ReturnShape
  <1>7. call.i \in 1 .. Len(Msg.esks) /\ call.got = SkeskDecrypt(Msg.esks[call.i], call.pw)
    BY <1>1, <1>2 DEF IInv, CallInv, GotFromPacket
  <1>8. RightKey(call.got) => call.pw \in Msg.from.passwords
    BY <1>2, <1>3, <1>7 DEF RightKey, MessageInv, PasswordsUnseal, Unseals
  <1>9. Msg.maker = "us" /\ ~RightKey(call.got) => call.pw \notin Msg.from.passwords
    <2>1. Msg.maker = "us" => call.i = 1 /\ Len(Msg.esks) = 1
      BY <1>2, <1>7 DEF MessageInv
    <2>2. QED
      BY <1>2, <1>3, <1>7, <2>1 DEF RightKey, MessageInv, PasswordsUnseal, Unseals
  <1>10. CallInv'
    <2>1. CASE ReadsThrough(call.got)
      BY <1>6, <1>8, <2>1 DEF ReadsThrough, CallInv, PassedUnfit, GotFromPacket, ReturnInv, res
    <2>2. CASE ~ReadsThrough(call.got)
      BY <1>6, <1>9, <2>2 DEF ReadsThrough, CallInv, PassedUnfit, GotFromPacket, ReturnInv, res
    <2>3. QED
      BY <2>1, <2>2
  <1>11. QED
    BY <1>1, <1>6, <1>10, CallStepInv

(* The caller has its answer. *)
LEMMA AnswerInv ==
  ASSUME IInv, Answer
  PROVE  IInv'
  BY CallStepInv DEF Answer, IInv, Shapes, CallInv

(* One step of a decrypt call. *)
LEMMA DecryptStepInv ==
  ASSUME IInv, DecryptStep
  PROVE  IInv'
  BY OpenMessageInv, TrySkeskInv, NoSkeskLeftInv, ReadToEndInv, AnswerInv DEF DecryptStep

(* pgp_sym_encrypt, whatever options it was given. *)
LEMMA SymEncryptInv ==
  ASSUME IInv, NEW d \in Data, NEW t \in SqlType, NEW pw \in Password, NEW o \in PgpOptions,
         NEW r \in RandomU32, SymEncrypt(d, t, pw, o, r)
  PROVE  IInv'
PROOF
  <1>1. r \in Nat /\ fresh \in Nat
    BY SymConstants DEF IInv, Shapes
  <1>2. /\ store' = Append(store, SymMessage(d, t, pw, o, r, fresh)) /\ fresh' = fresh + 2
        /\ CanStore /\ (t = "text" => d \in TextData) /\ CiphersFit(o) /\ call' = call
    BY DEF SymEncrypt, SymMessage
  <1>3. /\ SymMessage(d, t, pw, o, r, fresh) \in Stored
        /\ MessageInv(SymMessage(d, t, pw, o, r, fresh), fresh + 2)
    BY <1>1, <1>2, SymMessageInv
  <1>4. fresh + 2 \in Nat /\ fresh + 2 >= fresh
    BY <1>1
  <1>5. QED
    BY <1>2, <1>3, <1>4, AppendInv

(* pgp_sym_encrypt refuses its options. *)
LEMMA SymRefusedInv ==
  ASSUME IInv, NEW o, SymEncryptRefused(o)
  PROVE  IInv'
PROOF
  <1>1. /\ fresh \in Nat /\ fresh' = fresh + 1 /\ UNCHANGED <<store, call>> /\ call = Idle
        /\ store \in Seq(Stored)
    BY DEF SymEncryptRefused, IInv, Shapes
  <1>2. Shapes' /\ CallInv'
    BY <1>1 DEF IInv, Shapes, CallInv
  <1>3. \A m \in 1 .. Len(store) : MessageInv(store[m], fresh + 1)
    BY <1>1, MessageKept DEF IInv
  <1>4. QED
    BY <1>1, <1>2, <1>3 DEF IInv

(* Another program stores a message. *)
LEMMA OtherEncryptInv ==
  ASSUME IInv, NEW pws \in OtherSkesks, NEW l \in OtherLiterals, OtherEncrypt(pws, l)
  PROVE  IInv'
PROOF
  <1>1. pws \in Seq(Password) /\ l \in Literal /\ fresh \in Nat
    BY SymConstants, MessageConstants DEF IInv, Shapes
  <1>2. /\ store' = Append(store, OtherMessage(pws, l, fresh)) /\ fresh' = fresh + 1 + Len(pws)
        /\ CanStore /\ call' = call
    BY DEF OtherEncrypt, OtherMessage
  <1>3. /\ OtherMessage(pws, l, fresh) \in Stored
        /\ MessageInv(OtherMessage(pws, l, fresh), fresh + 1 + Len(pws))
    BY <1>1, OtherMessageInv
  <1>4. fresh + 1 + Len(pws) \in Nat /\ fresh + 1 + Len(pws) >= fresh
    BY <1>1
  <1>5. QED
    BY <1>2, <1>3, <1>4, AppendInv
-------------------------------------------------------------------------------
(* What TypeOK says of the packets of a message. *)
PacketsOK(m, drawn) ==
  \A i \in 1 .. Len(m.esks) :
    LET s2k == m.esks[i].s2k IN
    /\ s2k.mode \in {0, 1, 3} /\ s2k.salt \in 0 .. drawn
    /\ IF s2k.mode = 3 THEN s2k.count \in S2kCount ELSE s2k.count = NoCount

(* A key drawn or salted after n random draws. *)
NewKey(m, n) ==
  \/ \E k \in Nat : k > n /\ m.key = Session(k)
  \/ /\ m.esks[1].esk = NoEsk
     /\ m.esks[1].s2k.mode # 0 => m.esks[1].s2k.salt > n
     /\ \E pw \in Password, k \in Nat :
          m.from.passwords = {pw} /\ m.key = derive_key(pw, m.esks[1].s2k, k)

(* Two messages whose keys are the same without harm. *)
SameSimpleKey(m, x) ==
  /\ m.esks[1].s2k.mode = 0 /\ m.esks[1].esk = NoEsk
  /\ x.esks[1].s2k.mode = 0 /\ x.esks[1].esk = NoEsk
  /\ m.from.passwords = x.from.passwords

TypeInv == \A m \in 1 .. Len(store) : PacketsOK(store[m], fresh)

SInv == IInv /\ TypeInv /\ KeysFresh

(* What pgp_sym_encrypt draws is within the range of an S2K count, and its  *)
(* key is new.                                                              *)
LEMMA SymMessageNew ==
  ASSUME NEW d, NEW t, NEW pw \in Password, NEW o \in Options, NEW r \in Nat, NEW n \in Nat
  PROVE  /\ PacketsOK(SymMessage(d, t, pw, o, r, n), n + 2)
         /\ NewKey(SymMessage(d, t, pw, o, r, n), n)
PROOF
  <1> DEFINE s2k == make_s2k(o, n + 1, r)
             key == IF o.use_session_key THEN Session(n + 2)
                    ELSE derive_key(pw, s2k, key_size(o.cipher))
             sk == IF o.use_session_key
                     THEN SkeskWithKey(o.cipher, S2kCipher(o), s2k, key, pw)
                     ELSE SkeskDirect(S2kCipher(o), s2k)
             m == SymMessage(d, t, pw, o, r, n)
  <1>1. /\ m.esks = <<sk>> /\ m.key = key /\ m.from.passwords = {pw}
    BY DEF SymMessage, Message
  <1>2. o \in PgpOptions /\ o.use_session_key \in BOOLEAN /\ o.s2k_mode \in {0, 1, 3}
        /\ o.s2k_count \in Nat /\ (o.s2k_count = NoCount \/ o.s2k_count \in S2kCountRange)
    BY MessageConstants DEF PgpOptions
  <1>3. /\ s2k \in S2k /\ s2k.mode = o.s2k_mode
        /\ s2k.salt = IF o.s2k_mode = 0 THEN 0 ELSE n + 1
    BY <1>2, MakeS2k
  <1>4. sk.s2k = s2k
    BY DEF SkeskWithKey, SkeskDirect
  <1>5. IF s2k.mode = 3 THEN s2k.count \in S2kCount ELSE s2k.count = NoCount
    <2>1. CASE s2k.mode # 3
      BY <1>3, <2>1 DEF make_s2k
    <2>2. CASE s2k.mode = 3 /\ o.s2k_count # NoCount
      <3>1. s2k.count = o.s2k_count
        BY <1>3, <2>2 DEF make_s2k
      <3>2. QED
        BY <1>2, <2>2, <3>1 DEF S2kCount
    <2>3. CASE s2k.mode = 3 /\ o.s2k_count = NoCount
      <3>1. s2k.count = default_s2k_count(r)
        BY <1>3, <2>3 DEF make_s2k
      <3>2. default_s2k_count(r) \in Nat /\ 65536 <= default_s2k_count(r)
            /\ default_s2k_count(r) <= 253952
        BY DEF default_s2k_count
      <3>3. QED
        BY <2>3, <3>1, <3>2 DEF S2kCount, S2kCountRange
    <2>4. QED
      BY <2>1, <2>2, <2>3
  <1>6. \A c : key_size(c) \in Nat
    BY DEF key_size
  <1>7. o.use_session_key => key = Session(n + 2)
    OBVIOUS
  <1>8. ~o.use_session_key => key = derive_key(pw, s2k, key_size(o.cipher)) /\ sk.esk = NoEsk
    BY DEF SkeskDirect
  <1> HIDE DEF m, sk, key, s2k
  <1>9. Len(m.esks) = 1 /\ m.esks[1] = sk
    BY <1>1
  <1>10. PacketsOK(m, n + 2)
    BY <1>2, <1>3, <1>4, <1>5, <1>9 DEF PacketsOK
  <1>11. NewKey(m, n)
    <2>1. CASE o.use_session_key
      BY <1>1, <1>7, <2>1 DEF NewKey
    <2>2. CASE ~o.use_session_key
      BY <1>1, <1>2, <1>3, <1>4, <1>6, <1>8, <1>9, <2>2 DEF NewKey
    <2>3. QED
      BY <1>2, <2>1, <2>2
  <1>12. QED
    BY <1>10, <1>11 DEF m

(* So it is with the message of another program. *)
LEMMA OtherMessageNew ==
  ASSUME NEW pws \in Seq(Password), NEW l, NEW n \in Nat
  PROVE  /\ PacketsOK(OtherMessage(pws, l, n), n + 1 + Len(pws))
         /\ NewKey(OtherMessage(pws, l, n), n)
PROOF
  <1> DEFINE m == OtherMessage(pws, l, n)
             s2k(k) == [mode |-> 3, digest |-> "sha1", salt |-> n + 1 + k, count |-> 65536]
             sk(k) == SkeskWithKey("aes256", "aes256", s2k(k), Session(n + 1), pws[k])
  <1>1. m.esks = [k \in 1 .. Len(pws) |-> sk(k)] /\ m.key = Session(n + 1)
    BY DEF OtherMessage, Message
  <1>2. Len(m.esks) = Len(pws) /\ \A k \in 1 .. Len(pws) : m.esks[k] = sk(k)
    BY <1>1
  <1>3. \A k \in 1 .. Len(pws) : sk(k).s2k = s2k(k)
    BY DEF SkeskWithKey
  <1>4. 65536 \in S2kCount
    BY DEF S2kCount, S2kCountRange
  <1> HIDE DEF m, sk, s2k
  <1>5. ASSUME NEW k \in 1 .. Len(pws)
        PROVE  /\ m.esks[k].s2k.mode = 3 /\ m.esks[k].s2k.count = 65536
               /\ m.esks[k].s2k.salt \in 0 .. n + 1 + Len(pws)
    <2>1. m.esks[k].s2k = s2k(k)
      BY <1>2, <1>3, Zenon
    <2>2. QED
      BY <2>1 DEF s2k
  <1>6. PacketsOK(m, n + 1 + Len(pws))
    BY <1>2, <1>4, <1>5 DEF PacketsOK
  <1>7. NewKey(m, n)
    BY <1>1 DEF NewKey
  <1>8. QED
    BY <1>6, <1>7 DEF m

(* A new key is an old one only if both are the simple S2K of a password.   *)
LEMMA NewKeyDiffers ==
  ASSUME NEW n \in Nat, NEW m, NEW x, NewKey(m, n), KeyOrigin(x, n), m.key = x.key
  PROVE  SameSimpleKey(m, x)
PROOF
  <1>1. CASE \E k \in Nat : k > n /\ m.key = Session(k)
    BY <1>1, TermsDiffer DEF KeyOrigin
  <1>2. CASE /\ m.esks[1].esk = NoEsk
             /\ m.esks[1].s2k.mode # 0 => m.esks[1].s2k.salt > n
             /\ \E pw \in Password, k \in Nat :
                  m.from.passwords = {pw} /\ m.key = derive_key(pw, m.esks[1].s2k, k)
    <2>1. PICK p \in Password, a \in Nat :
            m.from.passwords = {p} /\ m.key = derive_key(p, m.esks[1].s2k, a)
      BY <1>2
    <2>2. \A j : x.key # Session(j)
      BY <2>1, TermsDiffer
    <2>3. /\ x.esks[1].esk = NoEsk
          /\ x.esks[1].s2k.mode # 0 => x.esks[1].s2k.salt \in 1 .. n
          /\ \E q \in Password, b \in Nat :
               x.from.passwords = {q} /\ x.key = derive_key(q, x.esks[1].s2k, b)
      BY <2>2, Zenon DEF KeyOrigin
    <2>4. x.from.passwords = {p} /\ m.esks[1].s2k = x.esks[1].s2k
      <3>1. PICK q \in Password, b \in Nat :
              x.from.passwords = {q} /\ x.key = derive_key(q, x.esks[1].s2k, b)
        BY <2>3, Zenon
      <3>2. derive_key(p, m.esks[1].s2k, a) = derive_key(q, x.esks[1].s2k, b)
        BY <2>1, <3>1
      <3>3. p = q /\ m.esks[1].s2k = x.esks[1].s2k
        BY <3>2 DEF derive_key
      <3>4. QED
        BY <3>1, <3>3
    <2>5. m.esks[1].s2k.mode = 0
      <3> DEFINE salt == m.esks[1].s2k.salt
      <3>1. m.esks[1].s2k.mode # 0 => salt > n /\ salt \in 1 .. n
        BY <1>2, <2>3, <2>4
      <3> HIDE DEF salt
      <3>2. QED
        BY <3>1
    <2>6. QED
      BY <1>2, <2>1, <2>3, <2>4, <2>5 DEF SameSimpleKey
  <1>3. QED
    BY <1>1, <1>2 DEF NewKey

(* Storing a message with a new key keeps the keys apart. *)
LEMMA AppendFresh ==
  ASSUME SInv, NEW m \in Stored, NEW n \in Nat, n >= fresh, CanStore,
         PacketsOK(m, n), NewKey(m, fresh), store' = Append(store, m), fresh' = n
  PROVE  TypeInv' /\ KeysFresh'
PROOF
  <1>1. store \in Seq(Stored) /\ fresh \in Nat
    BY DEF SInv, IInv, Shapes
  <1>2. /\ Len(store') = Len(store) + 1 /\ store'[Len(store) + 1] = m
        /\ \A k \in 1 .. Len(store) : store'[k] = store[k]
    BY <1>1
  <1>3. TypeInv'
    <2> SUFFICES ASSUME NEW k \in 1 .. Len(store') PROVE PacketsOK(store'[k], n)
      BY DEF TypeInv
    <2>1. CASE k = Len(store) + 1
      BY <1>2, <2>1
    <2>2. CASE k # Len(store) + 1
      <3>1. k \in 1 .. Len(store) /\ store'[k] = store[k]
        BY <1>1, <1>2, <2>2
      <3>2. PacketsOK(store[k], fresh)
        BY <3>1 DEF SInv, TypeInv
      <3>3. QED
        BY <1>1, <3>1, <3>2 DEF PacketsOK
    <2>3. QED
      BY <2>1, <2>2
  <1>4. ASSUME NEW k \in 1 .. Len(store), store[k].key = m.key
        PROVE  SameSimpleKey(m, store[k])
    <2>1. KeyOrigin(store[k], fresh)
      BY DEF SInv, IInv, MessageInv
    <2>2. QED
      BY <1>1, <1>4, <2>1, NewKeyDiffers
  <1>5. KeysFresh'
    <2> SUFFICES ASSUME NEW i \in 1 .. Len(store'), NEW j \in 1 .. Len(store'), i # j,
                        store'[i].key = store'[j].key
                 PROVE  SameSimpleKey(store'[i], store'[j])
      BY DEF KeysFresh, SameSimpleKey
    <2>1. CASE i # Len(store) + 1 /\ j # Len(store) + 1
      <3>1. /\ i \in 1 .. Len(store) /\ j \in 1 .. Len(store)
            /\ store'[i] = store[i] /\ store'[j] = store[j]
        BY <1>1, <1>2, <2>1
      <3>2. QED
        BY <3>1 DEF SInv, KeysFresh, SameSimpleKey
    <2>2. CASE i = Len(store) + 1
      <3>1. store'[i] = m /\ j \in 1 .. Len(store) /\ store'[j] = store[j]
        BY <1>1, <1>2, <2>2
      <3>2. QED
        BY <1>4, <3>1
    <2>3. CASE j = Len(store) + 1
      <3>1. store'[j] = m /\ i \in 1 .. Len(store) /\ store'[i] = store[i]
        BY <1>1, <1>2, <2>3
      <3>2. QED
        BY <1>4, <3>1 DEF SameSimpleKey
    <2>4. QED
      BY <2>1, <2>2, <2>3
  <1>6. QED
    BY <1>3, <1>5

(* A step that leaves packets, keys and passwords alone. *)
LEMMA SameMessages ==
  ASSUME SInv, fresh' \in Nat, fresh' >= fresh, Len(store') = Len(store),
         \A k \in 1 .. Len(store) : /\ store'[k].esks = store[k].esks
                                    /\ store'[k].key = store[k].key
                                    /\ store'[k].from = store[k].from
  PROVE  TypeInv' /\ KeysFresh'
PROOF
  <1>1. fresh \in Nat
    BY DEF SInv, IInv, Shapes
  <1>2. TypeInv'
    <2> SUFFICES ASSUME NEW k \in 1 .. Len(store) PROVE PacketsOK(store'[k], fresh')
      BY DEF TypeInv
    <2>1. PacketsOK(store[k], fresh) /\ store'[k].esks = store[k].esks
      BY DEF SInv, TypeInv
    <2>2. QED
      BY <1>1, <2>1 DEF PacketsOK
  <1>3. KeysFresh'
    <2> SUFFICES ASSUME NEW i \in 1 .. Len(store), NEW j \in 1 .. Len(store), i # j,
                        store'[i].key = store'[j].key
                 PROVE  SameSimpleKey(store'[i], store'[j])
      BY DEF KeysFresh, SameSimpleKey
    <2>1. SameSimpleKey(store[i], store[j])
      BY DEF SInv, KeysFresh, SameSimpleKey
    <2>2. QED
      BY <2>1 DEF SameSimpleKey
  <1>4. QED
    BY <1>2, <1>3

(* There is nothing in the store at first. *)
LEMMA SInvInit == Init => SInv
PROOF
  <1> SUFFICES ASSUME Init PROVE SInv
    OBVIOUS
  <1>1. store = << >> /\ fresh = 0 /\ call = Idle /\ Len(store) = 0
    BY DEF Init
  <1>2. Shapes
    BY <1>1, MessageConstants DEF Shapes
  <1>3. CallInv
    BY <1>1 DEF CallInv
  <1>4. QED
    BY <1>1, <1>2, <1>3 DEF SInv, IInv, TypeInv, KeysFresh

(* Every step preserves the invariant. *)
LEMMA SInvNext == SInv /\ [Next]_vars => SInv'
PROOF
  <1> SUFFICES ASSUME SInv, [Next]_vars PROVE SInv'
    OBVIOUS
  <1>0. IInv /\ fresh \in Nat /\ store \in Seq(Stored)
    BY DEF SInv, IInv, Shapes
  <1>1. ASSUME NEW d \in Data, NEW t \in SqlType, NEW pw \in Password, NEW o \in Options,
               NEW r \in RandomU32, SymEncrypt(d, t, pw, o, r)
        PROVE  SInv'
    <2> DEFINE m == SymMessage(d, t, pw, o, r, fresh)
    <2>1. r \in Nat /\ o \in PgpOptions
      BY SymConstants, MessageConstants
    <2>2. /\ store' = Append(store, m) /\ fresh' = fresh + 2 /\ CanStore
          /\ t = "text" => d \in TextData
          /\ CiphersFit(o)
      BY <1>1 DEF SymEncrypt, SymMessage
    <2>3. m \in Stored
      BY <1>0, <2>1, <2>2, SymMessageInv
    <2>4. PacketsOK(m, fresh + 2) /\ NewKey(m, fresh)
      BY <1>0, <2>1, SymMessageNew
    <2> HIDE DEF m
    <2>5. TypeInv' /\ KeysFresh'
      BY <1>0, <2>2, <2>3, <2>4, AppendFresh
    <2>6. QED
      BY <1>0, <1>1, <2>1, <2>5, SymEncryptInv DEF SInv
  <1>2. ASSUME NEW o \in Options, SymEncryptRefused(o)
        PROVE  SInv'
    <2>1. TypeInv' /\ KeysFresh'
      BY <1>0, <1>2, SameMessages DEF SymEncryptRefused
    <2>2. QED
      BY <1>0, <1>2, <2>1, SymRefusedInv DEF SInv
  <1>3. ASSUME NEW pws \in OtherSkesks, NEW l \in OtherLiterals, OtherEncrypt(pws, l)
        PROVE  SInv'
    <2> DEFINE m == OtherMessage(pws, l, fresh)
    <2>1. pws \in Seq(Password) /\ l \in Literal
      BY SymConstants, MessageConstants
    <2>2. store' = Append(store, m) /\ fresh' = fresh + 1 + Len(pws) /\ CanStore
      BY <1>3 DEF OtherEncrypt, OtherMessage
    <2>3. m \in Stored
      BY <1>0, <2>1, OtherMessageInv
    <2>4. PacketsOK(m, fresh + 1 + Len(pws)) /\ NewKey(m, fresh)
      BY <1>0, <2>1, OtherMessageNew
    <2>5. fresh + 1 + Len(pws) \in Nat /\ fresh + 1 + Len(pws) >= fresh
      BY <1>0, <2>1
    <2> HIDE DEF m
    <2>6. TypeInv' /\ KeysFresh'
      BY <2>2, <2>3, <2>4, <2>5, AppendFresh
    <2>7. QED
      BY <1>0, <1>3, <2>6, OtherEncryptInv DEF SInv
  <1>4. ASSUME NEW m \in 1 .. Len(store), NEW where \in {"framing", "body"}, Damage(m, where)
        PROVE  SInv'
    <2>1. IInv' /\ fresh' = fresh
      BY <1>0, <1>4, DamageInv DEF Damage
    <2>2. ASSUME NEW k \in 1 .. Len(store)
          PROVE  /\ store'[k].esks = store[k].esks /\ store'[k].key = store[k].key
                 /\ store'[k].from = store[k].from
      <3>1. store[k] \in Stored
        BY <1>0
      <3>2. store'[k] = IF k = m THEN [store[k] EXCEPT !.damage = where] ELSE store[k]
        BY <1>0, <1>4 DEF Damage
      <3>3. QED
        BY <3>1, <3>2 DEF Stored
    <2>3. Len(store') = Len(store)
      BY <1>0, <1>4 DEF Damage
    <2>4. QED
      BY <1>0, <2>1, <2>2, <2>3, SameMessages DEF SInv
  <1>5. ASSUME UNCHANGED <<store, fresh>>, IInv'
        PROVE  SInv'
    BY <1>0, <1>5, SameMessages DEF SInv
  <1>6. ASSUME NEW m \in 1 .. Len(store), NEW pw \in Password, NEW t \in SqlType,
               NEW crlf \in BOOLEAN, SymDecrypt(m, pw, t, crlf)
        PROVE  SInv'
    BY <1>0, <1>5, <1>6, SymDecryptInv DEF SymDecrypt
  <1>7. CASE DecryptStep
    <2>1. UNCHANGED <<store, fresh>>
      BY <1>7 DEF DecryptStep, OpenMessage, TrySkesk, NoSkeskLeft, ReadToEnd, Answer
    <2>2. QED
      BY <1>0, <1>5, <1>7, <2>1, DecryptStepInv
  <1>8. CASE UNCHANGED vars
    <2>1. IInv'
      BY <1>0, <1>8 DEF vars, IInv, Shapes, CallInv, PassedUnfit, GotFromPacket, ReturnInv, Msg
    <2>2. QED
      BY <1>5, <1>8, <2>1 DEF vars
  <1>9. QED
    BY <1>1, <1>2, <1>3, <1>4, <1>6, <1>7, <1>8 DEF Next

(* The invariant holds throughout, for every value of the constants. *)
THEOREM Inductive == Spec => []SInv
  BY SInvInit, SInvNext, PTL DEF Spec
-------------------------------------------------------------------------------
(* What a decrypt function returns is no error of the code around it, and   *)
(* if it is a value then a valid one.                                       *)
LEMMA ReturnedFacts ==
  ASSUME NEW l \in Literal, NEW t \in SqlType, NEW c \in BOOLEAN
  PROVE  /\ Returned(l, t, c).outcome \in {"ok", "not text", "NUL byte", "not UTF-8"}
         /\ Returned(l, t, c).outcome = "ok" /\ t = "text" =>
              /\ Returned(l, t, c).value \in Utf8 /\ Returned(l, t, c).value \notin HasNul
              /\ l.format \in {"text", "unicode"}
         /\ Returned(l, t, c).outcome # "ok" => \E e \in SymErrors : Returned(l, t, c) = Fail(e)
PROOF
  <1>1. \A v : Ok(v).outcome = "ok" /\ Ok(v).value = v
    BY DEF Ok
  <1>2. \A e : Fail(e).outcome = e
    BY DEF Fail
  <1>3. {"not text", "NUL byte", "not UTF-8"} \subseteq SymErrors
    BY DEF SymErrors
  <1> DEFINE d == IF c THEN crlf_decode[l.body] ELSE l.body
  <1> HIDE DEF d
  <1>4. Returned(l, t, c) =
          IF t = "bytea" THEN Ok(l.body)
          ELSE IF l.format \notin {"text", "unicode"} THEN Fail("not text")
          ELSE IF d \in HasNul THEN Fail("NUL byte")
          ELSE IF d \notin Utf8 THEN Fail("not UTF-8")
          ELSE Ok(d)
    BY DEF Returned, decrypted_text, d
  <1>5. \/ Returned(l, t, c) = Ok(l.body) /\ t = "bytea"
        \/ /\ Returned(l, t, c) = Ok(d) /\ d \in Utf8 /\ d \notin HasNul
           /\ l.format \in {"text", "unicode"}
        \/ \E e \in {"not text", "NUL byte", "not UTF-8"} : Returned(l, t, c) = Fail(e)
    BY <1>4
  <1>6. CASE \E e \in {"not text", "NUL byte", "not UTF-8"} : Returned(l, t, c) = Fail(e)
    <2>1. PICK e \in {"not text", "NUL byte", "not UTF-8"} : Returned(l, t, c) = Fail(e)
      BY <1>6
    <2>2. Returned(l, t, c).outcome = e /\ e # "ok" /\ e \in SymErrors
      BY <1>2, <1>3, <2>1
    <2>3. QED
      BY <2>1, <2>2
  <1>7. QED
    BY <1>1, <1>5, <1>6

(* What a returned call says, by the outcome it has. *)
LEMMA Outcomes ==
  ASSUME IInv, call.pc = "returned"
  PROVE  /\ call # Idle /\ Msg \in Stored /\ call \in Call /\ MessageInv(Msg, fresh)
         /\ Msg.literal \in Literal /\ call.type \in SqlType /\ call.crlf \in BOOLEAN
         /\ call.result.outcome = "ok" =>
              /\ call.result = Returned(Msg.literal, call.type, call.crlf)
              /\ Msg.damage = "none" /\ call.pw \in Msg.from.passwords
         /\ call.result.outcome = "incorrect password" =>
              Msg.damage # "none" \/ call.pw \notin Msg.from.passwords
         /\ Msg.maker = "us" /\ Msg.damage = "none" /\ call.pw \in Msg.from.passwords =>
              call.result = Returned(Msg.literal, call.type, call.crlf)
PROOF
  <1>1. /\ call # Idle /\ Msg \in Stored /\ call \in Call /\ MessageInv(Msg, fresh)
    BY CallFacts
  <1>2. Msg.literal \in Literal /\ call.type \in SqlType /\ call.crlf \in BOOLEAN
    BY <1>1 DEF Stored, Call
  <1>3. ReturnInv
    BY <1>1 DEF IInv, CallInv
  <1>4. Returned(Msg.literal, call.type, call.crlf).outcome # "incorrect password"
    BY <1>2, ReturnedFacts
  <1>5. \A e : Fail(e).outcome = e
    BY DEF Fail
  <1>6. CASE /\ call.result = Returned(Msg.literal, call.type, call.crlf)
             /\ Msg.damage = "none" /\ call.pw \in Msg.from.passwords
    BY <1>1, <1>2, <1>4, <1>6
  <1>7. CASE call.result = Fail("invalid message") /\ Msg.damage # "none"
    BY <1>1, <1>2, <1>5, <1>7
  <1>8. CASE /\ call.result = Fail("incorrect password")
             /\ Msg.damage # "none" \/ call.pw \notin Msg.from.passwords
    BY <1>1, <1>2, <1>5, <1>8
  <1>9. CASE /\ call.result = Fail("decryption failed")
             /\ Msg.maker = "us" => Msg.damage # "none" \/ call.pw \notin Msg.from.passwords
    BY <1>1, <1>2, <1>5, <1>9
  <1>10. QED
    BY <1>3, <1>6, <1>7, <1>8, <1>9 DEF ReturnInv

(* Stored packets are well formed, every S2K count is one of the option's   *)
(* or of default_s2k_count's range, and the loop over the session key       *)
(* packets stays inside their list.                                         *)
THEOREM TypeCorrect == Spec => []TypeOK
PROOF
  <1>1. SInv => TypeOK
    <2> SUFFICES ASSUME SInv PROVE TypeOK
      OBVIOUS
    <2>1. store \in Seq(Stored) /\ Len(store) <= MaxMessages /\ fresh \in Nat
      BY DEF SInv, IInv, Shapes
    <2>2. \A m \in 1 .. Len(store) :
            /\ store[m].cipher \in Cipher /\ store[m].literal \in Literal
            /\ store[m].damage \in {"none", "framing", "body"}
      <3>1. \A m \in 1 .. Len(store) : store[m] \in Stored
        BY <2>1
      <3>2. QED
        BY <3>1 DEF Stored
    <2>3. call # Idle =>
            /\ call \in Call /\ call.m \in 1 .. Len(store) /\ call.i \in 1 .. Len(Msg.esks) + 1
      BY DEF SInv, IInv, Shapes
    <2>4. call # Idle => call.result.value \in Bodies \cup {NoValue}
      BY <2>3 DEF Call, Result
    <2>5. call.pc \in {"idle", "open", "skesk", "read", "returned"}
      BY <2>3 DEF Call, Idle
    <2>6. QED
      BY <2>1, <2>2, <2>3, <2>4, <2>5 DEF TypeOK, MessagesOK, SInv, TypeInv, PacketsOK
  <1>2. QED
    BY <1>1, Inductive, PTL

(* A value comes out of an undamaged message only, with one of its          *)
(* passwords, and it is the value that was encrypted.                       *)
THEOREM OnlyAuthentic == Spec => []Authentic
PROOF
  <1>1. SInv => Authentic
    <2> SUFFICES ASSUME SInv, call.pc = "returned", call.result.outcome = "ok"
                 PROVE  /\ Msg.damage = "none" /\ call.pw \in Msg.from.passwords
                        /\ ReadsAsWritten => call.result.value = Msg.from.data
      BY DEF Authentic, Returns
    <2>1. /\ Msg.damage = "none" /\ call.pw \in Msg.from.passwords /\ MessageInv(Msg, fresh)
          /\ call.result = Returned(Msg.literal, call.type, call.crlf)
          /\ call.type \in SqlType /\ call.crlf \in BOOLEAN
      BY Outcomes DEF SInv
    <2>2. ReadsAsWritten => call.result = Ok(Msg.from.data)
      BY <2>1 DEF ReadsAsWritten, MessageInv, ReadsBack
    <2>3. QED
      BY <2>1, <2>2 DEF Ok
  <1>2. QED
    BY <1>1, Inductive, PTL

(* What pgp_sym_encrypt made of a value, under whatever options, its        *)
(* password turns back into the value.                                      *)
THEOREM HoldersRead == Spec => []HolderReads
PROOF
  <1>1. SInv => HolderReads
    <2> SUFFICES ASSUME SInv, call.pc = "returned", Msg.maker = "us", Msg.damage = "none",
                        call.pw \in Msg.from.passwords, ReadsAsWritten
                 PROVE  call.result = Ok(Msg.from.data)
      BY DEF HolderReads
    <2>1. /\ call.result = Returned(Msg.literal, call.type, call.crlf)
          /\ MessageInv(Msg, fresh) /\ call.type \in SqlType /\ call.crlf \in BOOLEAN
      BY Outcomes DEF SInv
    <2>2. QED
      BY <2>1 DEF ReadsAsWritten, MessageInv, ReadsBack
  <1>2. QED
    BY <1>1, Inductive, PTL

(* A right password on an intact message is never called incorrect, however *)
(* many session key packets the message has and wherever its own stands.    *)
THEOREM BlamedRightly == Spec => []BlamesPasswordRightly
PROOF
  <1>1. SInv => BlamesPasswordRightly
    BY Outcomes DEF SInv, BlamesPasswordRightly, Returns
  <1>2. QED
    BY <1>1, Inductive, PTL

(* pgp_sym_decrypt returns valid SQL texts only, from text packets. *)
THEOREM ValidText == Spec => []TextIsValid
PROOF
  <1>1. SInv => TextIsValid
    <2> SUFFICES ASSUME SInv, call.pc = "returned", call.result.outcome = "ok",
                        call.type = "text"
                 PROVE  /\ call.result.value \in Utf8 /\ call.result.value \notin HasNul
                        /\ Msg.literal.format \in {"text", "unicode"}
      BY DEF TextIsValid, Returns
    <2>1. /\ call.result = Returned(Msg.literal, call.type, call.crlf)
          /\ Msg.literal \in Literal /\ call.type \in SqlType /\ call.crlf \in BOOLEAN
      BY Outcomes DEF SInv
    <2>2. QED
      BY <2>1, ReturnedFacts
  <1>2. QED
    BY <1>1, Inductive, PTL

(* However many messages there are, two have the same key only by the       *)
(* simple S2K of the same password.                                         *)
THEOREM FreshKeys == Spec => []KeysFresh
  BY Inductive, PTL DEF SInv
-------------------------------------------------------------------------------
(* The refinement: the value, the readers and the intactness of a message,  *)
(* and the call as an application sees it.                                  *)
Value(m) == [literal |-> m.literal, readers |-> m.from.passwords, intact |-> m.damage = "none"]
Values == Sealed(SealedByPassword)
Asking == Request({call.pw})

(* The sealed values are the values of the messages, in their order. *)
LEMMA ValuesAre ==
  ASSUME store \in Seq(Stored)
  PROVE  /\ Values = [k \in 1 .. Len(store) |-> Value(store[k])]
         /\ Len(Values) = Len(store) /\ \A k \in 1 .. Len(store) : Values[k] = Value(store[k])
PROOF
  <1>1. Values = [k \in 1 .. Len(store) |-> Value(store[k])]
    BY DEF Values, Sealed, Value, SealedByPassword
  <1> HIDE DEF Values
  <1>2. QED
    BY <1>1

(* SealedStore reads packets as PgpSym does. *)
LEMMA SamePayload ==
  /\ SymSealed!Literal = Literal /\ SymSealed!SqlType = SqlType
  /\ SymSealed!NoRequest = Idle
  /\ \A e : SymSealed!Fail(e) = Fail(e)
  /\ \A l, t, c : SymSealed!Returned(l, t, c) = Returned(l, t, c)
PROOF
  <1>1. SymSealed!Literal = Literal /\ SymSealed!SqlType = SqlType /\ SymSealed!NoRequest = Idle
    BY DEF SymSealed!Literal, Literal, SymSealed!SqlType, SqlType, SymSealed!Format, Format,
           SymSealed!NoRequest, Idle
  <1>2. \A e : SymSealed!Fail(e) = Fail(e)
    BY DEF SymSealed!Fail, Fail
  <1>3. \A l, t, c : SymSealed!Returned(l, t, c) = Returned(l, t, c)
    BY <1>2 DEF SymSealed!Returned, Returned, SymSealed!decrypted_text, decrypted_text,
                SymSealed!Ok, Ok
  <1>4. QED
    BY <1>1, <1>2, <1>3

(* Storing a message seals its value. *)
LEMMA AppendSeals ==
  ASSUME store \in Seq(Stored), NEW m \in Stored, m.damage = "none",
         store' = Append(store, m), call = Idle, call' = call
  PROVE  SymSealed!Seal
PROOF
  <1>1. store' \in Seq(Stored) /\ Len(store') = Len(store) + 1
    OBVIOUS
  <1>2. /\ Values = [k \in 1 .. Len(store) |-> Value(store[k])]
        /\ Values' = [k \in 1 .. Len(store') |-> Value(store'[k])]
    BY <1>1, ValuesAre DEF Values, Sealed, Value, SealedByPassword
  <1>3. Values' = Append(Values, Value(m))
    <2> HIDE DEF Values, Value
    <2>1. QED
      BY <1>1, <1>2
  <1>4. /\ m.literal \in Literal /\ m.from.passwords \in SUBSET Password
        /\ Value(m) = [literal |-> m.literal, readers |-> m.from.passwords, intact |-> TRUE]
    BY DEF Stored, From, Value
  <1>5. Asking = Idle /\ Asking' = Idle
    BY DEF Asking, Request
  <1>6. \E l \in Literal, r \in SUBSET Password :
          Values' = Append(Values, [literal |-> l, readers |-> r, intact |-> TRUE])
    BY <1>3, <1>4, Zenon
  <1>7. QED
    BY <1>5, <1>6, SamePayload, Zenon DEF SymSealed!Seal, Values, Asking

(* Damage spoils the value. *)
LEMMA DamageSpoils ==
  ASSUME store \in Seq(Stored), NEW m \in 1 .. Len(store), NEW where \in {"framing", "body"},
         Damage(m, where)
  PROVE  SymSealed!Spoil
PROOF
  <1>1. /\ call = Idle /\ call' = call /\ store[m].damage = "none"
        /\ store' = [store EXCEPT ![m].damage = where]
    BY DEF Damage
  <1>2. Len(store') = Len(store)
    BY <1>1
  <1>3. /\ Values = [k \in 1 .. Len(store) |-> Value(store[k])] /\ Len(Values) = Len(store)
        /\ Values' = [k \in 1 .. Len(store) |-> Value(store'[k])]
        /\ Values[m] = Value(store[m])
    BY <1>2, ValuesAre DEF Values, Sealed, Value, SealedByPassword
  <1>4. ASSUME NEW k \in 1 .. Len(store)
        PROVE  Value(store'[k]) = IF k = m THEN [Value(store[k]) EXCEPT !.intact = FALSE]
                                  ELSE Value(store[k])
    <2>1. store[k] \in Stored
      OBVIOUS
    <2>2. store'[k] = IF k = m THEN [store[k] EXCEPT !.damage = where] ELSE store[k]
      BY <1>1
    <2>3. k = m => /\ store'[k].literal = store[k].literal /\ store'[k].from = store[k].from
                   /\ store'[k].damage = where
      BY <2>1, <2>2 DEF Stored
    <2>4. QED
      BY <2>2, <2>3 DEF Value
  <1>5. Values[m].intact
    BY <1>1, <1>3 DEF Value
  <1>6. Values' = [Values EXCEPT ![m].intact = FALSE]
    <2> HIDE DEF Values, Value
    <2>1. QED
      BY <1>3, <1>4
  <1>7. Asking = Idle /\ Asking' = Idle
    BY <1>1 DEF Asking, Request
  <1>8. m \in 1 .. Len(Values)
    BY <1>3
  <1>9. QED
    BY <1>5, <1>6, <1>7, <1>8, SamePayload, Zenon DEF SymSealed!Spoil, Values, Asking

(* A decrypt call asks for the value with its password. *)
LEMMA DecryptAsks ==
  ASSUME store \in Seq(Stored), NEW m \in 1 .. Len(store), NEW pw \in Password,
         NEW t \in SqlType, NEW crlf \in BOOLEAN, SymDecrypt(m, pw, t, crlf)
  PROVE  SymSealed!Ask
PROOF
  <1>1. /\ call = Idle /\ UNCHANGED store
        /\ call' = [pc |-> "open", m |-> m, pw |-> pw, type |-> t, crlf |-> crlf,
                    i |-> 1, got |-> <<"none", Garbage>>, result |-> Fail("none")]
    BY DEF SymDecrypt
  <1>2. Asking = Idle
    BY <1>1 DEF Asking, Request
  <1>3. call' # Idle
    BY <1>1 DEF Idle
  <1>4. Asking' = [pc |-> "asked", m |-> m, holds |-> {pw}, type |-> t, crlf |-> crlf,
                   result |-> Fail("none")]
    BY <1>1, <1>3 DEF Asking, Request
  <1>5. m \in 1 .. Len(Values) /\ {pw} \in SUBSET Password /\ UNCHANGED Values
    BY <1>1, ValuesAre DEF Values, Sealed
  <1>6. \E n \in 1 .. Len(Values), h \in SUBSET Password, u \in SqlType, c \in BOOLEAN :
          Asking' = [pc |-> "asked", m |-> n, holds |-> h, type |-> u, crlf |-> c,
                     result |-> Fail("none")]
    BY <1>4, <1>5, Zenon
  <1>7. QED
    BY <1>2, <1>5, <1>6, SamePayload, Zenon DEF SymSealed!Ask, Values, Asking

(* A step of a call that does not return is not seen. *)
LEMMA InnerStutters ==
  ASSUME call # Idle, call' # Idle, call.pc # "returned", call'.pc # "returned",
         call'.m = call.m, call'.pw = call.pw, call'.type = call.type, call'.crlf = call.crlf,
         call'.result = call.result, store' = store
  PROVE  UNCHANGED SymSealed!svars
PROOF
  <1>1. UNCHANGED Values
    BY DEF Values, Sealed
  <1>2. UNCHANGED Asking
    BY DEF Asking, Request
  <1>3. QED
    BY <1>1, <1>2 DEF SymSealed!svars, Values, Asking

(* A call that returns opens the value, or fails with one of the errors. *)
LEMMA ReturnOpens ==
  ASSUME IInv, call.pc \notin {"idle", "returned"}, NEW res, Return(res), UNCHANGED store,
         \/ \E e \in SymErrors : res = Fail(e)
         \/ /\ res = Returned(Msg.literal, call.type, call.crlf)
            /\ Msg.damage = "none" /\ call.pw \in Msg.from.passwords
  PROVE  SymSealed!Open
PROOF
  <1>1. /\ call # Idle /\ call \in Call /\ call.m \in 1 .. Len(store) /\ store \in Seq(Stored)
    BY CallFacts DEF IInv, Shapes
  <1>2. /\ call'.pc = "returned" /\ call'.result = res
        /\ call'.pw = call.pw /\ call'.m = call.m /\ call'.type = call.type
        /\ call'.crlf = call.crlf
    BY <1>1 DEF Return, Call
  <1>3. call' # Idle
    BY <1>2 DEF Idle
  <1>4. /\ Asking = [pc |-> "asked", m |-> call.m, holds |-> {call.pw}, type |-> call.type,
                     crlf |-> call.crlf, result |-> call.result]
        /\ Asking' = [pc |-> "answered", m |-> call.m, holds |-> {call.pw}, type |-> call.type,
                      crlf |-> call.crlf, result |-> res]
    BY <1>1, <1>2, <1>3 DEF Asking, Request
  <1>5. Asking' = [Asking EXCEPT !.pc = "answered", !.result = res] /\ Asking.pc = "asked"
    <2> DEFINE p == [Asking EXCEPT !.pc = "answered"]
    <2>1. [Asking EXCEPT !.pc = "answered", !.result = res] = [p EXCEPT !.result = res]
      OBVIOUS
    <2>2. p = [pc |-> "answered", m |-> call.m, holds |-> {call.pw}, type |-> call.type,
               crlf |-> call.crlf, result |-> call.result]
      BY <1>4
    <2> HIDE DEF p
    <2>3. [p EXCEPT !.result = res]
            = [pc |-> "answered", m |-> call.m, holds |-> {call.pw}, type |-> call.type,
               crlf |-> call.crlf, result |-> res]
      BY <2>2
    <2>4. QED
      BY <1>4, <2>1, <2>3
  <1>6. Values[Asking.m] = Value(Msg)
    BY <1>1, <1>4, ValuesAre DEF Msg
  <1>7. UNCHANGED Values
    BY DEF Values, Sealed
  <1> DEFINE asked == Values[Asking.m]
  <1>8. /\ asked.literal = Msg.literal /\ asked.readers = Msg.from.passwords
        /\ asked.intact = (Msg.damage = "none")
    BY <1>6 DEF Value
  <1>9. Asking.type = call.type /\ Asking.crlf = call.crlf /\ Asking.holds = {call.pw}
    BY <1>4
  <1> HIDE DEF asked
  <1>10. res \in {Fail(e) : e \in SymErrors}
                 \cup {Returned(asked.literal, Asking.type, Asking.crlf)}
    BY <1>8, <1>9
  <1>11. res.outcome = "ok" => asked.intact /\ Asking.holds \cap asked.readers # {}
    <2>1. \A e \in SymErrors : Fail(e).outcome # "ok"
      BY DEF Fail, SymErrors
    <2>2. QED
      BY <1>8, <1>9, <2>1
  <1>12. \E r \in {SymSealed!Fail(e) : e \in SymErrors}
                   \cup {SymSealed!Returned(asked.literal, Asking.type, Asking.crlf)} :
           /\ r.outcome = "ok" => asked.intact /\ Asking.holds \cap asked.readers # {}
           /\ Asking' = [Asking EXCEPT !.pc = "answered", !.result = r]
    BY <1>5, <1>10, <1>11, SamePayload
  <1>13. QED
    BY <1>5, <1>7, <1>12, Zenon DEF SymSealed!Open, SymSealed!Asked, Values, Asking, asked

(* The answer is taken. *)
LEMMA AnswerCloses ==
  ASSUME IInv, Answer
  PROVE  SymSealed!Close
PROOF
  <1>1. call.pc = "returned" /\ call' = Idle /\ UNCHANGED store /\ call # Idle
    BY DEF Answer, Idle
  <1>2. Asking.pc = "answered" /\ Asking' = Idle /\ UNCHANGED Values
    BY <1>1 DEF Asking, Request, Values, Sealed
  <1>3. QED
    BY <1>2, SamePayload, Zenon DEF SymSealed!Close, Values, Asking

(* An empty store has no values. *)
LEMMA InitSealed == Init => SymSealed!SInit
PROOF
  <1> SUFFICES ASSUME Init PROVE SymSealed!SInit
    OBVIOUS
  <1>1. store = << >> /\ call = Idle
    BY DEF Init
  <1>2. store \in Seq(Stored) /\ Len(store) = 0
    BY <1>1
  <1>3. Values = << >>
    <2>1. Values = [k \in 1 .. 0 |-> Value(store[k])]
      BY <1>2, ValuesAre
    <2>2. QED
      BY <2>1
  <1>4. Asking = Idle
    BY <1>1 DEF Asking, Request
  <1>5. QED
    BY <1>3, <1>4, SamePayload, Zenon DEF SymSealed!SInit, Values, Asking

(* What a decrypt step does to the sealed values. *)
LEMMA DecryptStepSealed ==
  ASSUME IInv, IInv', DecryptStep
  PROVE  SymSealed!SNext \/ UNCHANGED SymSealed!svars
PROOF
  <1>1. CASE OpenMessage
    <2>1. call.pc = "open" /\ UNCHANGED <<store, fresh>>
      BY <1>1 DEF OpenMessage
    <2>2. call \in Call /\ call # Idle
      BY <2>1, CallFacts
    <2>3. CASE Return(Fail("invalid message"))
      BY <2>1, <2>3, ReturnOpens DEF SymSealed!SNext, SymErrors
    <2>4. CASE call' = [call EXCEPT !.pc = "skesk"]
      <3>1. /\ call'.pc = "skesk" /\ call'.m = call.m /\ call'.pw = call.pw
            /\ call'.type = call.type /\ call'.crlf = call.crlf /\ call'.result = call.result
        BY <2>2, <2>4 DEF Call
      <3>2. call' # Idle
        BY <3>1 DEF Idle
      <3>3. QED
        BY <2>1, <2>2, <3>1, <3>2, InnerStutters
    <2>5. QED
      BY <1>1, <2>3, <2>4 DEF OpenMessage
  <1>2. CASE TrySkesk
    <2>1. call.pc = "skesk" /\ UNCHANGED <<store, fresh>>
      BY <1>2 DEF TrySkesk
    <2>2. call \in Call /\ call # Idle
      BY <2>1, CallFacts
    <2> DEFINE got == SkeskDecrypt(Msg.esks[call.i], call.pw)
    <2>3. \/ call' = [call EXCEPT !.pc = "read", !.got = got]
          \/ call' = [call EXCEPT !.i = NextSkesk(call.i)]
      BY <1>2 DEF TrySkesk, Offer
    <2> HIDE DEF got
    <2>4. /\ call'.pc \in {"read", "skesk"} /\ call'.m = call.m /\ call'.pw = call.pw
          /\ call'.type = call.type /\ call'.crlf = call.crlf /\ call'.result = call.result
      BY <2>1, <2>2, <2>3 DEF Call
    <2>5. call' # Idle
      BY <2>4 DEF Idle
    <2>6. QED
      BY <2>1, <2>2, <2>4, <2>5, InnerStutters
  <1>3. CASE NoSkeskLeft
    BY <1>3, ReturnOpens DEF NoSkeskLeft, SymSealed!SNext, SymErrors
  <1>4. CASE ReadToEnd
    <2> DEFINE res == IF ReadsThrough(call.got) THEN Returned(Msg.literal, call.type, call.crlf)
                      ELSE Fail("decryption failed")
    <2>1. call.pc = "read" /\ Return(res) /\ UNCHANGED <<store, fresh>>
      BY <1>4 DEF ReadToEnd
    <2>2. /\ call # Idle /\ call \in Call /\ MessageInv(Msg, fresh)
      BY <2>1, CallFacts
    <2>3. call.i \in 1 .. Len(Msg.esks) /\ call.got = SkeskDecrypt(Msg.esks[call.i], call.pw)
      BY <2>1, <2>2 DEF IInv, CallInv, GotFromPacket
    <2>4. RightKey(call.got) => call.pw \in Msg.from.passwords
      BY <2>2, <2>3 DEF RightKey, MessageInv, PasswordsUnseal, Unseals, Call
    <2>5. \/ \E e \in SymErrors : res = Fail(e)
          \/ /\ res = Returned(Msg.literal, call.type, call.crlf)
             /\ Msg.damage = "none" /\ call.pw \in Msg.from.passwords
      BY <2>4 DEF ReadsThrough, SymErrors
    <2> HIDE DEF res
    <2>6. QED
      BY <2>1, <2>5, ReturnOpens DEF SymSealed!SNext
  <1>5. CASE Answer
    BY <1>5, AnswerCloses DEF SymSealed!SNext
  <1>6. QED
    BY <1>1, <1>2, <1>3, <1>4, <1>5 DEF DecryptStep

(* The pgp_sym_* functions implement the store of sealed values: encrypting *)
(* seals, damage spoils, and a decrypt call shows the value of an intact    *)
(* message to the holder of one of its passwords and to nobody else.        *)
THEOREM Refinement == Spec => SymImplementsSealedStore
PROOF
  <1>1. SInv /\ SInv' /\ [Next]_vars => [SymSealed!SNext]_(SymSealed!svars)
    <2> SUFFICES ASSUME SInv, SInv', [Next]_vars
                 PROVE  SymSealed!SNext \/ UNCHANGED SymSealed!svars
      OBVIOUS
    <2>0. IInv /\ IInv' /\ fresh \in Nat /\ store \in Seq(Stored)
      BY DEF SInv, IInv, Shapes
    <2>1. ASSUME NEW d \in Data, NEW t \in SqlType, NEW pw \in Password, NEW o \in Options,
                 NEW r \in RandomU32, SymEncrypt(d, t, pw, o, r)
          PROVE  SymSealed!Seal
      <3> DEFINE m == SymMessage(d, t, pw, o, r, fresh)
      <3>1. r \in Nat /\ o \in PgpOptions
        BY SymConstants, MessageConstants
      <3>2. /\ store' = Append(store, m) /\ call = Idle /\ call' = call
            /\ t = "text" => d \in TextData
            /\ CiphersFit(o)
        BY <2>1 DEF SymEncrypt, SymMessage, CanStore
      <3>3. m \in Stored /\ m.damage = "none"
        BY <2>0, <3>1, <3>2, SymMessageInv
      <3> HIDE DEF m
      <3>4. QED
        BY <2>0, <3>2, <3>3, AppendSeals
    <2>2. ASSUME NEW o \in Options, SymEncryptRefused(o)
          PROVE  UNCHANGED SymSealed!svars
      BY <2>2 DEF SymEncryptRefused, SymSealed!svars, Sealed, Request
    <2>3. ASSUME NEW pws \in OtherSkesks, NEW l \in OtherLiterals, OtherEncrypt(pws, l)
          PROVE  SymSealed!Seal
      <3> DEFINE m == OtherMessage(pws, l, fresh)
      <3>1. pws \in Seq(Password) /\ l \in Literal
        BY SymConstants, MessageConstants
      <3>2. store' = Append(store, m) /\ call = Idle /\ call' = call
        BY <2>3 DEF OtherEncrypt, OtherMessage, CanStore
      <3>3. m \in Stored /\ m.damage = "none"
        BY <2>0, <3>1, OtherMessageInv
      <3> HIDE DEF m
      <3>4. QED
        BY <2>0, <3>2, <3>3, AppendSeals
    <2>4. ASSUME NEW m \in 1 .. Len(store), NEW where \in {"framing", "body"}, Damage(m, where)
          PROVE  SymSealed!Spoil
      BY <2>0, <2>4, DamageSpoils
    <2>5. ASSUME NEW m \in 1 .. Len(store), NEW pw \in Password, NEW t \in SqlType,
                 NEW crlf \in BOOLEAN, SymDecrypt(m, pw, t, crlf)
          PROVE  SymSealed!Ask
      BY <2>0, <2>5, DecryptAsks
    <2>6. CASE DecryptStep
      BY <2>0, <2>6, DecryptStepSealed
    <2>7. CASE UNCHANGED vars
      BY <2>7 DEF vars, SymSealed!svars, Sealed, Request
    <2>8. QED
      BY <2>1, <2>2, <2>3, <2>4, <2>5, <2>6, <2>7 DEF Next, SymSealed!SNext
  <1>2. QED
    BY <1>1, InitSealed, Inductive, PTL DEF Spec, SymImplementsSealedStore, SymSealed!SSpec
-------------------------------------------------------------------------------
(* PgpSetting.  The invariant joins the one of the parsers                  *)
(* (PgpOptionsProofs) and the one of the messages and the call by what      *)
(* connects them: every message was written, and every call reads, with     *)
(* what the parsers made of the one text.                                   *)

(* What is proved about the two parsers. *)
P == INSTANCE PgpOptionsProofs

(* The options texts are what PgpOptions takes. *)
LEMMA ParserConstants == P!IntOfType /\ P!InputsType
  BY SettingConstants DEF P!IntOfType, P!InputsType, P!Text, P!Item

(* The parsers of PgpSetting are those PgpOptionsProofs speaks of. *)
LEMMA SameParsers ==
  /\ Parsers!Init <=> P!Init
  /\ Parsers!Next <=> P!Next
PROOF
  <1>1. Parsers!Init <=> P!Init
    BY DEF Parsers!Init, P!Init, Parsers!Parser, P!Parser, Parsers!DefaultOptions,
           P!DefaultOptions, Parsers!NoCount, P!NoCount, Parsers!NoCipher, P!NoCipher
  <1>2. \A n, v : Parsers!EncryptAccepts(n, v) <=> P!EncryptAccepts(n, v)
    BY DEF Parsers!EncryptAccepts, P!EncryptAccepts, Parsers!CipherText, P!CipherText,
           Parsers!Cipher, P!Cipher, Parsers!LevelRange, P!LevelRange, Parsers!Switch, P!Switch,
           Parsers!S2kCipherText, P!S2kCipherText, Parsers!S2kCountRange, P!S2kCountRange,
           Parsers!MdcText, P!MdcText
  <1>3. \A n, v : Parsers!DecryptAccepts(n, v) <=> P!DecryptAccepts(n, v)
    BY DEF Parsers!DecryptAccepts, P!DecryptAccepts, Parsers!EncryptionOnly, P!EncryptionOnly
  <1>4. \A o, n, v : Parsers!Store(o, n, v) = P!Store(o, n, v)
    BY DEF Parsers!Store, P!Store, Parsers!parse_cipher, P!parse_cipher
  <1>5. \A o : Parsers!CountFits(o) <=> P!CountFits(o)
    BY DEF Parsers!CountFits, P!CountFits, Parsers!NoCount, P!NoCount
  <1>6. Parsers!Parser = P!Parser
    BY DEF Parsers!Parser, P!Parser
  <1>7. /\ \A p : Parsers!Looking(p) <=> P!Looking(p)
        /\ \A p : Parsers!Finishing(p) <=> P!Finishing(p)
    BY DEF Parsers!Looking, P!Looking, Parsers!Finishing, P!Finishing
  <1>8. \A p : Parsers!Reject(p) <=> P!Reject(p)
    BY <1>2, <1>3, <1>7 DEF Parsers!Reject, P!Reject
  <1>9. Parsers!EncryptItem <=> P!EncryptItem
    BY <1>2, <1>4, <1>7 DEF Parsers!EncryptItem, P!EncryptItem
  <1>10. Parsers!DecryptItem <=> P!DecryptItem
    BY <1>3, <1>7 DEF Parsers!DecryptItem, P!DecryptItem
  <1>11. Parsers!EncryptReturn <=> P!EncryptReturn
    BY <1>5, <1>7 DEF Parsers!EncryptReturn, P!EncryptReturn
  <1>12. Parsers!DecryptReturn <=> P!DecryptReturn
    BY <1>7 DEF Parsers!DecryptReturn, P!DecryptReturn
  <1>13. Parsers!Done <=> P!Done
    BY <1>6 DEF Parsers!Done, P!Done, Parsers!vars, P!vars
  <1>14. QED
    BY <1>1, <1>6, <1>8, <1>9, <1>10, <1>11, <1>12, <1>13 DEF Parsers!Next, P!Next

(* A parser that has accepted the text does not touch its options again. *)
LEMMA ParsedIsFinal ==
  ASSUME P!IInv, P!Next
  PROVE  /\ status["encrypt"] = "ok" => status'["encrypt"] = "ok" /\ parsed' = parsed
         /\ status["decrypt"] = "ok" => status'["decrypt"] = "ok" /\ dparsed' = dparsed
PROOF
  <1>1. status \in [{"encrypt", "decrypt"} -> {"loop", "ok", "error"}]
    BY DEF P!IInv, P!TypeOK, P!Parser
  <1>2. ASSUME NEW p \in {"encrypt", "decrypt"}, P!Reject(p)
        PROVE  /\ status["encrypt"] = "ok" => status'["encrypt"] = "ok" /\ parsed' = parsed
               /\ status["decrypt"] = "ok" => status'["decrypt"] = "ok" /\ dparsed' = dparsed
    BY <1>1, <1>2 DEF P!Reject, P!Looking
  <1>3. CASE P!EncryptItem
    BY <1>3 DEF P!EncryptItem, P!Looking
  <1>4. CASE P!DecryptItem
    BY <1>4 DEF P!DecryptItem, P!Looking
  <1>5. CASE P!EncryptReturn
    BY <1>1, <1>5 DEF P!EncryptReturn, P!Finishing
  <1>6. CASE P!DecryptReturn
    BY <1>1, <1>6 DEF P!DecryptReturn, P!Finishing
  <1>7. CASE P!Done
    BY <1>7 DEF P!Done, P!vars
  <1>8. QED
    BY <1>2, <1>3, <1>4, <1>5, <1>6, <1>7 DEF P!Next, P!Parser

(* Messages were written and calls read with the options of the text. *)
OneText ==
  /\ store # << >> => status["encrypt"] = "ok"
  /\ \A m \in 1 .. Len(store) :
       /\ store[m].maker = "us" /\ store[m].damage = "none"
       /\ store[m].from.crlf = parsed.convert_crlf
  /\ call # Idle => status["decrypt"] = "ok" /\ call.crlf = dparsed.convert_crlf

SettingInv == P!IInv /\ IInv /\ OneText

(* A decrypt step leaves the messages alone and the setting of its call. *)
LEMMA DecryptStepKeeps ==
  ASSUME IInv, DecryptStep
  PROVE  UNCHANGED store /\ call # Idle /\ (call' = Idle \/ call'.crlf = call.crlf)
PROOF
  <1>1. UNCHANGED store /\ call.pc # "idle"
    BY DEF DecryptStep, OpenMessage, TrySkesk, NoSkeskLeft, ReadToEnd, Answer
  <1>2. call # Idle /\ call \in Call
    BY <1>1, CallFacts
  <1>3. ASSUME NEW res, Return(res)
        PROVE  call'.crlf = call.crlf
    BY <1>2, <1>3 DEF Return, Call
  <1>4. CASE OpenMessage
    BY <1>2, <1>3, <1>4 DEF OpenMessage, Call
  <1>5. CASE TrySkesk
    <2> DEFINE got == SkeskDecrypt(Msg.esks[call.i], call.pw)
    <2>1. \/ call' = [call EXCEPT !.pc = "read", !.got = got]
          \/ call' = [call EXCEPT !.i = NextSkesk(call.i)]
      BY <1>5 DEF TrySkesk, Offer
    <2> HIDE DEF got
    <2>2. QED
      BY <1>1, <1>2, <2>1 DEF Call
  <1>6. CASE NoSkeskLeft \/ ReadToEnd
    BY <1>1, <1>2, <1>3, <1>6 DEF NoSkeskLeft, ReadToEnd
  <1>7. CASE Answer
    BY <1>1, <1>2, <1>7 DEF Answer
  <1>8. QED
    BY <1>1, <1>2, <1>4, <1>5, <1>6, <1>7 DEF DecryptStep

(* There are no messages and no call at first. *)
LEMMA SettingInvInit == SettingInit => SettingInv
PROOF
  <1> SUFFICES ASSUME SettingInit PROVE SettingInv
    OBVIOUS
  <1>1. P!IInv
    BY SameParsers, ParserConstants, P!IInvInit DEF SettingInit
  <1>2. IInv
    BY SInvInit DEF SettingInit, SInv
  <1>3. OneText
    BY DEF SettingInit, Init, OneText
  <1>4. QED
    BY <1>1, <1>2, <1>3 DEF SettingInv

(* A step of a parser, beside messages and a call it may have accepted the  *)
(* options of.                                                              *)
LEMMA ParseInv ==
  ASSUME SettingInv, Parse
  PROVE  SettingInv'
PROOF
  <1>1. P!IInv /\ P!Next /\ UNCHANGED <<store, fresh, call>>
    BY SameParsers DEF SettingInv, Parse, vars
  <1>2. P!IInv'
    BY <1>1, ParserConstants, P!IInvNext
  <1>3. IInv'
    BY <1>1 DEF SettingInv, IInv, Shapes, CallInv, PassedUnfit, GotFromPacket, ReturnInv, Msg
  <1>4. OneText'
    <2>1. store # << >> \/ 1 .. Len(store) # {} => status["encrypt"] = "ok"
      BY DEF SettingInv, OneText
    <2>2. QED
      BY <1>1, <2>1, ParsedIsFinal DEF SettingInv, OneText
  <1>5. QED
    BY <1>2, <1>3, <1>4 DEF SettingInv

(* What parse_options has accepted are options. *)
LEMMA ParsedType ==
  ASSUME SettingInv
  PROVE  parsed \in PgpOptions /\ dparsed.convert_crlf \in BOOLEAN
PROOF
  <1>1. P!PgpOptions = PgpOptions
    BY DEF P!PgpOptions, PgpOptions, P!Cipher, Cipher, P!NoCount, NoCount, P!NoCipher, NoCipher,
           P!S2kCountRange, S2kCountRange
  <1>2. parsed \in P!PgpOptions /\ dparsed \in [convert_crlf : BOOLEAN]
    BY DEF SettingInv, P!IInv, P!TypeOK
  <1>3. QED
    BY <1>1, <1>2

(* A step of a pgp_sym_* function leaves the parsers alone. *)
LEMMA ParsersUnchanged ==
  ASSUME SettingInv, UNCHANGED pvars
  PROVE  /\ P!IInv' /\ UNCHANGED <<input, pos, status, parsed, dparsed>>
PROOF
  <1>1. UNCHANGED <<input, pos, status, parsed, dparsed>> /\ UNCHANGED P!vars
    BY DEF pvars, P!vars
  <1>2. QED
    BY <1>1, ParserConstants, P!IInvNext DEF SettingInv

(* pgp_sym_encrypt with the parsed options. *)
LEMMA EncryptInv ==
  ASSUME SettingInv, NEW d \in Data, NEW t \in SqlType, NEW pw \in Password,
         NEW r \in RandomU32, pgp_sym_encrypt(d, t, pw, r)
  PROVE  SettingInv'
PROOF
  <1>1. /\ status["encrypt"] = "ok" /\ SymEncrypt(d, t, pw, parsed, r) /\ UNCHANGED pvars
        /\ parsed \in PgpOptions /\ IInv
    BY ParsedType DEF pgp_sym_encrypt, SettingInv
  <1>2. IInv'
    BY <1>1, SymEncryptInv
  <1>3. P!IInv' /\ UNCHANGED <<input, pos, status, parsed, dparsed>>
    BY <1>1, ParsersUnchanged
  <1> DEFINE m == SymMessage(d, t, pw, parsed, r, fresh)
  <1>4. /\ store' = Append(store, m) /\ call = Idle /\ call' = call
        /\ store \in Seq(Stored)
    BY <1>1 DEF SymEncrypt, SymMessage, CanStore, IInv, Shapes
  <1>5. m.maker = "us" /\ m.damage = "none" /\ m.from.crlf = parsed.convert_crlf
    BY DEF SymMessage, Message
  <1> HIDE DEF m
  <1>6. m \in Stored
    <2>1. r \in Nat /\ fresh \in Nat
      BY <1>1, SymConstants DEF IInv, Shapes
    <2>2. (t = "text" => d \in TextData) /\ CiphersFit(parsed)
      BY <1>1 DEF SymEncrypt
    <2>3. QED
      BY <1>1, <2>1, <2>2, SymMessageInv DEF m
  <1>7. /\ Len(store') = Len(store) + 1 /\ Len(store) \in Nat
        /\ \A k \in 1 .. Len(store') : store'[k] = IF k = Len(store) + 1 THEN m ELSE store[k]
    BY <1>4, <1>6
  <1>8. OneText'
    <2>1. ASSUME NEW k \in 1 .. Len(store')
          PROVE  /\ store'[k].maker = "us" /\ store'[k].damage = "none"
                 /\ store'[k].from.crlf = parsed.convert_crlf
      <3>1. CASE k = Len(store) + 1
        BY <1>5, <1>7, <3>1
      <3>2. CASE k # Len(store) + 1
        <4>1. k \in 1 .. Len(store)
          BY <1>7, <3>2
        <4>2. QED
          BY <1>7, <3>2, <4>1 DEF SettingInv, OneText
      <3>3. QED
        BY <3>1, <3>2
    <2>2. QED
      BY <1>1, <1>3, <1>4, <2>1 DEF OneText
  <1>9. QED
    BY <1>2, <1>3, <1>8 DEF SettingInv

(* Every step preserves the invariant. *)
LEMMA SettingInvNext == SettingInv /\ [SettingNext]_<<vars, pvars>> => SettingInv'
PROOF
  <1> SUFFICES ASSUME SettingInv, [SettingNext]_<<vars, pvars>> PROVE SettingInv'
    OBVIOUS
  <1>1. CASE Parse
    BY <1>1, ParseInv
  <1>2. ASSUME NEW d \in Data, NEW t \in SqlType, NEW pw \in Password, NEW r \in RandomU32,
               pgp_sym_encrypt(d, t, pw, r)
        PROVE  SettingInv'
    BY <1>2, EncryptInv
  <1>3. CASE pgp_sym_encrypt_refused
    <2>1. SymEncryptRefused(parsed) /\ UNCHANGED pvars /\ IInv /\ UNCHANGED <<store, call>>
      BY <1>3 DEF pgp_sym_encrypt_refused, SymEncryptRefused, SettingInv
    <2>2. IInv' /\ P!IInv' /\ UNCHANGED <<status, parsed, dparsed>>
      BY <2>1, SymRefusedInv, ParsersUnchanged
    <2>3. QED
      BY <2>1, <2>2 DEF SettingInv, OneText
  <1>4. ASSUME NEW m \in 1 .. Len(store), NEW t \in SqlType, NEW pw \in Password,
               pgp_sym_decrypt(m, t, pw)
        PROVE  SettingInv'
    <2>1. /\ status["decrypt"] = "ok" /\ UNCHANGED pvars /\ IInv
          /\ SymDecrypt(m, pw, t, dparsed.convert_crlf) /\ dparsed.convert_crlf \in BOOLEAN
      BY <1>4, ParsedType DEF pgp_sym_decrypt, SettingInv
    <2>2. IInv' /\ P!IInv' /\ UNCHANGED <<status, parsed, dparsed>>
      BY <2>1, SymDecryptInv, ParsersUnchanged
    <2>3. UNCHANGED store /\ call'.crlf = dparsed.convert_crlf
      BY <2>1 DEF SymDecrypt
    <2>4. QED
      BY <2>1, <2>2, <2>3 DEF SettingInv, OneText
  <1>5. CASE DecryptStep /\ UNCHANGED pvars
    <2>1. IInv' /\ P!IInv' /\ UNCHANGED <<status, parsed, dparsed>>
      BY <1>5, DecryptStepInv, ParsersUnchanged DEF SettingInv
    <2>2. UNCHANGED store /\ call # Idle /\ (call' = Idle \/ call'.crlf = call.crlf)
      BY <1>5, DecryptStepKeeps DEF SettingInv
    <2>3. QED
      BY <2>1, <2>2 DEF SettingInv, OneText
  <1>6. CASE UNCHANGED <<vars, pvars>>
    <2>1. P!IInv' /\ UNCHANGED <<status, parsed, dparsed>> /\ UNCHANGED <<store, fresh, call>>
      BY <1>6, ParsersUnchanged DEF vars
    <2>2. IInv'
      BY <2>1 DEF SettingInv, IInv, Shapes, CallInv, PassedUnfit, GotFromPacket, ReturnInv, Msg
    <2>3. QED
      BY <2>1, <2>2 DEF SettingInv, OneText
  <1>7. QED
    BY <1>1, <1>2, <1>3, <1>4, <1>5, <1>6 DEF SettingNext

(* Whatever options text an application keeps for both directions, what it  *)
(* encrypts with the text it reads back with the text.                      *)
THEOREM ReadsBackWithOneText == SettingSpec => []SettingReadsBack
PROOF
  <1>1. SettingInv => SettingReadsBack
    <2> SUFFICES ASSUME SettingInv, store # << >> PROVE SettingReadsBack
      BY DEF SettingReadsBack
    <2>1. P!ParsersAgree /\ status["encrypt"] = "ok" /\ IInv /\ OneText
      BY ParserConstants, P!IInvAgrees DEF SettingInv, OneText
    <2>2. status["decrypt"] # "error"
      BY <2>1 DEF P!ParsersAgree
    <2>3. ASSUME call.pc = "returned", call.pw \in Msg.from.passwords, call.type = Msg.from.type
          PROVE  call.result = Ok(Msg.from.data)
      <3>1. /\ call # Idle /\ MessageInv(Msg, fresh) /\ call.m \in 1 .. Len(store)
        BY <2>1, <2>3, CallFacts
      <3>2. /\ Msg.maker = "us" /\ Msg.damage = "none" /\ Msg.from.crlf = parsed.convert_crlf
            /\ status["decrypt"] = "ok" /\ call.crlf = dparsed.convert_crlf
        BY <2>1, <3>1 DEF OneText, Msg
      <3>3. call.crlf = Msg.from.crlf
        BY <2>1, <3>2 DEF P!ParsersAgree
      <3>4. /\ call.result = Returned(Msg.literal, call.type, call.crlf)
            /\ call.type \in SqlType /\ call.crlf \in BOOLEAN
        BY <2>1, <2>3, <3>2, Outcomes
      <3>5. QED
        BY <2>3, <3>1, <3>3, <3>4 DEF MessageInv, ReadsBack
    <2>4. QED
      BY <2>2, <2>3 DEF SettingReadsBack
  <1>2. QED
    BY <1>1, SettingInvInit, SettingInvNext, PTL DEF SettingSpec
===============================================================================
