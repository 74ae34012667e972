-------------------------------- MODULE PgpPub --------------------------------
(***************************************************************************)
(* Public-key encryption: pub_encrypt, pub_decrypt, KeyHelper, pgp_key_id  *)
(* and the four pgp_pub_* SQL functions of src/src/pgp.rs.                  *)
(*                                                                         *)
(* A certificate is the sequence of its keys, each with the facts the      *)
(* filters ask for and with its secret, if it has one.  Time passes        *)
(* between the calls: keys become live and expire.                         *)
(***************************************************************************)
EXTENDS PgpMessages

CONSTANTS
  Certs,         \* the certificates, with and without secrets
  OtherEsks,     \* the session key packets of other programs' messages
  MaxTime,       \* bound: the last moment of the clock
  MaxAnswers     \* bound: calls of pgp_key_id

NoSecret == <<"none">>
Plain == <<"plain">>
Locked(pw) == <<"locked", pw>>
Stub == <<"stub">>    \* a placeholder for a secret kept elsewhere

(* The recipient of a session key packet that does not name its key. *)
Anonymous == "anonymous"
KeyId == STRING \ {Anonymous}

Key == [id : KeyId, transport : BOOLEAN, supported : BOOLEAN, revoked : BOOLEAN,
        from : Nat, until : Nat,
        secret : {NoSecret, Plain, Stub} \cup {Locked(pw) : pw \in Password}]

(* A session key packet: for a key, named or not, or for a password. *)
ForKey(id, to) == [kind |-> "PKESK", recipient |-> id, to |-> to]
ForPassword == [kind |-> "SKESK", recipient |-> Anonymous, to |-> "nobody"]
Esk == [kind : {"PKESK", "SKESK"}, recipient : KeyId \cup {Anonymous}, to : KeyId]

ASSUME PubConstants ==
  /\ Certs \subseteq Seq(Key) /\ OtherEsks \subseteq Seq(Esk)
  /\ MaxTime \in Nat /\ MaxAnswers \in Nat
-------------------------------------------------------------------------------
VARIABLES
  clock,
  answers    \* the calls of pgp_key_id so far and what they returned

vars == <<clock, store, fresh, call, answers>>

(* What everything but Tick and pgp_key_id leaves alone, and what a step of *)
(* a decrypt call does.                                                     *)
Aside == UNCHANGED <<clock, answers>>
CallOnly == UNCHANGED <<clock, store, fresh, answers>>

Init == clock = 0 /\ store = << >> /\ fresh = 0 /\ call = Idle /\ answers = << >>

(* Time passes between the calls. *)
Tick ==
  /\ call = Idle /\ clock < MaxTime
  /\ clock' = clock + 1
  /\ UNCHANGED <<store, fresh, call, answers>>

is_tsk(c) == \E k \in 1 .. Len(c) : c[k].secret # NoSecret

alive(k, t) == k.from <= t /\ t < k.until

(* .supported().alive().revoked(false).for_transport_encryption() *)
Usable(k, t) == k.supported /\ alive(k, t) /\ ~k.revoked /\ k.transport

(* The elements of s at the places in `at', in their order. *)
Kept(s, at) ==
  LET kept[k \in 0 .. Len(s)] ==
        IF k = 0 THEN << >> ELSE IF k \in at THEN Append(kept[k - 1], s[k]) ELSE kept[k - 1]
  IN kept[Len(s)]

(* The keys pub_encrypt encrypts to. *)
Recipients(c, t) == Kept(c, {k \in 1 .. Len(c) : Usable(c[k], t)})

(* pgp_pub_encrypt and pgp_pub_encrypt_bytea; the refusals (a certificate   *)
(* with a secret, no usable key) change nothing.                            *)
PubEncrypt(c, d, t, o) ==
  LET to == Recipients(c, clock) IN
  /\ CanStore
  /\ t = "text" => d \in TextData
  /\ ~is_tsk(c)
  /\ to # << >>
  /\ store' = Append(store,
       Message("us", [k \in 1 .. Len(to) |-> ForKey(to[k].id, to[k].id)], o.cipher,
               Session(fresh + 1), write_payload(d, t, o),
               [data |-> d, type |-> t, crlf |-> o.convert_crlf, cert |-> c, time |-> clock]))
  /\ fresh' = fresh + 1
  /\ Aside /\ UNCHANGED call

(* Another program stores a message. *)
OtherEncrypt(esks, l) ==
  /\ CanStore
  /\ store' = Append(store,
       Message("other", esks, "aes256", Session(fresh + 1), l,
               [data |-> l.body, type |-> "bytea", crlf |-> FALSE, cert |-> << >>,
                time |-> clock]))
  /\ fresh' = fresh + 1
  /\ Aside /\ UNCHANGED call

NamedAnyTime(k, t) == k.supported /\ ~k.revoked /\ k.transport

(* The filters of pgp_key_id, a copy of those of pub_encrypt. *)
Named(k, t) == k.supported /\ alive(k, t) /\ ~k.revoked /\ k.transport

(* pgp_key_id of a certificate and of an intact message. *)
CertKeyId(c, t) ==
  LET named == Kept(c, {k \in 1 .. Len(c) : Named(c[k], t)}) IN
  IF named = << >> THEN "error" ELSE named[1].id

MessageKeyId(m) ==
  IF m.esks = << >> THEN "error"
  ELSE IF m.esks[1].kind = "SKESK" THEN "SYMKEY"
  ELSE IF m.esks[1].recipient = Anonymous THEN "ANYKEY"
  ELSE m.esks[1].recipient

Asked(arg, res) == Append(answers, [arg |-> arg, time |-> clock, result |-> res])

pgp_key_id ==
  /\ call = Idle /\ Len(answers) < MaxAnswers
  /\ \/ \E c \in Certs : answers' = Asked(<<"cert", c>>, CertKeyId(c, clock))
     \/ \E m \in 1 .. Len(store) :
          /\ store[m].damage = "none"
          /\ answers' = Asked(<<"message", m>>, MessageKeyId(store[m]))
  /\ UNCHANGED <<clock, store, fresh, call>>
-------------------------------------------------------------------------------
(* pgp_pub_decrypt and pgp_pub_decrypt_bytea have parsed their options and  *)
(* the certificate.                                                         *)
PubDecrypt(m, c, pw, t, crlf) ==
  /\ call = Idle
  /\ call' = [pc |-> "unlock", m |-> m, cert |-> c, pw |-> pw, type |-> t, crlf |-> crlf,
              k |-> 1, pairs |-> << >>, i |-> 1, j |-> 1,
              got |-> <<"none", Garbage>>, result |-> Fail("none")]
  /\ CallOnly

UnlocksAny(k, pw) == TRUE

UnlocksAlive(k, pw) == k.secret \in {Plain, Locked(pw)} /\ alive(k, clock)

(* Key::decrypt_secret with the password, where the secret is encrypted. *)
Unlocks(k, pw) == k.secret \in {Plain, Locked(pw)}

PassesOver == call' = [call EXCEPT !.k = @ + 1]

(* A secret that does not open ends the call. *)
GivesUp == Return(Fail("could not unlock"))

(* One iteration of the loop that collects the key pairs. *)
UnlockKey ==
  /\ call.pc = "unlock" /\ call.k <= Len(call.cert)
  /\ LET key == call.cert[call.k] IN
     \/ key.secret = NoSecret /\ call' = [call EXCEPT !.k = @ + 1]
     \/ key.secret # NoSecret /\ Unlocks(key, call.pw)
          /\ call' = [call EXCEPT !.k = @ + 1, !.pairs = Append(@, key.id)]
     \/ key.secret # NoSecret /\ ~Unlocks(key, call.pw) /\ GivesUp
  /\ CallOnly

NoPairsUnchecked == FALSE

NoPairs == call.pairs = << >>

(* Behind the loop: is there a pair, and does the message parse? *)
OpenMessage ==
  /\ call.pc = "unlock" /\ call.k > Len(call.cert)
  /\ \/ NoPairs /\ Return(Fail("no usable key material"))
     \/ ~NoPairs /\ Msg.damage = "framing" /\ Return(Fail("invalid message"))
     \/ ~NoPairs /\ Msg.damage # "framing" /\ call' = [call EXCEPT !.pc = "pkesk"]
  /\ CallOnly

ForKeys(esks) == {n \in 1 .. Len(esks) : esks[n].kind = "PKESK"}

Pkesks == Kept(Msg.esks, ForKeys(Msg.esks))

(* PKESK::decrypt: the recipient the packet names is not looked at. *)
PkeskDecrypt(e, id) == <<Msg.cipher, IF e.to = id THEN Msg.key ELSE Garbage>>

NextPairNoReset(i, j) ==
  IF j < Len(call.pairs) THEN <<i, j + 1>> ELSE <<i + 1, j>>

(* for pkesk in pkesks { for pair in pairs { ... } } *)
NextPair(i, j) ==
  IF j < Len(call.pairs) THEN <<i, j + 1>> ELSE <<i + 1, 1>>

(* One iteration of the inner loop of KeyHelper::decrypt. *)
TryPair ==
  /\ call.pc = "pkesk" /\ call.i <= Len(Pkesks)
  /\ LET got == PkeskDecrypt(Pkesks[call.i], call.pairs[call.j])
         nxt == NextPair(call.i, call.j)
     IN Offer(got, [call EXCEPT !.i = nxt[1], !.j = nxt[2]])
  /\ CallOnly

NoPkeskLeft ==
  /\ call.pc = "pkesk" /\ call.i > Len(Pkesks)
  /\ Return(Fail("not encrypted for the key"))
  /\ CallOnly

DecryptStep ==
  \/ UnlockKey \/ OpenMessage \/ TryPair \/ NoPkeskLeft
  \/ ReadToEnd /\ Aside
  \/ Answer /\ Aside

Next ==
  \/ Tick
  \/ \E c \in Certs, d \in Data, t \in SqlType, o \in Options : PubEncrypt(c, d, t, o)
  \/ \E esks \in OtherEsks, l \in OtherLiterals : OtherEncrypt(esks, l)
  \/ \E m \in 1 .. Len(store), where \in {"framing", "body"} : Damage(m, where) /\ Aside
  \/ pgp_key_id
  \/ \E m \in 1 .. Len(store), c \in Certs, pw \in Password, t \in SqlType, crlf \in BOOLEAN :
       PubDecrypt(m, c, pw, t, crlf)
  \/ DecryptStep

Spec == Init /\ [][Next]_vars
-------------------------------------------------------------------------------
(* Stored packets are well formed, the loops of pub_decrypt and KeyHelper   *)
(* stay inside the keys, the session key packets and the pairs, and         *)
(* KeyHelper is never asked without a pair.                                 *)
TypeOK ==
  /\ MessagesOK /\ clock \in 0 .. MaxTime
  /\ call.pc \in {"idle", "unlock", "pkesk", "read", "returned"}
  /\ call # Idle =>
       /\ call.k \in 1 .. Len(call.cert) + 1 /\ call.i \in 1 .. Len(Pkesks) + 1
       /\ call.pc = "pkesk" => call.j \in 1 .. Len(call.pairs)

(* The keys a certificate opens with a password, the keys a message is for, *)
(* and whether one of the former is among the latter.                       *)
Opened(c, pw) ==
  {c[k].id : k \in {n \in 1 .. Len(c) : c[n].secret \in {Plain, Locked(pw)}}}
SealedFor(m) == {m.esks[n].to : n \in ForKeys(m.esks)}
Holds(c, pw, m) == Opened(c, pw) \cap SealedFor(m) # {}

(* Every secret in the certificate opens with the password. *)
AllUnlock(c, pw) == \A k \in 1 .. Len(c) : c[k].secret \in {NoSecret, Plain, Locked(pw)}

(* A decrypt call that succeeds was given an unlocked key of the message,   *)
(* and the message is undamaged; what it returns is what was encrypted.     *)
Authentic ==
  Returns("ok") =>
    /\ Msg.damage = "none" /\ Holds(call.cert, call.pw, Msg)
    /\ ReadsAsWritten => call.result.value = Msg.from.data

(* The holder of a key of an intact message reads it, whichever of the keys *)
(* and of the session key packets fit and at any later time, expired keys   *)
(* included, unless a wrong key has passed the quick check before.          *)
HolderReads ==
  (/\ call.pc = "returned" /\ Msg.maker = "us" /\ Msg.damage = "none" /\ ReadsAsWritten
   /\ Holds(call.cert, call.pw, Msg) /\ AllUnlock(call.cert, call.pw))
    => \/ call.result = Ok(Msg.from.data)
       \/ call.result = Fail("decryption failed") /\ ~RightKey(call.got)

(* "message was not encrypted for the supplied key" is never said of an     *)
(* intact message with a packet for one of the keys: both loops run to      *)
(* their ends, and a packet without a recipient is tried as well.           *)
BlamesKeyRightly ==
  Returns("not encrypted for the key") =>
    Msg.damage # "none" \/ ~Holds(call.cert, call.pw, Msg)

(* Decryption is all or nothing about the keys of a certificate, whatever   *)
(* their order and the message: a secret that does not open, a placeholder  *)
(* for one, ends the call, and nothing else is reported as such.            *)
AllOrNothing ==
  call.pc = "returned" =>
    (call.result = Fail("could not unlock") <=> ~AllUnlock(call.cert, call.pw))

(* The key pgp_key_id names for a message is the one it named for the       *)
(* certificate when the message was encrypted to it, however much later the *)
(* message is asked about: applications match the two.                      *)
KeyIdNamesRecipient ==
  \A i \in 1 .. Len(answers), m \in 1 .. Len(store) :
    answers[i].arg = <<"message", m>> /\ store[m].maker = "us" =>
      answers[i].result = CertKeyId(store[m].from.cert, store[m].from.time)

(* pgp_key_id is declared IMMUTABLE: the same argument has the same answer, *)
(* whenever it is asked.                                                    *)
KeyIdImmutable ==
  \A i, j \in 1 .. Len(answers) :
    answers[i].arg = answers[j].arg => answers[i].result = answers[j].result

PubErrors == {"could not unlock", "no usable key material", "invalid message",
              "not encrypted for the key", "decryption failed", "not text", "NUL byte", "not UTF-8"}
KeyIds ==
  (UNION {{c[k].id : k \in 1 .. Len(c)} : c \in Certs})
    \cup (UNION {{e[i].to : i \in ForKeys(e)} : e \in OtherEsks})
PubSealed == INSTANCE SealedStore WITH
  Reader <- KeyIds, Errors <- PubErrors,
  sealed <- Sealed(SealedFor), request <- Request(Opened(call.cert, call.pw))

(* The pgp_pub_* functions are a store of sealed values, whose readers are  *)
(* the keys of the session key packets: only a caller whose password opens  *)
(* one of them is ever shown the value, whatever time it is.                *)
PubImplementsSealedStore == PubSealed!SSpec
===============================================================================
