----------------------------- MODULE PgpPubProofs -----------------------------
(***************************************************************************)
(* Proofs about PgpPub, for every set of certificates, passwords, options, *)
(* values and messages of other programs, and for stores and answers of    *)
(* any number.                                                             *)
(*                                                                         *)
(* MessageInv says of every stored message what an encrypt call            *)
(* established, CallInv what a decrypt call has found out so far: which    *)
(* secrets the first loop has unlocked, which pairs of a session key       *)
(* packet and a key the two nested loops have tried.  AnswersInv connects  *)
(* what pgp_key_id said of a message with the message.                     *)
(***************************************************************************)
EXTENDS PgpPub, SequenceTheorems, WellFoundedInduction, TLAPS

(* The sets the variables range over. *)
KeyTerm == {Session(n) : n \in Nat} \cup {Garbage}
From == [data : Bodies, type : SqlType, crlf : BOOLEAN, cert : Seq(Key), time : Nat]
Stored == [maker : {"us", "other"}, esks : Seq(Esk), cipher : Cipher, key : KeyTerm,
           literal : Literal, from : From, damage : {"none", "framing", "body"}]
Result == [outcome : {"ok", "none"} \cup PubErrors, value : Bodies \cup {NoValue}]
Call == [pc : {"unlock", "pkesk", "read", "returned"}, m : Nat, cert : Seq(Key), pw : Password,
         type : SqlType, crlf : BOOLEAN, k : Nat, pairs : Seq(KeyId), i : Nat, j : Nat,
         got : (Cipher \cup {"none"}) \X KeyTerm, result : Result]
KeyIdArg == ({"cert"} \X Certs) \cup ({"message"} \X Nat)
KeyIdAnswer == [arg : KeyIdArg, time : Nat, result : KeyId \cup {"error", "SYMKEY", "ANYKEY"}]

Shapes ==
  /\ store \in Seq(Stored) /\ Len(store) <= MaxMessages /\ fresh \in Nat
  /\ clock \in 0 .. MaxTime /\ answers \in Seq(KeyIdAnswer)
  /\ call = Idle \/ (/\ call \in Call /\ call.m \in 1 .. Len(store)
                     /\ call.k \in 1 .. Len(call.cert) + 1 /\ call.i \in 1 .. Len(Pkesks) + 1
                     /\ call.pc = "pkesk" => call.j \in 1 .. Len(call.pairs))

(* Read as it was written, the literal packet gives back the value. *)
ReadsBack(m) ==
  \A t \in SqlType, c \in BOOLEAN :
    t = m.from.type /\ (t = "text" => c = m.from.crlf) =>
      Returned(m.literal, t, c) = Ok(m.from.data)

(* The first session key packet names the first recipient. *)
NamesRecipient(m) ==
  m.maker = "us" => MessageKeyId(m) = CertKeyId(m.from.cert, m.from.time)

MessageInv(m) == m.key # Garbage /\ ReadsBack(m) /\ NamesRecipient(m)

(* The secrets before call.k are none or open with the password, and the    *)
(* pairs are the keys of those that open; behind the loop, of all of them.  *)
(* The nested loops have not begun before that.                             *)
Collected ==
  call.pc # "returned" =>
    /\ \A n \in 1 .. call.k - 1 : call.cert[n].secret \in {NoSecret, Plain, Locked(call.pw)}
    /\ \A id \in KeyId :
         (\E b \in 1 .. Len(call.pairs) : call.pairs[b] = id)
           <=> \E n \in 1 .. call.k - 1 :
                 call.cert[n].secret \in {Plain, Locked(call.pw)} /\ call.cert[n].id = id
    /\ call.pc \in {"pkesk", "read"} => call.k = Len(call.cert) + 1
    /\ call.pc = "unlock" => call.i = 1 /\ call.j = 1

(* The pairs the nested loops have passed do not fit, if the message is     *)
(* intact.                                                                  *)
PassedUnfit ==
  call.pc = "pkesk" /\ Msg.damage = "none" =>
    \A a \in 1 .. Len(Pkesks), b \in 1 .. Len(call.pairs) :
      a < call.i \/ (a = call.i /\ b < call.j) => Pkesks[a].to # call.pairs[b]

(* The key the packet is read with is what the pair at hand yields. *)
GotFromPair ==
  call.pc = "read" =>
    /\ call.i \in 1 .. Len(Pkesks) /\ call.j \in 1 .. Len(call.pairs)
    /\ call.got = PkeskDecrypt(Pkesks[call.i], call.pairs[call.j])

(* What each way to return says about the message and the keys. *)
ReturnInv ==
  call.pc = "returned" =>
    \/ call.result = Fail("could not unlock") /\ ~AllUnlock(call.cert, call.pw)
    \/ /\ AllUnlock(call.cert, call.pw)
       /\ \/ call.result = Fail("no usable key material") /\ Opened(call.cert, call.pw) = {}
          \/ call.result = Fail("invalid message") /\ Msg.damage # "none"
          \/ /\ call.result = Fail("not encrypted for the key")
             /\ Msg.damage # "none" \/ ~Holds(call.cert, call.pw, Msg)
          \/ /\ call.result = Returned(Msg.literal, call.type, call.crlf)
             /\ Msg.damage = "none" /\ Holds(call.cert, call.pw, Msg)
          \/ /\ call.result = Fail("decryption failed")
             /\ Msg.damage # "none" \/ ~RightKey(call.got)

CallInv == call # Idle => Collected /\ PassedUnfit /\ GotFromPair /\ ReturnInv

(* An answer about a message is about a stored one, and still true. *)
AnswersInv ==
  \A i \in 1 .. Len(answers), m \in Nat :
    answers[i].arg = <<"message", m>> =>
      m \in 1 .. Len(store) /\ answers[i].result = MessageKeyId(store[m])

IInv ==
  Shapes /\ (\A m \in 1 .. Len(store) : MessageInv(store[m])) /\ CallInv /\ AnswersInv
-------------------------------------------------------------------------------
(* A set of naturals has a least element. *)
LEMMA Least ==
  ASSUME NEW T \in SUBSET Nat, T # {}
  PROVE  \E n \in T : \A m \in T : n <= m
PROOF
  <1> DEFINE Less == OpToRel(<, Nat)
  <1>1. IsWellFoundedOn(Less, Nat)
    BY NatLessThanWellFounded
  <1>2. \A x \in Nat, y \in Nat : x < y => <<x, y>> \in Less
    BY DEF OpToRel
  <1> HIDE DEF Less
  <1>3. PICK x \in T : \A y \in T : ~(<<y, x>> \in Less)
    BY <1>1, WFMin
  <1>4. \A y \in T : ~(y < x)
    BY <1>2, <1>3
  <1>5. QED
    BY <1>4

(* Induction, about a set. *)
LEMMA Induction ==
  ASSUME NEW T, 0 \in T, \A n \in Nat : n \in T => n + 1 \in T
  PROVE  \A n \in Nat : n \in T
PROOF
  <1> DEFINE U == {n \in Nat : n \notin T}
  <1> SUFFICES ASSUME U # {} PROVE FALSE
    OBVIOUS
  <1>1. PICK n \in U : \A m \in U : n <= m
    BY Least
  <1>2. n # 0 /\ n - 1 \in Nat
    OBVIOUS
  <1>3. n - 1 \in T
    BY <1>1, <1>2
  <1>4. n - 1 + 1 \in T
    BY <1>2, <1>3
  <1>5. QED
    BY <1>4

(* The recursion behind Kept. *)
KeptStep(s, at, f, k) ==
  IF k = 0 THEN << >> ELSE IF k \in at THEN Append(f[k - 1], s[k]) ELSE f[k - 1]

(* It defines a function on every interval that starts at zero. *)
LEMMA KeptExists ==
  ASSUME NEW s, NEW at
  PROVE  \A n \in Nat : \E f : f = [k \in 0 .. n |-> KeptStep(s, at, f, k)]
PROOF
  <1> DEFINE Good(n) == \E f : f = [k \in 0 .. n |-> KeptStep(s, at, f, k)]
             T == {n \in Nat : Good(n)}
  <1>1. Good(0)
    <2> DEFINE f == [k \in 0 .. 0 |-> << >>]
    <2>1. \A k \in 0 .. 0 : KeptStep(s, at, f, k) = << >>
      BY DEF KeptStep
    <2>2. f = [k \in 0 .. 0 |-> KeptStep(s, at, f, k)]
      BY <2>1
    <2>3. QED
      BY <2>2
  <1>2. ASSUME NEW n \in Nat, Good(n) PROVE Good(n + 1)
    <2>1. PICK f : f = [k \in 0 .. n |-> KeptStep(s, at, f, k)]
      BY <1>2
    <2> DEFINE g == [k \in 0 .. n + 1 |-> IF k <= n THEN f[k] ELSE KeptStep(s, at, f, k)]
    <2>2. \A k \in 0 .. n : g[k] = f[k] /\ f[k] = KeptStep(s, at, f, k)
      BY <2>1
    <2>3. ASSUME NEW k \in 0 .. n + 1
          PROVE  KeptStep(s, at, f, k) = KeptStep(s, at, g, k)
      <3> HIDE DEF g
      <3>1. k # 0 => f[k - 1] = g[k - 1]
        BY <2>2
      <3>2. QED
        BY <3>1 DEF KeptStep
    <2>4. \A k \in 0 .. n + 1 : g[k] = KeptStep(s, at, g, k)
      <3>1. SUFFICES ASSUME NEW k \in 0 .. n + 1 PROVE g[k] = KeptStep(s, at, f, k)
        BY <2>3
      <3>2. CASE k <= n
        <4>1. k \in 0 .. n
          BY <3>2
        <4>2. QED
          BY <2>2, <4>1
      <3>3. CASE ~(k <= n)
        BY <3>3
      <3>4. QED
        BY <3>2, <3>3
    <2>5. g = [k \in 0 .. n + 1 |-> g[k]]
      OBVIOUS
    <2> HIDE DEF g
    <2>6. g = [k \in 0 .. n + 1 |-> KeptStep(s, at, g, k)]
      BY <2>4, <2>5
    <2>7. QED
      BY <2>6
  <1> HIDE DEF Good
  <1>3. 0 \in T /\ \A n \in Nat : n \in T => n + 1 \in T
    BY <1>1, <1>2
  <1> HIDE DEF T
  <1>4. \A n \in Nat : n \in T
    BY <1>3, Induction
  <1>5. QED
    BY <1>4 DEF Good, T

(* Sequence r has the elements of s at the places in `at', and no others.   *)
HasThoseAt(r, s, at) ==
  \A x : (\E i \in 1 .. Len(r) : r[i] = x) <=> \E k \in 1 .. Len(s) : k \in at /\ s[k] = x

(* What Kept keeps: elements of the sequence, exactly those at the places.  *)
LEMMA KeptElements ==
  ASSUME NEW S, NEW s \in Seq(S), NEW at
  PROVE  Kept(s, at) \in Seq(S) /\ HasThoseAt(Kept(s, at), s, at)
PROOF
  <1> DEFINE n == Len(s)
             kept == CHOOSE f : f = [k \in 0 .. n |-> KeptStep(s, at, f, k)]
             Has(q, k) == \A x : (\E i \in 1 .. Len(q) : q[i] = x)
                                   <=> \E j \in 1 .. k : j \in at /\ s[j] = x
             T == {k \in Nat : k <= n => kept[k] \in Seq(S) /\ Has(kept[k], k)}
  <1>1. n \in Nat
    OBVIOUS
  <1>2. Kept(s, at) = kept[n]
    BY DEF Kept, KeptStep
  <1>3. kept = [k \in 0 .. n |-> KeptStep(s, at, kept, k)]
    <2>1. \E f : f = [k \in 0 .. n |-> KeptStep(s, at, f, k)]
      BY <1>1, KeptExists
    <2>2. QED
      BY <2>1, Zenon
  <1> HIDE DEF kept
  <1>4. \A k \in 0 .. n : kept[k] = KeptStep(s, at, kept, k)
    BY <1>3
  <1>5. 0 \in T
    <2>1. kept[0] = KeptStep(s, at, kept, 0)
      BY <1>1, <1>4
    <2>2. kept[0] = << >>
      BY <2>1 DEF KeptStep
    <2>3. Has(<< >>, 0) /\ << >> \in Seq(S)
      OBVIOUS
    <2> HIDE DEF Has
    <2>4. kept[0] \in Seq(S) /\ Has(kept[0], 0)
      BY <2>2, <2>3, Zenon
    <2>5. QED
      BY <2>4
  <1>6. ASSUME NEW k \in Nat, k \in T PROVE k + 1 \in T
    <2> SUFFICES ASSUME k + 1 <= n
                 PROVE  kept[k + 1] \in Seq(S) /\ Has(kept[k + 1], k + 1)
      OBVIOUS
    <2>1. kept[k] \in Seq(S) /\ Has(kept[k], k) /\ s[k + 1] \in S
      <3>1. k <= n
        BY <1>1
      <3>2. s[k + 1] \in S
        BY <1>1
      <3> HIDE DEF Has, n
      <3>3. QED
        BY <1>6, <3>1, <3>2
    <2>2. kept[k + 1] = IF k + 1 \in at THEN Append(kept[k], s[k + 1]) ELSE kept[k]
      <3>1. kept[k + 1] = KeptStep(s, at, kept, k + 1)
        BY <1>1, <1>4
      <3>2. QED
        BY <3>1 DEF KeptStep
    <2> DEFINE q == kept[k]
               r == kept[k + 1]
    <2>3. q \in Seq(S) /\ Has(q, k) /\ (r = IF k + 1 \in at THEN Append(q, s[k + 1]) ELSE q)
      BY <2>1, <2>2
    <2> HIDE DEF q, r
    <2>4. CASE k + 1 \in at
      <3>1. /\ r \in Seq(S) /\ Len(r) = Len(q) + 1 /\ r[Len(q) + 1] = s[k + 1]
            /\ \A i \in 1 .. Len(q) : r[i] = q[i]
        BY <2>1, <2>3, <2>4
      <3>2. ASSUME NEW x
            PROVE  (\E i \in 1 .. Len(r) : r[i] = x)
                     <=> (\E i \in 1 .. Len(q) : q[i] = x) \/ x = s[k + 1]
        <4> DEFINE l == Len(q)
        <4>1. l \in Nat
          BY <2>3
        <4>2. Len(r) = l + 1 /\ r[l + 1] = s[k + 1] /\ \A i \in 1 .. l : r[i] = q[i]
          BY <3>1
        <4> HIDE DEF l
        <4>3. (\E i \in 1 .. l + 1 : r[i] = x) <=> (\E i \in 1 .. l : q[i] = x) \/ x = s[k + 1]
          BY <4>1, <4>2
        <4>4. QED
          BY <4>2, <4>3 DEF l
      <3>3. \A x : (\E j \in 1 .. k + 1 : j \in at /\ s[j] = x)
                     <=> (\E j \in 1 .. k : j \in at /\ s[j] = x) \/ x = s[k + 1]
        BY <2>4
      <3>4. QED
        BY <2>3, <3>1, <3>2, <3>3 DEF r
    <2>5. CASE k + 1 \notin at
      <3>1. r = q
        BY <2>3, <2>5
      <3>2. \A x : (\E j \in 1 .. k + 1 : j \in at /\ s[j] = x)
                     <=> (\E j \in 1 .. k : j \in at /\ s[j] = x)
        BY <2>5
      <3>3. QED
        BY <2>3, <3>1, <3>2 DEF r
    <2>6. QED
      BY <2>4, <2>5
  <1>7. n \in T
    <2> HIDE DEF T
    <2>1. QED
      BY <1>1, <1>5, <1>6, Induction
  <1>8. kept[n] \in Seq(S) /\ Has(kept[n], n)
    <2> HIDE DEF Has, n
    <2>1. QED
      BY <1>1, <1>7
  <1>9. Kept(s, at) \in Seq(S) /\ Has(Kept(s, at), n)
    <2> HIDE DEF Has, n
    <2>1. QED
      BY <1>2, <1>8, Zenon
  <1>10. QED
    BY <1>9, Zenon DEF HasThoseAt
-------------------------------------------------------------------------------
(* The message pgp_pub_encrypt makes after n random draws, at a moment.     *)
PubMessage(c, d, t, o, n, now) ==
  LET to == Recipients(c, now) IN
  Message("us", [k \in 1 .. Len(to) |-> ForKey(to[k].id, to[k].id)], o.cipher,
          Session(n + 1), write_payload(d, t, o),
          [data |-> d, type |-> t, crlf |-> o.convert_crlf, cert |-> c, time |-> now])

(* The message of another program with these session key packets. *)
OtherMessage(esks, l, n, now) ==
  Message("other", esks, "aes256", Session(n + 1), l,
          [data |-> l.body, type |-> "bytea", crlf |-> FALSE, cert |-> << >>, time |-> now])

(* The two copies of the filter chain keep the same keys in the same order, *)
(* so pgp_key_id names the first key pub_encrypt encrypts to.               *)
LEMMA NamesFirst ==
  ASSUME NEW c, NEW t
  PROVE  CertKeyId(c, t) = IF Recipients(c, t) = << >> THEN "error" ELSE Recipients(c, t)[1].id
PROOF
  <1>1. {k \in 1 .. Len(c) : Named(c[k], t)} = {k \in 1 .. Len(c) : Usable(c[k], t)}
    BY DEF Named, Usable
  <1>2. Kept(c, {k \in 1 .. Len(c) : Named(c[k], t)}) = Recipients(c, t)
    BY <1>1 DEF Recipients
  <1>3. QED
    BY <1>2, Zenon DEF CertKeyId

(* The recipients are keys of the certificate. *)
LEMMA RecipientsAre ==
  ASSUME NEW c \in Seq(Key), NEW t
  PROVE  /\ Recipients(c, t) \in Seq(Key)
         /\ \A n \in 1 .. Len(Recipients(c, t)) : \E k \in 1 .. Len(c) : c[k] = Recipients(c, t)[n]
PROOF
  <1>1. PICK places : Recipients(c, t) = Kept(c, places)
    BY DEF Recipients
  <1> DEFINE r == Kept(c, places)
  <1>2. r \in Seq(Key) /\ HasThoseAt(r, c, places)
    BY KeptElements
  <1> HIDE DEF r
  <1>3. \A n \in 1 .. Len(r) : \E k \in 1 .. Len(c) : c[k] = r[n]
    BY <1>2 DEF HasThoseAt
  <1>4. QED
    BY <1>1, <1>2, <1>3 DEF r

(* The packets the helper loops over, and the keys they are for. *)
LEMMA PkesksAre ==
  ASSUME NEW esks \in Seq(Esk)
  PROVE  /\ Kept(esks, ForKeys(esks)) \in Seq(Esk)
         /\ \A x : (\E a \in 1 .. Len(Kept(esks, ForKeys(esks))) :
                      Kept(esks, ForKeys(esks))[a].to = x)
                     <=> x \in {esks[n].to : n \in ForKeys(esks)}
PROOF
  <1> DEFINE p == Kept(esks, ForKeys(esks))
  <1>1. p \in Seq(Esk) /\ HasThoseAt(p, esks, ForKeys(esks))
    BY KeptElements
  <1>2. ForKeys(esks) \subseteq 1 .. Len(esks)
    BY DEF ForKeys
  <1> HIDE DEF p
  <1>3. \A x : (\E a \in 1 .. Len(p) : p[a].to = x) <=> \E n \in ForKeys(esks) : esks[n].to = x
    BY <1>1, <1>2 DEF HasThoseAt
  <1>4. QED
    BY <1>1, <1>3 DEF p

(* The literal packet of a value is one, and reads back as the value.       *)
LEMMA PayloadReadsBack ==
  ASSUME NEW d \in Data, NEW t \in SqlType, NEW o \in PgpOptions, t = "text" => d \in TextData
  PROVE  /\ write_payload(d, t, o) \in Literal
         /\ Returned(write_payload(d, t, o), t, o.convert_crlf) = Ok(d)
         /\ t = "bytea" => \A c \in BOOLEAN : Returned(write_payload(d, t, o), t, c) = Ok(d)
PROOF
  <1> DEFINE l == write_payload(d, t, o)
  <1>1. o.convert_crlf \in BOOLEAN /\ o.unicode_mode \in BOOLEAN
    BY DEF PgpOptions
  <1>2. /\ l.body = IF Converts(t, o) THEN crlf_encode[d] ELSE d
        /\ l.format = IF t = "bytea" THEN "binary" ELSE IF o.unicode_mode THEN "unicode" ELSE "text"
    BY DEF write_payload
  <1>3. l \in Literal
    BY PayloadTypes DEF write_payload, Literal, Format
  <1>4. CASE t = "bytea"
    BY <1>2, <1>3, <1>4 DEF Returned, Converts
  <1>5. CASE t = "text"
    <2>1. (IF o.convert_crlf THEN crlf_decode[l.body] ELSE l.body) = d
      BY <1>1, <1>2, <1>5, CrlfLossless DEF Converts
    <2>2. d \in Utf8 /\ d \notin HasNul
      BY <1>5 DEF TextData
    <2>3. l.format \in {"text", "unicode"}
      BY <1>1, <1>2, <1>5
    <2>4. decrypted_text(l, o.convert_crlf) = Ok(d)
      BY <2>1, <2>2, <2>3 DEF decrypted_text
    <2>5. QED
      BY <1>3, <1>5, <2>4 DEF Returned
  <1>6. QED
    BY <1>4, <1>5 DEF SqlType

(* What pgp_pub_encrypt stores is for keys of the certificate, names the    *)
(* first of them and reads back as the value.                               *)
LEMMA PubMessageInv ==
  ASSUME NEW c \in Certs, NEW d \in Data, NEW t \in SqlType, NEW o \in PgpOptions,
         NEW n \in Nat, NEW now \in Nat, t = "text" => d \in TextData, Recipients(c, now) # << >>
  PROVE  /\ PubMessage(c, d, t, o, n, now) \in Stored
         /\ MessageInv(PubMessage(c, d, t, o, n, now))
         /\ PubMessage(c, d, t, o, n, now).damage = "none"
         /\ SealedFor(PubMessage(c, d, t, o, n, now)) \subseteq KeyIds
PROOF
  <1> DEFINE to == Recipients(c, now)
             esks == [k \in 1 .. Len(to) |-> ForKey(to[k].id, to[k].id)]
             from == [data |-> d, type |-> t, crlf |-> o.convert_crlf, cert |-> c, time |-> now]
             m == PubMessage(c, d, t, o, n, now)
  <1>0. c \in Seq(Key)
    BY PubConstants
  <1>1. /\ m.maker = "us" /\ m.esks = esks /\ m.cipher = o.cipher /\ m.key = Session(n + 1)
        /\ m.literal = write_payload(d, t, o) /\ m.damage = "none" /\ m.from = from
        /\ m = [maker |-> "us", esks |-> esks, cipher |-> o.cipher, key |-> Session(n + 1),
                literal |-> write_payload(d, t, o), from |-> from, damage |-> "none"]
    BY DEF PubMessage, Message
  <1>2. o.cipher \in Cipher /\ o.convert_crlf \in BOOLEAN
    BY DEF PgpOptions
  <1>3. to \in Seq(Key) /\ \A k \in 1 .. Len(to) : \E j \in 1 .. Len(c) : c[j] = to[k]
    BY <1>0, RecipientsAre
  <1> HIDE DEF to, m
  <1>4. ASSUME NEW k \in 1 .. Len(to)
        PROVE  /\ to[k].id \in KeyId /\ ForKey(to[k].id, to[k].id) \in Esk
               /\ ForKey(to[k].id, to[k].id).kind = "PKESK"
               /\ ForKey(to[k].id, to[k].id).recipient = to[k].id
               /\ ForKey(to[k].id, to[k].id).to = to[k].id
    <2>1. to[k] \in Key
      BY <1>3
    <2>2. to[k].id \in KeyId
      BY <2>1 DEF Key
    <2>3. QED
      BY <2>2 DEF ForKey, Esk
  <1>5. esks \in Seq(Esk) /\ Len(esks) = Len(to)
    BY <1>3, <1>4
  <1>6. \A k \in 1 .. Len(to) : esks[k] = ForKey(to[k].id, to[k].id)
    OBVIOUS
  <1> HIDE DEF esks
  <1>7. m \in Stored
    <2>1. from \in From
      BY <1>0, <1>2, PayloadTypes DEF From
    <2>2. write_payload(d, t, o) \in Literal /\ Session(n + 1) \in KeyTerm
      BY PayloadReadsBack DEF KeyTerm
    <2> HIDE DEF from
    <2>3. QED
      BY <1>1, <1>2, <1>5, <2>1, <2>2 DEF Stored
  <1>8. m.key # Garbage
    BY <1>1 DEF Session, Garbage
  <1>9. ReadsBack(m)
    <2>1. m.from.type = t /\ m.from.crlf = o.convert_crlf /\ m.from.data = d
      BY <1>1
    <2>2. QED
      BY <1>1, <2>1, PayloadReadsBack DEF ReadsBack, SqlType
  <1>10. NamesRecipient(m)
    <2>1. to # << >>
      BY DEF to
    <2>2. 1 \in 1 .. Len(to) /\ esks # << >>
      BY <1>3, <1>5, <2>1
    <2>3. esks[1].kind = "PKESK" /\ esks[1].recipient = to[1].id /\ to[1].id # Anonymous
      BY <1>4, <1>6, <2>2 DEF KeyId
    <2>4. MessageKeyId(m) = to[1].id
      BY <1>1, <2>2, <2>3 DEF MessageKeyId
    <2>5. m.from.cert = c /\ m.from.time = now
      BY <1>1
    <2>6. CertKeyId(c, now) = to[1].id
      BY <2>1, NamesFirst DEF to
    <2>7. QED
      BY <2>4, <2>5, <2>6 DEF NamesRecipient
  <1>11. SealedFor(m) \subseteq KeyIds
    <2> SUFFICES ASSUME NEW k \in ForKeys(esks) PROVE esks[k].to \in KeyIds
      BY <1>1 DEF SealedFor
    <2>1. k \in 1 .. Len(to)
      BY <1>5 DEF ForKeys
    <2>2. esks[k].to = to[k].id
      BY <1>4, <1>6, <2>1
    <2>3. PICK j \in 1 .. Len(c) : c[j] = to[k]
      BY <1>3, <2>1
    <2>4. esks[k].to \in {c[i].id : i \in 1 .. Len(c)}
      BY <2>2, <2>3
    <2>5. QED
      BY <2>4, Zenon DEF KeyIds
  <1>12. QED
    BY <1>1, <1>7, <1>8, <1>9, <1>10, <1>11 DEF MessageInv, m

(* What another program stores is for the keys of its packets. *)
LEMMA OtherMessageInv ==
  ASSUME NEW esks \in OtherEsks, NEW l \in Literal, NEW n \in Nat, NEW now \in Nat
  PROVE  /\ OtherMessage(esks, l, n, now) \in Stored
         /\ MessageInv(OtherMessage(esks, l, n, now))
         /\ OtherMessage(esks, l, n, now).damage = "none"
         /\ SealedFor(OtherMessage(esks, l, n, now)) \subseteq KeyIds
PROOF
  <1> DEFINE from == [data |-> l.body, type |-> "bytea", crlf |-> FALSE, cert |-> << >>,
                      time |-> now]
             m == OtherMessage(esks, l, n, now)
  <1>0. esks \in Seq(Esk)
    BY PubConstants
  <1>1. /\ m.maker = "other" /\ m.esks = esks /\ m.cipher = "aes256" /\ m.key = Session(n + 1)
        /\ m.literal = l /\ m.damage = "none" /\ m.from = from
        /\ m = [maker |-> "other", esks |-> esks, cipher |-> "aes256", key |-> Session(n + 1),
                literal |-> l, from |-> from, damage |-> "none"]
    BY DEF OtherMessage, Message
  <1> HIDE DEF m
  <1>2. from \in From /\ from.type = "bytea" /\ from.data = l.body
    <2>1. l.body \in Bodies
      BY DEF Literal
    <2>2. QED
      BY <2>1 DEF From, SqlType
  <1> HIDE DEF from
  <1>3. "aes256" \in Cipher /\ Session(n + 1) \in KeyTerm /\ Session(n + 1) # Garbage
    BY DEF Cipher, KeyTerm, Session, Garbage
  <1>4. m \in Stored
    BY <1>0, <1>1, <1>2, <1>3 DEF Stored
  <1>5. ReadsBack(m)
    BY <1>1, <1>2 DEF ReadsBack, Returned
  <1>6. NamesRecipient(m)
    BY <1>1 DEF NamesRecipient
  <1>7. SealedFor(m) \subseteq KeyIds
    <2>1. SealedFor(m) = {esks[i].to : i \in ForKeys(esks)}
      BY <1>1 DEF SealedFor
    <2> SUFFICES ASSUME NEW x \in {esks[i].to : i \in ForKeys(esks)} PROVE x \in KeyIds
      BY <2>1
    <2>2. x \in UNION {{e[i].to : i \in ForKeys(e)} : e \in OtherEsks}
      BY Zenon
    <2>3. QED
      BY <2>2 DEF KeyIds
  <1>8. QED
    BY <1>1, <1>3, <1>4, <1>5, <1>6, <1>7 DEF MessageInv, m
-------------------------------------------------------------------------------
(* What an encrypt call leaves behind, whoever makes it. *)
LEMMA AppendInv ==
  ASSUME IInv, NEW m \in Stored, MessageInv(m), CanStore, store' = Append(store, m),
         fresh' = fresh + 1, UNCHANGED <<clock, answers, call>>
  PROVE  IInv'
PROOF
  <1>1. /\ store \in Seq(Stored) /\ Len(store) <= MaxMessages /\ fresh \in Nat
        /\ call = Idle /\ Len(store) < MaxMessages
    BY DEF IInv, Shapes, CanStore
  <1>2. /\ store' \in Seq(Stored) /\ Len(store') = Len(store) + 1
        /\ \A k \in 1 .. Len(store) : store'[k] = store[k]
        /\ store'[Len(store) + 1] = m
    BY <1>1
  <1>3. Shapes'
    BY <1>1, <1>2, MessageConstants DEF IInv, Shapes
  <1>4. ASSUME NEW k \in 1 .. Len(store')
        PROVE  MessageInv(store'[k])
    <2>1. CASE k = Len(store) + 1
      BY <1>2, <2>1
    <2>2. CASE k # Len(store) + 1
      <3>1. k \in 1 .. Len(store) /\ store'[k] = store[k]
        BY <1>1, <1>2, <2>2
      <3>2. QED
        BY <3>1 DEF IInv
    <2>3. QED
      BY <2>1, <2>2
  <1>5. CallInv'
    BY <1>1 DEF CallInv
  <1>6. AnswersInv'
    <2> SUFFICES ASSUME NEW i \in 1 .. Len(answers), NEW k \in Nat,
                        answers[i].arg = <<"message", k>>
                 PROVE  k \in 1 .. Len(store') /\ answers[i].result = MessageKeyId(store'[k])
      BY DEF AnswersInv
    <2>1. k \in 1 .. Len(store) /\ answers[i].result = MessageKeyId(store[k])
      BY DEF IInv, AnswersInv
    <2>2. QED
      BY <1>1, <1>2, <2>1
  <1>7. QED
    BY <1>3, <1>4, <1>5, <1>6 DEF IInv

(* Damage does not touch what a message was made of. *)
LEMMA DamageKeeps ==
  ASSUME store \in Seq(Stored), NEW m \in 1 .. Len(store), NEW where \in {"framing", "body"},
         Damage(m, where), NEW k \in 1 .. Len(store)
  PROVE  /\ store'[k] \in Stored
         /\ store'[k].maker = store[k].maker /\ store'[k].esks = store[k].esks
         /\ store'[k].cipher = store[k].cipher /\ store'[k].key = store[k].key
         /\ store'[k].literal = store[k].literal /\ store'[k].from = store[k].from
         /\ store'[k].damage = IF k = m THEN where ELSE store[k].damage
PROOF
  <1>1. store[k] \in Stored
    OBVIOUS
  <1>2. store'[k] = IF k = m THEN [store[k] EXCEPT !.damage = where] ELSE store[k]
    BY DEF Damage
  <1>3. QED
    BY <1>1, <1>2 DEF Stored

(* A message may be damaged between calls. *)
LEMMA DamageInv ==
  ASSUME IInv, NEW m \in 1 .. Len(store), NEW where \in {"framing", "body"}, Damage(m, where),
         UNCHANGED <<clock, answers>>
  PROVE  IInv'
PROOF
  <1>1. /\ store \in Seq(Stored) /\ Len(store) <= MaxMessages /\ fresh \in Nat /\ call = Idle
        /\ store' = [store EXCEPT ![m].damage = where] /\ fresh' = fresh /\ call' = call
    BY DEF IInv, Shapes, Damage
  <1>2. ASSUME NEW k \in 1 .. Len(store)
        PROVE  /\ store'[k] \in Stored
               /\ store'[k].maker = store[k].maker /\ store'[k].esks = store[k].esks
               /\ store'[k].key = store[k].key
               /\ store'[k].literal = store[k].literal /\ store'[k].from = store[k].from
    BY <1>1, DamageKeeps
  <1>3. store' \in Seq(Stored) /\ Len(store') = Len(store)
    BY <1>1, <1>2
  <1>4. Shapes'
    BY <1>1, <1>3 DEF IInv, Shapes
  <1>5. \A k \in 1 .. Len(store) : MessageKeyId(store'[k]) = MessageKeyId(store[k])
    BY <1>2 DEF MessageKeyId
  <1>6. ASSUME NEW k \in 1 .. Len(store')
        PROVE  MessageInv(store'[k])
    <2>1. MessageInv(store[k]) /\ k \in 1 .. Len(store)
      BY <1>3 DEF IInv
    <2>2. ReadsBack(store'[k])
      BY <1>2, <2>1, Zenon DEF MessageInv, ReadsBack
    <2>3. NamesRecipient(store'[k])
      BY <1>2, <1>5, <2>1 DEF MessageInv, NamesRecipient
    <2>4. QED
      BY <1>2, <2>1, <2>2, <2>3 DEF MessageInv
  <1>7. CallInv'
    BY <1>1 DEF CallInv
  <1>8. AnswersInv'
    BY <1>3, <1>5 DEF IInv, AnswersInv
  <1>9. QED
    BY <1>4, <1>6, <1>7, <1>8 DEF IInv

(* A step that leaves messages, clock and answers alone. *)
LEMMA CallStepInv ==
  ASSUME IInv, UNCHANGED <<clock, store, fresh, answers>>, CallInv',
         call' = Idle \/ (/\ call' \in Call /\ call'.m \in 1 .. Len(store)
                          /\ call'.k \in 1 .. Len(call'.cert) + 1
                          /\ call'.i \in 1 .. Len(Pkesks') + 1
                          /\ call'.pc = "pkesk" => call'.j \in 1 .. Len(call'.pairs))
  PROVE  IInv'
PROOF
  <1>1. Shapes'
    BY DEF IInv, Shapes
  <1>2. AnswersInv'
    BY DEF IInv, AnswersInv
  <1>3. QED
    BY <1>1, <1>2 DEF IInv

(* What is known of a call in progress. *)
LEMMA CallFacts ==
  ASSUME IInv, call.pc # "idle"
  PROVE  /\ call # Idle /\ call \in Call /\ call.m \in 1 .. Len(store)
         /\ Msg \in Stored /\ Msg.esks \in Seq(Esk) /\ MessageInv(Msg)
         /\ call.cert \in Seq(Key) /\ call.pairs \in Seq(KeyId)
         /\ call.k \in 1 .. Len(call.cert) + 1 /\ call.i \in 1 .. Len(Pkesks) + 1
         /\ Pkesks \in Seq(Esk)
         /\ \A x : (\E a \in 1 .. Len(Pkesks) : Pkesks[a].to = x) <=> x \in SealedFor(Msg)
PROOF
  <1>1. call # Idle
    BY DEF Idle
  <1>2. /\ call \in Call /\ call.m \in 1 .. Len(store)
        /\ call.k \in 1 .. Len(call.cert) + 1 /\ call.i \in 1 .. Len(Pkesks) + 1
    BY <1>1 DEF IInv, Shapes
  <1>3. Msg \in Stored
    BY <1>2 DEF IInv, Shapes, Msg
  <1>4. MessageInv(Msg)
    BY <1>2 DEF IInv, Msg
  <1>5. Msg.esks \in Seq(Esk)
    BY <1>3 DEF Stored
  <1>6. /\ Pkesks \in Seq(Esk)
        /\ \A x : (\E a \in 1 .. Len(Pkesks) : Pkesks[a].to = x) <=> x \in SealedFor(Msg)
    BY <1>5, PkesksAre DEF Pkesks, SealedFor
  <1>7. call.cert \in Seq(Key) /\ call.pairs \in Seq(KeyId)
    BY <1>2 DEF Call
  <1>8. QED
    BY <1>1, <1>2, <1>3, <1>4, <1>5, <1>6, <1>7

(* A secret that is not there is not one that opens. *)
LEMMA SecretsDiffer ==
  ASSUME NEW pw
  PROVE  NoSecret # Plain /\ NoSecret # Locked(pw) /\ Plain # Locked(pw)
         /\ Stub # NoSecret /\ Stub # Plain /\ Stub # Locked(pw)
  BY DEF NoSecret, Plain, Locked, Stub

(* Behind the first loop every secret has opened, and the nested loops      *)
(* decide whether an opened key is a key of the message.                    *)
LEMMA BehindLoop ==
  ASSUME IInv, call.pc \in {"unlock", "pkesk", "read"}, call.k = Len(call.cert) + 1
  PROVE  /\ AllUnlock(call.cert, call.pw)
         /\ \A id : id \in Opened(call.cert, call.pw)
                      <=> \E b \in 1 .. Len(call.pairs) : call.pairs[b] = id
         /\ Holds(call.cert, call.pw, Msg)
              <=> \E a \in 1 .. Len(Pkesks), b \in 1 .. Len(call.pairs) :
                    Pkesks[a].to = call.pairs[b]
PROOF
  <1>1. /\ call # Idle /\ call \in Call /\ Msg \in Stored
        /\ call.cert \in Seq(Key) /\ call.pairs \in Seq(KeyId)
        /\ \A x : (\E a \in 1 .. Len(Pkesks) : Pkesks[a].to = x) <=> x \in SealedFor(Msg)
    BY CallFacts
  <1>2. call.k - 1 = Len(call.cert)
    BY <1>1
  <1>3. Collected
    BY <1>1 DEF IInv, CallInv
  <1>4. AllUnlock(call.cert, call.pw)
    BY <1>2, <1>3 DEF Collected, AllUnlock
  <1>5. ASSUME NEW id
        PROVE  id \in Opened(call.cert, call.pw)
                 <=> \E b \in 1 .. Len(call.pairs) : call.pairs[b] = id
    <2>1. id \in Opened(call.cert, call.pw)
            <=> \E n \in 1 .. Len(call.cert) :
                  call.cert[n].secret \in {Plain, Locked(call.pw)} /\ call.cert[n].id = id
      BY DEF Opened
    <2>2. \A n \in 1 .. Len(call.cert) : call.cert[n].id \in KeyId
      <3>1. \A n \in 1 .. Len(call.cert) : call.cert[n] \in Key
        BY <1>1
      <3>2. QED
        BY <3>1 DEF Key
    <2>3. \A b \in 1 .. Len(call.pairs) : call.pairs[b] \in KeyId
      BY <1>1
    <2>4. id \in KeyId =>
            ((\E b \in 1 .. Len(call.pairs) : call.pairs[b] = id)
               <=> \E n \in 1 .. Len(call.cert) :
                     call.cert[n].secret \in {Plain, Locked(call.pw)} /\ call.cert[n].id = id)
      BY <1>2, <1>3 DEF Collected
    <2>5. QED
      BY <2>1, <2>2, <2>3, <2>4, Zenon
  <1>6. Holds(call.cert, call.pw, Msg)
          <=> \E id : id \in Opened(call.cert, call.pw) /\ id \in SealedFor(Msg)
    BY DEF Holds
  <1>7. (\E id : id \in Opened(call.cert, call.pw) /\ id \in SealedFor(Msg))
          <=> \E a \in 1 .. Len(Pkesks), b \in 1 .. Len(call.pairs) :
                Pkesks[a].to = call.pairs[b]
    <2>1. ASSUME NEW id \in Opened(call.cert, call.pw), id \in SealedFor(Msg)
          PROVE  \E a \in 1 .. Len(Pkesks), b \in 1 .. Len(call.pairs) :
                   Pkesks[a].to = call.pairs[b]
      <3>1. PICK a \in 1 .. Len(Pkesks) : Pkesks[a].to = id
        BY <1>1, <2>1
      <3>2. PICK b \in 1 .. Len(call.pairs) : call.pairs[b] = id
        BY <1>5
      <3>3. QED
        BY <3>1, <3>2
    <2>2. ASSUME NEW a \in 1 .. Len(Pkesks), NEW b \in 1 .. Len(call.pairs),
                 Pkesks[a].to = call.pairs[b]
          PROVE  call.pairs[b] \in Opened(call.cert, call.pw) /\ call.pairs[b] \in SealedFor(Msg)
      BY <1>1, <1>5, <2>2
    <2>3. QED
      BY <2>1, <2>2
  <1>8. QED
    BY <1>4, <1>5, <1>6, <1>7
-------------------------------------------------------------------------------
(* A failure, and what a decrypt function makes of a packet, are results. *)
LEMMA Results ==
  ASSUME NEW l \in Literal, NEW t \in SqlType, NEW c \in BOOLEAN, NEW e \in {"none"} \cup PubErrors
  PROVE  Fail(e) \in Result /\ Returned(l, t, c) \in Result
PROOF
  <1>1. Fail(e) \in Result /\ Fail("not text") \in Result /\ Fail("NUL byte") \in Result
        /\ Fail("not UTF-8") \in Result
    BY DEF Fail, Result, PubErrors
  <1>2. l.body \in Bodies /\ crlf_decode[l.body] \in Bodies
    BY PayloadTypes DEF Literal
  <1>3. \A b \in Bodies : Ok(b) \in Result
    BY DEF Ok, Result, PubErrors
  <1>4. QED
    BY <1>1, <1>2, <1>3 DEF Returned, decrypted_text

(* A call returns: nothing but its state and its result changes. *)
LEMMA ReturnInvariant ==
  ASSUME IInv, call.pc \notin {"idle", "returned"}, NEW res \in Result, Return(res), CallOnly,
         \/ res = Fail("could not unlock") /\ ~AllUnlock(call.cert, call.pw)
         \/ /\ AllUnlock(call.cert, call.pw)
            /\ \/ res = Fail("no usable key material") /\ Opened(call.cert, call.pw) = {}
               \/ res = Fail("invalid message") /\ Msg.damage # "none"
               \/ /\ res = Fail("not encrypted for the key")
                  /\ Msg.damage # "none" \/ ~Holds(call.cert, call.pw, Msg)
               \/ /\ res = Returned(Msg.literal, call.type, call.crlf)
                  /\ Msg.damage = "none" /\ Holds(call.cert, call.pw, Msg)
               \/ /\ res = Fail("decryption failed")
                  /\ Msg.damage # "none" \/ ~RightKey(call.got)
  PROVE  IInv'
PROOF
  <1>1. /\ call \in Call /\ call.m \in 1 .. Len(store)
        /\ call.k \in 1 .. Len(call.cert) + 1 /\ call.i \in 1 .. Len(Pkesks) + 1
    BY CallFacts
  <1>2. /\ call' \in Call /\ call'.pc = "returned" /\ call'.result = res
        /\ call'.m = call.m /\ call'.cert = call.cert /\ call'.pw = call.pw
        /\ call'.type = call.type /\ call'.crlf = call.crlf /\ call'.k = call.k
        /\ call'.i = call.i /\ call'.got = call.got
    BY <1>1 DEF Return, Call
  <1>3. Msg' = Msg /\ Pkesks' = Pkesks
    BY <1>2 DEF Msg, Pkesks, CallOnly
  <1>4. RightKey(call.got)' <=> RightKey(call.got)
    BY <1>2, <1>3 DEF RightKey
  <1>5. ReturnInv'
    BY <1>2, <1>3, <1>4 DEF ReturnInv, RightKey
  <1>6. CallInv'
    BY <1>2, <1>5 DEF CallInv, Collected, PassedUnfit, GotFromPair
  <1>7. QED
    BY <1>1, <1>2, <1>3, <1>6, CallStepInv DEF CallOnly

(* pgp_pub_decrypt begins. *)
LEMMA PubDecryptInv ==
  ASSUME IInv, NEW m \in 1 .. Len(store), NEW c \in Certs, NEW pw \in Password,
         NEW t \in SqlType, NEW crlf \in BOOLEAN, PubDecrypt(m, c, pw, t, crlf)
  PROVE  IInv'
PROOF
  <1>1. /\ call' = [pc |-> "unlock", m |-> m, cert |-> c, pw |-> pw, type |-> t, crlf |-> crlf,
                    k |-> 1, pairs |-> << >>, i |-> 1, j |-> 1,
                    got |-> <<"none", Garbage>>, result |-> Fail("none")]
        /\ UNCHANGED <<clock, store, fresh, answers>>
    BY DEF PubDecrypt, CallOnly
  <1>2. <<"none", Garbage>> \in (Cipher \cup {"none"}) \X KeyTerm /\ Fail("none") \in Result
    BY DEF KeyTerm, Fail, Result, PubErrors
  <1>3. store \in Seq(Stored) /\ store[m] \in Stored /\ c \in Seq(Key)
    BY PubConstants DEF IInv, Shapes
  <1>4. /\ call' \in Call /\ call'.m = m /\ call'.pc = "unlock" /\ call'.i = 1 /\ call'.j = 1
        /\ call'.k = 1 /\ call'.cert = c /\ call'.pairs = << >>
    BY <1>1, <1>2, <1>3 DEF Call
  <1>5. Len(Pkesks') \in Nat /\ Len(c) \in Nat
    <2>1. Msg' = store[m]
      BY <1>1, <1>4 DEF Msg
    <2>2. store[m].esks \in Seq(Esk)
      BY <1>3 DEF Stored
    <2>3. Pkesks' \in Seq(Esk)
      BY <2>1, <2>2, PkesksAre DEF Pkesks
    <2>4. QED
      BY <1>3, <2>3
  <1>6. Collected'
    <2>1. call'.k - 1 = 0 /\ Len(call'.pairs) = 0
      BY <1>4
    <2>2. QED
      BY <1>4, <2>1 DEF Collected
  <1>7. CallInv'
    BY <1>4, <1>6 DEF CallInv, PassedUnfit, GotFromPair, ReturnInv
  <1>8. QED
    BY <1>1, <1>4, <1>5, <1>7, CallStepInv

(* One key of the certificate: passed over, unlocked, or the end of the     *)
(* call.                                                                    *)
LEMMA UnlockKeyInv ==
  ASSUME IInv, UnlockKey
  PROVE  IInv'
PROOF
  <1> DEFINE key == call.cert[call.k]
  <1>1. call.pc = "unlock" /\ call.k <= Len(call.cert) /\ CallOnly
    BY DEF UnlockKey
  <1>2. /\ call # Idle /\ call \in Call /\ call.m \in 1 .. Len(store)
        /\ call.cert \in Seq(Key) /\ call.pairs \in Seq(KeyId)
        /\ call.k \in 1 .. Len(call.cert) + 1 /\ call.i \in 1 .. Len(Pkesks) + 1
    BY <1>1, CallFacts
  <1>3. call.k \in 1 .. Len(call.cert) /\ key \in Key /\ key.id \in KeyId
    <2>1. call.k \in 1 .. Len(call.cert)
      BY <1>1, <1>2
    <2>2. key \in Key
      BY <1>2, <2>1
    <2>3. QED
      BY <2>1, <2>2 DEF Key
  <1>4. Collected
    BY <1>2 DEF IInv, CallInv
  <1>5. ASSUME NEW pairs \in Seq(KeyId), call' \in Call, call'.pc = "unlock",
               call'.k = call.k + 1, call'.pairs = pairs, call'.m = call.m,
               call'.cert = call.cert, call'.pw = call.pw, call'.i = call.i, call'.j = call.j,
               key.secret \in {NoSecret, Plain, Locked(call.pw)},
               \A id : (\E b \in 1 .. Len(pairs) : pairs[b] = id)
                         <=> \/ \E b \in 1 .. Len(call.pairs) : call.pairs[b] = id
                             \/ key.secret \in {Plain, Locked(call.pw)} /\ key.id = id
        PROVE  IInv'
    <2>1. Msg' = Msg /\ Pkesks' = Pkesks
      BY <1>1, <1>5 DEF Msg, Pkesks, CallOnly
    <2>2. Collected'
      <3> DEFINE Opens(n) == call.cert[n].secret \in {Plain, Locked(call.pw)}
                 Fine(n) == call.cert[n].secret \in {NoSecret, Plain, Locked(call.pw)}
                 k == call.k
      <3>0. k >= 1
        BY <1>3
      <3>1. k \in Nat /\ call'.k - 1 = k /\ Fine(k)
        BY <1>2, <1>5 DEF Call
      <3>2. \A n \in 1 .. k - 1 : Fine(n)
        BY <1>1, <1>4 DEF Collected
      <3>3. ASSUME NEW id \in KeyId
            PROVE  (\E b \in 1 .. Len(pairs) : pairs[b] = id)
                     <=> (\E n \in 1 .. k - 1 : Opens(n) /\ call.cert[n].id = id)
                           \/ (Opens(k) /\ call.cert[k].id = id)
        <4>1. (\E b \in 1 .. Len(call.pairs) : call.pairs[b] = id)
                <=> (\E n \in 1 .. k - 1 : Opens(n) /\ call.cert[n].id = id)
          BY <1>1, <1>4 DEF Collected
        <4>2. QED
          BY <1>5, <4>1
      <3> HIDE DEF Opens, Fine, k
      <3>4. \A n \in 1 .. k : Fine(n)
        BY <3>1, <3>2
      <3>5. \A id \in KeyId : (\E b \in 1 .. Len(pairs) : pairs[b] = id)
                                <=> \E n \in 1 .. k : Opens(n) /\ call.cert[n].id = id
        <4>1. \A n : n \in 1 .. k <=> n \in 1 .. k - 1 \/ n = k
          BY <3>0, <3>1
        <4>2. ASSUME NEW id \in KeyId
              PROVE  (\E n \in 1 .. k : Opens(n) /\ call.cert[n].id = id)
                       <=> (\E n \in 1 .. k - 1 : Opens(n) /\ call.cert[n].id = id)
                             \/ (Opens(k) /\ call.cert[k].id = id)
          BY <4>1, ZenonT(30)
        <4>3. QED
          BY <3>3, <4>2, ZenonT(30)
      <3>6. call.i = 1 /\ call.j = 1
        BY <1>1, <1>4 DEF Collected
      <3>7. QED
        BY <1>5, <3>1, <3>4, <3>5, <3>6, ZenonT(60) DEF Collected, Opens, Fine
    <2>3. CallInv'
      BY <1>5, <2>2 DEF CallInv, PassedUnfit, GotFromPair, ReturnInv
    <2>4. call'.k \in 1 .. Len(call'.cert) + 1
      BY <1>2, <1>3, <1>5
    <2>5. QED
      BY <1>1, <1>2, <1>5, <2>1, <2>3, <2>4, CallStepInv DEF CallOnly
  <1> HIDE DEF key
  <1>6. CASE key.secret = NoSecret /\ call' = [call EXCEPT !.k = @ + 1]
    <2>0. call.k + 1 \in Nat
      BY <1>2 DEF Call
    <2>1. /\ call' \in Call /\ call'.pc = "unlock" /\ call'.k = call.k + 1
          /\ call'.pairs = call.pairs /\ call'.m = call.m /\ call'.cert = call.cert
          /\ call'.pw = call.pw /\ call'.i = call.i /\ call'.j = call.j
      <3> DEFINE n == call.k + 1
      <3>1. n \in Nat /\ call' = [call EXCEPT !.k = n] /\ n = call.k + 1
        BY <1>6, <2>0
      <3> HIDE DEF n
      <3>2. QED
        BY <1>1, <1>2, <3>1 DEF Call
    <2>2. key.secret \notin {Plain, Locked(call.pw)}
      BY <1>6, SecretsDiffer
    <2>3. QED
      BY <1>2, <1>5, <1>6, <2>1, <2>2
  <1>7. CASE /\ Unlocks(key, call.pw)
             /\ call' = [call EXCEPT !.k = @ + 1, !.pairs = Append(@, key.id)]
    <2> DEFINE pairs == Append(call.pairs, key.id)
    <2>1. /\ pairs \in Seq(KeyId) /\ Len(pairs) = Len(call.pairs) + 1
          /\ pairs[Len(call.pairs) + 1] = key.id
          /\ \A b \in 1 .. Len(call.pairs) : pairs[b] = call.pairs[b]
      BY <1>2, <1>3
    <2>2. /\ call' \in Call /\ call'.pc = "unlock" /\ call'.k = call.k + 1
          /\ call'.pairs = pairs /\ call'.m = call.m /\ call'.cert = call.cert
          /\ call'.pw = call.pw /\ call'.i = call.i /\ call'.j = call.j
      <3> DEFINE n == call.k + 1
      <3>1. n \in Nat /\ call' = [call EXCEPT !.k = n, !.pairs = pairs] /\ n = call.k + 1
        BY <1>2, <1>7 DEF Call
      <3> HIDE DEF n, pairs
      <3>2. QED
        BY <1>1, <1>2, <2>1, <3>1 DEF Call
    <2> HIDE DEF pairs
    <2>3. key.secret \in {Plain, Locked(call.pw)}
      BY <1>7 DEF Unlocks
    <2>4. \A id : (\E b \in 1 .. Len(pairs) : pairs[b] = id)
                    <=> (\E b \in 1 .. Len(call.pairs) : call.pairs[b] = id) \/ key.id = id
      <3> DEFINE l == Len(call.pairs)
                 q == call.pairs
      <3>1. l \in Nat /\ Len(pairs) = l + 1 /\ pairs[l + 1] = key.id
            /\ \A b \in 1 .. l : pairs[b] = q[b]
        BY <1>2, <2>1
      <3> HIDE DEF l, q
      <3>2. \A id : (\E b \in 1 .. l + 1 : pairs[b] = id)
                      <=> (\E b \in 1 .. l : q[b] = id) \/ key.id = id
        BY <3>1
      <3>3. QED
        BY <3>1, <3>2 DEF l, q
    <2>5. QED
      BY <1>5, <2>1, <2>2, <2>3, <2>4
  <1>8. CASE key.secret # NoSecret /\ ~Unlocks(key, call.pw) /\ GivesUp
    <2>1. ~AllUnlock(call.cert, call.pw)
      BY <1>3, <1>8 DEF AllUnlock, Unlocks, key
    <2>2. Fail("could not unlock") \in Result
      BY DEF Fail, Result, PubErrors
    <2>3. QED
      BY <1>1, <1>8, <2>1, <2>2, ReturnInvariant DEF GivesUp
  <1>9. QED
    BY <1>6, <1>7, <1>8 DEF UnlockKey, key

(* Behind the loop: no pair, a message that does not parse, or the nested   *)
(* loops begin.                                                             *)
LEMMA OpenMessageInv ==
  ASSUME IInv, OpenMessage
  PROVE  IInv'
PROOF
  <1>1. call.pc = "unlock" /\ call.k > Len(call.cert) /\ CallOnly
    BY DEF OpenMessage
  <1>2. /\ call # Idle /\ call \in Call /\ call.m \in 1 .. Len(store)
        /\ call.cert \in Seq(Key) /\ call.pairs \in Seq(KeyId)
        /\ call.k \in 1 .. Len(call.cert) + 1 /\ call.i \in 1 .. Len(Pkesks) + 1
    BY <1>1, CallFacts
  <1>3. call.k = Len(call.cert) + 1
    BY <1>1, <1>2
  <1>4. /\ AllUnlock(call.cert, call.pw)
        /\ \A id : id \in Opened(call.cert, call.pw)
                     <=> \E b \in 1 .. Len(call.pairs) : call.pairs[b] = id
    BY <1>1, <1>3, BehindLoop
  <1>5. Fail("no usable key material") \in Result /\ Fail("invalid message") \in Result
    BY DEF Fail, Result, PubErrors
  <1>6. CASE call.pairs = << >> /\ Return(Fail("no usable key material"))
    <2>1. Opened(call.cert, call.pw) = {}
      <3>1. call.pairs = << >> /\ Len(<< >>) = 0
        BY <1>6, EmptySeq
      <3>2. QED
        BY <1>4, <3>1
    <2>2. QED
      BY <1>1, <1>4, <1>5, <1>6, <2>1, ReturnInvariant
  <1>7. CASE Msg.damage = "framing" /\ Return(Fail("invalid message"))
    BY <1>1, <1>4, <1>5, <1>7, ReturnInvariant
  <1>8. CASE call.pairs # << >> /\ call' = [call EXCEPT !.pc = "pkesk"]
    <2>1. /\ call' \in Call /\ call'.pc = "pkesk" /\ call'.m = call.m /\ call'.cert = call.cert
          /\ call'.pw = call.pw /\ call'.k = call.k /\ call'.pairs = call.pairs
          /\ call'.i = call.i /\ call'.j = call.j
      BY <1>2, <1>8 DEF Call
    <2>2. Msg' = Msg /\ Pkesks' = Pkesks
      BY <1>1, <2>1 DEF Msg, Pkesks, CallOnly
    <2>3. Collected
      BY <1>2 DEF IInv, CallInv
    <2>4. call.i = 1 /\ call.j = 1
      BY <1>1, <2>3 DEF Collected
    <2>5. call'.j \in 1 .. Len(call'.pairs)
      <3> DEFINE q == call.pairs
      <3>1. q \in Seq(KeyId) /\ q # << >>
        BY <1>2, <1>8
      <3> HIDE DEF q
      <3>2. 1 \in 1 .. Len(q)
        BY <3>1
      <3>3. QED
        BY <2>1, <2>4, <3>2 DEF q
    <2>6. Collected'
      BY <1>1, <1>3, <2>1, <2>3 DEF Collected
    <2>7. PassedUnfit'
      BY <2>1, <2>4 DEF PassedUnfit
    <2>8. CallInv'
      BY <2>1, <2>6, <2>7 DEF CallInv, GotFromPair, ReturnInv
    <2>9. QED
      BY <1>1, <1>2, <2>1, <2>2, <2>5, <2>8, CallStepInv DEF CallOnly
  <1>9. QED
    BY <1>6, <1>7, <1>8 DEF OpenMessage, NoPairs

(* A pair yields the key of the message if it fits, and garbage if not. *)
LEMMA PairYields ==
  ASSUME Msg \in Stored, Msg.key # Garbage, NEW e, NEW id
  PROVE  /\ PkeskDecrypt(e, id) \in (Cipher \cup {"none"}) \X KeyTerm
         /\ RightKey(PkeskDecrypt(e, id)) <=> e.to = id
PROOF
  <1>1. Msg.cipher \in Cipher /\ Msg.key \in KeyTerm /\ Garbage \in KeyTerm
    BY DEF Stored, KeyTerm
  <1>2. QED
    BY <1>1 DEF PkeskDecrypt, RightKey

(* One pair is tried: its key is taken, or it does not fit unless the       *)
(* message is damaged.                                                      *)
LEMMA TryPairInv ==
  ASSUME IInv, TryPair
  PROVE  IInv'
PROOF
  <1> DEFINE got == PkeskDecrypt(Pkesks[call.i], call.pairs[call.j])
             nxt == NextPair(call.i, call.j)
  <1>1. call.pc = "pkesk" /\ call.i <= Len(Pkesks) /\ CallOnly
    BY DEF TryPair
  <1>2. /\ call # Idle /\ call \in Call /\ call.m \in 1 .. Len(store) /\ Msg \in Stored
        /\ MessageInv(Msg) /\ Pkesks \in Seq(Esk)
        /\ call.cert \in Seq(Key) /\ call.pairs \in Seq(KeyId)
        /\ call.k \in 1 .. Len(call.cert) + 1 /\ call.i \in 1 .. Len(Pkesks) + 1
    BY <1>1, CallFacts
  <1>3. call.i \in 1 .. Len(Pkesks) /\ call.j \in 1 .. Len(call.pairs)
    BY <1>1, <1>2 DEF IInv, Shapes
  <1>4. /\ got \in (Cipher \cup {"none"}) \X KeyTerm
        /\ RightKey(got) <=> Pkesks[call.i].to = call.pairs[call.j]
    BY <1>2, PairYields DEF MessageInv
  <1>5. /\ nxt = <<nxt[1], nxt[2]>>
        /\ \/ call.j < Len(call.pairs) /\ nxt[1] = call.i /\ nxt[2] = call.j + 1
           \/ ~(call.j < Len(call.pairs)) /\ nxt[1] = call.i + 1 /\ nxt[2] = 1
    BY DEF NextPair
  <1>6. Collected /\ PassedUnfit
    BY <1>2 DEF IInv, CallInv
  <1> HIDE DEF got, nxt
  <1>7. PICK looksRight \in QuickCheck(got) :
          call' = IF looksRight THEN [call EXCEPT !.pc = "read", !.got = got]
                  ELSE [call EXCEPT !.i = nxt[1], !.j = nxt[2]]
    BY DEF TryPair, Offer, got, nxt
  <1>8. CASE looksRight
    <2>1. /\ call' \in Call /\ call'.pc = "read" /\ call'.got = got /\ call'.m = call.m
          /\ call'.cert = call.cert /\ call'.pw = call.pw /\ call'.k = call.k
          /\ call'.pairs = call.pairs /\ call'.i = call.i /\ call'.j = call.j
      BY <1>2, <1>4, <1>7, <1>8 DEF Call
    <2>2. Msg' = Msg /\ Pkesks' = Pkesks
      BY <1>1, <2>1 DEF Msg, Pkesks, CallOnly
    <2>3. Collected'
      BY <1>1, <1>6, <2>1 DEF Collected
    <2>4. GotFromPair'
      BY <1>3, <2>1, <2>2 DEF GotFromPair, PkeskDecrypt, got
    <2>5. CallInv'
      BY <2>1, <2>3, <2>4 DEF CallInv, PassedUnfit, ReturnInv
    <2>6. QED
      BY <1>1, <1>2, <2>1, <2>2, <2>5, CallStepInv DEF CallOnly
  <1>9. CASE ~looksRight
    <2> DEFINE p == Len(Pkesks)
               q == Len(call.pairs)
    <2>0. p \in Nat /\ q \in Nat /\ call.i \in 1 .. p /\ call.j \in 1 .. q
      BY <1>2, <1>3
    <2>1. nxt[1] \in 1 .. p + 1 /\ nxt[2] \in 1 .. q
      <3>1. \/ call.j < q /\ nxt[1] = call.i /\ nxt[2] = call.j + 1
            \/ ~(call.j < q) /\ nxt[1] = call.i + 1 /\ nxt[2] = 1
        BY <1>5
      <3> HIDE DEF p, q
      <3>2. QED
        BY <2>0, <3>1
    <2>2. /\ call' \in Call /\ call'.pc = "pkesk" /\ call'.m = call.m
          /\ call'.cert = call.cert /\ call'.pw = call.pw /\ call'.k = call.k
          /\ call'.pairs = call.pairs /\ call'.i = nxt[1] /\ call'.j = nxt[2]
      <3>1. nxt[1] \in Nat /\ nxt[2] \in Nat
        BY <2>0, <2>1
      <3>2. QED
        BY <1>1, <1>2, <1>7, <1>9, <3>1 DEF Call
    <2>3. Msg' = Msg /\ Pkesks' = Pkesks
      BY <1>1, <2>2 DEF Msg, Pkesks, CallOnly
    <2>4. Msg.damage = "none" => Pkesks[call.i].to # call.pairs[call.j]
      BY <1>4, <1>7, <1>9 DEF QuickCheck
    <2>5. ASSUME NEW a \in 1 .. p, NEW b \in 1 .. q,
                 a < nxt[1] \/ (a = nxt[1] /\ b < nxt[2])
          PROVE  a < call.i \/ (a = call.i /\ b < call.j) \/ (a = call.i /\ b = call.j)
      <3>1. \/ call.j < q /\ nxt[1] = call.i /\ nxt[2] = call.j + 1
            \/ ~(call.j < q) /\ nxt[1] = call.i + 1 /\ nxt[2] = 1
        BY <1>5
      <3> HIDE DEF p, q
      <3>2. QED
        BY <2>0, <2>5, <3>1
    <2>6. PassedUnfit'
      <3> SUFFICES ASSUME Msg.damage = "none", NEW a \in 1 .. p, NEW b \in 1 .. q,
                          a < nxt[1] \/ (a = nxt[1] /\ b < nxt[2])
                   PROVE  Pkesks[a].to # call.pairs[b]
        BY <2>2, <2>3 DEF PassedUnfit
      <3>1. CASE a = call.i /\ b = call.j
        BY <2>4, <3>1
      <3>2. CASE a < call.i \/ (a = call.i /\ b < call.j)
        BY <1>1, <1>6, <3>2 DEF PassedUnfit
      <3>3. QED
        BY <2>5, <3>1, <3>2
    <2>7. Collected'
      BY <1>1, <1>6, <2>2 DEF Collected
    <2>8. CallInv'
      BY <2>2, <2>6, <2>7 DEF CallInv, GotFromPair, ReturnInv
    <2>9. QED
      BY <1>1, <1>2, <2>1, <2>2, <2>3, <2>8, CallStepInv DEF CallOnly
  <1>10. QED
    BY <1>8, <1>9

(* The nested loops are through: no pair fits, so the message is for none   *)
(* of the keys.                                                             *)
LEMMA NoPkeskLeftInv ==
  ASSUME IInv, NoPkeskLeft
  PROVE  IInv'
PROOF
  <1>1. /\ call.pc = "pkesk" /\ call.i > Len(Pkesks) /\ CallOnly
        /\ Return(Fail("not encrypted for the key"))
    BY DEF NoPkeskLeft
  <1>2. /\ call # Idle /\ call \in Call /\ call.i \in 1 .. Len(Pkesks) + 1 /\ Pkesks \in Seq(Esk)
    BY <1>1, CallFacts
  <1>3. Collected /\ PassedUnfit
    BY <1>2 DEF IInv, CallInv
  <1>4. /\ AllUnlock(call.cert, call.pw)
        /\ Holds(call.cert, call.pw, Msg)
             <=> \E a \in 1 .. Len(Pkesks), b \in 1 .. Len(call.pairs) :
                   Pkesks[a].to = call.pairs[b]
    BY <1>1, <1>3, BehindLoop DEF Collected
  <1>5. \A a \in 1 .. Len(Pkesks) : a < call.i
    <2> DEFINE p == Len(Pkesks)
    <2>1. p \in Nat
      BY <1>2
    <2>2. call.i \in 1 .. p + 1 /\ call.i > p
      BY <1>1, <1>2
    <2> HIDE DEF p
    <2>3. \A a \in 1 .. p : a < call.i
      BY <2>1, <2>2
    <2>4. QED
      BY <2>3 DEF p
  <1>6. Msg.damage # "none" \/ ~Holds(call.cert, call.pw, Msg)
    <2> SUFFICES ASSUME Msg.damage = "none", NEW a \in 1 .. Len(Pkesks),
                        NEW b \in 1 .. Len(call.pairs), Pkesks[a].to = call.pairs[b]
                 PROVE  FALSE
      BY <1>4
    <2>1. QED
      BY <1>1, <1>3, <1>5 DEF PassedUnfit
  <1>7. Fail("not encrypted for the key") \in Result
    BY DEF Fail, Result, PubErrors
  <1>8. QED
    BY <1>1, <1>4, <1>6, <1>7, ReturnInvariant

(* The packet has been read to its end: the integrity code tells whether    *)
(* the key was the right one, and the right one comes from a key held.      *)
LEMMA RightKeyHeld ==
  ASSUME IInv, call.pc = "read"
  PROVE  /\ AllUnlock(call.cert, call.pw)
         /\ RightKey(call.got) => Holds(call.cert, call.pw, Msg)
PROOF
  <1>1. call # Idle /\ Msg \in Stored /\ MessageInv(Msg)
    BY CallFacts
  <1>2. Collected /\ GotFromPair
    BY <1>1 DEF IInv, CallInv
  <1>3. /\ AllUnlock(call.cert, call.pw)
        /\ Holds(call.cert, call.pw, Msg)
             <=> \E a \in 1 .. Len(Pkesks), b \in 1 .. Len(call.pairs) :
                   Pkesks[a].to = call.pairs[b]
    BY <1>2, BehindLoop DEF Collected
  <1>4. RightKey(call.got) => Pkesks[call.i].to = call.pairs[call.j]
    BY <1>1, <1>2, PairYields DEF GotFromPair, MessageInv
  <1>5. QED
    BY <1>2, <1>3, <1>4 DEF GotFromPair

(* Reading the message to its end decides the result. *)
LEMMA ReadToEndInv ==
  ASSUME IInv, ReadToEnd, Aside
  PROVE  IInv'
PROOF
  <1> DEFINE res == IF ReadsThrough(call.got) THEN Returned(Msg.literal, call.type, call.crlf)
                    ELSE Fail("decryption failed")
  <1>1. call.pc = "read" /\ Return(res) /\ CallOnly
    BY DEF ReadToEnd, Aside, CallOnly
  <1>2. call \in Call /\ Msg \in Stored
    BY <1>1, CallFacts
  <1>3. Msg.literal \in Literal /\ call.type \in SqlType /\ call.crlf \in BOOLEAN
    BY <1>2 DEF Stored, Call
  <1>4. /\ Returned(Msg.literal, call.type, call.crlf) \in Result
        /\ Fail("decryption failed") \in Result
    BY <1>3, Results DEF PubErrors
  <1>5. res \in Result
    BY <1>4
  <1>6. /\ AllUnlock(call.cert, call.pw)
        /\ RightKey(call.got) => Holds(call.cert, call.pw, Msg)
    BY <1>1, RightKeyHeld
  <1>7. \/ /\ res = Returned(Msg.literal, call.type, call.crlf)
           /\ Msg.damage = "none" /\ Holds(call.cert, call.pw, Msg)
        \/ /\ res = Fail("decryption failed")
           /\ Msg.damage # "none" \/ ~RightKey(call.got)
    BY <1>6 DEF ReadsThrough
  <1> HIDE DEF res
  <1>8. QED
    BY <1>1, <1>5, <1>6, <1>7, ReturnInvariant

(* The caller has its answer. *)
LEMMA AnswerInv ==
  ASSUME IInv, Answer, Aside
  PROVE  IInv'
  BY CallStepInv DEF Answer, Aside, CallInv

(* One step of a decrypt call. *)
LEMMA DecryptStepInv ==
  ASSUME IInv, DecryptStep
  PROVE  IInv'
  BY UnlockKeyInv, OpenMessageInv, TryPairInv, NoPkeskLeftInv, ReadToEndInv, AnswerInv
  DEF DecryptStep

(* pgp_pub_encrypt, whatever certificate and options it was given. *)
LEMMA PubEncryptInv ==
  ASSUME IInv, NEW c \in Certs, NEW d \in Data, NEW t \in SqlType, NEW o \in Options,
         PubEncrypt(c, d, t, o)
  PROVE  IInv'
PROOF
  <1> DEFINE m == PubMessage(c, d, t, o, fresh, clock)
  <1>1. fresh \in Nat /\ clock \in Nat /\ o \in PgpOptions
    BY MessageConstants DEF IInv, Shapes
  <1>2. /\ store' = Append(store, m) /\ fresh' = fresh + 1 /\ CanStore
        /\ (t = "text" => d \in TextData) /\ Recipients(c, clock) # << >>
        /\ UNCHANGED <<clock, answers, call>>
    BY DEF PubEncrypt, PubMessage, Aside
  <1>3. m \in Stored /\ MessageInv(m)
    BY <1>1, <1>2, PubMessageInv
  <1> HIDE DEF m
  <1>4. QED
    BY <1>2, <1>3, AppendInv

(* Another program stores a message. *)
LEMMA OtherEncryptInv ==
  ASSUME IInv, NEW esks \in OtherEsks, NEW l \in OtherLiterals, OtherEncrypt(esks, l)
  PROVE  IInv'
PROOF
  <1> DEFINE m == OtherMessage(esks, l, fresh, clock)
  <1>1. fresh \in Nat /\ clock \in Nat /\ l \in Literal
    BY MessageConstants DEF IInv, Shapes
  <1>2. /\ store' = Append(store, m) /\ fresh' = fresh + 1 /\ CanStore
        /\ UNCHANGED <<clock, answers, call>>
    BY DEF OtherEncrypt, OtherMessage, Aside
  <1>3. m \in Stored /\ MessageInv(m)
    BY <1>1, OtherMessageInv
  <1> HIDE DEF m
  <1>4. QED
    BY <1>2, <1>3, AppendInv

(* Time passes. *)
LEMMA TickInv ==
  ASSUME IInv, Tick
  PROVE  IInv'
PROOF
  <1>1. call = Idle /\ clock' \in 0 .. MaxTime /\ UNCHANGED <<store, fresh, call, answers>>
    BY PubConstants DEF IInv, Shapes, Tick
  <1>2. Shapes'
    BY <1>1 DEF IInv, Shapes
  <1>3. CallInv' /\ AnswersInv'
    BY <1>1 DEF IInv, CallInv, AnswersInv
  <1>4. QED
    BY <1>1, <1>2, <1>3 DEF IInv

(* An answer of pgp_key_id is a key, or one of its three words. *)
LEMMA KeyIdResults ==
  /\ \A c \in Seq(Key), t \in Nat : CertKeyId(c, t) \in KeyId \cup {"error", "SYMKEY", "ANYKEY"}
  /\ \A m \in Stored : MessageKeyId(m) \in KeyId \cup {"error", "SYMKEY", "ANYKEY"}
PROOF
  <1>1. ASSUME NEW c \in Seq(Key), NEW t \in Nat
        PROVE  CertKeyId(c, t) \in KeyId \cup {"error", "SYMKEY", "ANYKEY"}
    <2> DEFINE r == Recipients(c, t)
    <2>1. r \in Seq(Key)
      BY RecipientsAre
    <2> HIDE DEF r
    <2>2. r # << >> => r[1].id \in KeyId
      <3>1. r # << >> => r[1] \in Key
        BY <2>1
      <3>2. QED
        BY <3>1 DEF Key
    <2>3. QED
      BY <2>2, NamesFirst DEF r
  <1>2. ASSUME NEW m \in Stored
        PROVE  MessageKeyId(m) \in KeyId \cup {"error", "SYMKEY", "ANYKEY"}
    <2> DEFINE e == m.esks
    <2>1. e \in Seq(Esk)
      BY DEF Stored
    <2> HIDE DEF e
    <2>2. e # << >> => e[1].recipient \in KeyId \cup {Anonymous}
      <3>1. e # << >> => e[1] \in Esk
        BY <2>1
      <3>2. QED
        BY <3>1 DEF Esk
    <2>3. QED
      BY <2>2 DEF MessageKeyId, e
  <1>3. QED
    BY <1>1, <1>2

(* pgp_key_id of a certificate or of a message. *)
LEMMA KeyIdInv ==
  ASSUME IInv, pgp_key_id
  PROVE  IInv'
PROOF
  <1>1. /\ call = Idle /\ UNCHANGED <<clock, store, fresh, call>> /\ clock \in Nat
        /\ store \in Seq(Stored) /\ answers \in Seq(KeyIdAnswer)
    BY DEF IInv, Shapes, pgp_key_id
  <1>2. ASSUME NEW arg \in KeyIdArg, NEW res \in KeyId \cup {"error", "SYMKEY", "ANYKEY"},
               answers' = Asked(arg, res),
               \A m \in Nat : arg = <<"message", m>> =>
                 m \in 1 .. Len(store) /\ res = MessageKeyId(store[m])
        PROVE  IInv'
    <2> DEFINE a == [arg |-> arg, time |-> clock, result |-> res]
    <2>1. a \in KeyIdAnswer /\ answers' = Append(answers, a) /\ a.arg = arg /\ a.result = res
      BY <1>1, <1>2 DEF KeyIdAnswer, Asked
    <2> HIDE DEF a
    <2>2. /\ answers' \in Seq(KeyIdAnswer) /\ Len(answers') = Len(answers) + 1
          /\ answers'[Len(answers) + 1] = a
          /\ \A i \in 1 .. Len(answers) : answers'[i] = answers[i]
      BY <1>1, <2>1
    <2>3. Shapes' /\ CallInv'
      BY <1>1, <2>2 DEF IInv, Shapes, CallInv
    <2>4. AnswersInv'
      <3> SUFFICES ASSUME NEW i \in 1 .. Len(answers'), NEW m \in Nat,
                          answers'[i].arg = <<"message", m>>
                   PROVE  m \in 1 .. Len(store) /\ answers'[i].result = MessageKeyId(store[m])
        BY <1>1 DEF AnswersInv
      <3>1. CASE i = Len(answers) + 1
        BY <1>2, <2>1, <2>2, <3>1
      <3>2. CASE i # Len(answers) + 1
        <4>1. i \in 1 .. Len(answers) /\ answers'[i] = answers[i]
          BY <1>1, <2>2, <3>2
        <4>2. QED
          BY <4>1 DEF IInv, AnswersInv
      <3>3. QED
        BY <3>1, <3>2
    <2>5. QED
      BY <1>1, <2>3, <2>4 DEF IInv
  <1>3. ASSUME NEW c \in Certs, answers' = Asked(<<"cert", c>>, CertKeyId(c, clock))
        PROVE  IInv'
    <2>1. c \in Seq(Key) /\ <<"cert", c>> \in KeyIdArg /\ \A m : <<"cert", c>> # <<"message", m>>
      BY PubConstants DEF KeyIdArg
    <2>2. QED
      BY <1>1, <1>2, <1>3, <2>1, KeyIdResults
  <1>4. ASSUME NEW m \in 1 .. Len(store), answers' = Asked(<<"message", m>>, MessageKeyId(store[m]))
        PROVE  IInv'
    <2>1. store[m] \in Stored /\ <<"message", m>> \in KeyIdArg
      BY <1>1 DEF KeyIdArg
    <2>2. QED
      BY <1>2, <1>4, <2>1, KeyIdResults
  <1>5. QED
    BY <1>3, <1>4 DEF pgp_key_id

(* There is nothing in the store at first, and no answer. *)
LEMMA IInvInit == Init => IInv
PROOF
  <1> SUFFICES ASSUME Init PROVE IInv
    OBVIOUS
  <1>1. /\ store = << >> /\ fresh = 0 /\ call = Idle /\ clock = 0 /\ answers = << >>
        /\ Len(store) = 0 /\ Len(answers) = 0
    BY DEF Init
  <1>2. Shapes
    BY <1>1, MessageConstants, PubConstants DEF Shapes
  <1>3. CallInv /\ AnswersInv
    BY <1>1 DEF CallInv, AnswersInv
  <1>4. QED
    BY <1>1, <1>2, <1>3 DEF IInv

(* Every step preserves the invariant. *)
LEMMA IInvNext == IInv /\ [Next]_vars => IInv'
PROOF
  <1> SUFFICES ASSUME IInv, [Next]_vars PROVE IInv'
    OBVIOUS
  <1>1. ASSUME NEW c \in Certs, NEW d \in Data, NEW t \in SqlType, NEW o \in Options,
               PubEncrypt(c, d, t, o)
        PROVE  IInv'
    BY <1>1, PubEncryptInv
  <1>2. ASSUME NEW esks \in OtherEsks, NEW l \in OtherLiterals, OtherEncrypt(esks, l)
        PROVE  IInv'
    BY <1>2, OtherEncryptInv
  <1>3. ASSUME NEW m \in 1 .. Len(store), NEW where \in {"framing", "body"},
               Damage(m, where), Aside
        PROVE  IInv'
    BY <1>3, DamageInv DEF Aside
  <1>4. ASSUME NEW m \in 1 .. Len(store), NEW c \in Certs, NEW pw \in Password,
               NEW t \in SqlType, NEW crlf \in BOOLEAN, PubDecrypt(m, c, pw, t, crlf)
        PROVE  IInv'
    BY <1>4, PubDecryptInv
  <1>5. CASE UNCHANGED vars
    <2>1. UNCHANGED <<Msg, Pkesks>>
      BY <1>5 DEF vars, Msg, Pkesks
    <2>2. Shapes' /\ AnswersInv'
      BY <1>5, <2>1 DEF vars, IInv, Shapes, AnswersInv
    <2>3. CallInv'
      BY <1>5, <2>1 DEF vars, IInv, CallInv, Collected, PassedUnfit, GotFromPair, ReturnInv,
                        PkeskDecrypt, RightKey
    <2>4. QED
      BY <1>5, <2>2, <2>3 DEF vars, IInv
  <1>6. QED
    BY <1>1, <1>2, <1>3, <1>4, <1>5, TickInv, KeyIdInv, DecryptStepInv DEF Next

(* The invariant holds throughout, for every value of the constants. *)
THEOREM Inductive == Spec => []IInv
  BY IInvInit, IInvNext, PTL DEF Spec
-------------------------------------------------------------------------------
(* What a decrypt function returns is no error of the code around it. *)
LEMMA ReturnedFacts ==
  ASSUME NEW l \in Literal, NEW t \in SqlType, NEW c \in BOOLEAN
  PROVE  /\ Returned(l, t, c).outcome \in {"ok", "not text", "NUL byte", "not UTF-8"}
         /\ Returned(l, t, c).outcome # "ok" => \E e \in PubErrors : Returned(l, t, c) = Fail(e)
PROOF
  <1> DEFINE d == IF c THEN crlf_decode[l.body] ELSE l.body
  <1> HIDE DEF d
  <1>1. Returned(l, t, c) =
          IF t = "bytea" THEN Ok(l.body)
          ELSE IF l.format \notin {"text", "unicode"} THEN Fail("not text")
          ELSE IF d \in HasNul THEN Fail("NUL byte")
          ELSE IF d \notin Utf8 THEN Fail("not UTF-8")
          ELSE Ok(d)
    BY DEF Returned, decrypted_text, d
  <1>2. \/ \E v : Returned(l, t, c) = Ok(v)
        \/ \E e \in {"not text", "NUL byte", "not UTF-8"} : Returned(l, t, c) = Fail(e)
    BY <1>1
  <1>3. \A v : Ok(v).outcome = "ok"
    BY DEF Ok
  <1>4. \A e : Fail(e).outcome = e
    BY DEF Fail
  <1>5. {"not text", "NUL byte", "not UTF-8"} \subseteq PubErrors
    BY DEF PubErrors
  <1>6. CASE \E e \in {"not text", "NUL byte", "not UTF-8"} : Returned(l, t, c) = Fail(e)
    <2>1. PICK e \in {"not text", "NUL byte", "not UTF-8"} : Returned(l, t, c) = Fail(e)
      BY <1>6
    <2>2. Returned(l, t, c).outcome = e /\ e # "ok" /\ e \in PubErrors
      BY <1>4, <1>5, <2>1
    <2>3. QED
      BY <2>1, <2>2
  <1>7. QED
    BY <1>2, <1>3, <1>6

(* What a returned call says, by the result it has. *)
LEMMA Outcomes ==
  ASSUME IInv, call.pc = "returned"
  PROVE  /\ MessageInv(Msg) /\ call.type \in SqlType /\ call.crlf \in BOOLEAN
         /\ call.result.outcome = "ok" =>
              /\ call.result = Returned(Msg.literal, call.type, call.crlf)
              /\ Msg.damage = "none" /\ Holds(call.cert, call.pw, Msg)
         /\ call.result.outcome = "not encrypted for the key" =>
              Msg.damage # "none" \/ ~Holds(call.cert, call.pw, Msg)
         /\ call.result.outcome = "could not unlock" <=> ~AllUnlock(call.cert, call.pw)
         /\ ~AllUnlock(call.cert, call.pw) => call.result = Fail("could not unlock")
         /\ /\ Msg.damage = "none" /\ AllUnlock(call.cert, call.pw)
            /\ Holds(call.cert, call.pw, Msg)
            => \/ call.result = Returned(Msg.literal, call.type, call.crlf)
               \/ call.result = Fail("decryption failed") /\ ~RightKey(call.got)
PROOF
  <1>1. call # Idle /\ Msg \in Stored /\ call \in Call /\ MessageInv(Msg)
    BY CallFacts
  <1>2. Msg.literal \in Literal /\ call.type \in SqlType /\ call.crlf \in BOOLEAN
    BY <1>1 DEF Stored, Call
  <1>3. ReturnInv
    BY <1>1 DEF IInv, CallInv
  <1> DEFINE ret == Returned(Msg.literal, call.type, call.crlf)
             all == AllUnlock(call.cert, call.pw)
             holds == Holds(call.cert, call.pw, Msg)
             open == Opened(call.cert, call.pw)
  <1>4. ret.outcome \in {"ok", "not text", "NUL byte", "not UTF-8"}
    BY <1>2, ReturnedFacts
  <1>5. \A e : Fail(e).outcome = e
    BY DEF Fail
  <1>6. open = {} => ~holds
    BY DEF Holds
  <1>7. \/ call.result = Fail("could not unlock") /\ ~all
        \/ call.result = Fail("no usable key material") /\ all /\ open = {}
        \/ call.result = Fail("invalid message") /\ all /\ Msg.damage # "none"
        \/ call.result = Fail("not encrypted for the key") /\ all /\ (Msg.damage # "none" \/ ~holds)
        \/ call.result = ret /\ all /\ Msg.damage = "none" /\ holds
        \/ call.result = Fail("decryption failed") /\ all
             /\ (Msg.damage # "none" \/ ~RightKey(call.got))
    BY <1>3 DEF ReturnInv
  <1> HIDE DEF ret, all, holds, open
  <1>8. /\ call.result.outcome = "ok" => call.result = ret /\ Msg.damage = "none" /\ holds
        /\ call.result.outcome = "not encrypted for the key" => Msg.damage # "none" \/ ~holds
        /\ call.result.outcome = "could not unlock" <=> ~all
        /\ ~all => call.result = Fail("could not unlock")
        /\ Msg.damage = "none" /\ all /\ holds =>
             call.result = ret \/ (call.result = Fail("decryption failed") /\ ~RightKey(call.got))
    <2>1. CASE call.result = Fail("could not unlock") /\ ~all
      BY <1>5, <2>1
    <2>2. CASE call.result = Fail("no usable key material") /\ all /\ open = {}
      BY <1>5, <1>6, <2>2
    <2>3. CASE call.result = Fail("invalid message") /\ all /\ Msg.damage # "none"
      BY <1>5, <2>3
    <2>4. CASE /\ call.result = Fail("not encrypted for the key") /\ all
               /\ Msg.damage # "none" \/ ~holds
      BY <1>5, <2>4
    <2>5. CASE call.result = ret /\ all /\ Msg.damage = "none" /\ holds
      BY <1>4, <2>5
    <2>6. CASE /\ call.result = Fail("decryption failed") /\ all
               /\ Msg.damage # "none" \/ ~RightKey(call.got)
      BY <1>5, <2>6
    <2>7. QED
      BY <1>7, <2>1, <2>2, <2>3, <2>4, <2>5, <2>6
  <1>9. QED
    BY <1>1, <1>2, <1>8 DEF ret, all, holds

(* Stored packets are well formed, and the three loops of pub_decrypt and   *)
(* KeyHelper stay inside the keys, the session key packets and the pairs.   *)
THEOREM TypeCorrect == Spec => []TypeOK
PROOF
  <1>1. IInv => TypeOK
    <2> SUFFICES ASSUME IInv PROVE TypeOK
      OBVIOUS
    <2>1. /\ store \in Seq(Stored) /\ Len(store) <= MaxMessages /\ fresh \in Nat
          /\ clock \in 0 .. MaxTime
      BY DEF IInv, Shapes
    <2>2. \A m \in 1 .. Len(store) :
            /\ store[m].cipher \in Cipher /\ store[m].literal \in Literal
            /\ store[m].damage \in {"none", "framing", "body"}
      <3>1. \A m \in 1 .. Len(store) : store[m] \in Stored
        BY <2>1
      <3>2. QED
        BY <3>1 DEF Stored
    <2>3. call # Idle =>
            /\ call \in Call /\ call.m \in 1 .. Len(store)
            /\ call.k \in 1 .. Len(call.cert) + 1 /\ call.i \in 1 .. Len(Pkesks) + 1
            /\ call.pc = "pkesk" => call.j \in 1 .. Len(call.pairs)
      BY DEF IInv, Shapes
    <2>4. call # Idle => call.result.value \in Bodies \cup {NoValue}
      BY <2>3 DEF Call, Result
    <2>5. call.pc \in {"idle", "unlock", "pkesk", "read", "returned"}
      BY <2>3 DEF Call, Idle
    <2>6. QED
      BY <2>1, <2>2, <2>3, <2>4, <2>5 DEF TypeOK, MessagesOK
  <1>2. QED
    BY <1>1, Inductive, PTL

(* A value comes out of an undamaged message only, with an unlocked key of  *)
(* the message, and it is the value that was encrypted.                     *)
THEOREM OnlyAuthentic == Spec => []Authentic
PROOF
  <1>1. IInv => Authentic
    <2> SUFFICES ASSUME IInv, call.pc = "returned", call.result.outcome = "ok"
                 PROVE  /\ Msg.damage = "none" /\ Holds(call.cert, call.pw, Msg)
                        /\ ReadsAsWritten => call.result.value = Msg.from.data
      BY DEF Authentic, Returns
    <2>1. /\ Msg.damage = "none" /\ Holds(call.cert, call.pw, Msg) /\ MessageInv(Msg)
          /\ call.result = Returned(Msg.literal, call.type, call.crlf)
          /\ call.type \in SqlType /\ call.crlf \in BOOLEAN
      BY Outcomes
    <2>2. ReadsAsWritten => call.result = Ok(Msg.from.data)
      BY <2>1 DEF ReadsAsWritten, MessageInv, ReadsBack
    <2>3. QED
      BY <2>1, <2>2 DEF Ok
  <1>2. QED
    BY <1>1, Inductive, PTL

(* The holder of a key of an intact message reads it, at any later time,    *)
(* unless a wrong key has passed the quick check before.                    *)
THEOREM HoldersRead == Spec => []HolderReads
PROOF
  <1>1. IInv => HolderReads
    <2> SUFFICES ASSUME IInv, call.pc = "returned", Msg.damage = "none", ReadsAsWritten,
                        Holds(call.cert, call.pw, Msg), AllUnlock(call.cert, call.pw)
                 PROVE  \/ call.result = Ok(Msg.from.data)
                        \/ call.result = Fail("decryption failed") /\ ~RightKey(call.got)
      BY DEF HolderReads
    <2>1. /\ \/ call.result = Returned(Msg.literal, call.type, call.crlf)
             \/ call.result = Fail("decryption failed") /\ ~RightKey(call.got)
          /\ MessageInv(Msg) /\ call.type \in SqlType /\ call.crlf \in BOOLEAN
      BY Outcomes
    <2>2. Returned(Msg.literal, call.type, call.crlf) = Ok(Msg.from.data)
      BY <2>1 DEF ReadsAsWritten, MessageInv, ReadsBack
    <2>3. QED
      BY <2>1, <2>2
  <1>2. QED
    BY <1>1, Inductive, PTL

(* "message was not encrypted for the supplied key" is never said of an     *)
(* intact message with a packet for one of the keys, however many keys and  *)
(* packets there are.                                                       *)
THEOREM BlamedRightly == Spec => []BlamesKeyRightly
PROOF
  <1>1. IInv => BlamesKeyRightly
    BY Outcomes DEF BlamesKeyRightly, Returns
  <1>2. QED
    BY <1>1, Inductive, PTL

(* A secret that does not open ends the call as such, and nothing else      *)
(* does, whatever certificate it stands in and wherever.                    *)
THEOREM UnlocksAll == Spec => []AllOrNothing
PROOF
  <1>1. IInv => AllOrNothing
    <2>1. Fail("could not unlock").outcome = "could not unlock"
      BY DEF Fail
    <2>2. QED
      BY <2>1, Outcomes DEF AllOrNothing
  <1>2. QED
    BY <1>1, Inductive, PTL

(* The key pgp_key_id names for a message is the one it names for the       *)
(* certificate at the time of encryption.                                   *)
THEOREM KeyIdsMatch == Spec => []KeyIdNamesRecipient
PROOF
  <1>1. IInv => KeyIdNamesRecipient
    <2> SUFFICES ASSUME IInv, NEW i \in 1 .. Len(answers), NEW m \in 1 .. Len(store),
                        answers[i].arg = <<"message", m>>, store[m].maker = "us"
                 PROVE  answers[i].result = CertKeyId(store[m].from.cert, store[m].from.time)
      BY DEF KeyIdNamesRecipient
    <2>1. Len(store) \in Nat
      BY DEF IInv, Shapes
    <2>2. answers[i].result = MessageKeyId(store[m])
      BY <2>1 DEF IInv, AnswersInv
    <2>3. NamesRecipient(store[m])
      BY DEF IInv, MessageInv
    <2>4. QED
      BY <2>2, <2>3 DEF NamesRecipient
  <1>2. QED
    BY <1>1, Inductive, PTL
-------------------------------------------------------------------------------
(* The refinement: the value, the readers and the intactness of a message,  *)
(* and the call as an application sees it.                                  *)
Value(m) == [literal |-> m.literal, readers |-> SealedFor(m), intact |-> m.damage = "none"]
Values == Sealed(SealedFor)
Asking == Request(Opened(call.cert, call.pw))

(* The sealed values are the values of the messages, in their order. *)
LEMMA ValuesAre ==
  ASSUME store \in Seq(Stored)
  PROVE  /\ Values = [k \in 1 .. Len(store) |-> Value(store[k])]
         /\ Len(Values) = Len(store) /\ \A k \in 1 .. Len(store) : Values[k] = Value(store[k])
PROOF
  <1>1. Values = [k \in 1 .. Len(store) |-> Value(store[k])]
    BY DEF Values, Sealed, Value
  <1> HIDE DEF Values
  <1>2. QED
    BY <1>1

(* SealedStore reads packets as PgpPub does. *)
LEMMA SamePayload ==
  /\ PubSealed!Literal = Literal /\ PubSealed!SqlType = SqlType
  /\ PubSealed!NoRequest = Idle
  /\ \A e : PubSealed!Fail(e) = Fail(e)
  /\ \A l, t, c : PubSealed!Returned(l, t, c) = Returned(l, t, c)
PROOF
  <1>1. PubSealed!Literal = Literal /\ PubSealed!SqlType = SqlType /\ PubSealed!NoRequest = Idle
    BY DEF PubSealed!Literal, Literal, PubSealed!SqlType, SqlType, PubSealed!Format, Format,
           PubSealed!NoRequest, Idle
  <1>2. \A e : PubSealed!Fail(e) = Fail(e)
    BY DEF PubSealed!Fail, Fail
  <1>3. \A l, t, c : PubSealed!Returned(l, t, c) = Returned(l, t, c)
    BY <1>2 DEF PubSealed!Returned, Returned, PubSealed!decrypted_text, decrypted_text,
                PubSealed!Ok, Ok
  <1>4. QED
    BY <1>1, <1>2, <1>3

(* Storing a message seals its value. *)
LEMMA AppendSeals ==
  ASSUME store \in Seq(Stored), NEW m \in Stored, m.damage = "none", SealedFor(m) \subseteq KeyIds,
         store' = Append(store, m), call = Idle, call' = call
  PROVE  PubSealed!Seal
PROOF
  <1>1. store' \in Seq(Stored) /\ Len(store') = Len(store) + 1
    OBVIOUS
  <1>2. /\ Values = [k \in 1 .. Len(store) |-> Value(store[k])]
        /\ Values' = [k \in 1 .. Len(store') |-> Value(store'[k])]
    BY <1>1, ValuesAre DEF Values, Sealed, Value
  <1>3. Values' = Append(Values, Value(m))
    <2> HIDE DEF Values, Value
    <2>1. QED
      BY <1>1, <1>2
  <1>4. /\ m.literal \in Literal /\ SealedFor(m) \in SUBSET KeyIds
        /\ Value(m) = [literal |-> m.literal, readers |-> SealedFor(m), intact |-> TRUE]
    BY DEF Stored, Value
  <1>5. Asking = Idle /\ Asking' = Idle
    BY DEF Asking, Request
  <1>6. \E l \in Literal, r \in SUBSET KeyIds :
          Values' = Append(Values, [literal |-> l, readers |-> r, intact |-> TRUE])
    BY <1>3, <1>4, Zenon
  <1>7. QED
    BY <1>5, <1>6, SamePayload, Zenon DEF PubSealed!Seal, Values, Asking

(* Damage spoils the value. *)
LEMMA DamageSpoils ==
  ASSUME store \in Seq(Stored), NEW m \in 1 .. Len(store), NEW where \in {"framing", "body"},
         Damage(m, where)
  PROVE  PubSealed!Spoil
PROOF
  <1>1. /\ call = Idle /\ call' = call /\ store[m].damage = "none"
        /\ store' = [store EXCEPT ![m].damage = where]
    BY DEF Damage
  <1>2. Len(store') = Len(store)
    BY <1>1
  <1>3. /\ Values = [k \in 1 .. Len(store) |-> Value(store[k])] /\ Len(Values) = Len(store)
        /\ Values' = [k \in 1 .. Len(store) |-> Value(store'[k])]
        /\ Values[m] = Value(store[m])
    BY <1>2, ValuesAre DEF Values, Sealed, Value
  <1>4. ASSUME NEW k \in 1 .. Len(store)
        PROVE  Value(store'[k]) = IF k = m THEN [Value(store[k]) EXCEPT !.intact = FALSE]
                                  ELSE Value(store[k])
    <2>1. /\ store'[k].literal = store[k].literal /\ store'[k].esks = store[k].esks
          /\ store'[k].damage = IF k = m THEN where ELSE store[k].damage
      BY DamageKeeps
    <2>2. SealedFor(store'[k]) = SealedFor(store[k])
      BY <2>1 DEF SealedFor
    <2>3. QED
      BY <2>1, <2>2 DEF Value
  <1>5. Values[m].intact
    BY <1>1, <1>3 DEF Value
  <1>6. Values' = [Values EXCEPT ![m].intact = FALSE]
    <2> HIDE DEF Values, Value
    <2>1. QED
      BY <1>3, <1>4
  <1>7. Asking = Idle /\ Asking' = Idle
    BY <1>1 DEF Asking, Request
  <1>8. m \in 1 .. Len(Values)
    BY <1>3
  <1>9. QED
    BY <1>5, <1>6, <1>7, <1>8, SamePayload, Zenon DEF PubSealed!Spoil, Values, Asking

(* A decrypt call asks for the value with the keys its password opens. *)
LEMMA DecryptAsks ==
  ASSUME store \in Seq(Stored), NEW m \in 1 .. Len(store), NEW c \in Certs, NEW pw \in Password,
         NEW t \in SqlType, NEW crlf \in BOOLEAN, PubDecrypt(m, c, pw, t, crlf)
  PROVE  PubSealed!Ask
PROOF
  <1>1. /\ call = Idle /\ UNCHANGED store
        /\ call' = [pc |-> "unlock", m |-> m, cert |-> c, pw |-> pw, type |-> t, crlf |-> crlf,
                    k |-> 1, pairs |-> << >>, i |-> 1, j |-> 1,
                    got |-> <<"none", Garbage>>, result |-> Fail("none")]
    BY DEF PubDecrypt, CallOnly
  <1>2. Asking = Idle
    BY <1>1 DEF Asking, Request
  <1>3. /\ call' # Idle /\ call'.pc = "unlock" /\ call'.m = m /\ call'.cert = c /\ call'.pw = pw
        /\ call'.type = t /\ call'.crlf = crlf /\ call'.result = Fail("none")
    BY <1>1 DEF Idle
  <1>4. Asking' = [pc |-> "asked", m |-> m, holds |-> Opened(c, pw), type |-> t, crlf |-> crlf,
                   result |-> Fail("none")]
    <2>1. Opened(call.cert, call.pw)' = Opened(c, pw)
      BY <1>3 DEF Opened
    <2>2. QED
      BY <1>3, <2>1 DEF Asking, Request
  <1>5. m \in 1 .. Len(Values) /\ UNCHANGED Values
    BY <1>1, ValuesAre DEF Values, Sealed
  <1>6. Opened(c, pw) \in SUBSET KeyIds
    <2> SUFFICES ASSUME NEW x \in Opened(c, pw) PROVE x \in KeyIds
      OBVIOUS
    <2>1. x \in {c[k].id : k \in 1 .. Len(c)}
      BY DEF Opened
    <2>2. QED
      BY <2>1, Zenon DEF KeyIds
  <1>7. \E n \in 1 .. Len(Values), h \in SUBSET KeyIds, u \in SqlType, b \in BOOLEAN :
          Asking' = [pc |-> "asked", m |-> n, holds |-> h, type |-> u, crlf |-> b,
                     result |-> Fail("none")]
    BY <1>4, <1>5, <1>6, Zenon
  <1>8. QED
    BY <1>2, <1>5, <1>7, SamePayload, Zenon DEF PubSealed!Ask, Values, Asking

(* A step of a call that does not return is not seen. *)
LEMMA InnerStutters ==
  ASSUME call # Idle, call' # Idle, call.pc # "returned", call'.pc # "returned",
         call'.m = call.m, call'.cert = call.cert, call'.pw = call.pw, call'.type = call.type,
         call'.crlf = call.crlf, call'.result = call.result, store' = store
  PROVE  UNCHANGED PubSealed!svars
PROOF
  <1>1. UNCHANGED Values
    BY DEF Values, Sealed
  <1>2. Opened(call.cert, call.pw)' = Opened(call.cert, call.pw)
    BY DEF Opened
  <1>3. UNCHANGED Asking
    BY <1>2 DEF Asking, Request
  <1>4. QED
    BY <1>1, <1>3 DEF PubSealed!svars, Values, Asking

(* A call that returns opens the value, or fails with one of the errors. *)
LEMMA ReturnOpens ==
  ASSUME IInv, call.pc \notin {"idle", "returned"}, NEW res, Return(res), UNCHANGED store,
         \/ \E e \in PubErrors : res = Fail(e)
         \/ /\ res = Returned(Msg.literal, call.type, call.crlf)
            /\ Msg.damage = "none" /\ Holds(call.cert, call.pw, Msg)
  PROVE  PubSealed!Open
PROOF
  <1> DEFINE held == Opened(call.cert, call.pw)
  <1>1. /\ call # Idle /\ call \in Call /\ call.m \in 1 .. Len(store) /\ store \in Seq(Stored)
    BY CallFacts DEF IInv, Shapes
  <1>2. /\ call'.pc = "returned" /\ call'.result = res /\ call'.cert = call.cert
        /\ call'.pw = call.pw /\ call'.m = call.m /\ call'.type = call.type
        /\ call'.crlf = call.crlf
    BY <1>1 DEF Return, Call
  <1>3. call' # Idle /\ Opened(call.cert, call.pw)' = held
    BY <1>2 DEF Idle, Opened
  <1>4. /\ Asking = [pc |-> "asked", m |-> call.m, holds |-> held, type |-> call.type,
                     crlf |-> call.crlf, result |-> call.result]
        /\ Asking' = [pc |-> "answered", m |-> call.m, holds |-> held, type |-> call.type,
                      crlf |-> call.crlf, result |-> res]
    BY <1>1, <1>2, <1>3 DEF Asking, Request
  <1>5. Asking' = [Asking EXCEPT !.pc = "answered", !.result = res] /\ Asking.pc = "asked"
    <2> HIDE DEF held
    <2> DEFINE p == [Asking EXCEPT !.pc = "answered"]
    <2>1. [Asking EXCEPT !.pc = "answered", !.result = res] = [p EXCEPT !.result = res]
      OBVIOUS
    <2>2. p = [pc |-> "answered", m |-> call.m, holds |-> held, type |-> call.type,
               crlf |-> call.crlf, result |-> call.result]
      BY <1>4
    <2> HIDE DEF p
    <2>3. [p EXCEPT !.result = res]
            = [pc |-> "answered", m |-> call.m, holds |-> held, type |-> call.type,
               crlf |-> call.crlf, result |-> res]
      BY <2>2
    <2>4. QED
      BY <1>4, <2>1, <2>3
  <1>6. Values[Asking.m] = Value(Msg)
    BY <1>1, <1>4, ValuesAre DEF Msg
  <1>7. UNCHANGED Values
    BY DEF Values, Sealed
  <1> DEFINE asked == Values[Asking.m]
  <1>8. /\ asked.literal = Msg.literal /\ asked.readers = SealedFor(Msg)
        /\ asked.intact = (Msg.damage = "none")
    BY <1>6 DEF Value
  <1>9. Asking.type = call.type /\ Asking.crlf = call.crlf /\ Asking.holds = held
    BY <1>4
  <1> HIDE DEF asked
  <1>10. res \in {Fail(e) : e \in PubErrors}
                 \cup {Returned(asked.literal, Asking.type, Asking.crlf)}
    BY <1>8, <1>9
  <1>11. res.outcome = "ok" => asked.intact /\ Asking.holds \cap asked.readers # {}
    <2>1. \A e \in PubErrors : Fail(e).outcome # "ok"
      BY DEF Fail, PubErrors
    <2>2. Holds(call.cert, call.pw, Msg) => Asking.holds \cap asked.readers # {}
      BY <1>8, <1>9 DEF Holds
    <2>3. QED
      BY <1>8, <2>1, <2>2
  <1>12. \E r \in {PubSealed!Fail(e) : e \in PubErrors}
                   \cup {PubSealed!Returned(asked.literal, Asking.type, Asking.crlf)} :
           /\ r.outcome = "ok" => asked.intact /\ Asking.holds \cap asked.readers # {}
           /\ Asking' = [Asking EXCEPT !.pc = "answered", !.result = r]
    BY <1>5, <1>10, <1>11, SamePayload
  <1>13. QED
    BY <1>5, <1>7, <1>12, Zenon DEF PubSealed!Open, PubSealed!Asked, Values, Asking, asked

(* The answer is taken. *)
LEMMA AnswerCloses ==
  ASSUME IInv, Answer
  PROVE  PubSealed!Close
PROOF
  <1>1. call.pc = "returned" /\ call' = Idle /\ UNCHANGED store /\ call # Idle
    BY DEF Answer, Idle
  <1>2. Asking.pc = "answered" /\ Asking' = Idle /\ UNCHANGED Values
    BY <1>1 DEF Asking, Request, Values, Sealed
  <1>3. QED
    BY <1>2, SamePayload, Zenon DEF PubSealed!Close, Values, Asking

(* An empty store has no values. *)
LEMMA InitSealed == Init => PubSealed!SInit
PROOF
  <1> SUFFICES ASSUME Init PROVE PubSealed!SInit
    OBVIOUS
  <1>1. store = << >> /\ call = Idle
    BY DEF Init
  <1>2. store \in Seq(Stored) /\ Len(store) = 0
    BY <1>1
  <1>3. Values = << >>
    <2>1. Values = [k \in 1 .. 0 |-> Value(store[k])]
      BY <1>2, ValuesAre
    <2>2. QED
      BY <2>1
  <1>4. Asking = Idle
    BY <1>1 DEF Asking, Request
  <1>5. QED
    BY <1>3, <1>4, SamePayload, Zenon DEF PubSealed!SInit, Values, Asking

(* A step inside a call keeps what the application sees of it. *)
LEMMA InnerStep ==
  ASSUME IInv, call.pc \in {"unlock", "pkesk"}, UNCHANGED store,
         \/ \E n \in Nat : call' = [call EXCEPT !.k = n]
         \/ \E n \in Nat : \E q : call' = [call EXCEPT !.k = n, !.pairs = q]
         \/ call' = [call EXCEPT !.pc = "pkesk"]
         \/ \E g : call' = [call EXCEPT !.pc = "read", !.got = g]
         \/ \E a, b : call' = [call EXCEPT !.i = a, !.j = b]
  PROVE  UNCHANGED PubSealed!svars
PROOF
  <1>1. call \in Call /\ call # Idle
    BY CallFacts
  <1>2. /\ call'.pc \in {"unlock", "pkesk", "read"} /\ call'.m = call.m /\ call'.cert = call.cert
        /\ call'.pw = call.pw /\ call'.type = call.type /\ call'.crlf = call.crlf
        /\ call'.result = call.result
    <2>1. CASE \E n \in Nat : call' = [call EXCEPT !.k = n]
      BY <1>1, <2>1 DEF Call
    <2>2. CASE \E n \in Nat : \E q : call' = [call EXCEPT !.k = n, !.pairs = q]
      BY <1>1, <2>2 DEF Call
    <2>3. CASE call' = [call EXCEPT !.pc = "pkesk"]
      BY <1>1, <2>3 DEF Call
    <2>4. CASE \E g : call' = [call EXCEPT !.pc = "read", !.got = g]
      BY <1>1, <2>4 DEF Call
    <2>5. CASE \E a, b : call' = [call EXCEPT !.i = a, !.j = b]
      BY <1>1, <2>5 DEF Call
    <2>6. QED
      BY <2>1, <2>2, <2>3, <2>4, <2>5
  <1>3. call' # Idle
    <2>1. Idle.pc = "idle"
      BY DEF Idle
    <2>2. call'.pc # "idle"
      BY <1>2
    <2>3. QED
      BY <2>1, <2>2, Zenon
  <1>4. call.pc # "returned" /\ call'.pc # "returned" /\ store' = store
    BY <1>2
  <1>5. QED
    BY <1>1, <1>2, <1>3, <1>4, InnerStutters, Zenon

(* What a decrypt step does to the sealed values. *)
LEMMA DecryptStepSealed ==
  ASSUME IInv, DecryptStep
  PROVE  PubSealed!SNext \/ UNCHANGED PubSealed!svars
PROOF
  <1>1. CASE UnlockKey
    <2> DEFINE key == call.cert[call.k]
    <2>1. call.pc = "unlock" /\ UNCHANGED store
      BY <1>1 DEF UnlockKey, CallOnly
    <2>2. call.k + 1 \in Nat
      BY <2>1, CallFacts DEF Call
    <2>3. \/ call' = [call EXCEPT !.k = call.k + 1]
          \/ call' = [call EXCEPT !.k = call.k + 1, !.pairs = Append(call.pairs, key.id)]
          \/ Return(Fail("could not unlock"))
      BY <1>1 DEF UnlockKey, GivesUp
    <2>4. CASE Return(Fail("could not unlock"))
      BY <2>1, <2>4, ReturnOpens DEF PubSealed!SNext, PubErrors
    <2>5. QED
      BY <2>1, <2>2, <2>3, <2>4, InnerStep
  <1>2. CASE OpenMessage
    <2>1. call.pc = "unlock" /\ UNCHANGED store
      BY <1>2 DEF OpenMessage, CallOnly
    <2>2. CASE Return(Fail("no usable key material")) \/ Return(Fail("invalid message"))
      BY <2>1, <2>2, ReturnOpens DEF PubSealed!SNext, PubErrors
    <2>3. CASE call' = [call EXCEPT !.pc = "pkesk"]
      BY <2>1, <2>3, InnerStep
    <2>4. QED
      BY <1>2, <2>2, <2>3 DEF OpenMessage
  <1>3. CASE TryPair
    <2>1. call.pc = "pkesk" /\ UNCHANGED store
      BY <1>3 DEF TryPair, CallOnly
    <2>2. \/ \E g : call' = [call EXCEPT !.pc = "read", !.got = g]
          \/ \E a, b : call' = [call EXCEPT !.i = a, !.j = b]
      BY <1>3 DEF TryPair, Offer
    <2>3. QED
      BY <2>1, <2>2, InnerStep
  <1>4. CASE NoPkeskLeft
    BY <1>4, ReturnOpens DEF NoPkeskLeft, CallOnly, PubSealed!SNext, PubErrors
  <1>5. CASE ReadToEnd
    <2> DEFINE res == IF ReadsThrough(call.got) THEN Returned(Msg.literal, call.type, call.crlf)
                      ELSE Fail("decryption failed")
    <2>1. call.pc = "read" /\ Return(res) /\ UNCHANGED store
      BY <1>5 DEF ReadToEnd
    <2>2. RightKey(call.got) => Holds(call.cert, call.pw, Msg)
      BY <2>1, RightKeyHeld
    <2>3. \/ \E e \in PubErrors : res = Fail(e)
          \/ /\ res = Returned(Msg.literal, call.type, call.crlf)
             /\ Msg.damage = "none" /\ Holds(call.cert, call.pw, Msg)
      BY <2>2 DEF ReadsThrough, PubErrors
    <2> HIDE DEF res
    <2>4. QED
      BY <2>1, <2>3, ReturnOpens DEF PubSealed!SNext
  <1>6. CASE Answer
    BY <1>6, AnswerCloses DEF PubSealed!SNext
  <1>7. QED
    BY <1>1, <1>2, <1>3, <1>4, <1>5, <1>6 DEF DecryptStep

(* The pgp_pub_* functions implement the store of sealed values: encrypting *)
(* seals for the keys of the certificate, damage spoils, and a decrypt call *)
(* shows the value of an intact message to whoever unlocks one of its keys. *)
THEOREM Refinement == Spec => PubImplementsSealedStore
PROOF
  <1>1. IInv /\ [Next]_vars => [PubSealed!SNext]_(PubSealed!svars)
    <2> SUFFICES ASSUME IInv, [Next]_vars
                 PROVE  PubSealed!SNext \/ UNCHANGED PubSealed!svars
      OBVIOUS
    <2>0. fresh \in Nat /\ clock \in Nat /\ store \in Seq(Stored)
      BY DEF IInv, Shapes
    <2>1. ASSUME NEW c \in Certs, NEW d \in Data, NEW t \in SqlType, NEW o \in Options,
                 PubEncrypt(c, d, t, o)
          PROVE  PubSealed!Seal
      <3> DEFINE m == PubMessage(c, d, t, o, fresh, clock)
      <3>1. o \in PgpOptions
        BY MessageConstants
      <3>2. /\ store' = Append(store, m) /\ call = Idle /\ call' = call
            /\ (t = "text" => d \in TextData) /\ Recipients(c, clock) # << >>
        BY <2>1 DEF PubEncrypt, PubMessage, CanStore
      <3>3. m \in Stored /\ m.damage = "none" /\ SealedFor(m) \subseteq KeyIds
        BY <2>0, <3>1, <3>2, PubMessageInv
      <3> HIDE DEF m
      <3>4. QED
        BY <2>0, <3>2, <3>3, AppendSeals
    <2>2. ASSUME NEW esks \in OtherEsks, NEW l \in OtherLiterals, OtherEncrypt(esks, l)
          PROVE  PubSealed!Seal
      <3> DEFINE m == OtherMessage(esks, l, fresh, clock)
      <3>1. l \in Literal
        BY MessageConstants
      <3>2. store' = Append(store, m) /\ call = Idle /\ call' = call
        BY <2>2 DEF OtherEncrypt, OtherMessage, CanStore
      <3>3. m \in Stored /\ m.damage = "none" /\ SealedFor(m) \subseteq KeyIds
        BY <2>0, <3>1, OtherMessageInv
      <3> HIDE DEF m
      <3>4. QED
        BY <2>0, <3>2, <3>3, AppendSeals
    <2>3. ASSUME NEW m \in 1 .. Len(store), NEW where \in {"framing", "body"}, Damage(m, where)
          PROVE  PubSealed!Spoil
      BY <2>0, <2>3, DamageSpoils
    <2>4. ASSUME NEW m \in 1 .. Len(store), NEW c \in Certs, NEW pw \in Password,
                 NEW t \in SqlType, NEW crlf \in BOOLEAN, PubDecrypt(m, c, pw, t, crlf)
          PROVE  PubSealed!Ask
      BY <2>0, <2>4, DecryptAsks
    <2>5. CASE UNCHANGED <<store, call>>
      <3>1. UNCHANGED Values
        BY <2>5 DEF Values, Sealed
      <3>2. UNCHANGED Asking
        BY <2>5 DEF Asking, Request, Opened
      <3>3. QED
        BY <3>1, <3>2 DEF PubSealed!svars, Values, Asking
    <2>6. CASE Tick \/ pgp_key_id \/ UNCHANGED vars
      BY <2>5, <2>6 DEF Tick, pgp_key_id, vars
    <2>7. CASE DecryptStep
      BY <2>7, DecryptStepSealed
    <2>8. QED
      BY <2>1, <2>2, <2>3, <2>4, <2>6, <2>7 DEF Next, PubSealed!SNext
  <1>2. QED
    BY <1>1, InitSealed, Inductive, PTL DEF Spec, PubImplementsSealedStore, PubSealed!SSpec
===============================================================================
