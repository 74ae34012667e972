---------------------------- MODULE ModernApiProofs ---------------------------
(***************************************************************************)
(* For data of every length, any keys and any places to cut: the open      *)
(* functions cut an envelope where the seal functions put it together, so  *)
(* they open an untouched one and nothing else; a signature fits the data  *)
(* it was made of; HKDF gives every length its definition allows.          *)
(*                                                                         *)
(* The argument is one of positions.  Three slices of a long enough input  *)
(* put together again are the input, and the slices of three parts put     *)
(* together are the parts, so the fields are those of envelope n exactly   *)
(* when the input is envelope n; and the fresh head tells n.               *)
(***************************************************************************)
EXTENDS ModernApi, SequenceTheorems, TLAPS

FieldNames == {"head", "mac", "body", "sig", "noise"}

(* The bytes of envelopes and signatures.                                   *)
Byte == FieldNames \X Nat \X Nat

(* The bytes of the data.                                                   *)
TextByte == UNION {{d[i] : i \in DOMAIN d} : d \in Texts}

Made == [fn : Fn \cup {"sign"}, key : {k.id : k \in Keys}, ad : Ads \cup {NoAd},
         asked : Ads \cup {NoAd}, data : Texts, bytes : Seq(Byte)]

MadeTyped == made \in Seq(Made)

(* Entry n holds envelope n, or signature n.                                *)
MadeInv ==
  \A n \in 1 .. Len(made) :
    /\ made[n].ad = AdUsed(made[n].asked)
    /\ made[n].bytes = IF made[n].fn = "sign" THEN Chars("sig", n, 64)
                       ELSE Envelope(made[n].fn, n, Len(made[n].data))

(* The answer is right for what has been made, which no step changes until  *)
(* the answer is forgotten.                                                 *)
AnswerInv ==
  /\ answer # None => answer.result \in {"ok", "error", "yes", "no"}
  /\ answer.fn \in Fn => answer.value \in Texts \cup {<< >>}
  /\ OpensOnlyGenuine /\ GenuineOpens /\ SignatureBinds /\ HkdfLength

IInv == MadeTyped /\ MadeInv /\ AnswerInv
-------------------------------------------------------------------------------
(* The texts are sequences of bytes. *)
LEMMA TextsAreSequences == \A d \in Texts : d \in Seq(TextByte) /\ Len(d) \in Nat
PROOF
  <1> SUFFICES ASSUME NEW d \in Texts PROVE d \in Seq(TextByte) /\ Len(d) \in Nat
    OBVIOUS
  <1> DEFINE D == {d[i] : i \in DOMAIN d}
  <1>1. d \in Seq(D)
    BY ModernConstants
  <1>2. D \subseteq TextByte
    BY DEF TextByte
  <1> HIDE DEF D
  <1>3. d \in Seq(TextByte)
    BY <1>1, <1>2, SeqMonotonic
  <1>4. QED
    BY <1>3, LenProperties

(* A field of an envelope has its length and its characters. *)
LEMMA CharsShape ==
  ASSUME NEW f \in FieldNames, NEW n \in Nat, NEW len \in Nat
  PROVE  /\ Chars(f, n, len) \in Seq(Byte) /\ Len(Chars(f, n, len)) = len
         /\ \A i \in 1 .. len : Chars(f, n, len)[i] = <<f, n, i>>
PROOF
  <1>1. \A i \in 1 .. len : <<f, n, i>> \in Byte
    BY DEF Byte
  <1>2. Chars(f, n, len) \in [1 .. len -> Byte]
    <2> HIDE DEF Byte
    <2>1. QED
      BY <1>1 DEF Chars
  <1>3. QED
    BY <1>2 DEF Chars

(* A fresh signature is 64 bytes long, as Ed25519 produces it. *)
LEMMA SignatureShape ==
  \A n \in Nat : Chars("sig", n, 64) \in Seq(Byte) /\ Len(Chars("sig", n, 64)) = 64
PROOF
  <1>1. "sig" \in FieldNames
    BY DEF FieldNames
  <1>2. PICK len \in Nat : len = 64
    OBVIOUS
  <1>3. \A n \in Nat : Chars("sig", n, len) \in Seq(Byte) /\ Len(Chars("sig", n, len)) = len
    BY <1>1, CharsShape
  <1>4. QED
    BY <1>2, <1>3, ZenonT(30)

(* The len elements behind place p.                                         *)
LEMMA CutShape ==
  ASSUME NEW S, NEW s, NEW p \in Nat, NEW len \in Nat, \A i \in p + 1 .. p + len : s[i] \in S
  PROVE  /\ SubSeq(s, p + 1, p + len) \in Seq(S) /\ Len(SubSeq(s, p + 1, p + len)) = len
         /\ \A i \in 1 .. len : SubSeq(s, p + 1, p + len)[i] = s[p + i]
PROOF
  <1> DEFINE m == p + 1
             n == p + len
  <1>1. m \in Int /\ n \in Int /\ \A i \in m .. n : s[i] \in S
    OBVIOUS
  <1>2. n - m + 1 = len /\ (m <= n \/ len = 0) /\ (\A i \in 1 .. len : m + i - 1 = p + i)
    OBVIOUS
  <1>3. ~(m <= n) => len = 0
    OBVIOUS
  <1> HIDE DEF m, n
  <1>4. /\ SubSeq(s, m, n) \in Seq(S)
        /\ Len(SubSeq(s, m, n)) = IF m <= n THEN n - m + 1 ELSE 0
        /\ \A i \in 1 .. n - m + 1 : SubSeq(s, m, n)[i] = s[m + i - 1]
    BY <1>1, SubSeqProperties
  <1>5. /\ SubSeq(s, m, n) \in Seq(S) /\ Len(SubSeq(s, m, n)) = len
        /\ \A i \in 1 .. len : SubSeq(s, m, n)[i] = s[p + i]
    <2>1. Len(SubSeq(s, m, n)) = len
      BY <1>2, <1>3, <1>4
    <2>2. ASSUME NEW i \in 1 .. len PROVE SubSeq(s, m, n)[i] = s[p + i]
      BY <1>2, <1>4
    <2>3. QED
      BY <1>4, <2>1, <2>2
  <1>6. QED
    BY <1>5 DEF m, n

(* Putting three parts together and cutting them apart.                     *)
LEMMA CutParts ==
  ASSUME NEW S, NEW a \in Seq(S), NEW b \in Seq(S), NEW c \in Seq(S)
  PROVE  LET e == a \o b \o c IN
         /\ e \in Seq(S) /\ Len(e) = Len(a) + Len(b) + Len(c)
         /\ SubSeq(e, 1, Len(a)) = a
         /\ SubSeq(e, Len(a) + 1, Len(a) + Len(b)) = b
         /\ SubSeq(e, Len(a) + Len(b) + 1, Len(e)) = c
PROOF
  <1> DEFINE s == a \o b \o c
             la == Len(a)
             lb == Len(b)
             lc == Len(c)
  <1>1. la \in Nat /\ lb \in Nat /\ lc \in Nat
    BY LenProperties
  <1>2. /\ a \o b \in Seq(S) /\ Len(a \o b) = la + lb
        /\ \A i \in 1 .. la + lb : (a \o b)[i] = IF i <= la THEN a[i] ELSE b[i - la]
    BY ConcatProperties
  <1>3. /\ s \in Seq(S) /\ Len(s) = la + lb + lc
        /\ \A i \in 1 .. la + lb + lc :
             s[i] = IF i <= la + lb THEN (a \o b)[i] ELSE c[i - (la + lb)]
    BY <1>2, ConcatProperties
  <1>4. \A i \in 1 .. la + lb + lc : s[i] \in S
    BY <1>3, ElementOfSeq
  <1> DEFINE ab == a \o b
  <1> HIDE DEF s, la, lb, lc
  <1>5. /\ \A i \in 1 .. la + lb : ab[i] = IF i <= la THEN a[i] ELSE b[i - la]
        /\ \A i \in 1 .. la + lb + lc : s[i] = IF i <= la + lb THEN ab[i] ELSE c[i - (la + lb)]
    BY <1>2, <1>3
  <1> HIDE DEF ab
  <1>6. ASSUME NEW i \in 1 .. la PROVE s[i] = a[i]
    <2>1. i \in 1 .. la + lb /\ i \in 1 .. la + lb + lc /\ i <= la /\ i <= la + lb
      BY <1>1
    <2>2. QED
      BY <1>5, <2>1
  <1>7. SubSeq(s, 1, la) = a
    <2>1. \A i \in 1 .. la : s[i] \in S
      BY <1>1, <1>4
    <2>2. /\ SubSeq(s, 1, la) \in Seq(S) /\ Len(SubSeq(s, 1, la)) = la
          /\ \A i \in 1 .. la : SubSeq(s, 1, la)[i] = s[i]
      BY <1>1, <2>1, SubSeqProperties
    <2>3. \A i \in 1 .. la : s[i] = a[i]
      BY <1>6
    <2>4. QED
      BY <2>2, <2>3, SeqEqual DEF la
  <1>8. SubSeq(s, la + 1, la + lb) = b
    <2>1. \A i \in la + 1 .. la + lb : s[i] \in S
      BY <1>1, <1>4
    <2> DEFINE t == SubSeq(s, la + 1, la + lb)
    <2>2. /\ t \in Seq(S) /\ Len(t) = lb
          /\ \A i \in 1 .. lb : t[i] = s[la + i]
      BY <1>1, <2>1, CutShape
    <2> HIDE DEF t
    <2>3. ASSUME NEW i \in 1 .. lb PROVE t[i] = b[i]
      <3> DEFINE k == la + i
      <3>1. /\ k \in 1 .. la + lb /\ k \in 1 .. la + lb + lc /\ ~(k <= la) /\ k <= la + lb
            /\ k - la = i
        BY <1>1
      <3>2. t[i] = s[k]
        BY <2>2
      <3> HIDE DEF k
      <3>3. QED
        BY <1>5, <3>1, <3>2
    <2>4. t = b
      BY <2>2, <2>3, SeqEqual DEF lb
    <2>5. QED
      BY <2>4 DEF t
  <1>9. SubSeq(s, la + lb + 1, la + lb + lc) = c
    <2> DEFINE p == la + lb
               t == SubSeq(s, p + 1, p + lc)
    <2>1. p \in Nat /\ \A i \in p + 1 .. p + lc : s[i] \in S
      BY <1>1, <1>4
    <2> HIDE DEF p
    <2>2. /\ t \in Seq(S) /\ Len(t) = lc
          /\ \A i \in 1 .. lc : t[i] = s[p + i]
      BY <1>1, <2>1, CutShape
    <2> HIDE DEF t
    <2>3. ASSUME NEW i \in 1 .. lc PROVE t[i] = c[i]
      <3> DEFINE k == p + i
      <3>1. k \in 1 .. la + lb + lc /\ ~(k <= la + lb) /\ k - (la + lb) = i
        BY <1>1 DEF p
      <3>2. t[i] = s[k]
        BY <2>2
      <3> HIDE DEF k
      <3>3. QED
        BY <1>5, <3>1, <3>2
    <2>4. t = c
      BY <2>2, <2>3, SeqEqual DEF lc
    <2>5. QED
      BY <2>4 DEF t, p
  <1>10. QED
    BY <1>3, <1>7, <1>8, <1>9 DEF s, la, lb, lc

(* A sequence cut in three is put together from the slices. *)
LEMMA JoinSlices ==
  ASSUME NEW S, NEW s \in Seq(S), NEW p \in Nat, NEW q \in Nat, p <= q, q <= Len(s)
  PROVE  /\ SubSeq(s, 1, p) \in Seq(S) /\ SubSeq(s, p + 1, q) \in Seq(S)
         /\ SubSeq(s, q + 1, Len(s)) \in Seq(S)
         /\ SubSeq(s, 1, p) \o SubSeq(s, p + 1, q) \o SubSeq(s, q + 1, Len(s)) = s
PROOF
  <1> DEFINE l == Len(s)
  <1>1. l \in Nat /\ \A i \in 1 .. l : s[i] \in S
    BY LenProperties, ElementOfSeq
  <1>2. SubSeq(s, 1, l) = s
    BY SubSeqFull
  <1>3. SubSeq(s, 1, p) \o SubSeq(s, p + 1, q) = SubSeq(s, 1, q)
    <2>1. 1 \in 1 .. l + 1 /\ p \in 1 - 1 .. l /\ q \in p .. l
      BY <1>1
    <2>2. QED
      BY <2>1, ConcatAdjacentSubSeq
  <1>4. SubSeq(s, 1, q) \o SubSeq(s, q + 1, l) = SubSeq(s, 1, l)
    <2>1. 1 \in 1 .. l + 1 /\ q \in 1 - 1 .. l /\ l \in q .. l
      BY <1>1
    <2>2. QED
      BY <2>1, ConcatAdjacentSubSeq
  <1>5. /\ \A i \in 1 .. p : s[i] \in S
        /\ \A i \in p + 1 .. q : s[i] \in S
        /\ \A i \in q + 1 .. l : s[i] \in S
    BY <1>1
  <1>6. SubSeq(s, 1, p) \in Seq(S) /\ SubSeq(s, p + 1, q) \in Seq(S) /\ SubSeq(s, q + 1, l) \in Seq(S)
    <2> HIDE DEF l
    <2>1. QED
      BY <1>1, <1>5, SubSeqProperties
  <1>7. QED
    BY <1>2, <1>3, <1>4, <1>6
-------------------------------------------------------------------------------
(* The fields of envelope n, as Genuine compares them.                      *)
FieldsOf(fn, n, len) ==
  [head |-> Chars("head", n, HeadLen(fn)), mac |-> Chars("mac", n, MacLen),
   body |-> Chars("body", n, len)]

(* Every envelope starts with a nonce or a key, of 24 bytes or more. *)
LEMMA HeadLengths == \A fn \in Fn : HeadLen(fn) \in Nat /\ HeadLen(fn) >= 24
PROOF
  BY DEF HeadLen

(* The open functions cut an envelope where it was put together.            *)
LEMMA EnvelopeCuts ==
  ASSUME NEW fn \in Fn, NEW n \in Nat, NEW len \in Nat
  PROVE  LET e == Envelope(fn, n, len) IN
         /\ e \in Seq(Byte) /\ Len(e) = HeadLen(fn) + 16 + len
         /\ Fields(fn, e) = FieldsOf(fn, n, len)
PROOF
  <1> DEFINE e == Envelope(fn, n, len)
             h == HeadLen(fn)
  <1>1. h \in Nat
    BY HeadLengths
  <1>2. PICK head, mac, body :
          /\ head = Chars("head", n, h) /\ head \in Seq(Byte) /\ Len(head) = h
          /\ mac = Chars("mac", n, 16) /\ mac \in Seq(Byte) /\ Len(mac) = 16
          /\ body = Chars("body", n, len) /\ body \in Seq(Byte) /\ Len(body) = len
    <2>1. {"head", "mac", "body"} \subseteq FieldNames /\ 16 \in Nat
      BY DEF FieldNames
    <2> HIDE DEF h
    <2>2. Chars("head", n, h) \in Seq(Byte) /\ Len(Chars("head", n, h)) = h
      BY <1>1, <2>1, CharsShape
    <2>3. Chars("mac", n, 16) \in Seq(Byte) /\ Len(Chars("mac", n, 16)) = 16
      BY <2>1, CharsShape
    <2>4. Chars("body", n, len) \in Seq(Byte) /\ Len(Chars("body", n, len)) = len
      BY <2>1, CharsShape
    <2>5. QED
      BY <2>2, <2>3, <2>4, Zenon
  <1>3. FieldsOf(fn, n, len) = [head |-> head, mac |-> mac, body |-> body]
    BY <1>2 DEF FieldsOf, MacLen
  <1>4. CASE fn = "aead"
    <2>1. e = head \o body \o mac /\ h = 24
      BY <1>2, <1>4 DEF Envelope, HeadLen
    <2> HIDE DEF e
    <2>2. /\ e \in Seq(Byte) /\ Len(e) = h + len + 16
          /\ SubSeq(e, 1, h) = head /\ SubSeq(e, h + 1, h + len) = body
          /\ SubSeq(e, h + len + 1, Len(e)) = mac
      <3> DEFINE j == head \o body \o mac
      <3>1. /\ j \in Seq(Byte) /\ Len(j) = Len(head) + Len(body) + Len(mac)
            /\ SubSeq(j, 1, Len(head)) = head
            /\ SubSeq(j, Len(head) + 1, Len(head) + Len(body)) = body
            /\ SubSeq(j, Len(head) + Len(body) + 1, Len(j)) = mac
        <4>1. head \in Seq(Byte) /\ mac \in Seq(Byte) /\ body \in Seq(Byte)
          BY <1>2
        <4>2. QED
          BY <4>1, CutParts
      <3> HIDE DEF h
      <3>2. QED
        BY <1>2, <2>1, <3>1, Zenon
    <2>3. 0 <= h /\ h <= Len(e) /\ Len(e) - 16 = h + len /\ h + len <= Len(e) /\ h <= h + len
      <3>1. Len(e) = h + len + 16
        BY <2>2
      <3> HIDE DEF h
      <3>2. QED
        BY <1>1, <3>1
    <2>4. Slice(e, 0, h) = head
      BY <2>2, <2>3 DEF Slice
    <2>5. Slice(e, h + len, Len(e)) = mac
      BY <2>2, <2>3 DEF Slice
    <2>6. Slice(e, h, h + len) = body
      BY <2>2, <2>3 DEF Slice
    <2>7. Fields(fn, e) = [head |-> head, mac |-> mac, body |-> body]
      <3>1. Fields(fn, e) = [head |-> Slice(e, 0, h), mac |-> Slice(e, Len(e) - 16, Len(e)),
                             body |-> Slice(e, h, Len(e) - 16)]
        BY <1>4 DEF Fields
      <3> HIDE DEF h
      <3>2. QED
        BY <2>3, <2>4, <2>5, <2>6, <3>1, Zenon
    <2>8. Len(e) = h + 16 + len
      BY <1>1, <2>2
    <2>9. QED
      BY <1>3, <2>2, <2>7, <2>8 DEF e
  <1>5. CASE fn # "aead"
    <2>1. e = head \o mac \o body
      BY <1>2, <1>5 DEF Envelope, MacLen
    <2> HIDE DEF e
    <2>2. /\ e \in Seq(Byte) /\ Len(e) = h + 16 + len
          /\ SubSeq(e, 1, h) = head /\ SubSeq(e, h + 1, h + 16) = mac
          /\ SubSeq(e, h + 16 + 1, Len(e)) = body
      <3> DEFINE j == head \o mac \o body
      <3>1. /\ j \in Seq(Byte) /\ Len(j) = Len(head) + Len(mac) + Len(body)
            /\ SubSeq(j, 1, Len(head)) = head
            /\ SubSeq(j, Len(head) + 1, Len(head) + Len(mac)) = mac
            /\ SubSeq(j, Len(head) + Len(mac) + 1, Len(j)) = body
        <4>1. head \in Seq(Byte) /\ mac \in Seq(Byte) /\ body \in Seq(Byte)
          BY <1>2
        <4>2. QED
          BY <4>1, CutParts
      <3> HIDE DEF h
      <3>2. QED
        BY <1>2, <2>1, <3>1, Zenon
    <2>3. 0 <= h /\ h <= Len(e) /\ h + 16 <= Len(e) /\ h <= h + 16
      BY <1>1, <2>2
    <2>4. Slice(e, 0, h) = head
      BY <2>2, <2>3 DEF Slice
    <2>5. Slice(e, h, h + 16) = mac
      BY <2>2, <2>3 DEF Slice
    <2>6. Slice(e, h + 16, Len(e)) = body
      BY <2>2, <2>3 DEF Slice
    <2>7. Fields(fn, e) = [head |-> head, mac |-> mac, body |-> body]
      <3>1. Fields(fn, e) = [head |-> Slice(e, 0, h), mac |-> Slice(e, h, h + 16),
                             body |-> Slice(e, h + 16, Len(e))]
        BY <1>5 DEF Fields, MacLen
      <3> HIDE DEF h
      <3>2. QED
        BY <2>4, <2>5, <2>6, <3>1, Zenon
    <2>8. QED
      BY <1>3, <2>2, <2>7 DEF e
  <1>6. QED
    BY <1>4, <1>5

(* What is long enough is cut without a panic, into fields that put         *)
(* together again are the input.                                            *)
LEMMA FieldsJoin ==
  ASSUME NEW fn \in Fn, NEW s \in Seq(Byte), ~TooShort(fn, Len(s))
  PROVE  LET p == Fields(fn, s) IN
         /\ p.head \in Seq(Byte) /\ p.mac \in Seq(Byte) /\ p.body \in Seq(Byte)
         /\ s = IF fn = "aead" THEN p.head \o p.body \o p.mac ELSE p.head \o p.mac \o p.body
PROOF
  <1> DEFINE p == Fields(fn, s)
             h == HeadLen(fn)
             l == Len(s)
  <1>1. h \in Nat /\ l \in Nat /\ h + 16 <= l
    BY HeadLengths, LenProperties DEF TooShort, MacLen
  <1>2. CASE fn = "aead"
    <2> DEFINE q == l - 16
    <2>1. q \in Nat /\ h <= q /\ q <= l /\ 0 <= h /\ h <= l
      BY <1>1
    <2>2. p = [head |-> Slice(s, 0, h), mac |-> Slice(s, q, l), body |-> Slice(s, h, q)]
      BY <1>2 DEF Fields
    <2> HIDE DEF q, p, h
    <2>3. p.head = SubSeq(s, 1, h) /\ p.body = SubSeq(s, h + 1, q) /\ p.mac = SubSeq(s, q + 1, l)
      <3>1. /\ Slice(s, 0, h) = SubSeq(s, 0 + 1, h) /\ Slice(s, h, q) = SubSeq(s, h + 1, q)
            /\ Slice(s, q, l) = SubSeq(s, q + 1, l)
        BY <1>1, <2>1 DEF Slice
      <3>2. 0 + 1 = 1
        OBVIOUS
      <3>3. QED
        BY <2>2, <3>1, <3>2
    <2>4. /\ SubSeq(s, 1, h) \in Seq(Byte) /\ SubSeq(s, h + 1, q) \in Seq(Byte)
          /\ SubSeq(s, q + 1, l) \in Seq(Byte)
          /\ SubSeq(s, 1, h) \o SubSeq(s, h + 1, q) \o SubSeq(s, q + 1, l) = s
      BY <1>1, <2>1, JoinSlices
    <2>5. QED
      BY <1>2, <2>3, <2>4 DEF p
  <1>3. CASE fn # "aead"
    <2> DEFINE q == h + 16
    <2>1. q \in Nat /\ h <= q /\ q <= l /\ 0 <= h /\ h <= l
      BY <1>1
    <2>2. p = [head |-> Slice(s, 0, h), mac |-> Slice(s, h, q), body |-> Slice(s, q, l)]
      BY <1>3 DEF Fields, MacLen
    <2> HIDE DEF q, p, h
    <2>3. p.head = SubSeq(s, 1, h) /\ p.mac = SubSeq(s, h + 1, q) /\ p.body = SubSeq(s, q + 1, l)
      <3>1. /\ Slice(s, 0, h) = SubSeq(s, 0 + 1, h) /\ Slice(s, h, q) = SubSeq(s, h + 1, q)
            /\ Slice(s, q, l) = SubSeq(s, q + 1, l)
        BY <1>1, <2>1 DEF Slice
      <3>2. 0 + 1 = 1
        OBVIOUS
      <3>3. QED
        BY <2>2, <3>1, <3>2
    <2>4. /\ SubSeq(s, 1, h) \in Seq(Byte) /\ SubSeq(s, h + 1, q) \in Seq(Byte)
          /\ SubSeq(s, q + 1, l) \in Seq(Byte)
          /\ SubSeq(s, 1, h) \o SubSeq(s, h + 1, q) \o SubSeq(s, q + 1, l) = s
      BY <1>1, <2>1, JoinSlices
    <2>5. QED
      BY <1>3, <2>3, <2>4 DEF p
  <1>4. QED
    BY <1>2, <1>3

(* Only envelope n has the fields of envelope n.                            *)
LEMMA FieldsTell ==
  ASSUME NEW fn \in Fn, NEW s \in Seq(Byte), ~TooShort(fn, Len(s)), NEW n \in Nat,
         NEW len \in Nat, Fields(fn, s) = FieldsOf(fn, n, len)
  PROVE  s = Envelope(fn, n, len)
PROOF
  <1> DEFINE p == Fields(fn, s)
  <1>1. s = IF fn = "aead" THEN p.head \o p.body \o p.mac ELSE p.head \o p.mac \o p.body
    BY FieldsJoin
  <1>2. /\ p.head = Chars("head", n, HeadLen(fn)) /\ p.mac = Chars("mac", n, 16)
        /\ p.body = Chars("body", n, len)
    BY DEF FieldsOf, MacLen
  <1> HIDE DEF p
  <1>3. QED
    BY <1>1, <1>2 DEF Envelope, HeadLen, MacLen

(* No sequence of bytes is the mark of a panic.                             *)
LEMMA NoPanic == \A s \in Seq(Byte) : s # Panic
PROOF
  <1> SUFFICES ASSUME NEW s \in Seq(Byte), s = Panic PROVE FALSE
    OBVIOUS
  <1>1. Len(s) = 1 /\ s[1] = <<"panic", 0, 0>>
    BY DEF Panic
  <1>2. s[1] \in Byte
    BY <1>1, ElementOfSeq
  <1>3. s[1][1] \in FieldNames /\ s[1][1] = "panic"
    BY <1>1, <1>2 DEF Byte
  <1>4. QED
    BY <1>3 DEF FieldNames
-------------------------------------------------------------------------------
(* What is known of a value that was made. *)
LEMMA Entry ==
  ASSUME MadeTyped, MadeInv, NEW n \in 1 .. Len(made)
  PROVE  /\ n \in Nat /\ made[n].bytes \in Seq(Byte)
         /\ made[n].data \in Texts /\ Len(made[n].data) \in Nat
         /\ made[n].fn \in Fn \cup {"sign"} /\ made[n].ad = made[n].asked
         /\ made[n].fn = "sign" => made[n].bytes = Chars("sig", n, 64)
         /\ made[n].fn \in Fn => made[n].bytes = Envelope(made[n].fn, n, Len(made[n].data))
PROOF
  <1>1. made[n] \in Made
    <2> HIDE DEF Made
    <2>1. QED
      BY DEF MadeTyped
  <1>2. /\ made[n].bytes \in Seq(Byte) /\ made[n].data \in Texts
        /\ made[n].fn \in Fn \cup {"sign"}
    BY <1>1 DEF Made
  <1>3. Len(made[n].data) \in Nat
    BY <1>2, TextsAreSequences
  <1>4. n \in Nat
    BY DEF MadeTyped
  <1>5. /\ made[n].ad = made[n].asked
        /\ made[n].bytes = IF made[n].fn = "sign" THEN Chars("sig", n, 64)
                           ELSE Envelope(made[n].fn, n, Len(made[n].data))
    BY DEF MadeInv, AdUsed
  <1>6. "sign" \notin Fn
    BY DEF Fn
  <1>7. QED
    BY <1>2, <1>3, <1>4, <1>5, <1>6

(* The library finds the fields genuine when they were cut from an          *)
(* envelope as it was made, with that key and that associated data, and     *)
(* there is only one such envelope.                                         *)
LEMMA GenuineIsUntouched ==
  ASSUME MadeTyped, MadeInv, NEW fn \in Fn, NEW s \in Seq(Byte), ~TooShort(fn, Len(s)),
         NEW key, NEW ad
  PROVE  /\ \A n \in 1 .. Len(made) :
              n \in Genuine(fn, s, key, AdUsed(ad)) <=>
                /\ made[n].fn = fn /\ made[n].key = key /\ made[n].asked = ad
                /\ s = made[n].bytes
         /\ \A m, n \in Genuine(fn, s, key, AdUsed(ad)) : m = n
PROOF
  <1>1. \A n \in 1 .. Len(made) :
          n \in Genuine(fn, s, key, AdUsed(ad)) <=>
            /\ made[n].fn = fn /\ made[n].key = key /\ made[n].ad = ad
            /\ Fields(fn, s) = FieldsOf(fn, n, Len(made[n].data))
    BY DEF Genuine, FieldsOf, AdUsed
  <1>2. ASSUME NEW n \in 1 .. Len(made), made[n].fn = fn
        PROVE  Fields(fn, s) = FieldsOf(fn, n, Len(made[n].data)) <=> s = made[n].bytes
    <2> DEFINE len == Len(made[n].data)
    <2>1. n \in Nat /\ len \in Nat /\ made[n].bytes = Envelope(fn, n, len)
      BY <1>2, Entry
    <2> HIDE DEF len
    <2>2. ASSUME Fields(fn, s) = FieldsOf(fn, n, len) PROVE s = Envelope(fn, n, len)
      BY <2>1, <2>2, FieldsTell
    <2>3. Fields(fn, Envelope(fn, n, len)) = FieldsOf(fn, n, len)
      BY <2>1, EnvelopeCuts
    <2>4. (Fields(fn, s) = FieldsOf(fn, n, len)) <=> (s = made[n].bytes)
      BY <2>1, <2>2, <2>3, Zenon
    <2>5. QED
      BY <2>4 DEF len
  <1>3. ASSUME NEW m \in Genuine(fn, s, key, AdUsed(ad)), NEW n \in Genuine(fn, s, key, AdUsed(ad))
        PROVE  m = n
    <2>1. m \in 1 .. Len(made) /\ n \in 1 .. Len(made)
      BY DEF Genuine
    <2>2. /\ Fields(fn, s) = FieldsOf(fn, m, Len(made[m].data))
          /\ Fields(fn, s) = FieldsOf(fn, n, Len(made[n].data))
      BY <1>1, <2>1
    <2>3. Chars("head", m, HeadLen(fn)) = Chars("head", n, HeadLen(fn))
      BY <2>2 DEF FieldsOf
    <2>4. 1 \in 1 .. HeadLen(fn)
      BY HeadLengths
    <2>5. Chars("head", m, HeadLen(fn))[1] = <<"head", m, 1>>
      BY <2>4 DEF Chars
    <2>6. Chars("head", n, HeadLen(fn))[1] = <<"head", n, 1>>
      BY <2>4 DEF Chars
    <2>7. <<"head", m, 1>> = <<"head", n, 1>>
      BY <2>3, <2>5, <2>6
    <2>8. QED
      BY <2>7
  <1>4. \A n \in 1 .. Len(made) : made[n].ad = made[n].asked
    BY Entry
  <1>5. QED
    BY <1>1, <1>2, <1>3, <1>4

(* Whatever happens to an envelope on its way, bytes arrive.                *)
LEMMA ArrivedTyped ==
  ASSUME MadeTyped, MadeInv, NEW n \in 1 .. Len(made), NEW s \in Arrived(n)
  PROVE  s \in Seq(Byte)
PROOF
  <1> DEFINE e == made[n].bytes
             l == Len(e)
  <1>1. n \in Nat /\ e \in Seq(Byte) /\ Len(made[n].data) \in Nat
    BY Entry
  <1>2. l \in Nat /\ \A i \in 1 .. l : e[i] \in Byte
    BY <1>1, LenProperties, ElementOfSeq
  <1>3. \A c \in Cuts : c \in Nat
    BY ModernConstants
  <1>4. ASSUME NEW k \in Cuts, k < l PROVE SubSeq(e, 1, k) \in Seq(Byte)
    <2> HIDE DEF e, l
    <2>1. k \in Nat /\ \A i \in 1 .. k : e[i] \in Byte
      BY <1>2, <1>3, <1>4
    <2>2. QED
      BY <2>1, SubSeqProperties
  <1>5. CASE s = e
    BY <1>1, <1>5
  <1>6. CASE s = e \o <<<<"body", n, Len(made[n].data) + 1>>>>
    <2> DEFINE b == <<"body", n, Len(made[n].data) + 1>>
    <2>1. b \in Byte
      BY <1>1 DEF Byte, FieldNames
    <2> HIDE DEF b
    <2>2. <<b>> \in Seq(Byte)
      BY <2>1
    <2>3. s = e \o <<b>>
      BY <1>6 DEF b
    <2> HIDE DEF e
    <2>4. QED
      BY <1>1, <2>2, <2>3, ConcatProperties
  <1>7. CASE \E k \in {c \in Cuts : c < l} : s = SubSeq(e, 1, k)
    BY <1>4, <1>7
  <1>8. CASE \E k \in {c \in Cuts : 0 < c /\ c <= l} : s = [e EXCEPT ![k] = <<"noise", 0, 0>>]
    <2>1. PICK k \in Cuts : 0 < k /\ k <= l /\ s = [e EXCEPT ![k] = <<"noise", 0, 0>>]
      BY <1>8
    <2>2. k \in 1 .. Len(e) /\ <<"noise", 0, 0>> \in Byte
      BY <1>2, <1>3, <2>1 DEF Byte, FieldNames
    <2>3. QED
      BY <1>1, <2>1, <2>2, ExceptSeq
  <1>9. CASE \E k \in {c \in Cuts : c < l}, m \in 1 .. Len(made) \ {n} :
               s = SubSeq(e, 1, k) \o SubSeq(made[m].bytes, k + 1, Len(made[m].bytes))
    <2>1. PICK k \in Cuts, m \in 1 .. Len(made) :
            /\ k < l
            /\ s = SubSeq(e, 1, k) \o SubSeq(made[m].bytes, k + 1, Len(made[m].bytes))
      BY <1>9
    <2> DEFINE t == made[m].bytes
    <2>2. t \in Seq(Byte)
      BY Entry
    <2>3. Len(t) \in Nat /\ \A i \in k + 1 .. Len(t) : t[i] \in Byte
      BY <1>3, <2>2, LenProperties, ElementOfSeq
    <2> HIDE DEF t
    <2>4. SubSeq(t, k + 1, Len(t)) \in Seq(Byte)
      <3>1. k + 1 \in Int /\ Len(t) \in Int
        BY <1>3, <2>3
      <3>2. QED
        BY <2>3, <3>1, SubSeqProperties
    <2>5. SubSeq(e, 1, k) \in Seq(Byte)
      BY <1>4, <2>1
    <2>6. s = SubSeq(e, 1, k) \o SubSeq(t, k + 1, Len(t))
      BY <2>1 DEF t
    <2> HIDE DEF e
    <2>7. QED
      BY <2>4, <2>5, <2>6, ConcatProperties
  <1>10. \/ s = e
         \/ s = e \o <<<<"body", n, Len(made[n].data) + 1>>>>
         \/ \E k \in {c \in Cuts : c < l} : s = SubSeq(e, 1, k)
         \/ \E k \in {c \in Cuts : 0 < c /\ c <= l} : s = [e EXCEPT ![k] = <<"noise", 0, 0>>]
         \/ \E k \in {c \in Cuts : c < l}, m \in 1 .. Len(made) \ {n} :
              s = SubSeq(e, 1, k) \o SubSeq(made[m].bytes, k + 1, Len(made[m].bytes))
    <2> DEFINE A == {e, e \o <<<<"body", n, Len(made[n].data) + 1>>>>}
               B == {SubSeq(e, 1, k) : k \in {c \in Cuts : c < l}}
               C == {[e EXCEPT ![k] = <<"noise", 0, 0>>] : k \in {c \in Cuts : 0 < c /\ c <= l}}
               D == UNION {{SubSeq(e, 1, k) \o SubSeq(made[m].bytes, k + 1, Len(made[m].bytes)) :
                              k \in {c \in Cuts : c < l}} : m \in 1 .. Len(made) \ {n}}
    <2>1. s \in A \cup B \cup C \cup D
      BY DEF Arrived
    <2>2. s \in A \/ s \in B \/ s \in C \/ s \in D
      <3> HIDE DEF A, B, C, D
      <3>1. QED
        BY <2>1
    <2>3. ASSUME s \in D
          PROVE  \E k \in {c \in Cuts : c < l}, m \in 1 .. Len(made) \ {n} :
                   s = SubSeq(e, 1, k) \o SubSeq(made[m].bytes, k + 1, Len(made[m].bytes))
      BY <2>3
    <2>4. ASSUME s \in C
          PROVE  \E k \in {c \in Cuts : 0 < c /\ c <= l} : s = [e EXCEPT ![k] = <<"noise", 0, 0>>]
      BY <2>4
    <2>5. ASSUME s \in B PROVE \E k \in {c \in Cuts : c < l} : s = SubSeq(e, 1, k)
      BY <2>5
    <2>6. ASSUME s \in A PROVE s = e \/ s = e \o <<<<"body", n, Len(made[n].data) + 1>>>>
      BY <2>6
    <2> HIDE DEF A, B, C, D
    <2>7. QED
      BY <2>2, <2>3, <2>4, <2>5, <2>6, Zenon
  <1>11. QED
    BY <1>5, <1>6, <1>7, <1>8, <1>9, <1>10, Zenon

(* The envelope Open takes the data from.                                   *)
Found(fn, s, key, ad) == CHOOSE n \in Genuine(fn, s, key.id, AdUsed(ad)) : TRUE

(* Opening answers `ok' exactly for an untouched envelope with its key and  *)
(* its associated data, and then with its data; it never panics.            *)
LEMMA OpenedRight ==
  ASSUME MadeTyped, MadeInv, NEW fn \in Fn, NEW s \in Seq(Byte), NEW key \in Keys, NEW ad
  PROVE  LET r == Opened(fn, s, key, ad)
             found == Found(fn, s, key, ad)
         IN
         /\ r \in {"ok", "error"}
         /\ r = "ok" => /\ found \in 1 .. Len(made) /\ key.len = 32
                        /\ made[found].fn = fn /\ made[found].key = key.id
                        /\ made[found].asked = ad /\ made[found].bytes = s
         /\ \A n \in 1 .. Len(made) :
              (/\ made[n].fn = fn /\ made[n].bytes = s
               /\ key = [id |-> made[n].key, len |-> 32] /\ made[n].asked = ad)
                => r = "ok" /\ found = n
PROOF
  <1> DEFINE r == Opened(fn, s, key, ad)
             G == Genuine(fn, s, key.id, AdUsed(ad))
             found == Found(fn, s, key, ad)
  <1>1. ASSUME NEW n \in 1 .. Len(made), made[n].fn = fn, made[n].bytes = s
        PROVE  ~TooShort(fn, Len(s))
    <2> DEFINE len == Len(made[n].data)
    <2>1. n \in Nat /\ len \in Nat /\ made[n].bytes = Envelope(fn, n, len)
      BY <1>1, Entry
    <2> HIDE DEF len
    <2>2. Len(s) = HeadLen(fn) + 16 + len
      BY <1>1, <2>1, EnvelopeCuts
    <2> DEFINE h == HeadLen(fn)
    <2>3. h \in Nat /\ Len(s) = h + 16 + len
      BY <2>2, HeadLengths
    <2>4. TooShort(fn, Len(s)) <=> Len(s) < h + 16
      BY DEF TooShort, MacLen
    <2> HIDE DEF h
    <2>5. QED
      BY <2>1, <2>3, <2>4
  <1>2. CASE TooShort(fn, Len(s)) \/ key.len # 32
    <2>1. r = "error"
      BY <1>2 DEF Opened, exact_array
    <2>2. ASSUME NEW n \in 1 .. Len(made), made[n].fn = fn, made[n].bytes = s,
                 key = [id |-> made[n].key, len |-> 32]
          PROVE  FALSE
      BY <1>1, <1>2, <2>2
    <2> HIDE DEF r
    <2>3. QED
      BY <2>1, <2>2 DEF r
  <1>3. CASE ~TooShort(fn, Len(s)) /\ key.len = 32
    <2>1. ~\E f \in {"head", "mac", "body"} : Fields(fn, s)[f] = Panic
      <3> DEFINE p == Fields(fn, s)
      <3>1. p.head \in Seq(Byte) /\ p.mac \in Seq(Byte) /\ p.body \in Seq(Byte)
        BY <1>3, FieldsJoin
      <3> HIDE DEF p
      <3>2. p.head # Panic /\ p.mac # Panic /\ p.body # Panic
        BY <3>1, NoPanic
      <3>3. QED
        BY <3>2 DEF p
    <2>2. r = IF G = {} THEN "error" ELSE "ok"
      BY <1>3, <2>1 DEF Opened, exact_array
    <2>3. /\ \A n \in 1 .. Len(made) :
               n \in G <=> /\ made[n].fn = fn /\ made[n].key = key.id /\ made[n].asked = ad
                           /\ s = made[n].bytes
          /\ \A m, n \in G : m = n
      BY <1>3, GenuineIsUntouched
    <2>4. G \subseteq 1 .. Len(made)
      BY DEF Genuine
    <2> HIDE DEF G, r
    <2>5. G # {} => found \in G
      <3>1. found = CHOOSE n \in G : TRUE
        BY DEF Found, G
      <3>2. QED
        BY <3>1, Zenon
    <2> HIDE DEF found
    <2>6. r \in {"ok", "error"}
      BY <2>2
    <2>7. r = "ok" => /\ found \in 1 .. Len(made) /\ key.len = 32
                      /\ made[found].fn = fn /\ made[found].key = key.id
                      /\ made[found].asked = ad /\ made[found].bytes = s
      BY <1>3, <2>2, <2>3, <2>4, <2>5
    <2>8. ASSUME NEW n \in 1 .. Len(made), made[n].fn = fn, made[n].bytes = s,
                 key = [id |-> made[n].key, len |-> 32], made[n].asked = ad
          PROVE  r = "ok" /\ found = n
      <3>1. n \in G
        BY <2>3, <2>8
      <3>2. QED
        BY <2>2, <2>3, <2>5, <3>1
    <2>9. QED
      BY <2>6, <2>7, <2>8 DEF r, found, G
  <1>4. QED
    BY <1>2, <1>3

(* Two splits of the same bytes behind the same place are the same.         *)
LEMMA SameSplit ==
  ASSUME NEW S, NEW a \in Seq(S), NEW b \in Seq(S), NEW c \in Seq(S), NEW d \in Seq(S),
         Len(a) = Len(c), a \o b = c \o d
  PROVE  a = c /\ b = d
PROOF
  <1>1. /\ Len(a) \in Nat /\ Len(b) \in Nat /\ Len(d) \in Nat
    BY LenProperties
  <1>2. Len(a \o b) = Len(a) + Len(b) /\ Len(c \o d) = Len(c) + Len(d)
    BY ConcatProperties
  <1>3. \A i \in 1 .. Len(a) : (a \o b)[i] = a[i] /\ (c \o d)[i] = c[i]
    BY <1>1, ConcatProperties
  <1>4. a = c
    BY <1>3, SeqEqual
  <1>5. a \o b = a \o d
    BY <1>4, Zenon
  <1>6. \A t, v \in Seq(S) : a \o t = a \o v => t = v
    BY ConcatSimplifications, Zenon
  <1>7. QED
    BY <1>4, <1>5, <1>6, Zenon
-------------------------------------------------------------------------------
(* A value that is made joins the others. *)
LEMMA MadeOneMore ==
  ASSUME MadeTyped, MadeInv, NEW e \in Made, made' = Append(made, e), e.ad = AdUsed(e.asked),
         e.bytes = IF e.fn = "sign" THEN Chars("sig", Len(made) + 1, 64)
                   ELSE Envelope(e.fn, Len(made) + 1, Len(e.data))
  PROVE  MadeTyped' /\ MadeInv'
PROOF
  <1> DEFINE l == Len(made)
  <1>1. /\ l \in Nat /\ made' \in Seq(Made) /\ Len(made') = l + 1 /\ made'[l + 1] = e
        /\ \A n \in 1 .. l : made'[n] = made[n]
    <2> HIDE DEF Made
    <2>1. QED
      BY DEF MadeTyped
  <1>2. MadeTyped'
    BY <1>1 DEF MadeTyped
  <1>3. MadeInv'
    <2> SUFFICES ASSUME NEW n \in 1 .. Len(made')
                 PROVE  /\ made'[n].ad = AdUsed(made'[n].asked)
                        /\ made'[n].bytes = IF made'[n].fn = "sign" THEN Chars("sig", n, 64)
                                            ELSE Envelope(made'[n].fn, n, Len(made'[n].data))
      BY DEF MadeInv, AdUsed, Chars, Envelope, HeadLen, MacLen
    <2>1. n \in 1 .. l \/ n = l + 1
      BY <1>1
    <2>2. CASE n \in 1 .. l
      BY <1>1, <2>2 DEF MadeInv
    <2>3. CASE n = l + 1
      BY <1>1, <2>3
    <2>4. QED
      BY <2>1, <2>2, <2>3
  <1>4. QED
    BY <1>2, <1>3

(* Without an answer there is nothing to show. *)
LEMMA NoAnswer ==
  ASSUME answer' = None
  PROVE  AnswerInv'
PROOF
  <1>1. answer'.fn = "none"
    BY DEF None
  <1>2. QED
    BY <1>1 DEF AnswerInv, None, Fn, OpensOnlyGenuine, GenuineOpens, SignatureBinds, HkdfLength

(* The sealing functions keep the invariant, *)
LEMMA SealInv ==
  ASSUME IInv, NEW fn \in Fn, NEW d \in Texts, NEW key \in Keys, NEW ad \in AdsOf(fn),
         Seal(fn, d, key, ad)
  PROVE  IInv'
PROOF
  <1> DEFINE n == Len(made) + 1
             e == [fn |-> fn, key |-> key.id, ad |-> AdUsed(ad), asked |-> ad, data |-> d,
                   bytes |-> Envelope(fn, n, Len(d))]
  <1>1. made' = Append(made, e) /\ answer' = None
    BY DEF Seal
  <1>2. n \in Nat /\ Len(d) \in Nat
    BY TextsAreSequences DEF IInv, MadeTyped
  <1>3. Envelope(fn, n, Len(d)) \in Seq(Byte)
    BY <1>2, EnvelopeCuts
  <1>4. ad \in Ads \cup {NoAd} /\ AdUsed(ad) = ad
    BY DEF AdsOf, AdUsed
  <1>5. e \in Made
    <2> HIDE DEF n
    <2>1. QED
      BY <1>3, <1>4 DEF Made
  <1>6. fn # "sign"
    BY DEF Fn
  <1>7. e.ad = AdUsed(e.asked) /\ e.fn # "sign" /\ e.bytes = Envelope(e.fn, n, Len(e.data))
    BY <1>6
  <1> HIDE DEF e
  <1>8. MadeTyped' /\ MadeInv'
    BY <1>1, <1>5, <1>7, MadeOneMore DEF IInv
  <1>9. QED
    BY <1>1, <1>8, NoAnswer DEF IInv

(* and so does ed25519_sign. *)
LEMMA SignInv ==
  ASSUME IInv, NEW d \in Texts, NEW key \in Keys, ed25519_sign(d, key)
  PROVE  IInv'
PROOF
  <1> DEFINE n == Len(made) + 1
             c == Chars("sig", n, 64)
             e == [fn |-> "sign", key |-> key.id, ad |-> NoAd, asked |-> NoAd, data |-> d,
                   bytes |-> Slice(c \o d, 0, 64)]
  <1>1. made' = Append(made, e) /\ answer' = None
    BY DEF ed25519_sign
  <1>2. n \in Nat /\ Len(d) \in Nat /\ d \in Seq(TextByte)
    BY TextsAreSequences DEF IInv, MadeTyped
  <1>3. c \in Seq(Byte) /\ Len(c) = 64
    <2> HIDE DEF n
    <2>1. QED
      BY <1>2, SignatureShape, ZenonT(30)
  <1>4. Slice(c \o d, 0, 64) = c
    <2> DEFINE S == Byte \cup TextByte
    <2> HIDE DEF c
    <2>1. PICK a \in Seq(S) : a = c
      BY <1>3, SeqMonotonic
    <2>2. d \in Seq(S) /\ << >> \in Seq(S)
      BY <1>2, SeqMonotonic, EmptySeq
    <2> HIDE DEF S
    <2>3. a \o d \o << >> = a \o d
      <3>1. a \o d \in Seq(S)
        BY <2>2, ConcatProperties
      <3>2. QED
        BY <3>1, ConcatEmptySeq
    <2>4. SubSeq(a \o d, 1, Len(a)) = a /\ Len(a \o d) = Len(a) + Len(d)
      <3>1. SubSeq(a \o d \o << >>, 1, Len(a)) = a
        BY <2>2, CutParts
      <3>2. Len(a \o d) = Len(a) + Len(d)
        BY <2>2, ConcatProperties
      <3>3. QED
        BY <2>3, <3>1, <3>2, Zenon
    <2>5. Len(a) = 64
      BY <1>3, <2>1
    <2> DEFINE s == a \o d
    <2> HIDE DEF s
    <2>6. SubSeq(s, 0 + 1, 64) = a /\ 0 <= 64 /\ 64 <= Len(s)
      <3>1. SubSeq(s, 1, 64) = a /\ Len(s) = 64 + Len(d)
        BY <2>4, <2>5, Zenon DEF s
      <3>2. 0 + 1 = 1
        OBVIOUS
      <3>3. QED
        BY <1>2, <3>1, <3>2
    <2>7. Slice(s, 0, 64) = a
      BY <2>6 DEF Slice
    <2>8. QED
      BY <2>1, <2>7 DEF s
  <1>5. e \in Made
    <2> HIDE DEF c
    <2>1. QED
      BY <1>3, <1>4 DEF Made
  <1>6. e.ad = AdUsed(e.asked) /\ e.fn = "sign" /\ e.bytes = Chars("sig", n, 64)
    BY <1>4 DEF AdUsed
  <1> HIDE DEF e
  <1>7. MadeTyped' /\ MadeInv'
    BY <1>1, <1>5, <1>6, MadeOneMore DEF IInv
  <1>8. QED
    BY <1>1, <1>7, NoAnswer DEF IInv

(* Opening leaves what was made alone, and answers as OpenedRight says.     *)
LEMMA OpenInv ==
  ASSUME IInv, NEW fn \in Fn, NEW n \in 1 .. Len(made), NEW key \in Keys, NEW ad,
         NEW s \in Arrived(n), Open(fn, s, key, ad)
  PROVE  IInv'
PROOF
  <1> DEFINE r == Opened(fn, s, key, ad)
             found == Found(fn, s, key, ad)
             value == IF r = "ok" THEN made[found].data ELSE << >>
  <1>1. s \in Seq(Byte)
    BY ArrivedTyped DEF IInv
  <1>2. /\ r \in {"ok", "error"}
        /\ r = "ok" => /\ found \in 1 .. Len(made) /\ key.len = 32
                       /\ made[found].fn = fn /\ made[found].key = key.id
                       /\ made[found].asked = ad /\ made[found].bytes = s
        /\ \A k \in 1 .. Len(made) :
             (/\ made[k].fn = fn /\ made[k].bytes = s
              /\ key = [id |-> made[k].key, len |-> 32] /\ made[k].asked = ad)
               => r = "ok" /\ found = k
    <2>1. MadeTyped /\ MadeInv
      BY DEF IInv
    <2>2. QED
      BY <1>1, <2>1, OpenedRight
  <1>3. /\ made' = made
        /\ answer' = [fn |-> fn, bytes |-> s, key |-> key, ad |-> ad, result |-> r,
                      value |-> value]
    BY DEF Open, Found
  <1>4. \A k \in 1 .. Len(made) : made[k].data \in Texts
    BY Entry DEF IInv
  <1> HIDE DEF r, found
  <1>5. value \in Texts \cup {<< >>}
    BY <1>2, <1>4
  <1>6. r = "ok" => value = made[found].data
    OBVIOUS
  <1> HIDE DEF value
  <1>7. /\ answer'.fn = fn /\ answer'.bytes = s /\ answer'.key = key /\ answer'.ad = ad
        /\ answer'.result = r /\ answer'.value = value
    BY <1>3
  <1>8. fn \notin {"verify", "hkdf"}
    BY DEF Fn
  <1>9. OpensOnlyGenuine'
    <2> SUFFICES ASSUME r = "ok"
                 PROVE  \E k \in 1 .. Len(made) :
                          /\ made[k].fn = fn /\ made[k].key = key.id /\ key.len = 32
                          /\ made[k].asked = ad /\ s = made[k].bytes /\ value = made[k].data
      BY <1>3, <1>7 DEF OpensOnlyGenuine
    <2>1. QED
      BY <1>2, <1>6
  <1>10. GenuineOpens'
    <2> SUFFICES ASSUME NEW k \in 1 .. Len(made), made[k].fn = fn, s = made[k].bytes,
                        key = [id |-> made[k].key, len |-> 32], made[k].asked = ad
                 PROVE  r = "ok" /\ value = made[k].data
      BY <1>3, <1>7 DEF GenuineOpens
    <2>1. QED
      BY <1>2, <1>6
  <1>11. SignatureBinds' /\ HkdfLength'
    BY <1>7, <1>8 DEF SignatureBinds, HkdfLength
  <1>12. AnswerInv'
    BY <1>2, <1>5, <1>7, <1>9, <1>10, <1>11 DEF AnswerInv
  <1>13. QED
    BY <1>3, <1>12 DEF IInv, MadeTyped, MadeInv

(* A signature counts for the data it was made of: of all splits of the     *)
(* signed bytes only the one behind 64 bytes is looked at.                  *)
LEMMA VerifyInv ==
  ASSUME IInv, NEW key, NEW sig \in Seq(Byte \cup TextByte), NEW d \in Seq(Byte \cup TextByte),
         ed25519_verify(d, sig, key)
  PROVE  IInv'
PROOF
  <1> DEFINE S == Byte \cup TextByte
             Fits(n) == /\ made[n].fn = "sign" /\ made[n].key = key.id
                        /\ sig \o d = Chars("sig", n, 64) \o made[n].data
             result == IF Len(sig) # 64 \/ key.len # 32 THEN "error"
                       ELSE IF \E n \in 1 .. Len(made) : Fits(n) THEN "yes" ELSE "no"
  <1>1. /\ made' = made
        /\ answer' = [fn |-> "verify", bytes |-> sig, data |-> d, key |-> key, result |-> result]
    BY DEF ed25519_verify, SignatureFits, exact_array
  <1>2. ASSUME NEW n \in 1 .. Len(made), made[n].fn = "sign"
        PROVE  /\ made[n].bytes = Chars("sig", n, 64) /\ Len(made[n].bytes) = 64
               /\ made[n].bytes \in Seq(S) /\ made[n].data \in Seq(S)
    <2>1. /\ made[n].bytes = Chars("sig", n, 64) /\ made[n].bytes \in Seq(Byte)
          /\ n \in Nat /\ made[n].data \in Texts
      BY <1>2, Entry DEF IInv
    <2>2. Len(Chars("sig", n, 64)) = 64
      BY <2>1, SignatureShape, ZenonT(30)
    <2>3. made[n].data \in Seq(TextByte)
      BY <2>1, TextsAreSequences
    <2>4. QED
      BY <2>1, <2>2, <2>3, SeqMonotonic
  <1>3. (result = "yes") <=>
          /\ key.len = 32
          /\ \E n \in 1 .. Len(made) : /\ made[n].fn = "sign" /\ made[n].key = key.id
                                       /\ made[n].bytes = sig /\ made[n].data = d
    <2>1. ASSUME NEW n \in 1 .. Len(made), made[n].fn = "sign", made[n].key = key.id,
                 made[n].bytes = sig, made[n].data = d
          PROVE  Len(sig) = 64 /\ Fits(n)
      BY <1>2, <2>1, Zenon
    <2>2. ASSUME NEW n \in 1 .. Len(made), Len(sig) = 64, Fits(n)
          PROVE  made[n].bytes = sig /\ made[n].data = d
      <3>1. PICK b \in Seq(S), t \in Seq(S) :
              b = made[n].bytes /\ t = made[n].data /\ Len(b) = 64 /\ sig \o d = b \o t
        <4>1. made[n].fn = "sign" /\ sig \o d = Chars("sig", n, 64) \o made[n].data
          BY <2>2
        <4>2. /\ made[n].bytes = Chars("sig", n, 64) /\ Len(made[n].bytes) = 64
              /\ made[n].bytes \in Seq(S) /\ made[n].data \in Seq(S)
          BY <1>2, <4>1, ZenonT(30)
        <4>3. sig \o d = made[n].bytes \o made[n].data
          BY <4>1, <4>2, ZenonT(30)
        <4> HIDE DEF S, Fits, result
        <4>4. QED
          BY <4>2, <4>3, ZenonT(30)
      <3>2. Len(sig) = Len(b)
        BY <2>2, <3>1
      <3>3. sig = b /\ d = t
        <4>1. sig \in Seq(S) /\ d \in Seq(S) /\ sig \o d = b \o t
          BY <3>1, Zenon
        <4> HIDE DEF S, Fits, result
        <4>2. QED
          BY <3>2, <4>1, SameSplit
      <3>4. QED
        BY <3>1, <3>3
    <2>3. (result = "yes") <=>
            (Len(sig) = 64 /\ key.len = 32 /\ \E n \in 1 .. Len(made) : Fits(n))
      <3> HIDE DEF Fits
      <3>1. QED
        OBVIOUS
    <2>4. QED
      BY <2>1, <2>2, <2>3, Zenon
  <1>4. result \in {"error", "yes", "no"}
    OBVIOUS
  <1> HIDE DEF result
  <1>5. /\ answer'.fn = "verify" /\ answer'.bytes = sig /\ answer'.data = d
        /\ answer'.key = key /\ answer'.result = result
    BY <1>1
  <1>6. SignatureBinds'
    BY <1>1, <1>3, <1>5 DEF SignatureBinds
  <1>7. "verify" \notin Fn
    BY DEF Fn
  <1>8. OpensOnlyGenuine' /\ GenuineOpens' /\ HkdfLength'
    BY <1>5, <1>7 DEF OpensOnlyGenuine, GenuineOpens, HkdfLength
  <1>9. AnswerInv'
    BY <1>4, <1>5, <1>6, <1>7, <1>8 DEF AnswerInv
  <1>10. QED
    BY <1>1, <1>9 DEF IInv, MadeTyped, MadeInv

(* x25519 stores nothing, and keeps the invariant. *)
LEMMA X25519Inv ==
  ASSUME IInv, NEW a, NEW b, x25519(a, b)
  PROVE  IInv'
PROOF
  <1>1. made' = made /\ answer'.fn = "x25519" /\ answer'.result \in {"ok", "error"}
    BY DEF x25519
  <1>2. QED
    BY <1>1 DEF IInv, MadeTyped, MadeInv, AnswerInv, Fn, OpensOnlyGenuine, GenuineOpens,
                SignatureBinds, HkdfLength

(* validate_hkdf_length allows 255 blocks of the longest hash, expand 255   *)
(* blocks of the hash at hand.                                              *)
LEMMA HkdfInv ==
  ASSUME IInv, NEW h \in {"sha256", "sha512"}, NEW len \in Lengths, hkdf(h, len)
  PROVE  IInv'
PROOF
  <1> DEFINE result == IF len \in HkdfRange /\ ExpandFits(h, len) THEN "ok" ELSE "error"
             blocks == IF h = "sha256" THEN 32 ELSE 64
  <1>1. /\ made' = made
        /\ answer' = [fn |-> "hkdf", hash |-> h, len |-> len, result |-> result]
    BY DEF hkdf
  <1>2. (result = "ok") <=> (len \in 1 .. 255 * blocks)
    <2> DEFINE top == 16320
               limit == 255 * blocks
    <2>1. len \in Int /\ top \in Int /\ limit \in Int /\ limit <= top
      BY ModernConstants
    <2>2. HkdfRange = 1 .. top /\ (ExpandFits(h, len) <=> len <= limit)
      BY DEF HkdfRange, ExpandFits, HashLen
    <2> HIDE DEF top, limit
    <2>3. (result = "ok") <=> (len \in 1 .. top /\ len <= limit)
      BY <2>2
    <2> HIDE DEF result
    <2>4. (result = "ok") <=> (len \in 1 .. limit)
      BY <2>1, <2>3
    <2>5. QED
      BY <2>4 DEF limit
  <1>3. result \in {"ok", "error"}
    OBVIOUS
  <1> HIDE DEF result
  <1>4. answer'.fn = "hkdf" /\ answer'.hash = h /\ answer'.len = len /\ answer'.result = result
    BY <1>1
  <1>5. HkdfLength'
    BY <1>2, <1>4 DEF HkdfLength
  <1>6. QED
    BY <1>1, <1>3, <1>4, <1>5 DEF IInv, MadeTyped, MadeInv, AnswerInv, Fn, OpensOnlyGenuine,
                                  GenuineOpens, SignatureBinds

(* The envelopes and signatures stand at their numbers, and the answer      *)
(* given is right for them.                                                 *)
THEOREM Inductive == Spec => []IInv
PROOF
  <1>1. Init => IInv
    <2> SUFFICES ASSUME Init PROVE IInv
      OBVIOUS
    <2>1. made = << >> /\ answer = None /\ answer.fn = "none"
      BY DEF Init, None
    <2>2. MadeTyped /\ Len(made) = 0
      BY <2>1, EmptySeq DEF MadeTyped
    <2>3. MadeInv
      BY <2>2 DEF MadeInv
    <2>4. AnswerInv
      BY <2>1 DEF AnswerInv, Fn, OpensOnlyGenuine, GenuineOpens, SignatureBinds, HkdfLength
    <2>5. QED
      BY <2>2, <2>3, <2>4 DEF IInv
  <1>2. IInv /\ [Next]_vars => IInv'
    <2> SUFFICES ASSUME IInv, [Next]_vars PROVE IInv'
      OBVIOUS
    <2>1. CASE \E fn \in Fn, d \in Texts, key \in Keys :
                 \E ad \in AdsOf(fn) : Seal(fn, d, key, ad)
      BY <2>1, SealInv
    <2>2. CASE \E d \in Texts, key \in Keys : ed25519_sign(d, key)
      BY <2>2, SignInv
    <2>3. CASE \E fn \in Fn, n \in 1 .. Len(made), key \in Keys :
                 /\ made[n].fn # "sign"
                 /\ \E ad \in AdsOf(fn), s \in Arrived(n) : Open(fn, s, key, ad)
      BY <2>3, OpenInv
    <2>4. CASE \E n \in 1 .. Len(made), key \in Keys, c \in Cuts, d \in Texts :
                 LET signed == made[n].bytes \o d IN
                 /\ made[n].fn = "sign" /\ c <= Len(signed)
                 /\ ed25519_verify(SubSeq(signed, c + 1, Len(signed)), SubSeq(signed, 1, c), key)
      <3> DEFINE S == Byte \cup TextByte
      <3>1. PICK n \in 1 .. Len(made), key \in Keys, c \in Cuts, d \in Texts :
              LET signed == made[n].bytes \o d IN
              /\ c <= Len(signed)
              /\ ed25519_verify(SubSeq(signed, c + 1, Len(signed)), SubSeq(signed, 1, c), key)
        BY <2>4
      <3> DEFINE signed == made[n].bytes \o d
      <3>2. made[n].bytes \in Seq(S)
        <4>1. made[n].bytes \in Seq(Byte)
          BY Entry DEF IInv
        <4>2. QED
          BY <4>1, SeqMonotonic
      <3>3. d \in Seq(S)
        BY TextsAreSequences, SeqMonotonic
      <3>4. signed \in Seq(S) /\ c \in Nat /\ c <= Len(signed)
        <4>1. signed \in Seq(S)
          BY <3>2, <3>3, ConcatProperties
        <4>2. QED
          BY <3>1, <4>1, ModernConstants
      <3>5. ed25519_verify(SubSeq(signed, c + 1, Len(signed)), SubSeq(signed, 1, c), key)
        BY <3>1
      <3> HIDE DEF signed
      <3>6. SubSeq(signed, 1, c) \in Seq(S) /\ SubSeq(signed, c + 1, Len(signed)) \in Seq(S)
        <4> HIDE DEF S
        <4>1. c <= c
          BY <3>4
        <4>2. QED
          BY <3>4, <4>1, JoinSlices
      <3>7. QED
        BY <3>5, <3>6, VerifyInv
    <2>5. CASE \E a, b \in Keys : x25519(a, b)
      BY <2>5, X25519Inv
    <2>6. CASE \E h \in {"sha256", "sha512"}, len \in Lengths : hkdf(h, len)
      BY <2>6, HkdfInv
    <2>7. CASE Forget
      <3>1. made' = made /\ answer' = None
        BY <2>7 DEF Forget
      <3>2. QED
        BY <3>1, NoAnswer DEF IInv, MadeTyped, MadeInv
    <2>8. CASE UNCHANGED vars
      <3>1. made' = made /\ answer' = answer
        BY <2>8 DEF vars
      <3>2. QED
        BY <3>1 DEF IInv, MadeTyped, MadeInv, AnswerInv, OpensOnlyGenuine, GenuineOpens,
                    SignatureBinds, HkdfLength
    <2>9. QED
      BY <2>1, <2>2, <2>3, <2>4, <2>5, <2>6, <2>7, <2>8 DEF Next
  <1>3. QED
    BY <1>1, <1>2, PTL DEF Spec

(* Envelopes are as long as their layouts say whatever the data, signatures *)
(* have 64 bytes, and no open function slices out of range.                 *)
THEOREM TypeCorrect == Spec => []TypeOK
PROOF
  <1>1. IInv => TypeOK
    <2> SUFFICES ASSUME IInv PROVE TypeOK
      OBVIOUS
    <2>1. ASSUME NEW n \in 1 .. Len(made)
          PROVE  Len(made[n].bytes) = IF made[n].fn = "sign" THEN 64
                                      ELSE HeadLen(made[n].fn) + 16 + Len(made[n].data)
      <3> DEFINE fn == made[n].fn
                 len == Len(made[n].data)
      <3>1. /\ n \in Nat /\ len \in Nat /\ fn \in Fn \cup {"sign"}
            /\ fn = "sign" => made[n].bytes = Chars("sig", n, 64)
            /\ fn \in Fn => made[n].bytes = Envelope(fn, n, len)
        BY Entry DEF IInv
      <3> HIDE DEF fn, len
      <3>2. CASE fn = "sign"
        <4>1. Len(Chars("sig", n, 64)) = 64
          BY <3>1, SignatureShape, ZenonT(30)
        <4>2. QED
          BY <3>1, <3>2, <4>1 DEF fn
      <3>3. CASE fn \in Fn
        <4>1. Len(Envelope(fn, n, len)) = HeadLen(fn) + 16 + len
          BY <3>1, <3>3, EnvelopeCuts
        <4>2. fn # "sign"
          BY <3>3 DEF Fn
        <4>3. QED
          BY <3>1, <3>3, <4>1, <4>2 DEF fn, len
      <3>4. QED
        BY <3>1, <3>2, <3>3
    <2>2. QED
      BY <2>1 DEF IInv, AnswerInv, TypeOK
  <1>2. QED
    BY <1>1, Inductive, PTL

(* xchacha20poly1305_decrypt, secretbox_open and box_seal_open return only  *)
(* what was sealed, from an envelope that arrived untouched.                *)
THEOREM OnlyGenuine == Spec => []OpensOnlyGenuine
PROOF
  BY Inductive, PTL DEF IInv, AnswerInv

(* Every envelope opens under its key and associated data, also the one of  *)
(* empty data.                                                              *)
THEOREM UntouchedOpens == Spec => []GenuineOpens
PROOF
  BY Inductive, PTL DEF IInv, AnswerInv

(* ed25519_verify accepts a signature for its data and no other split.      *)
THEOREM SignaturesBind == Spec => []SignatureBinds
PROOF
  BY Inductive, PTL DEF IInv, AnswerInv

(* hkdf_sha256 and hkdf_sha512 give every length up to 255 blocks.          *)
THEOREM HkdfLengths == Spec => []HkdfLength
PROOF
  BY Inductive, PTL DEF IInv, AnswerInv
===============================================================================
