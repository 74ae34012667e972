----------------------------- MODULE RawSqlProofs -----------------------------
(***************************************************************************)
(* Proofs about RawCipher, for data, keys and IVs of every length, and     *)
(* about SqlFunctions, for every table of names, any data and any number   *)
(* of rows: the functions that have no message format of their own.        *)
(***************************************************************************)
EXTENDS RawCipher, SqlFunctions, SequenceTheorems, WellFoundedInduction, TLAPS

(* The three kinds of terms a block is made of. *)
Bare(s) == [bytes |-> s]
Encd(k, x) == [enc |-> k, of |-> x]
Decd(k, y) == [dec |-> k, of |-> y]

(* They differ, and a term has what it was made of. *)
LEMMA Terms ==
  /\ \A s : "bytes" \in DOMAIN Bare(s) /\ "enc" \notin DOMAIN Bare(s) /\ Bare(s).bytes = s
  /\ \A k, x : /\ "enc" \in DOMAIN Encd(k, x) /\ "bytes" \notin DOMAIN Encd(k, x)
               /\ Encd(k, x).of = x /\ Encd(k, x).enc = k
  /\ \A k, y : "bytes" \notin DOMAIN Decd(k, y) /\ "enc" \notin DOMAIN Decd(k, y)
  BY DEF Bare, Encd, Decd

(* The only element of a set is the one that is chosen from it. *)
LEMMA OnlyElement ==
  ASSUME NEW e
  PROVE  (CHOOSE a \in {e} : TRUE) = e
  OBVIOUS

(* A block decrypts to what it was encrypted from under the same key. *)
LEMMA DecEnc ==
  ASSUME NEW k, NEW x
  PROVE  Dec(k, Enc(k, x)) = x
PROOF
  <1> DEFINE y == Enc(k, x)
  <1>1. y = {Encd(k, x)}
    BY DEF Enc, Encd
  <1>2. Encd(k, x).of = x /\ "enc" \in DOMAIN Encd(k, x)
    BY Terms
  <1>3. x \in {a.of : a \in {b \in y : "enc" \in DOMAIN b}}
    BY <1>1, <1>2
  <1>4. (CHOOSE a \in y : TRUE) = Encd(k, x)
    BY <1>1, OnlyElement
  <1>5. QED
    BY <1>2, <1>3, <1>4 DEF Dec

(* and to a term of its own under another. *)
LEMMA DecOther ==
  ASSUME NEW k, NEW y, \A x : y # Enc(k, x)
  PROVE  Dec(k, y) = {Decd(k, y)}
  BY DEF Dec, Decd

(* A mask that is applied twice is gone. *)
LEMMA XorBack ==
  ASSUME NEW x, NEW y
  PROVE  Xor(Xor(x, y), y) = x
  BY DEF Xor

(* A block with a term that is no bytes has no byte that is known. *)
LEMMA UnknownText ==
  ASSUME NEW x, NEW a \in x, "bytes" \notin DOMAIN a, NEW j
  PROVE  ByteOf(x, j) = Noise
  BY DEF ByteOf

(* The bytes of a block that is known are its bytes. *)
LEMMA KnownBytes ==
  ASSUME NEW s, NEW j \in 1 .. Len(s)
  PROVE  ByteOf(Known(s), j) = s[j]
PROOF
  <1>1. CASE \A i \in 1 .. Len(s) : s[i] = 0
    BY <1>1 DEF Known, ByteOf
  <1>2. CASE ~\A i \in 1 .. Len(s) : s[i] = 0
    <2>1. Known(s) = {Bare(s)}
      BY <1>2 DEF Known, Bare
    <2>2. (CHOOSE a \in {Bare(s)} : TRUE) = Bare(s)
      BY OnlyElement
    <2>3. QED
      BY <2>1, <2>2, Terms DEF ByteOf
  <1>3. QED
    BY <1>1, <1>2
-------------------------------------------------------------------------------
(* The place of byte n in its block. *)
LEMMA Place ==
  ASSUME NEW bs \in {8, 16}, NEW m \in Nat
  PROVE  /\ m \div bs \in Nat /\ m % bs \in 0 .. bs - 1
         /\ m = ((m \div bs) * bs) + (m % bs)
PROOF
  <1>1. CASE bs = 8
    BY <1>1
  <1>2. CASE bs = 16
    BY <1>2
  <1>3. QED
    BY <1>1, <1>2

(* The blocks of m bytes: the last byte is in the last one. *)
LEMMA BlockCount ==
  ASSUME NEW bs \in {8, 16}, NEW m \in Nat
  PROVE  /\ Blocks(m, bs) \in Nat
         /\ \A n \in 1 .. m : ((n - 1) \div bs) + 1 \in 1 .. Blocks(m, bs)
PROOF
  <1>1. CASE bs = 8
    BY <1>1 DEF Blocks
  <1>2. CASE bs = 16
    BY <1>2 DEF Blocks
  <1>3. QED
    BY <1>1, <1>2

(* Data that is not empty has a first block. *)
LEMMA HasFirst ==
  ASSUME NEW bs \in {8, 16}, NEW m \in Nat, m > 0
  PROVE  1 \in 1 .. Blocks(m, bs)
PROOF
  <1>1. CASE bs = 8
    BY <1>1 DEF Blocks
  <1>2. CASE bs = 16
    BY <1>2 DEF Blocks
  <1>3. QED
    BY <1>1, <1>2

(* Whole blocks that are not empty are one block at least. *)
LEMMA AtLeastOne ==
  ASSUME NEW bs \in {8, 16}, NEW m \in Nat, m > 0, m % bs = 0
  PROVE  m >= bs
PROOF
  <1>1. CASE bs = 8
    BY <1>1
  <1>2. CASE bs = 16
    BY <1>2
  <1>3. QED
    BY <1>1, <1>2

(* A slice of a sequence. *)
LEMMA Part ==
  ASSUME NEW S, NEW s \in Seq(S), NEW m \in Int, NEW n \in Int, 1 <= m, n <= Len(s), m <= n + 1
  PROVE  /\ SubSeq(s, m, n) \in Seq(S) /\ Len(SubSeq(s, m, n)) = n - m + 1
         /\ \A i \in 1 .. n - m + 1 : SubSeq(s, m, n)[i] = s[m + i - 1]
PROOF
  <1>1. CASE m = n + 1
    BY <1>1, SubSeqProperties
  <1>2. CASE m <= n
    BY <1>2, SubSeqProperties
  <1>3. QED
    BY <1>1, <1>2

(* Block i is the bytes of s from its place on, and byte n of s in its.     *)
LEMMA BlockAt ==
  ASSUME NEW bs \in {8, 16}, NEW s \in Seq(Byte), NEW n \in 1 .. Len(s)
  PROVE  LET i == ((n - 1) \div bs) + 1
             j == ((n - 1) % bs) + 1
         IN j \in 1 .. Len(Block(s, bs, i)) /\ Block(s, bs, i)[j] = s[n]
PROOF
  <1>1. PICK m \in Nat : m = Len(s)
    BY LenProperties
  <1> n - 1 \in Nat
    BY <1>1
  <1>2. PICK q \in Nat : q = (n - 1) \div bs
    BY Place
  <1>3. PICK r \in 0 .. bs - 1 : r = (n - 1) % bs
    BY Place
  <1>4. n - 1 = (q * bs) + r
    BY <1>2, <1>3, Place
  <1>5. PICK last \in Nat : last = IF (q + 1) * bs <= m THEN (q + 1) * bs ELSE m
    OBVIOUS
  <1>6. PICK first \in Nat : first = (q * bs) + 1
    OBVIOUS
  <1>7. first <= n /\ n <= last /\ last <= m /\ first + r = n
    <2>1. CASE bs = 8
      BY <2>1, <1>1, <1>4, <1>5, <1>6
    <2>2. CASE bs = 16
      BY <2>2, <1>1, <1>4, <1>5, <1>6
    <2>3. QED
      BY <2>1, <2>2
  <1>8. Block(s, bs, q + 1) = SubSeq(s, first, last)
    <2>1. (q + 1) - 1 = q
      OBVIOUS
    <2>2. Block(s, bs, q + 1) = SubSeq(s, (((q + 1) - 1) * bs) + 1, last)
      BY <1>1, <1>5 DEF Block
    <2>3. QED
      BY <2>1, <2>2, <1>6
  <1>9. /\ Len(SubSeq(s, first, last)) = last - first + 1
        /\ \A i \in 1 .. last - first + 1 : SubSeq(s, first, last)[i] = s[first + i - 1]
    BY <1>1, <1>7, Part
  <1>10. r + 1 \in 1 .. last - first + 1 /\ first + (r + 1) - 1 = n
    BY <1>7
  <1>11. QED
    BY <1>2, <1>3, <1>8, <1>9, <1>10
-------------------------------------------------------------------------------
(* A set of naturals has a least element. *)
LEMMA Least ==
  ASSUME NEW T \in SUBSET Nat, T # {}
  PROVE  \E n \in T : \A m \in T : n <= m
PROOF
  <1> DEFINE Less == OpToRel(<, Nat)
  <1>1. IsWellFoundedOn(Less, Nat)
    BY NatLessThanWellFounded
  <1>2. \A x \in Nat, y \in Nat : x < y => <<x, y>> \in Less
    BY DEF OpToRel
  <1> HIDE DEF Less
  <1>3. PICK x \in T : \A y \in T : ~(<<y, x>> \in Less)
    BY <1>1, WFMin
  <1>4. \A y \in T : ~(y < x)
    BY <1>2, <1>3
  <1>5. QED
    BY <1>4

(* Induction, about a set. *)
LEMMA Induction ==
  ASSUME NEW T, 0 \in T, \A n \in Nat : n \in T => n + 1 \in T
  PROVE  \A n \in Nat : n \in T
PROOF
  <1> DEFINE U == {n \in Nat : n \notin T}
  <1> SUFFICES ASSUME U # {} PROVE FALSE
    OBVIOUS
  <1>1. PICK n \in U : \A m \in U : n <= m
    BY Least
  <1>2. n # 0 /\ n - 1 \in Nat
    OBVIOUS
  <1>3. n - 1 \in T
    BY <1>1, <1>2
  <1>4. n - 1 + 1 \in T
    BY <1>2, <1>3
  <1>5. QED
    BY <1>4

(* The recursion behind the Encryptors. *)
ChainStep(mode, bs, k, iv, s, f, i) ==
  IF i = 0 THEN iv ELSE EncryptBlock(mode, k, Known(Block(s, bs, i)), f[i - 1])

IsChain(mode, bs, k, iv, s, n) ==
  \E f : f = [i \in 0 .. n |-> ChainStep(mode, bs, k, iv, s, f, i)]

(* It defines a function on every interval that starts at zero. *)
LEMMA ChainExists ==
  ASSUME NEW mode, NEW bs, NEW k, NEW iv, NEW s
  PROVE  \A n \in Nat : IsChain(mode, bs, k, iv, s, n)
PROOF
  <1> DEFINE Step(f, i) == ChainStep(mode, bs, k, iv, s, f, i)
             Good(n) == \E f : f = [i \in 0 .. n |-> Step(f, i)]
             T == {n \in Nat : Good(n)}
  <1>1. Good(0)
    <2> DEFINE f == [i \in 0 .. 0 |-> iv]
    <2>1. \A i \in 0 .. 0 : Step(f, i) = iv
      BY DEF ChainStep
    <2>2. f = [i \in 0 .. 0 |-> Step(f, i)]
      BY <2>1
    <2>3. QED
      BY <2>2
  <1>2. ASSUME NEW n \in Nat, Good(n) PROVE Good(n + 1)
    <2>1. PICK f : f = [i \in 0 .. n |-> Step(f, i)]
      BY <1>2
    <2> DEFINE g == [i \in 0 .. n + 1 |-> IF i <= n THEN f[i] ELSE Step(f, i)]
    <2>2. \A i \in 0 .. n : g[i] = f[i] /\ f[i] = Step(f, i)
      BY <2>1
    <2>3. ASSUME NEW i \in 0 .. n + 1
          PROVE  Step(f, i) = Step(g, i)
      <3> HIDE DEF g
      <3>1. i # 0 => f[i - 1] = g[i - 1]
        BY <2>2
      <3>2. QED
        BY <3>1 DEF ChainStep
    <2>4. \A i \in 0 .. n + 1 : g[i] = Step(g, i)
      <3>1. SUFFICES ASSUME NEW i \in 0 .. n + 1 PROVE g[i] = Step(f, i)
        BY <2>3
      <3>2. CASE i <= n
        <4>1. i \in 0 .. n
          BY <3>2
        <4>2. QED
          BY <2>2, <4>1
      <3>3. CASE ~(i <= n)
        BY <3>3
      <3>4. QED
        BY <3>2, <3>3
    <2>5. g = [i \in 0 .. n + 1 |-> g[i]]
      OBVIOUS
    <2> HIDE DEF g
    <2>6. g = [i \in 0 .. n + 1 |-> Step(g, i)]
      BY <2>4, <2>5
    <2>7. QED
      BY <2>6
  <1> HIDE DEF Good
  <1>3. 0 \in T /\ \A n \in Nat : n \in T => n + 1 \in T
    BY <1>1, <1>2
  <1> HIDE DEF T
  <1>4. \A n \in Nat : n \in T
    BY <1>3, Induction
  <1>5. QED
    BY <1>4 DEF Good, T, IsChain

(* Every block of the ciphertext is made of one of the data and the one before. *)
Chained(b, mode, bs, k, iv, s) ==
  \A i \in 1 .. Blocks(Len(s), bs) :
    b[i] = EncryptBlock(mode, k, Known(Block(s, bs, i)), IF i = 1 THEN iv ELSE b[i - 1])

(* So the Encryptors chain them. *)
LEMMA EncryptedBlocks ==
  ASSUME NEW mode, NEW bs \in {8, 16}, NEW k, NEW iv, NEW s \in Seq(Byte)
  PROVE  Chained(EncryptBlocks(mode, bs, k, iv, s), mode, bs, k, iv, s)
PROOF
  <1> DEFINE n == Blocks(Len(s), bs)
             b == EncryptBlocks(mode, bs, k, iv, s)
             c == CHOOSE f : f = [i \in 0 .. n |-> ChainStep(mode, bs, k, iv, s, f, i)]
  <1>1. n \in Nat
    BY BlockCount, LenProperties
  <1>2. b = [i \in 1 .. n |-> c[i]]
    BY DEF EncryptBlocks, ChainStep
  <1>3. c = [i \in 0 .. n |-> ChainStep(mode, bs, k, iv, s, c, i)]
    <2>1. \E f : f = [i \in 0 .. n |-> ChainStep(mode, bs, k, iv, s, f, i)]
      <3> HIDE DEF n, b, c
      <3>1. IsChain(mode, bs, k, iv, s, n)
        BY <1>1, ChainExists, Zenon
      <3>2. QED
        BY <3>1 DEF IsChain
    <2>2. QED
      BY <2>1, Zenon
  <1> HIDE DEF c, n, b
  <1>4. \A i \in 0 .. n : c[i] = ChainStep(mode, bs, k, iv, s, c, i)
    BY <1>3
  <1>5. c[0] = iv
    BY <1>1, <1>4 DEF ChainStep
  <1>6. ASSUME NEW i \in 1 .. n
        PROVE  b[i] = EncryptBlock(mode, k, Known(Block(s, bs, i)),
                                   IF i = 1 THEN iv ELSE b[i - 1])
    <2>1. i \in 0 .. n /\ i # 0
      BY <1>1
    <2>2. c[i] = EncryptBlock(mode, k, Known(Block(s, bs, i)), c[i - 1])
      BY <2>1, <1>4 DEF ChainStep
    <2>3. c[i - 1] = IF i = 1 THEN iv ELSE b[i - 1]
      <3>1. CASE i = 1
        BY <3>1, <1>5
      <3>2. CASE i # 1
        <4>1. i - 1 \in 1 .. n
          BY <3>2, <1>1
        <4>2. QED
          BY <4>1, <3>2, <1>2
      <3>3. QED
        BY <3>1, <3>2
    <2>4. QED
      BY <1>2, <2>2, <2>3
  <1>7. QED
    BY <1>6 DEF n, b, Chained
-------------------------------------------------------------------------------
(* In every mode a block decrypts to what it was encrypted from, behind the *)
(* same block of ciphertext.                                                *)
LEMMA BlockBack ==
  ASSUME NEW mode, NEW k, NEW p, NEW prev, NEW other, mode = "ecb" \/ other = prev
  PROVE  DecryptBlock(mode, k, EncryptBlock(mode, k, p, prev), other) = p
PROOF
  <1>1. CASE mode = "ecb"
    BY <1>1, DecEnc DEF DecryptBlock, EncryptBlock
  <1>2. CASE mode = "cbc"
    <2>1. Dec(k, Enc(k, Xor(p, prev))) = Xor(p, prev)
      BY DecEnc
    <2>2. Xor(Xor(p, prev), prev) = p
      BY XorBack
    <2>3. QED
      BY <1>2, <2>1, <2>2 DEF DecryptBlock, EncryptBlock
  <1>3. CASE mode # "ecb" /\ mode # "cbc"
    BY <1>3, XorBack DEF DecryptBlock, EncryptBlock
  <1>4. QED
    BY <1>1, <1>2, <1>3

(* The blocks of both ciphers. *)
LEMMA BlockSizes ==
  ASSUME NEW alg
  PROVE  BlockSize(alg) \in {8, 16}
  BY DEF BlockSize

(* A sequence is its elements. *)
LEMMA SameElements ==
  ASSUME NEW S, NEW s \in Seq(S)
  PROVE  s = [n \in 1 .. Len(s) |-> s[n]]
  BY LenProperties

(* What the Encryptors return, the Decryptors undo. *)
LEMMA DecryptsBack ==
  ASSUME NEW alg, NEW mode, NEW k, NEW iv, NEW other, mode = "ecb" \/ other = iv,
         NEW s \in Seq(Byte), NEW c, c.alg = alg, c.len = Len(s),
         c.blocks = EncryptBlocks(mode, BlockSize(alg), k, iv, s)
  PROVE  DecryptBytes(alg, mode, k, other, c) = s
PROOF
  <1> DEFINE b == c.blocks
             prev(i) == IF i = 1 THEN iv ELSE b[i - 1]
             late(i) == IF i = 1 THEN other ELSE b[i - 1]
             byte(n, bs) == ByteOf(DecryptBlock(mode, k, b[((n - 1) \div bs) + 1],
                                                late(((n - 1) \div bs) + 1)), ((n - 1) % bs) + 1)
  <1>1. PICK bs \in {8, 16} : bs = BlockSize(alg)
    BY BlockSizes
  <1>2. \A i \in 1 .. Blocks(Len(s), bs) :
          b[i] = EncryptBlock(mode, k, Known(Block(s, bs, i)), prev(i))
    <2> HIDE DEF b
    <2>1. Chained(EncryptBlocks(mode, bs, k, iv, s), mode, bs, k, iv, s)
      BY EncryptedBlocks
    <2>2. EncryptBlocks(mode, bs, k, iv, s) = b
      BY <1>1 DEF b
    <2>3. Chained(b, mode, bs, k, iv, s)
      BY <2>1, <2>2
    <2>4. QED
      BY <2>3 DEF Chained
  <1>3. DecryptBytes(alg, mode, k, other, c) = [n \in 1 .. Len(s) |-> byte(n, bs)]
    BY <1>1 DEF DecryptBytes
  <1>4. ASSUME NEW n \in 1 .. Len(s) PROVE byte(n, bs) = s[n]
    <2>1. PICK i : i = ((n - 1) \div bs) + 1
      OBVIOUS
    <2>2. PICK j : j = ((n - 1) % bs) + 1
      OBVIOUS
    <2>3. i \in 1 .. Blocks(Len(s), bs)
      BY <2>1, BlockCount, LenProperties
    <2>4. j \in 1 .. Len(Block(s, bs, i)) /\ Block(s, bs, i)[j] = s[n]
      BY <2>1, <2>2, BlockAt
    <2>5. b[i] = EncryptBlock(mode, k, Known(Block(s, bs, i)), prev(i))
      BY <1>2, <2>3
    <2>6. mode = "ecb" \/ late(i) = prev(i)
      OBVIOUS
    <2> HIDE DEF b, prev, late
    <2>7. DecryptBlock(mode, k, b[i], late(i)) = Known(Block(s, bs, i))
      BY <2>5, <2>6, BlockBack
    <2>8. byte(n, bs) = ByteOf(DecryptBlock(mode, k, b[i], late(i)), j)
      BY <2>1, <2>2
    <2> HIDE DEF byte
    <2>9. QED
      BY <2>4, <2>7, <2>8, KnownBytes
  <1> HIDE DEF byte
  <1>5. [n \in 1 .. Len(s) |-> byte(n, bs)] = [n \in 1 .. Len(s) |-> s[n]]
    BY <1>4
  <1>6. QED
    BY <1>3, <1>5, SameElements
-------------------------------------------------------------------------------
(* Where a concatenation has its parts. *)
LEMMA Joined ==
  ASSUME NEW S, NEW s \in Seq(S), NEW t \in Seq(S)
  PROVE  /\ s \o t \in Seq(S) /\ Len(s \o t) = Len(s) + Len(t)
         /\ \A i \in 1 .. Len(s) + Len(t) :
              (s \o t)[i] = IF i <= Len(s) THEN s[i] ELSE t[i - Len(s)]
  BY ConcatProperties

(* n bytes b. *)
LEMMA Repeated ==
  ASSUME NEW S, NEW b \in S, NEW n \in Nat, NEW t, t = [i \in 1 .. n |-> b]
  PROVE  t \in Seq(S) /\ Len(t) = n /\ \A i \in 1 .. n : t[i] = b
PROOF
  <1>1. t \in Seq(S)
    BY IsASeq
  <1>2. Len(t) = n
    BY LenProperties, <1>1
  <1>3. QED
    BY <1>1, <1>2

(* A padding fills a block, and its length is a byte. *)
LEMMA PadLens ==
  ASSUME NEW bs \in {8, 16}, NEW n \in Nat
  PROVE  /\ PadLen(n, bs) \in 1 .. bs /\ PadLen(n, bs) \in Byte
         /\ (n + PadLen(n, bs)) % bs = 0
PROOF
  <1>1. CASE bs = 8
    BY <1>1 DEF PadLen, Byte
  <1>2. CASE bs = 16
    BY <1>2 DEF PadLen, Byte
  <1>3. QED
    BY <1>1, <1>2

(* The padded data: whole blocks of the data and the padding behind it. *)
IsPadded(t, s, p) ==
  /\ t \in Seq(Byte) /\ Len(t) = Len(s) + p
  /\ \A i \in 1 .. Len(s) : t[i] = s[i]
  /\ \A i \in 1 .. Len(s) + p : i > Len(s) => t[i] = p

(* So Pkcs7 pads. *)
LEMMA Padded ==
  ASSUME NEW bs \in {8, 16}, NEW s \in Seq(Byte)
  PROVE  IsPadded(Pad(s, bs), s, PadLen(Len(s), bs))
PROOF
  <1>1. PICK m \in Nat : m = Len(s)
    BY LenProperties
  <1>2. PICK p \in 1 .. bs : p = PadLen(m, bs) /\ p \in Byte
    BY PadLens
  <1>3. p \in Nat
    OBVIOUS
  <1>4. PICK q : q = [i \in 1 .. p |-> p]
    OBVIOUS
  <1>5. q \in Seq(Byte) /\ Len(q) = p /\ \A i \in 1 .. p : q[i] = p
    BY <1>2, <1>3, <1>4, Repeated
  <1>6. Pad(s, bs) = s \o q
    BY <1>1, <1>2, <1>4 DEF Pad
  <1> HIDE DEF Byte
  <1>7. /\ s \o q \in Seq(Byte) /\ Len(s \o q) = m + p
        /\ \A i \in 1 .. m + p : (s \o q)[i] = IF i <= m THEN s[i] ELSE q[i - m]
    BY <1>1, <1>5, Joined
  <1>8. \A i \in 1 .. m + p : i > m => i - m \in 1 .. p
    BY <1>3
  <1>9. QED
    BY <1>1, <1>2, <1>3, <1>5, <1>6, <1>7, <1>8 DEF IsPadded

(* What was padded is what it was again once it is unpadded. *)
LEMMA UnpadsBack ==
  ASSUME NEW bs \in {8, 16}, NEW s \in Seq(Byte)
  PROVE  Unpad(Pad(s, bs), bs) = {Ok(s)}
PROOF
  <1>1. PICK m \in Nat : m = Len(s)
    BY LenProperties
  <1>2. PICK p \in 1 .. bs : p = PadLen(m, bs)
    BY PadLens
  <1>3. PICK t : t = Pad(s, bs)
    OBVIOUS
  <1>4. /\ t \in Seq(Byte) /\ Len(t) = m + p
        /\ \A i \in 1 .. m : t[i] = s[i]
        /\ \A i \in 1 .. m + p : i > m => t[i] = p
    BY <1>1, <1>2, <1>3, Padded DEF IsPadded
  <1>5. t # << >>
    BY <1>4
  <1>6. t[Len(t)] = p
    BY <1>4
  <1>7. p # Noise
    BY DEF Noise
  <1>8. \A i \in Len(t) - p + 1 .. Len(t) : t[i] = p
    BY <1>4
  <1>9. Len(t) - p = m
    BY <1>4
  <1>10. SubSeq(t, 1, m) = s
    <2>1. m <= Len(t) /\ 1 <= m + 1
      BY <1>4
    <2> HIDE DEF Byte
    <2>2. /\ SubSeq(t, 1, m) \in Seq(Byte) /\ Len(SubSeq(t, 1, m)) = m
          /\ \A i \in 1 .. m : SubSeq(t, 1, m)[i] = t[1 + i - 1]
      BY <1>4, <2>1, Part
    <2>3. \A i \in 1 .. m : SubSeq(t, 1, m)[i] = s[i]
      BY <1>4, <2>2
    <2>4. QED
      BY <1>1, <2>2, <2>3, SeqEqual
  <1>11. QED
    BY <1>3, <1>5, <1>6, <1>7, <1>8, <1>9, <1>10 DEF Unpad
-------------------------------------------------------------------------------
(* The first n bytes of a key or an IV, as a sequence. *)
LEMMA FixedBytes ==
  ASSUME NEW n \in Nat, NEW s \in Seq(Byte)
  PROVE  /\ fixed(n, s) \in Seq(Byte) /\ Len(fixed(n, s)) = n /\ DOMAIN fixed(n, s) = 1 .. n
         /\ \A i \in 1 .. n : fixed(n, s)[i] = ZeroPadded(s, i)
PROOF
  <1>1. PICK m \in Nat : m = Len(s)
    BY LenProperties
  <1>2. \A i \in 1 .. n : (IF i <= m THEN s[i] ELSE 0) \in Byte
    <2> SUFFICES ASSUME NEW i \in 1 .. n PROVE (IF i <= m THEN s[i] ELSE 0) \in Byte
      OBVIOUS
    <2>1. CASE i <= m
      <3>1. i \in 1 .. Len(s)
        BY <1>1, <2>1
      <3> HIDE DEF Byte
      <3>2. QED
        BY <2>1, <3>1, ElementOfSeq
    <2>2. CASE ~(i <= m)
      BY <2>2 DEF Byte
    <2>3. QED
      BY <2>1, <2>2
  <1>3. fixed(n, s) = [i \in 1 .. n |-> IF i <= m THEN s[i] ELSE 0]
    BY <1>1 DEF fixed
  <1>4. fixed(n, s) \in Seq(Byte)
    BY <1>2, <1>3, IsASeq
  <1>5. QED
    BY <1>1, <1>3, <1>4, LenProperties DEF ZeroPadded

(* Two blocks of known bytes are the same if their bytes are. *)
LEMMA SameKnown ==
  ASSUME NEW s \in Seq(Byte), NEW t \in Seq(Byte), Len(s) = Len(t), Known(s) = Known(t)
  PROVE  s = t
PROOF
  <1>1. CASE \A i \in 1 .. Len(s) : s[i] = 0
    <2>1. Known(t) = {}
      BY <1>1 DEF Known
    <2>2. \A i \in 1 .. Len(t) : t[i] = 0
      BY <2>1 DEF Known
    <2>3. QED
      BY <1>1, <2>2, SeqEqual
  <1>2. CASE ~\A i \in 1 .. Len(s) : s[i] = 0
    <2>1. Known(s) = {Bare(s)}
      BY <1>2 DEF Known, Bare
    <2>2. Known(t) = {Bare(t)}
      BY <2>1 DEF Known, Bare
    <2>3. Bare(s) = Bare(t)
      BY <2>1, <2>2
    <2>4. QED
      BY <2>3, Terms
  <1>3. QED
    BY <1>1, <1>2

(* IVs that mean the same are the same block. *)
LEMMA IvBlocks ==
  ASSUME NEW alg, NEW v \in Seq(Byte), NEW w \in Seq(Byte)
  PROVE  Known(fixed(BlockSize(alg), v)) = Known(fixed(BlockSize(alg), w)) <=>
           \A i \in 1 .. BlockSize(alg) : ZeroPadded(v, i) = ZeroPadded(w, i)
PROOF
  <1>1. PICK n \in Nat : n = BlockSize(alg)
    BY BlockSizes
  <1>2. PICK f \in Seq(Byte) : /\ f = fixed(n, v) /\ Len(f) = n
                               /\ \A i \in 1 .. n : f[i] = ZeroPadded(v, i)
    BY FixedBytes
  <1>3. PICK g \in Seq(Byte) : /\ g = fixed(n, w) /\ Len(g) = n
                               /\ \A i \in 1 .. n : g[i] = ZeroPadded(w, i)
    BY FixedBytes
  <1>4. Known(f) = Known(g) => f = g
    BY <1>2, <1>3, SameKnown
  <1>5. (\A i \in 1 .. n : f[i] = g[i]) => f = g
    BY <1>2, <1>3, SeqEqual
  <1>6. f = g => \A i \in 1 .. n : f[i] = g[i]
    OBVIOUS
  <1>7. (\A i \in 1 .. n : f[i] = g[i]) <=> \A i \in 1 .. n : ZeroPadded(v, i) = ZeroPadded(w, i)
    BY <1>2, <1>3
  <1>8. Known(f) = Known(g) <=> \A i \in 1 .. n : ZeroPadded(v, i) = ZeroPadded(w, i)
    BY <1>4, <1>5, <1>6, <1>7
  <1>9. QED
    BY <1>1, <1>2, <1>3, <1>8

(* Keys that mean the same AES cipher, and no others, set up the same one. *)
LEMMA AesKeys ==
  ASSUME NEW v \in Seq(Byte), NEW w \in Seq(Byte), Len(v) <= 32, Len(w) <= 32
  PROVE  CipherKey("aes", v) = CipherKey("aes", w) <=> SameKey("aes", v, w)
PROOF
  <1>1. PICK m \in Nat : m = Len(v)
    BY LenProperties
  <1>2. PICK n \in Nat : n = Len(w)
    BY LenProperties
  <1>3. PICK a \in {16, 24, 32} : a = AesTier(m)
    BY DEF AesTier
  <1>4. PICK b \in {16, 24, 32} : b = AesTier(n)
    BY DEF AesTier
  <1>5. m <= a /\ n <= b
    BY <1>1, <1>2, <1>3, <1>4 DEF AesTier
  <1>6. a = b <=> \A x \in {16, 24, 32} : m <= x <=> n <= x
    BY <1>1, <1>2, <1>3, <1>4 DEF AesTier
  <1>7. a \in Nat /\ b \in Nat
    OBVIOUS
  <1>8. PICK f \in Seq(Byte) : /\ f = fixed(a, v) /\ Len(f) = a
                               /\ \A i \in 1 .. a : f[i] = ZeroPadded(v, i)
    BY <1>7, FixedBytes
  <1>9. PICK g \in Seq(Byte) : /\ g = fixed(b, w) /\ Len(g) = b
                               /\ \A i \in 1 .. b : g[i] = ZeroPadded(w, i)
    BY <1>7, FixedBytes
  <1>10. CipherKey("aes", v) = f /\ CipherKey("aes", w) = g
    BY <1>1, <1>2, <1>3, <1>4, <1>8, <1>9 DEF CipherKey
  <1>11. SameKey("aes", v, w) <=>
           a = b /\ \A i \in 1 .. 32 : ZeroPadded(v, i) = ZeroPadded(w, i)
    BY <1>1, <1>2, <1>6 DEF SameKey
  <1>12. ASSUME a = b, \A i \in 1 .. 32 : ZeroPadded(v, i) = ZeroPadded(w, i) PROVE f = g
    <2>1. \A i \in 1 .. a : i \in 1 .. 32
      OBVIOUS
    <2>2. ASSUME NEW i \in 1 .. a PROVE f[i] = g[i]
      <3>1. f[i] = ZeroPadded(v, i) /\ ZeroPadded(v, i) = ZeroPadded(w, i)
        BY <1>8, <1>12, <2>1
      <3>2. g[i] = ZeroPadded(w, i)
        BY <1>9, <1>12
      <3>3. QED
        BY <3>1, <3>2
    <2>3. QED
      BY <1>8, <1>9, <1>12, <2>2, SeqEqual
  <1>13. ASSUME f = g PROVE a = b /\ \A i \in 1 .. 32 : ZeroPadded(v, i) = ZeroPadded(w, i)
    <2>1. a = b
      BY <1>8, <1>9, <1>13
    <2>2. ASSUME NEW i \in 1 .. 32 PROVE ZeroPadded(v, i) = ZeroPadded(w, i)
      <3>1. CASE i <= a
        BY <1>8, <1>9, <1>13, <2>1, <3>1
      <3>2. CASE ~(i <= a)
        <4>1. ~(i <= m) /\ ~(i <= n)
          BY <1>5, <2>1, <3>2
        <4>2. QED
          BY <1>1, <1>2, <4>1 DEF ZeroPadded
      <3>3. QED
        BY <3>1, <3>2
    <2>3. QED
      BY <2>1, <2>2
  <1>14. QED
    BY <1>10, <1>11, <1>12, <1>13

(* The length of the bytes of a key that blowfish_key uses. *)
Used(key) == IF Len(key) <= 56 THEN Len(key) ELSE 56

(* A key folded repeats with the period of the bytes used. *)
LEMMA Folded ==
  ASSUME NEW n \in 1 .. 56, NEW m \in Nat
  PROVE  /\ FoldedLen(n) \in Nat /\ FoldedLen(n) >= n
         /\ m % FoldedLen(n) \in 0 .. FoldedLen(n) - 1
         /\ (m % FoldedLen(n)) % n = m % n
         /\ m % n \in 0 .. n - 1
PROOF
  <1>1. CASE n = 1
    <2>1. FoldedLen(n) = 4
      BY <1>1 DEF FoldedLen
    <2>2. QED
      BY <1>1, <2>1
  <1>2. CASE n = 2
    <2>1. FoldedLen(n) = 4
      BY <1>2 DEF FoldedLen
    <2>2. QED
      BY <1>2, <2>1
  <1>3. CASE n = 3
    <2>1. FoldedLen(n) = 6
      BY <1>3 DEF FoldedLen
    <2>2. QED
      BY <1>3, <2>1
  <1>4. CASE n >= 4
    <2>1. FoldedLen(n) = n
      BY <1>4 DEF FoldedLen
    <2>2. PICK r \in 0 .. n - 1 : r = m % n
      OBVIOUS
    <2>3. r % n = r
      OBVIOUS
    <2>4. QED
      BY <2>1, <2>2, <2>3
  <1>5. QED
    BY <1>1, <1>2, <1>3, <1>4

(* What Blowfish reads of a key: the bytes used, over and over. *)
LEMMA BlowfishStream ==
  ASSUME NEW key \in Seq(Byte), key # << >>
  PROVE  /\ blowfish_key(key) # << >>
         /\ CipherKey("bf", key) = [i \in 1 .. 72 |-> key[((i - 1) % Used(key)) + 1]]
PROOF
  <1>1. PICK n \in 1 .. 56 : n = Used(key)
    <2>1. PICK m \in Nat : m = Len(key)
      BY LenProperties
    <2>2. m # 0
      BY <2>1, EmptySeq
    <2>3. (IF m <= 56 THEN m ELSE 56) \in 1 .. 56
      BY <2>2
    <2>4. QED
      BY <2>1, <2>3 DEF Used
  <1>2. PICK f \in Nat : f = FoldedLen(n) /\ f >= n
    BY Folded
  <1>3. PICK k : k = blowfish_key(key)
    OBVIOUS
  <1>4. k = [i \in 1 .. f |-> key[((i - 1) % n) + 1]]
    BY <1>1, <1>2, <1>3 DEF blowfish_key, Used
  <1>5. \A i \in 1 .. f : key[((i - 1) % n) + 1] \in Byte
    <2> SUFFICES ASSUME NEW i \in 1 .. f PROVE key[((i - 1) % n) + 1] \in Byte
      OBVIOUS
    <2>1. i - 1 \in Nat
      BY <1>2
    <2>2. PICK r \in 0 .. n - 1 : r = (i - 1) % n
      BY <2>1, Folded
    <2>3. n <= Len(key) /\ Len(key) \in Nat
      BY <1>1, LenProperties DEF Used
    <2>4. r + 1 \in 1 .. Len(key)
      BY <2>2, <2>3
    <2> HIDE DEF Byte
    <2>5. QED
      BY <2>2, <2>4, ElementOfSeq
  <1>6. k \in Seq(Byte)
    BY <1>4, <1>5, IsASeq
  <1>7. Len(k) = f
    BY <1>2, <1>4, <1>6, LenProperties
  <1>8. ASSUME NEW i \in 1 .. 72
        PROVE  k[((i - 1) % f) + 1] = key[((i - 1) % n) + 1]
    <2>1. PICK m \in Nat : m = i - 1
      OBVIOUS
    <2>2. PICK r \in 0 .. f - 1 : r = m % f /\ r % n = m % n
      BY <1>2, Folded
    <2>3. r + 1 \in 1 .. f /\ (r + 1) - 1 = r
      BY <1>2, <2>2
    <2>4. k[r + 1] = key[(((r + 1) - 1) % n) + 1]
      BY <1>4, <2>3
    <2>5. QED
      BY <2>1, <2>2, <2>3, <2>4
  <1>9. k # << >>
    BY <1>2, <1>7, EmptySeq
  <1>10. CipherKey("bf", key) = [i \in 1 .. 72 |-> k[((i - 1) % f) + 1]]
    BY <1>3, <1>7 DEF CipherKey, Stream
  <1>11. QED
    BY <1>1, <1>3, <1>8, <1>9, <1>10

(* Keys that mean the same Blowfish cipher, and no others, set up the same. *)
LEMMA BlowfishKeys ==
  ASSUME NEW v \in Seq(Byte), NEW w \in Seq(Byte), v # << >>, w # << >>
  PROVE  CipherKey("bf", v) = CipherKey("bf", w) <=> SameKey("bf", v, w)
PROOF
  <1> DEFINE a(i) == v[((i - 1) % Used(v)) + 1]
             b(i) == w[((i - 1) % Used(w)) + 1]
  <1>1. CipherKey("bf", v) = [i \in 1 .. 72 |-> a(i)]
    BY BlowfishStream
  <1>2. CipherKey("bf", w) = [i \in 1 .. 72 |-> b(i)]
    BY BlowfishStream
  <1>3. SameKey("bf", v, w) <=> \A i \in 1 .. 72 : a(i) = b(i)
    BY DEF SameKey, Used
  <1> HIDE DEF a, b
  <1>4. [i \in 1 .. 72 |-> a(i)] = [i \in 1 .. 72 |-> b(i)] <=> \A i \in 1 .. 72 : a(i) = b(i)
    OBVIOUS
  <1>5. QED
    BY <1>1, <1>2, <1>3, <1>4

(* The empty key fits no Blowfish. *)
LEMMA NoBlowfishKey == blowfish_key(<< >>) = << >>
  BY EmptySeq DEF blowfish_key, FoldedLen

Alg == {"aes", "bf"}

(* So for keys that fit, SameKey is what the cipher sees. *)
LEMMA SameCipherKey ==
  ASSUME NEW alg \in Alg, NEW v \in Seq(Byte), NEW w \in Seq(Byte),
         KeyFits(alg, v), KeyFits(alg, w)
  PROVE  CipherKey(alg, v) = CipherKey(alg, w) <=> SameKey(alg, v, w)
PROOF
  <1>1. CASE alg = "aes"
    BY <1>1, AesKeys DEF KeyFits
  <1>2. CASE alg = "bf"
    <2>1. v # << >> /\ w # << >>
      BY <1>2, NoBlowfishKey DEF KeyFits
    <2>2. QED
      BY <1>2, <2>1, BlowfishKeys
  <1>3. QED
    BY <1>1, <1>2 DEF Alg
-------------------------------------------------------------------------------
Type == [alg : Alg, mode : {"cbc", "cfb", "ecb"}, padding : {"pkcs", "none"}]

(* The types that parse. *)
LEMMA Types ==
  ASSUME NEW x, parse_type(x) # Refused
  PROVE  parse_type(x) \in Type
  BY DEF parse_type, Type, Alg, Base

(* What the cipher is given of the data. *)
Body(d, t) == IF t.mode # "cfb" /\ t.padding = "pkcs" THEN Pad(d, BlockSize(t.alg)) ELSE d

(* What is encrypted, padded or not, is bytes. *)
LEMMA BodyBytes ==
  ASSUME NEW t \in Type, NEW d \in Seq(Byte)
  PROVE  Body(d, t) \in Seq(Byte)
  BY BlockSizes, Padded DEF Body, IsPadded

(* The parts of a ciphertext. *)
LEMMA EncryptedParts ==
  ASSUME NEW t, NEW d, NEW key, NEW iv
  PROVE  LET c == Encrypted(d, key, iv, t) IN
         /\ c.alg = t.alg /\ c.len = Len(Body(d, t))
         /\ c.blocks = EncryptBlocks(t.mode, BlockSize(t.alg), CipherKey(t.alg, key),
                                     Known(fixed(BlockSize(t.alg), iv)), Body(d, t))
  BY DEF Encrypted, Body

(* The ciphertext is whole blocks in the modes that need it. *)
LEMMA WholeBlocks ==
  ASSUME NEW t \in Type, NEW d \in Seq(Byte), Aligned(t, Len(d)), t.mode # "cfb"
  PROVE  Len(Body(d, t)) % BlockSize(t.alg) = 0
PROOF
  <1>1. PICK bs \in {8, 16} : bs = BlockSize(t.alg)
    BY BlockSizes
  <1>2. CASE t.padding = "pkcs"
    <2>1. PICK n \in Nat : n = Len(d)
      BY LenProperties
    <2>2. (n + PadLen(n, bs)) % bs = 0
      BY PadLens
    <2>3. Body(d, t) = Pad(d, bs)
      BY <1>1, <1>2 DEF Body
    <2>4. Len(Pad(d, bs)) = n + PadLen(n, bs)
      BY <2>1, Padded DEF IsPadded
    <2>5. QED
      BY <1>1, <2>2, <2>3, <2>4
  <1>3. CASE t.padding # "pkcs"
    BY <1>3 DEF Aligned, Body
  <1>4. QED
    BY <1>2, <1>3

(* decrypt undoes encrypt for arguments that mean the same. *)
LEMMA DecryptUndoes ==
  ASSUME NEW t \in Type, NEW u \in Type, u.alg = t.alg, u.mode = t.mode,
         u.mode # "cfb" => u.padding = t.padding,
         NEW d \in Seq(Byte), NEW key \in Seq(Byte), NEW other \in Seq(Byte),
         KeyFits(t.alg, key), KeyFits(t.alg, other), SameKey(t.alg, other, key),
         NEW iv \in Seq(Byte), NEW later \in Seq(Byte), SameIv(t.alg, t.mode, later, iv),
         Aligned(t, Len(d))
  PROVE  Decrypted(Encrypted(d, key, iv, t), other, later, u) = {Ok(d)}
PROOF
  <1>1. PICK bs \in {8, 16} : bs = BlockSize(t.alg)
    BY BlockSizes
  <1>2. PICK s \in Seq(Byte) : s = Body(d, t)
    BY BodyBytes
  <1>3. PICK c : c = Encrypted(d, key, iv, t)
    OBVIOUS
  <1>4. t.alg \in Alg
    BY DEF Type
  <1>5. PICK k : k = CipherKey(t.alg, key) /\ k = CipherKey(t.alg, other)
    BY <1>4, SameCipherKey
  <1>6. PICK v : v = Known(fixed(bs, iv))
    OBVIOUS
  <1>7. PICK w : w = Known(fixed(bs, later))
    OBVIOUS
  <1>8. t.mode = "ecb" \/ w = v
    BY <1>1, <1>6, <1>7, IvBlocks DEF SameIv
  <1>9. c.alg = t.alg /\ c.len = Len(s) /\ c.blocks = EncryptBlocks(t.mode, bs, k, v, s)
    <2>1. /\ c.alg = t.alg /\ c.len = Len(Body(d, t))
          /\ c.blocks = EncryptBlocks(t.mode, BlockSize(t.alg), CipherKey(t.alg, key),
                                      Known(fixed(BlockSize(t.alg), iv)), Body(d, t))
      BY <1>3, EncryptedParts
    <2>2. QED
      BY <1>1, <1>2, <1>5, <1>6, <2>1
  <1>10. DecryptBytes(t.alg, t.mode, k, w, c) = s
    BY <1>1, <1>8, <1>9, DecryptsBack
  <1>11. Decrypted(c, other, later, u) = IF t.mode = "cfb" THEN {Ok(s)}
                                         ELSE IF Len(s) % bs # 0 THEN {Error}
                                         ELSE IF t.padding = "pkcs" THEN Unpad(s, bs)
                                         ELSE {Ok(s)}
    BY <1>1, <1>5, <1>7, <1>9, <1>10 DEF Decrypted
  <1>12. CASE t.mode = "cfb"
    BY <1>2, <1>3, <1>11, <1>12 DEF Body
  <1>13. CASE t.mode # "cfb"
    <2>1. Len(s) % bs = 0
      BY <1>1, <1>2, <1>13, WholeBlocks
    <2>2. CASE t.padding = "pkcs"
      <3>1. s = Pad(d, bs)
        BY <1>1, <1>2, <1>13, <2>2 DEF Body
      <3>2. Unpad(s, bs) = {Ok(d)}
        BY <3>1, UnpadsBack
      <3>3. QED
        BY <1>3, <1>11, <1>13, <2>1, <2>2, <3>2
    <2>3. CASE t.padding # "pkcs"
      BY <1>2, <1>3, <1>11, <1>13, <2>1, <2>3 DEF Body
    <2>4. QED
      BY <2>2, <2>3
  <1>14. QED
    BY <1>12, <1>13
-------------------------------------------------------------------------------
(* A block of bytes is its bytes, unless they are all zero. *)
LEMMA KnownPlain ==
  ASSUME NEW s, NEW a \in Known(s)
  PROVE  a = Bare(s) /\ "bytes" \in DOMAIN a /\ Known(s) = {a}
PROOF
  <1>1. Known(s) = {Bare(s)}
    BY DEF Known, Bare
  <1>2. QED
    BY <1>1, Terms

(* A block has a term of the key it was encrypted under. *)
LEMMA Marked ==
  ASSUME NEW mode, NEW k, NEW x, NEW prev
  PROVE  \E e : Encd(k, e) \in EncryptBlock(mode, k, Known(x), prev)
PROOF
  <1>1. \A e : Encd(k, e) \in Enc(k, e)
    BY DEF Enc, Encd
  <1>2. \A e : Encd(k, e) \notin Known(x)
    BY Terms, KnownPlain
  <1>3. \A e : Encd(k, e) \in Xor(Known(x), Enc(k, e))
    BY <1>1, <1>2 DEF Xor
  <1>4. QED
    BY <1>1, <1>3 DEF EncryptBlock

(* Nothing is known of a block that is decrypted under another key, in any mode. *)
LEMMA WrongKey ==
  ASSUME NEW k, NEW other, other # k, NEW mode, NEW late, NEW x, NEW prev, NEW y, NEW j
  PROVE  ByteOf(DecryptBlock(late, other, EncryptBlock(mode, k, Known(x), prev), Known(y)), j)
           = Noise
PROOF
  <1>1. PICK b : b = EncryptBlock(mode, k, Known(x), prev)
    OBVIOUS
  <1>2. PICK e : Encd(k, e) \in b
    BY <1>1, Marked
  <1>3. \A f : Encd(other, f) # Encd(k, e)
    BY Terms
  <1>4. \A f : Enc(other, f) = {Encd(other, f)}
    BY DEF Enc, Encd
  <1>5. \A f : b # Enc(other, f)
    BY <1>2, <1>3, <1>4
  <1>6. Dec(other, b) = {Decd(other, b)}
    BY <1>5, DecOther
  <1>7. Decd(other, b) \notin Known(y)
    BY Terms, KnownPlain
  <1>8. Decd(other, b) \in Xor(Dec(other, b), Known(y))
    BY <1>6, <1>7 DEF Xor
  <1>9. Encd(k, e) \in Xor(b, Enc(other, Known(y)))
    BY <1>2, <1>3, <1>4 DEF Xor
  <1>10. \E a \in DecryptBlock(late, other, b, Known(y)) : "bytes" \notin DOMAIN a
    BY <1>6, <1>8, <1>9, Terms DEF DecryptBlock
  <1>11. QED
    BY <1>1, <1>10, UnknownText

(* Nor of one that cfb decrypts behind another IV. *)
LEMMA WrongCfbIv ==
  ASSUME NEW k, NEW x, NEW prev, NEW other, prev # other, NEW j
  PROVE  ByteOf(DecryptBlock("cfb", k, EncryptBlock("cfb", k, Known(x), prev), other), j) = Noise
PROOF
  <1>1. Encd(k, prev) \notin Known(x)
    BY Terms, KnownPlain
  <1>2. Encd(k, prev) # Encd(k, other)
    BY Terms
  <1>3. \A f : Enc(k, f) = {Encd(k, f)}
    BY DEF Enc, Encd
  <1>4. Encd(k, prev) \in Xor(Xor(Known(x), Enc(k, prev)), Enc(k, other))
    BY <1>1, <1>2, <1>3 DEF Xor
  <1>5. DecryptBlock("cfb", k, EncryptBlock("cfb", k, Known(x), prev), other)
          = Xor(Xor(Known(x), Enc(k, prev)), Enc(k, other))
    BY DEF DecryptBlock, EncryptBlock
  <1>6. "bytes" \notin DOMAIN Encd(k, prev)
    BY Terms
  <1>7. QED
    BY <1>4, <1>5, <1>6, UnknownText

(* The bytes of a block that has a byte that is known. *)
LEMMA OneKnown ==
  ASSUME NEW x, NEW i, ByteOf(x, i) # Noise
  PROVE  \/ x = {} /\ \A j : ByteOf(x, j) = 0
         \/ \E a \in x : x = {a} /\ \A j : ByteOf(x, j) = a.bytes[j]
PROOF
  <1>1. CASE x = {}
    BY <1>1 DEF ByteOf
  <1>2. CASE x # {}
    <2>1. PICK a \in x : x = {a} /\ "bytes" \in DOMAIN a
      BY <1>2 DEF ByteOf
    <2>2. (CHOOSE b \in x : TRUE) = a
      BY <2>1, OnlyElement
    <2>3. \A j : ByteOf(x, j) = a.bytes[j]
      BY <1>2, <2>1, <2>2 DEF ByteOf
    <2>4. QED
      BY <2>1, <2>3
  <1>3. QED
    BY <1>1, <1>2

(* The block cbc decrypts behind the IV y of one it encrypted behind z. *)
Mixed(x, y, z) == Xor(Xor(Known(x), Known(y)), Known(z))

(* A block of n known bytes. *)
IsKnown(x, n) ==
  \/ x = {} /\ \A j : ByteOf(x, j) = 0
  \/ \E w \in Seq(Byte) : Len(w) = n /\ x = Known(w) /\ \A j : ByteOf(x, j) = w[j]

(* Such a block has known bytes everywhere or nowhere. *)
LEMMA MixedBytes ==
  ASSUME NEW n \in Nat, NEW x \in Seq(Byte), NEW y \in Seq(Byte), NEW z \in Seq(Byte),
         Len(x) = n, Len(y) = n, Len(z) = n, NEW i, ByteOf(Mixed(x, y, z), i) # Noise
  PROVE  IsKnown(Mixed(x, y, z), n)
PROOF
  <1> USE DEF IsKnown
  <1>1. PICK m : m = Mixed(x, y, z)
    OBVIOUS
  <1>2. SUFFICES ASSUME NEW a \in m, m = {a}, \A j : ByteOf(m, j) = a.bytes[j]
                 PROVE  \E w \in Seq(Byte) : /\ Len(w) = n /\ m = Known(w)
                                             /\ \A j : ByteOf(m, j) = w[j]
    BY <1>1, OneKnown
  <1>3. a \in Known(x) \/ a \in Known(y) \/ a \in Known(z)
    BY <1>1 DEF Mixed, Xor
  <1>4. PICK w \in {x, y, z} : a \in Known(w)
    BY <1>3
  <1>5. a = Bare(w) /\ Known(w) = {a}
    BY <1>4, KnownPlain
  <1>6. a.bytes = w
    BY <1>5, Terms
  <1>7. QED
    BY <1>2, <1>5, <1>6

(* A byte that comes out of a wrong key is no byte of the data. *)
LEMMA NoNoise ==
  ASSUME NEW b \in Byte
  PROVE  b # Noise
  BY DEF Byte, Noise

(* It has the n bytes that were encrypted. *)
Unmixed(x, y, z, n) == \A j \in 1 .. n : ByteOf(Mixed(x, y, z), j) = x[j]

(* If so, the IVs are the same. *)
LEMMA WrongCbcIv ==
  ASSUME NEW n \in Nat, n > 0, NEW x \in Seq(Byte), NEW y \in Seq(Byte), NEW z \in Seq(Byte),
         Len(x) = n, Len(y) = n, Len(z) = n, Unmixed(x, y, z, n)
  PROVE  Known(y) = Known(z)
PROOF
  <1>1. \A j \in 1 .. n : ByteOf(Mixed(x, y, z), j) = x[j]
    BY DEF Unmixed
  <1>2. x[1] \in Byte
    BY ElementOfSeq
  <1>3. ByteOf(Mixed(x, y, z), 1) # Noise
    <2>1. ByteOf(Mixed(x, y, z), 1) = x[1]
      BY <1>1
    <2>2. x[1] # Noise
      BY <1>2, NoNoise
    <2>3. QED
      BY <2>1, <2>2
  <1>4. CASE Mixed(x, y, z) = {} /\ \A j : ByteOf(Mixed(x, y, z), j) = 0
    <2>1. Known(x) = {}
      BY <1>1, <1>4 DEF Known
    <2>2. QED
      BY <1>4, <2>1 DEF Mixed, Xor
  <1>5. ASSUME NEW w \in Seq(Byte), Len(w) = n, Mixed(x, y, z) = Known(w),
               \A j : ByteOf(Mixed(x, y, z), j) = w[j]
        PROVE  Known(y) = Known(z)
    <2>1. w = x
      BY <1>1, <1>5, SeqEqual
    <2>2. Xor(Xor(Known(x), Known(y)), Known(z)) = Known(x)
      BY <1>5, <2>1 DEF Mixed
    <2>3. QED
      BY <2>2 DEF Xor
  <1>6. QED
    <2>1. IsKnown(Mixed(x, y, z), n)
      BY <1>3, MixedBytes
    <2>2. QED
      BY <1>4, <1>5, <2>1 DEF IsKnown

(* d is what is left of the m bytes of z without a padding of p bytes, if any. *)
CutTo(z, m, d, p) ==
  /\ Len(d) = m - p /\ \A i \in 1 .. m - p : d[i] = z[i]
  /\ p # 0 => z[m] = Noise \/ \A i \in m - p + 1 .. m : z[i] = p

(* So Unpad cuts. *)
LEMMA UnpadCuts ==
  ASSUME NEW bs \in {8, 16}, NEW S, NEW z \in Seq(S), NEW m \in Nat, Len(z) = m, m > 0,
         m % bs = 0, NEW d, Ok(d) \in Unpad(z, bs)
  PROVE  \E p \in 1 .. bs : CutTo(z, m, d, p)
PROOF
  <1>1. m >= bs
    BY AtLeastOne
  <1>2. \A e : Ok(d) = Ok(e) => d = e
    BY DEF Ok
  <1>3. Ok(d) # Error
    BY DEF Ok, Error
  <1>4. PICK p \in 1 .. bs : /\ d = SubSeq(z, 1, m - p)
                             /\ z[m] = Noise \/ \A i \in m - p + 1 .. m : z[i] = p
    <2> HIDE DEF Ok, Error
    <2>1. CASE z[m] = Noise
      BY <1>2, <1>3, <2>1 DEF Unpad
    <2>2. CASE z[m] # Noise
      <3>1. z[m] \in 1 .. bs /\ (\A i \in m - z[m] + 1 .. m : z[i] = z[m])
              /\ Ok(d) = Ok(SubSeq(z, 1, m - z[m]))
        BY <1>3, <2>2 DEF Unpad
      <3>2. QED
        BY <1>2, <3>1
    <2>3. QED
      BY <2>1, <2>2
  <1>5. 1 <= (m - p) + 1 /\ m - p <= Len(z) /\ m - p \in Int
    BY <1>1
  <1>6. /\ Len(SubSeq(z, 1, m - p)) = (m - p) - 1 + 1
        /\ \A i \in 1 .. (m - p) - 1 + 1 : SubSeq(z, 1, m - p)[i] = z[1 + i - 1]
    BY <1>5, Part
  <1>7. (m - p) - 1 + 1 = m - p /\ \A i \in 1 .. m - p : 1 + i - 1 = i
    OBVIOUS
  <1>8. Len(d) = m - p /\ \A i \in 1 .. m - p : d[i] = z[i]
    BY <1>4, <1>6, <1>7
  <1>9. QED
    BY <1>4, <1>8 DEF CutTo

(* The bytes of the plaintext, known or not, are a sequence. *)
LEMMA DecryptedSeq ==
  ASSUME NEW alg, NEW mode, NEW k, NEW iv, NEW c, c.len \in Nat
  PROVE  LET z == DecryptBytes(alg, mode, k, iv, c) IN
         Len(z) = c.len /\ \E S : z \in Seq(S)
PROOF
  <1>1. PICK z : z = DecryptBytes(alg, mode, k, iv, c)
    OBVIOUS
  <1>2. PICK n \in Nat : n = c.len
    OBVIOUS
  <1>3. z = [i \in 1 .. n |-> z[i]]
    BY <1>1, <1>2 DEF DecryptBytes
  <1>4. PICK S : S = {z[i] : i \in 1 .. n}
    OBVIOUS
  <1>5. \A i \in 1 .. n : z[i] \in S
    BY <1>4
  <1>6. [i \in 1 .. n |-> z[i]] \in Seq(S)
    BY <1>5, IsASeq
  <1>7. z \in Seq(S)
    BY <1>3, <1>6
  <1>8. DOMAIN z = 1 .. n
    BY <1>3
  <1>9. Len(z) = n
    BY <1>7, <1>8, LenProperties
  <1>10. QED
    BY <1>1, <1>2, <1>7, <1>9

(* The first block: what its bytes are decrypted from. *)
FirstByte(alg, mode, k, iv, c, j) ==
  IF c.alg # alg THEN Noise ELSE ByteOf(DecryptBlock(mode, k, c.blocks[1], iv), j)

(* The first block is decrypted with the IV before it. *)
LEMMA FirstBlock ==
  ASSUME NEW alg, NEW mode, NEW k, NEW iv, NEW c, NEW j \in Nat,
         j \in 1 .. BlockSize(alg), j \in 1 .. c.len
  PROVE  DecryptBytes(alg, mode, k, iv, c)[j] = FirstByte(alg, mode, k, iv, c, j)
PROOF
  <1> PICK bs \in {8, 16} : bs = BlockSize(alg)
    BY BlockSizes
  <1>1. (j - 1) \div bs = 0 /\ (j - 1) % bs = j - 1
    <2>1. CASE bs = 8
      BY <2>1
    <2>2. CASE bs = 16
      BY <2>2
    <2>3. QED
      BY <2>1, <2>2
  <1>2. ((j - 1) \div bs) + 1 = 1 /\ ((j - 1) % bs) + 1 = j
    BY <1>1
  <1>3. QED
    BY <1>2 DEF DecryptBytes, FirstByte

(* The data is what is left of what was decrypted. *)
LEMMA DecryptedCut ==
  ASSUME NEW u \in Type, NEW c, NEW m \in Nat, c.len = m, m > 0, NEW other, NEW later, NEW d,
         Ok(d) \in Decrypted(c, other, later, u),
         NEW z, z = DecryptBytes(u.alg, u.mode, CipherKey(u.alg, other),
                                 Known(fixed(BlockSize(u.alg), later)), c)
  PROVE  \E p \in 0 .. BlockSize(u.alg) : CutTo(z, m, d, p)
PROOF
  <1>1. PICK bs \in {8, 16} : bs = BlockSize(u.alg)
    BY BlockSizes
  <1>2. Len(z) = m /\ \E S : z \in Seq(S)
    BY DecryptedSeq
  <1>3. Ok(d) # Error /\ (Ok(d) = Ok(z) => d = z)
    BY DEF Ok, Error
  <1>4. Decrypted(c, other, later, u) = IF u.mode = "cfb" THEN {Ok(z)}
                                        ELSE IF m % bs # 0 THEN {Error}
                                        ELSE IF u.padding = "pkcs" THEN Unpad(z, bs)
                                        ELSE {Ok(z)}
    BY <1>1 DEF Decrypted
  <1>5. CASE d = z
    <2>1. CutTo(z, m, d, 0)
      BY <1>2, <1>5 DEF CutTo
    <2>2. QED
      BY <1>1, <2>1
  <1>6. CASE d # z
    <2>1. m % bs = 0 /\ Ok(d) \in Unpad(z, bs)
      BY <1>3, <1>4, <1>6
    <2>2. \E p \in 1 .. bs : CutTo(z, m, d, p)
      BY <1>2, <2>1, UnpadCuts
    <2>3. QED
      BY <1>1, <2>2
  <1>7. QED
    BY <1>5, <1>6

(* The data is at the front of what the cipher is given. *)
LEMMA BodyFront ==
  ASSUME NEW t \in Type, NEW d \in Seq(Byte)
  PROVE  Len(Body(d, t)) >= Len(d) /\ \A i \in 1 .. Len(d) : Body(d, t)[i] = d[i]
PROOF
  <1>1. PICK n \in Nat : n = Len(d)
    BY LenProperties
  <1>2. CASE Body(d, t) = d
    BY <1>1, <1>2
  <1>3. CASE Body(d, t) # d
    <2>1. PICK bs \in {8, 16} : bs = BlockSize(t.alg)
      BY BlockSizes
    <2>2. Body(d, t) = Pad(d, bs)
      BY <1>3, <2>1 DEF Body
    <2>3. IsPadded(Pad(d, bs), d, PadLen(n, bs))
      BY <1>1, Padded
    <2>4. PadLen(n, bs) \in 1 .. bs
      BY PadLens
    <2>5. QED
      BY <1>1, <2>2, <2>3, <2>4 DEF IsPadded
  <1>4. QED
    BY <1>2, <1>3

(* The first block of whole blocks. *)
LEMMA FirstBytes ==
  ASSUME NEW bs \in {8, 16}, NEW s \in Seq(Byte), Len(s) >= bs
  PROVE  /\ Block(s, bs, 1) \in Seq(Byte) /\ Len(Block(s, bs, 1)) = bs
         /\ \A j \in 1 .. bs : Block(s, bs, 1)[j] = s[j]
PROOF
  <1>1. Block(s, bs, 1) = SubSeq(s, 1, bs)
    <2>1. (1 - 1) * bs + 1 = 1 /\ 1 * bs = bs
      OBVIOUS
    <2>2. QED
      BY <2>1 DEF Block
  <1> HIDE DEF Byte
  <1>2. /\ SubSeq(s, 1, bs) \in Seq(Byte) /\ Len(SubSeq(s, 1, bs)) = bs - 1 + 1
        /\ \A i \in 1 .. bs - 1 + 1 : SubSeq(s, 1, bs)[i] = s[1 + i - 1]
    BY Part
  <1>3. bs - 1 + 1 = bs /\ \A i \in 1 .. bs : 1 + i - 1 = i
    OBVIOUS
  <1>4. QED
    BY <1>1, <1>2, <1>3

(* The padding of less than a block is the rest of the block. *)
LEMMA ShortPad ==
  ASSUME NEW bs \in {8, 16}, NEW n \in Nat, n < bs
  PROVE  PadLen(n, bs) = bs - n
PROOF
  <1>1. CASE bs = 8
    BY <1>1 DEF PadLen
  <1>2. CASE bs = 16
    BY <1>2 DEF PadLen
  <1>3. QED
    BY <1>1, <1>2

Clear(z, bs) == \A j \in 1 .. bs : z[j] # Noise
StartsAlike(z, s, bs) == \A j \in 1 .. bs : z[j] = s[j]

(* If the data is left of blocks of which the first is known, the first has *)
(* the bytes that were encrypted.                                           *)
LEMMA FirstMatches ==
  ASSUME NEW t \in Type, NEW d \in Seq(Byte), d # << >>, Aligned(t, Len(d)), t.mode # "cfb",
         NEW bs \in {8, 16}, bs = BlockSize(t.alg), NEW s \in Seq(Byte), s = Body(d, t),
         NEW m \in Nat, m = Len(s), NEW z, NEW p \in 0 .. bs, CutTo(z, m, d, p), Clear(z, bs)
  PROVE  StartsAlike(z, s, bs)
PROOF
  <1> USE DEF Clear, StartsAlike
  <1>1. PICK n \in Nat : n = Len(d) /\ n > 0
    <2>1. Len(d) \in Nat /\ Len(d) # 0
      BY LenProperties, EmptySeq
    <2>2. QED
      BY <2>1
  <1>2. m >= n /\ \A i \in 1 .. n : s[i] = d[i]
    BY <1>1, BodyFront
  <1>3. m % bs = 0
    BY WholeBlocks
  <1>4. m >= bs
    BY <1>1, <1>2, <1>3, AtLeastOne
  <1>5. n = m - p /\ \A i \in 1 .. n : d[i] = z[i]
    BY <1>1 DEF CutTo
  <1>6. ASSUME NEW j \in 1 .. bs, j > n PROVE z[j] = s[j]
    <2>1. s # d
      BY <1>1, <1>4, <1>6
    <2>2. s = Pad(d, bs)
      BY <2>1 DEF Body
    <2>3. IsPadded(s, d, PadLen(n, bs))
      BY <1>1, <2>2, Padded
    <2>4. PadLen(n, bs) = bs - n
      <3>1. n < bs
        BY <1>1, <1>6
      <3>2. QED
        BY <3>1, ShortPad
    <2>5. m = bs /\ s[j] = bs - n
      BY <1>1, <1>6, <2>3, <2>4 DEF IsPadded
    <2>6. p = bs - n /\ p # 0
      <3> HIDE DEF Clear, StartsAlike
      <3>1. n = bs - p
        BY <1>5, <2>5
      <3>2. n < bs
        BY <1>1, <1>6
      <3>3. QED
        BY <1>1, <3>1, <3>2
    <2>7. z[m] # Noise
      BY <2>5
    <2>8. \A i \in m - p + 1 .. m : z[i] = p
      BY <2>6, <2>7 DEF CutTo
    <2>9. j \in m - p + 1 .. m
      BY <1>6, <2>5, <2>6
    <2>10. QED
      BY <2>5, <2>6, <2>8, <2>9
  <1>7. ASSUME NEW j \in 1 .. bs PROVE z[j] = s[j]
    <2>1. CASE j <= n
      BY <1>2, <1>5, <2>1
    <2>2. CASE ~(j <= n)
      BY <1>1, <1>6, <2>2
    <2>3. QED
      BY <2>1, <2>2
  <1>8. QED
    BY <1>4, <1>7

(* Whoever reads the data uses a key that means the same cipher and, in the *)
(* same mode, an IV that means the same block.                              *)
LEMMA OnlyTheKeyReads ==
  ASSUME NEW t \in Type, NEW u \in Type, NEW d \in Seq(Byte), d # << >>,
         NEW key \in Seq(Byte), NEW other \in Seq(Byte),
         KeyFits(t.alg, key), KeyFits(u.alg, other),
         NEW iv \in Seq(Byte), NEW later \in Seq(Byte), Aligned(t, Len(d)),
         Ok(d) \in Decrypted(Encrypted(d, key, iv, t), other, later, u)
  PROVE  /\ u.alg = t.alg /\ SameKey(t.alg, other, key)
         /\ u.mode = t.mode => SameIv(t.alg, t.mode, later, iv)
PROOF
  <1>1. PICK bs \in {8, 16} : bs = BlockSize(t.alg)
    BY BlockSizes
  <1>2. PICK bu \in {8, 16} : bu = BlockSize(u.alg)
    BY BlockSizes
  <1>3. PICK s \in Seq(Byte) : s = Body(d, t)
    BY BodyBytes
  <1>4. PICK n \in Nat : n = Len(d) /\ n > 0
    <2>1. Len(d) \in Nat /\ Len(d) # 0
      BY LenProperties, EmptySeq
    <2>2. QED
      BY <2>1
  <1>5. PICK m \in Nat : m = Len(s) /\ m >= n
    BY <1>3, <1>4, BodyFront, LenProperties
  <1>6. PICK c : c = Encrypted(d, key, iv, t)
    OBVIOUS
  <1>7. PICK k : k = CipherKey(t.alg, key)
    OBVIOUS
  <1>8. PICK l : l = CipherKey(u.alg, other)
    OBVIOUS
  <1>9. PICK v : v = fixed(bs, iv)
    OBVIOUS
  <1>10. PICK w : w = fixed(bu, later)
    OBVIOUS
  <1>11. c.alg = t.alg /\ c.len = m /\ c.blocks = EncryptBlocks(t.mode, bs, k, Known(v), s)
    <2>1. /\ c.alg = t.alg /\ c.len = Len(Body(d, t))
          /\ c.blocks = EncryptBlocks(t.mode, BlockSize(t.alg), CipherKey(t.alg, key),
                                      Known(fixed(BlockSize(t.alg), iv)), Body(d, t))
      BY <1>6, EncryptedParts
    <2>2. QED
      BY <1>1, <1>3, <1>5, <1>7, <1>9, <2>1
  <1>12. PICK x : x = Block(s, bs, 1)
    OBVIOUS
  <1>13. c.blocks[1] = EncryptBlock(t.mode, k, Known(x), Known(v))
    <2>1. Chained(c.blocks, t.mode, bs, k, Known(v), s)
      BY <1>11, EncryptedBlocks
    <2>2. 1 \in 1 .. Blocks(m, bs)
      <3>1. m > 0
        BY <1>4, <1>5
      <3>2. QED
        BY <3>1, HasFirst
    <2>3. QED
      BY <1>5, <1>12, <2>1, <2>2 DEF Chained
  <1>14. PICK z : z = DecryptBytes(u.alg, u.mode, l, Known(w), c)
    OBVIOUS
  <1>15. PICK p \in 0 .. bu : CutTo(z, m, d, p)
    <2>1. z = DecryptBytes(u.alg, u.mode, CipherKey(u.alg, other),
                           Known(fixed(BlockSize(u.alg), later)), c)
      BY <1>2, <1>8, <1>10, <1>14
    <2>2. Ok(d) \in Decrypted(c, other, later, u) /\ m > 0
      BY <1>4, <1>5, <1>6
    <2>3. \E q \in 0 .. BlockSize(u.alg) : CutTo(z, m, d, q)
      BY <1>11, <2>1, <2>2, DecryptedCut
    <2>4. QED
      BY <1>2, <2>3
  <1>16. z[1] # Noise
    <2>1. n = m - p /\ 1 \in 1 .. n
      BY <1>4, <1>15 DEF CutTo
    <2>2. z[1] = d[1]
      BY <1>15, <2>1 DEF CutTo
    <2>3. d[1] \in Byte
      BY <1>4, <2>1, ElementOfSeq
    <2>4. QED
      BY <2>2, <2>3, NoNoise
  <1>17. \A j \in 1 .. bu : j <= m =>
           z[j] = IF c.alg # u.alg THEN Noise
                  ELSE ByteOf(DecryptBlock(u.mode, l, c.blocks[1], Known(w)), j)
    <2> SUFFICES ASSUME NEW j \in 1 .. bu, j <= m
                 PROVE  z[j] = IF c.alg # u.alg THEN Noise
                               ELSE ByteOf(DecryptBlock(u.mode, l, c.blocks[1], Known(w)), j)
      OBVIOUS
    <2>1. c.len = m
      BY <1>11
    <2>2. DecryptBytes(u.alg, u.mode, l, Known(w), c)[j] =
            FirstByte(u.alg, u.mode, l, Known(w), c, j)
      <3>1. PICK a : a = u.alg
        OBVIOUS
      <3>2. PICK o : o = u.mode
        OBVIOUS
      <3>3. PICK i : i = Known(w)
        OBVIOUS
      <3>4. j \in Nat /\ j \in 1 .. BlockSize(a) /\ j \in 1 .. c.len
        BY <1>2, <2>1, <3>1
      <3>5. DecryptBytes(a, o, l, i, c)[j] = FirstByte(a, o, l, i, c, j)
        BY <3>4, FirstBlock
      <3>6. QED
        BY <3>1, <3>2, <3>3, <3>5
    <2>3. QED
      BY <1>14, <2>2 DEF FirstByte
  <1>18. 1 \in 1 .. bu /\ 1 <= m
    BY <1>4, <1>5
  <1>19. u.alg = t.alg /\ bu = bs
    BY <1>1, <1>2, <1>11, <1>16, <1>17, <1>18
  <1>20. PICK b : b = DecryptBlock(u.mode, l, EncryptBlock(t.mode, k, Known(x), Known(v)), Known(w))
    OBVIOUS
  <1>21. \A j \in 1 .. bs : j <= m => z[j] = ByteOf(b, j)
    BY <1>11, <1>13, <1>17, <1>19, <1>20
  <1>22. ByteOf(b, 1) # Noise
    BY <1>16, <1>18, <1>19, <1>21
  <1>23. l = k
    BY <1>20, <1>22, WrongKey
  <1>24. SameKey(t.alg, other, key)
    <2>1. t.alg \in Alg
      BY DEF Type
    <2>2. CipherKey(t.alg, other) = CipherKey(t.alg, key)
      BY <1>7, <1>8, <1>19, <1>23
    <2>3. QED
      BY <1>19, <2>1, <2>2, SameCipherKey
  <1>25. ASSUME Known(w) = Known(v) PROVE SameIv(t.alg, t.mode, later, iv)
    <2>1. Known(fixed(BlockSize(t.alg), later)) = Known(fixed(BlockSize(t.alg), iv))
      BY <1>1, <1>9, <1>10, <1>19, <1>25
    <2>2. QED
      BY <2>1, IvBlocks DEF SameIv
  <1>26. ASSUME u.mode = t.mode PROVE SameIv(t.alg, t.mode, later, iv)
    <2>1. CASE t.mode = "ecb"
      BY <2>1 DEF SameIv
    <2>2. CASE t.mode = "cfb"
      <3>1. Known(w) = Known(v)
        BY <1>20, <1>22, <1>23, <1>26, <2>2, WrongCfbIv
      <3>2. QED
        BY <3>1, <1>25
    <2>3. CASE t.mode = "cbc"
      <3>1. b = Mixed(x, v, w)
        <4>1. Dec(k, Enc(k, Xor(Known(x), Known(v)))) = Xor(Known(x), Known(v))
          BY DecEnc
        <4>2. QED
          BY <1>20, <1>23, <1>26, <2>3, <4>1 DEF Mixed, DecryptBlock, EncryptBlock
      <3>2. bs \in Nat /\ bs > 0
        OBVIOUS
      <3>3. v \in Seq(Byte) /\ Len(v) = bs /\ w \in Seq(Byte) /\ Len(w) = bs
        BY <1>9, <1>10, <1>19, <3>2, FixedBytes
      <3>4. m >= bs
        <4>1. m % bs = 0
          BY <1>1, <1>3, <1>5, <2>3, WholeBlocks
        <4>2. m > 0
          BY <1>18
        <4>3. QED
          BY <4>1, <4>2, AtLeastOne
      <3>5. x \in Seq(Byte) /\ Len(x) = bs /\ \A j \in 1 .. bs : x[j] = s[j]
        BY <1>5, <1>12, <3>4, FirstBytes
      <3>6. \A j \in 1 .. bs : z[j] = ByteOf(b, j)
        BY <1>21, <3>4
      <3>7. \A j \in 1 .. bs : ByteOf(b, j) # Noise
        <4>1. CASE \A j : ByteOf(b, j) = 0
          BY <4>1 DEF Noise
        <4>2. ASSUME NEW y \in Seq(Byte), Len(y) = bs, \A j : ByteOf(b, j) = y[j]
              PROVE  \A j \in 1 .. bs : ByteOf(b, j) # Noise
          BY <4>2, ElementOfSeq, NoNoise
        <4>3. ByteOf(Mixed(x, v, w), 1) # Noise
          BY <1>22, <3>1
        <4>4. IsKnown(Mixed(x, v, w), bs)
          BY <3>2, <3>3, <3>5, <4>3, MixedBytes
        <4>5. QED
          BY <3>1, <4>1, <4>2, <4>4 DEF IsKnown
      <3>8. \A j \in 1 .. bs : z[j] # Noise
        BY <3>6, <3>7
      <3>9. t.mode # "cfb"
        BY <2>3
      <3>10. \A j \in 1 .. bs : z[j] = s[j]
        <4>1. p \in 0 .. bs /\ m = Len(s) /\ CutTo(z, m, d, p)
          BY <1>5, <1>15, <1>19
        <4>2. QED
          <5>1. Clear(z, bs)
            BY <3>8 DEF Clear
          <5>2. StartsAlike(z, s, bs)
            BY <1>1, <1>3, <3>9, <4>1, <5>1, FirstMatches
          <5>3. QED
            BY <5>2 DEF StartsAlike
      <3>11. Unmixed(x, v, w, bs)
        BY <3>1, <3>5, <3>6, <3>10 DEF Unmixed
      <3>12. Known(v) = Known(w)
        BY <3>2, <3>3, <3>5, <3>11, WrongCbcIv
      <3>13. QED
        BY <3>12, <1>25
    <2>4. QED
      BY <2>1, <2>2, <2>3 DEF Type
  <1>27. QED
    BY <1>19, <1>24, <1>26
-------------------------------------------------------------------------------
(* What the row was made of, and that encrypt made it. *)
Made ==
  /\ from.app \in Apps /\ from.data \in from.app.texts
  /\ from.key \in from.app.keys /\ from.iv \in from.app.ivs
  /\ from.type \in Type /\ KeyFits(from.type.alg, from.key) /\ Aligned(from.type, Len(from.data))
  /\ stored = Encrypted(from.data, from.key, from.iv, from.type)

(* What decrypt was called with, and what it may have returned. *)
Answered ==
  /\ answer.key \in from.app.keys /\ answer.iv \in from.app.ivs
  /\ \/ /\ answer.type = Refused \/ ~KeyFits(answer.type.alg, answer.key)
        /\ answer.result = Error
     \/ /\ answer.type \in Type /\ KeyFits(answer.type.alg, answer.key)
        /\ answer.result \in Decrypted(stored, answer.key, answer.iv, answer.type)

(* The inductive invariant: the row and the answer go back to the arguments *)
(* they were computed from, which the properties compare.                   *)
IInv ==
  \/ stored = None /\ answer = None
  \/ stored # None /\ Made /\ (answer # None => Answered)

(* encrypt and encrypt_iv keep the invariant, *)
LEMMA EncryptInv ==
  ASSUME IInv, NEW a \in Apps, NEW d \in a.texts, NEW key \in a.keys, NEW iv \in a.ivs,
         NEW type \in a.types, Encrypt(a, d, key, iv, type)
  PROVE  IInv'
PROOF
  <1> DEFINE t == parse_type(type)
  <1>1. t \in Type
    BY Types DEF Encrypt
  <1>2. PICK u \in Type : u = t
    BY <1>1
  <1>3. /\ stored = None /\ KeyFits(u.alg, key) /\ Aligned(u, Len(d))
        /\ stored' = Encrypted(d, key, iv, u) /\ answer' = answer
        /\ from' = [app |-> a, data |-> d, key |-> key, iv |-> iv, type |-> u]
    BY <1>2 DEF Encrypt
  <1>4. answer' = None
    BY <1>3 DEF IInv
  <1>5. Encrypted(d, key, iv, u) # None
    BY DEF Encrypted, None
  <1>6. Made'
    BY <1>3 DEF Made
  <1>7. QED
    BY <1>3, <1>4, <1>5, <1>6 DEF IInv

(* and so do decrypt and decrypt_iv, whatever they answer. *)
LEMMA DecryptInv ==
  ASSUME IInv, stored # None, NEW key \in from.app.keys, NEW iv \in from.app.ivs,
         NEW type, Decrypt(key, iv, type)
  PROVE  IInv'
PROOF
  <1>1. PICK t : t = parse_type(type)
    OBVIOUS
  <1>2. t = Refused \/ t \in Type
    BY <1>1, Types
  <1>3. PICK r : /\ r \in IF t = Refused \/ ~KeyFits(t.alg, key) THEN {Error}
                          ELSE Decrypted(stored, key, iv, t)
                 /\ answer' = [key |-> key, iv |-> iv, type |-> t, result |-> r]
                 /\ stored' = stored /\ from' = from
    BY <1>1 DEF Decrypt
  <1>4. Made'
    BY <1>3 DEF IInv, Made
  <1>5. answer'.key = key /\ answer'.iv = iv /\ answer'.type = t /\ answer'.result = r
    BY <1>3
  <1>6. Answered'
    <2>1. CASE t = Refused \/ ~KeyFits(t.alg, key)
      BY <1>3, <1>5, <2>1 DEF Answered
    <2>2. CASE t \in Type /\ KeyFits(t.alg, key) /\ t # Refused
      BY <1>3, <1>5, <2>2 DEF Answered
    <2>3. QED
      BY <1>2, <2>1, <2>2
  <1>7. QED
    BY <1>3, <1>4, <1>6 DEF IInv

(* No step leaves the invariant. *)
LEMMA Inductive ==
  ASSUME IInv, [Next]_vars
  PROVE  IInv'
PROOF
  <1>1. ASSUME NEW a \in Apps, NEW d \in a.texts, NEW key \in a.keys, NEW iv \in a.ivs,
               NEW type \in a.types, Encrypt(a, d, key, iv, type)
        PROVE  IInv'
    BY <1>1, EncryptInv
  <1>2. ASSUME stored # None, NEW key \in from.app.keys, NEW iv \in from.app.ivs,
               NEW type, Decrypt(key, iv, type)
        PROVE  IInv'
    BY <1>2, DecryptInv
  <1>3. CASE Delete
    BY <1>3 DEF Delete, IInv
  <1>4. CASE UNCHANGED vars
    BY <1>4 DEF vars, IInv, Made, Answered
  <1>5. QED
    BY <1>1, <1>2, <1>3, <1>4 DEF Next

(* Every row and every answer goes back to the arguments of the calls. *)
THEOREM Invariance == Spec => []IInv
PROOF
  <1>1. Init => IInv
    BY DEF Init, IInv
  <1>2. IInv /\ [Next]_vars => IInv'
    BY Inductive
  <1>3. QED
    BY <1>1, <1>2, PTL DEF Spec

(* The arguments are bytes. *)
LEMMA Arguments ==
  ASSUME Made
  PROVE  /\ from.data \in Seq(Byte) /\ from.key \in Seq(Byte) /\ from.iv \in Seq(Byte)
         /\ Answered => answer.key \in Seq(Byte) /\ answer.iv \in Seq(Byte)
  BY RawConstants DEF Made, Answered

(* A key that means the same cipher as one that fits fits too. *)
LEMMA SameKeyFits ==
  ASSUME NEW alg \in Alg, NEW v \in Seq(Byte), NEW w \in Seq(Byte),
         KeyFits(alg, w), SameKey(alg, v, w)
  PROVE  KeyFits(alg, v)
PROOF
  <1>1. CASE alg = "aes"
    BY <1>1 DEF KeyFits, SameKey
  <1>2. CASE alg = "bf"
    BY <1>2, BlowfishStream DEF KeyFits, SameKey
  <1>3. QED
    BY <1>1, <1>2 DEF Alg

(* decrypt and decrypt_iv return what encrypt and encrypt_iv were given, for *)
(* every name of the type, key and IV that mean the same: the aliases of     *)
(* parse_type, the tiers of aes_key, the folding of blowfish_key, the zero   *)
(* IV, and data of every length.                                             *)
THEOREM RoundTrips == Spec => []RoundTrip
PROOF
  <1>1. ASSUME IInv PROVE RoundTrip
    <2> SUFFICES ASSUME answer # None, SameCipher(answer, from)
                 PROVE  answer.result = Ok(from.data)
      BY DEF RoundTrip
    <2>1. Made /\ Answered
      BY <1>1 DEF IInv
    <2>2. PICK t \in Type : t = from.type
      BY <2>1 DEF Made
    <2>3. PICK u : u = answer.type
      OBVIOUS
    <2>4. /\ u.alg = t.alg /\ u.mode = t.mode /\ (u.mode # "cfb" => u.padding = t.padding)
          /\ SameKey(t.alg, answer.key, from.key) /\ SameIv(t.alg, t.mode, answer.iv, from.iv)
      BY <2>2, <2>3 DEF SameCipher
    <2>5. t.alg \in Alg /\ t.alg # "none"
      BY DEF Type, Alg
    <2>6. u # Refused
      BY <2>4, <2>5 DEF Refused
    <2>7. /\ from.data \in Seq(Byte) /\ from.key \in Seq(Byte) /\ from.iv \in Seq(Byte)
          /\ answer.key \in Seq(Byte) /\ answer.iv \in Seq(Byte)
      BY <2>1, Arguments
    <2>8. KeyFits(t.alg, from.key) /\ Aligned(t, Len(from.data))
      BY <2>1, <2>2 DEF Made
    <2>9. KeyFits(t.alg, answer.key)
      BY <2>4, <2>5, <2>7, <2>8, SameKeyFits
    <2>10. u \in Type /\ answer.result \in Decrypted(stored, answer.key, answer.iv, u)
      BY <2>1, <2>3, <2>4, <2>6, <2>9 DEF Answered
    <2>11. stored = Encrypted(from.data, from.key, from.iv, t)
      BY <2>1, <2>2 DEF Made
    <2>12. Decrypted(Encrypted(from.data, from.key, from.iv, t), answer.key, answer.iv, u)
             = {Ok(from.data)}
      BY <2>4, <2>7, <2>8, <2>9, <2>10, DecryptUndoes
    <2>13. QED
      BY <2>10, <2>11, <2>12
  <1>2. QED
    BY <1>1, Invariance, PTL

(* Whoever reads data out of a row with decrypt or decrypt_iv uses the       *)
(* algorithm and a key that means the same cipher and, in the same mode, an  *)
(* IV that means the same block: aes_key and blowfish_key map no two other   *)
(* keys to one, at any length.                                               *)
THEOREM KeysMatter == Spec => []KeyMatters
PROOF
  <1>1. ASSUME IInv PROVE KeyMatters
    <2> SUFFICES ASSUME answer # None, from.data # << >>, answer.result = Ok(from.data)
                 PROVE  /\ answer.type.alg = from.type.alg
                        /\ SameKey(from.type.alg, answer.key, from.key)
                        /\ answer.type.mode = from.type.mode =>
                             SameIv(from.type.alg, from.type.mode, answer.iv, from.iv)
      BY DEF KeyMatters
    <2>1. Made /\ Answered
      BY <1>1 DEF IInv
    <2>2. answer.result # Error
      BY DEF Ok, Error
    <2>3. /\ answer.type \in Type /\ KeyFits(answer.type.alg, answer.key)
          /\ Ok(from.data) \in Decrypted(stored, answer.key, answer.iv, answer.type)
      BY <2>1, <2>2 DEF Answered
    <2>4. PICK u \in Type : u = answer.type
      BY <2>3
    <2>5. PICK t \in Type : t = from.type
      BY <2>1 DEF Made
    <2>6. /\ from.data \in Seq(Byte) /\ from.key \in Seq(Byte) /\ from.iv \in Seq(Byte)
          /\ answer.key \in Seq(Byte) /\ answer.iv \in Seq(Byte)
      BY <2>1, Arguments
    <2>7. /\ KeyFits(t.alg, from.key) /\ Aligned(t, Len(from.data))
          /\ stored = Encrypted(from.data, from.key, from.iv, t)
      BY <2>1, <2>5 DEF Made
    <2>8. KeyFits(u.alg, answer.key)
      BY <2>3, <2>4
    <2>9. Ok(from.data) \in Decrypted(Encrypted(from.data, from.key, from.iv, t),
                                       answer.key, answer.iv, u)
      BY <2>3, <2>4, <2>7
    <2>10. /\ u.alg = t.alg /\ SameKey(t.alg, answer.key, from.key)
           /\ u.mode = t.mode => SameIv(t.alg, t.mode, answer.iv, from.iv)
      BY <2>6, <2>7, <2>8, <2>9, OnlyTheKeyReads
    <2>11. QED
      BY <2>4, <2>5, <2>10
  <1>2. QED
    BY <1>1, Invariance, PTL
-------------------------------------------------------------------------------
(* The functions as PostgreSQL runs them.                                   *)
(*                                                                          *)
(* That rows differ is not inductive by itself: the next draw differs from  *)
(* all earlier ones because no row holds a number above the counter, and a  *)
(* row the server repeats holds no draw at all because every function that  *)
(* draws is declared volatile.                                              *)

(* A row of a function that drew a value, and did not fail.                 *)
HasDraw(r) == r.fn \in Draws /\ r.result[1] # "error"

Digest == {"md5", "sha1", "sha224", "sha256", "sha384", "sha512", "sha3256", "sha3512", "blake2b",
           Unknown}
HashRow == [fn : Hashing, arg : Names \X Data, result : Digest \X Data]
Drawn == {<<tag, k, n>> : tag \in {"random", "drawn", "error"}, k \in Nat, n \in Int}
DrawRow == [fn : Draws, arg : ({"data"} \X Data) \cup ({"length"} \X Lengths), result : Drawn]

Typed == drawn \in Nat /\ rows \in Seq(HashRow \cup DrawRow)

(* The counter is ahead of every draw a row holds.                          *)
CounterAhead ==
  \A i \in 1 .. Len(rows) : HasDraw(rows[i]) => rows[i].result[2] <= drawn

DrawsDiffer ==
  \A i, j \in 1 .. Len(rows) :
    i # j /\ HasDraw(rows[i]) /\ HasDraw(rows[j]) => rows[i].result[2] # rows[j].result[2]

(* A hashing call answers by the table of digest_bytes, or refuses.         *)
ByOneTable ==
  \A i \in 1 .. Len(rows) :
    rows[i].fn \in Hashing => rows[i].result[1] \in {digest_bytes(Means(rows[i])), Unknown}

SqlInv == Typed /\ CounterAhead /\ DrawsDiffer /\ ByOneTable
-------------------------------------------------------------------------------
(* No function is both hashing and drawing. *)
LEMMA HashesDrawNothing == \A f \in Hashing : f \notin Draws
PROOF
  BY DEF Hashing, Draws, Sealing, ModernDraws, SaltDraws, SymDraws, PubDraws, UuidDraws,
         RandomBytes

(* Appending one well-formed row keeps the invariant: a row with a draw     *)
(* holds the counter's new value, and one without leaves the counter alone. *)
LEMMA OneMoreRow ==
  ASSUME SqlInv, NEW r \in HashRow \cup DrawRow, rows' = Append(rows, r),
         drawn' \in Nat, drawn' >= drawn,
         HasDraw(r) => r.result[2] = drawn' /\ drawn' = drawn + 1,
         r.fn \in Hashing => r.result[1] \in {digest_bytes(Means(r)), Unknown}
  PROVE  SqlInv'
PROOF
  <1> DEFINE n == Len(rows)
  <1>1. n \in Nat /\ drawn \in Nat /\ rows \in Seq(HashRow \cup DrawRow)
    BY DEF SqlInv, Typed
  <1>2. /\ rows' \in Seq(HashRow \cup DrawRow) /\ Len(rows') = n + 1 /\ rows'[n + 1] = r
        /\ \A i \in 1 .. n : rows'[i] = rows[i]
    <2> HIDE DEF HashRow, DrawRow
    <2>1. QED
      BY <1>1
  <1>3. Typed'
    BY <1>2 DEF Typed
  <1>4. \A i \in 1 .. n : /\ HasDraw(rows[i]) => rows[i].result[2] <= drawn
                          /\ rows[i].fn \in Hashing =>
                               rows[i].result[1] \in {digest_bytes(Means(rows[i])), Unknown}
    BY DEF SqlInv, CounterAhead, ByOneTable
  <1>5. \A i, j \in 1 .. n :
          i # j /\ HasDraw(rows[i]) /\ HasDraw(rows[j]) => rows[i].result[2] # rows[j].result[2]
    BY DEF SqlInv, DrawsDiffer
  <1>6. \A i \in 1 .. n : HasDraw(rows[i]) => rows[i].result[2] \in Nat
    <2> SUFFICES ASSUME NEW i \in 1 .. n, HasDraw(rows[i])
                 PROVE  rows[i].result[2] \in Nat
      OBVIOUS
    <2>1. rows[i] \in HashRow \cup DrawRow
      <3> HIDE DEF HashRow, DrawRow
      <3>1. QED
        BY <1>1
    <2>2. rows[i] \in DrawRow
      BY <2>1, HashesDrawNothing DEF HasDraw, HashRow
    <2>3. QED
      BY <2>2 DEF DrawRow, Drawn
  <1> HIDE DEF n
  <1>7. \A i \in 1 .. n + 1 : i \in 1 .. n \/ i = n + 1
    BY <1>1
  <1>8. CounterAhead'
    <2> SUFFICES ASSUME NEW i \in 1 .. n + 1, HasDraw(rows'[i])
                 PROVE  rows'[i].result[2] <= drawn'
      BY <1>2 DEF CounterAhead, HasDraw
    <2>1. CASE i \in 1 .. n
      <3>1. rows'[i] = rows[i]
        BY <1>2, <2>1
      <3>2. HasDraw(rows[i])
        BY <3>1
      <3>3. rows[i].result[2] \in Nat /\ rows[i].result[2] <= drawn
        BY <1>4, <1>6, <2>1, <3>2
      <3>4. QED
        BY <1>1, <3>1, <3>3
    <2>2. CASE i = n + 1
      <3>1. rows'[i] = r
        BY <1>2, <2>2
      <3>2. QED
        BY <3>1
    <2>3. QED
      BY <1>7, <2>1, <2>2
  <1>9. DrawsDiffer'
    <2> SUFFICES ASSUME NEW i \in 1 .. n + 1, NEW j \in 1 .. n + 1, i # j,
                        HasDraw(rows'[i]), HasDraw(rows'[j])
                 PROVE  rows'[i].result[2] # rows'[j].result[2]
      BY <1>2 DEF DrawsDiffer, HasDraw
    <2>1. \A k \in 1 .. n : HasDraw(rows'[k]) /\ HasDraw(r) => rows'[k].result[2] # r.result[2]
      <3> SUFFICES ASSUME NEW k \in 1 .. n, HasDraw(rows'[k]), HasDraw(r)
                   PROVE  rows'[k].result[2] # r.result[2]
        OBVIOUS
      <3>1. rows'[k] = rows[k]
        BY <1>2
      <3>2. HasDraw(rows[k])
        BY <3>1
      <3>3. rows[k].result[2] \in Nat /\ rows[k].result[2] <= drawn
        BY <1>4, <1>6, <3>2
      <3>4. QED
        BY <1>1, <3>1, <3>3
    <2>2. CASE i \in 1 .. n /\ j \in 1 .. n
      <3>1. rows'[i] = rows[i] /\ rows'[j] = rows[j]
        BY <1>2, <2>2
      <3>2. QED
        BY <1>5, <2>2, <3>1
    <2>3. CASE i \in 1 .. n /\ j = n + 1
      BY <1>2, <2>1, <2>3
    <2>4. CASE i = n + 1 /\ j \in 1 .. n
      BY <1>2, <2>1, <2>4
    <2>5. QED
      BY <1>7, <2>2, <2>3, <2>4
  <1>10. ByOneTable'
    <2> SUFFICES ASSUME NEW i \in 1 .. n + 1, rows'[i].fn \in Hashing
                 PROVE  rows'[i].result[1] \in {digest_bytes(Means(rows'[i])), Unknown}
      BY <1>2 DEF ByOneTable, Means
    <2>1. QED
      BY <1>2, <1>4, <1>7
  <1>11. QED
    BY <1>3, <1>8, <1>9, <1>10 DEF SqlInv

(* digest, hmac and the functions named after a digest read one table.      *)
LEMMA HashRows ==
  ASSUME SqlInv, NEW f \in Hashing, NEW name \in Names, NEW d \in Data, HashCall(f, name, d)
  PROVE  SqlInv'
PROOF
  <1> DEFINE h == IF f = "hmac" THEN hmac_bytes(Plain[name])
                  ELSE IF f = "digest" THEN digest_bytes(Plain[name])
                  ELSE digest_bytes(Plain[OwnName(f)])
             r == [fn |-> f, arg |-> <<name, d>>, result |-> <<h, d>>]
  <1>1. rows' = Append(rows, r) /\ drawn' = drawn
    BY DEF HashCall, Row
  <1>2. h \in Digest
    BY DEF Digest, digest_bytes, hmac_bytes, Unknown
  <1>3. h \in {digest_bytes(Means(r)), Unknown}
    <2>1. CASE f = "hmac"
      <3>1. Means(r) = Plain[name] /\ h = hmac_bytes(Plain[name])
        BY <2>1 DEF Means
      <3>2. QED
        BY <3>1 DEF hmac_bytes, digest_bytes
    <2>2. CASE f = "digest"
      BY <2>2 DEF Means
    <2>3. CASE f \in {"blake2b", "sha3_256", "sha3_512"}
      <3>1. Means(r) = Plain[OwnName(f)]
        BY <2>3, FunctionConstants DEF Means, OwnName
      <3>2. QED
        BY <2>3, <3>1
    <2>4. QED
      BY <2>1, <2>2, <2>3 DEF Hashing
  <1> HIDE DEF h
  <1>4. r \in HashRow
    BY <1>2 DEF HashRow
  <1>5. ~HasDraw(r)
    BY HashesDrawNothing DEF HasDraw
  <1>6. r.result[1] = h
    OBVIOUS
  <1>7. drawn' \in Nat /\ drawn' >= drawn
    BY <1>1 DEF SqlInv, Typed
  <1> HIDE DEF r
  <1>8. QED
    BY <1>1, <1>3, <1>4, <1>5, <1>6, <1>7, OneMoreRow

(* gen_random_bytes and random_bytes keep the invariant, in range and out of it. *)
LEMMA RandomRows ==
  ASSUME SqlInv, NEW f \in RandomBytes, NEW n \in Lengths, RandomCall(f, n)
  PROVE  SqlInv'
PROOF
  <1>1. drawn \in Nat /\ n \in Int
    BY FunctionConstants DEF SqlInv, Typed
  <1>2. CASE RandomRange(n)
    <2> DEFINE r == [fn |-> f, arg |-> <<"length", n>>, result |-> <<"random", drawn + 1, n>>]
    <2>1. rows' = Append(rows, r) /\ drawn' = drawn + 1
      BY <1>2 DEF RandomCall, Row
    <2>2. r \in DrawRow
      BY <1>1 DEF DrawRow, Drawn, Draws
    <2>3. r.fn \notin Hashing
      BY DEF Hashing, RandomBytes
    <2>4. r.result[2] = drawn'
      BY <2>1
    <2>5. drawn' \in Nat /\ drawn' >= drawn
      BY <1>1, <2>1
    <2> HIDE DEF r
    <2>6. QED
      BY <2>1, <2>2, <2>3, <2>4, <2>5, OneMoreRow
  <1>3. CASE ~RandomRange(n)
    <2> DEFINE r == [fn |-> f, arg |-> <<"length", n>>, result |-> <<"error", 0, 0>>]
    <2>1. rows' = Append(rows, r) /\ drawn' = drawn
      BY <1>3 DEF RandomCall, Row
    <2>2. r \in DrawRow
      BY <1>1 DEF DrawRow, Drawn, Draws
    <2>3. r.fn \notin Hashing
      BY DEF Hashing, RandomBytes
    <2>4. ~HasDraw(r)
      BY DEF HasDraw
    <2>5. drawn' \in Nat /\ drawn' >= drawn
      BY <1>1, <2>1
    <2> HIDE DEF r
    <2>6. QED
      BY <2>1, <2>2, <2>3, <2>4, <2>5, OneMoreRow
  <1>4. QED
    BY <1>2, <1>3

(* A function that draws adds the next draw. *)
LEMMA DrawingRows ==
  ASSUME SqlInv, NEW f \in Sealing, NEW d \in Data, DrawingCall(f, d)
  PROVE  SqlInv'
PROOF
  <1> DEFINE r == [fn |-> f, arg |-> <<"data", d>>, result |-> <<"drawn", drawn + 1, 0>>]
  <1>1. drawn \in Nat
    BY DEF SqlInv, Typed
  <1>2. rows' = Append(rows, r) /\ drawn' = drawn + 1
    BY DEF DrawingCall, Row
  <1>3. r \in DrawRow
    BY <1>1 DEF DrawRow, Drawn, Draws
  <1>4. r.fn \notin Hashing
    BY HashesDrawNothing DEF Draws
  <1>5. r.result[2] = drawn'
    BY <1>2
  <1>6. drawn' \in Nat /\ drawn' >= drawn
    BY <1>1, <1>2
  <1> HIDE DEF r
  <1>7. QED
    BY <1>2, <1>3, <1>4, <1>5, <1>6, OneMoreRow

(* Every function whose body draws is declared volatile.                    *)
LEMMA DrawsAreVolatile == Draws \subseteq Volatile
PROOF
  BY DEF Draws, Sealing, ModernDraws, SaltDraws, SymDraws, PubDraws, UuidDraws, RandomBytes,
         Volatile, RandomVolatile, ModernVolatile, PasswordVolatile, SymVolatile, PubVolatile

(* A row the server repeats holds no draw. *)
LEMMA RepeatedRows ==
  ASSUME SqlInv, NEW i \in 1 .. Len(rows), Reuse(i)
  PROVE  SqlInv'
PROOF
  <1> DEFINE r == rows[i]
  <1>1. rows' = Append(rows, r) /\ drawn' = drawn /\ r.fn \notin Volatile
    BY DEF Reuse
  <1>2. r \in HashRow \cup DrawRow
    <2> HIDE DEF HashRow, DrawRow
    <2>1. QED
      BY DEF SqlInv, Typed
  <1>3. ~HasDraw(r)
    BY <1>1, DrawsAreVolatile DEF HasDraw
  <1>4. r.fn \in Hashing => r.result[1] \in {digest_bytes(Means(r)), Unknown}
    BY DEF SqlInv, ByOneTable
  <1>5. drawn' \in Nat /\ drawn' >= drawn
    BY <1>1 DEF SqlInv, Typed
  <1> HIDE DEF r
  <1>6. QED
    BY <1>1, <1>2, <1>3, <1>4, <1>5, OneMoreRow
-------------------------------------------------------------------------------
(* What every query keeps: the counter ahead of all draws, draws that       *)
(* differ, and one table of names.                                          *)
THEOREM SqlInductive == SqlSpec => []SqlInv
PROOF
  <1>1. SqlInit => SqlInv
    BY DEF SqlInit, SqlInv, Typed, CounterAhead, DrawsDiffer, ByOneTable
  <1>2. SqlInv /\ [SqlNext]_sqlVars => SqlInv'
    <2> SUFFICES ASSUME SqlInv, [SqlNext]_sqlVars PROVE SqlInv'
      OBVIOUS
    <2>1. CASE \E f \in Hashing, name \in Names, d \in Data : HashCall(f, name, d)
      BY <2>1, HashRows
    <2>2. CASE \E f \in RandomBytes, n \in Lengths : RandomCall(f, n)
      BY <2>2, RandomRows
    <2>3. CASE \E f \in Sealing, d \in Data : DrawingCall(f, d)
      BY <2>3, DrawingRows
    <2>4. CASE \E i \in 1 .. Len(rows) : Reuse(i)
      BY <2>4, RepeatedRows
    <2>5. CASE Done \/ UNCHANGED sqlVars
      <3>1. rows' = rows /\ drawn' = drawn
        BY <2>5 DEF Done, sqlVars
      <3>2. QED
        BY <3>1 DEF SqlInv, Typed, CounterAhead, DrawsDiffer, ByOneTable, HasDraw, Means
    <2>6. QED
      BY <2>1, <2>2, <2>3, <2>4, <2>5 DEF SqlNext
  <1>3. QED
    BY <1>1, <1>2, PTL DEF SqlSpec

(* No two rows are given the same draw by the random generators, gen_salt,  *)
(* the sealing functions and the PGP encryption functions, whatever the     *)
(* server reuses.                                                           *)
THEOREM FreshRows == SqlSpec => []FreshEveryRow
PROOF
  <1>1. SqlInv => FreshEveryRow
    <2> SUFFICES ASSUME SqlInv, NEW i \in 1 .. Len(rows), NEW j \in 1 .. Len(rows), i # j,
                        {rows[i].fn, rows[j].fn} \subseteq Draws, rows[i].result[1] # "error"
                 PROVE  rows[i].result # rows[j].result
      BY DEF FreshEveryRow
    <2>1. CASE rows[j].result[1] = "error"
      BY <2>1
    <2>2. CASE rows[j].result[1] # "error"
      <3>1. rows[i].result[2] # rows[j].result[2]
        BY <2>2 DEF SqlInv, DrawsDiffer, HasDraw
      <3>2. QED
        BY <3>1
    <2>3. QED
      BY <2>1, <2>2
  <1>2. QED
    BY <1>1, SqlInductive, PTL

(* digest, hmac, blake2b, sha3_256 and sha3_512 never answer one name with  *)
(* two digests, though the names stand in two tables of hash.rs.            *)
THEOREM OneDigestPerName == SqlSpec => []NamesAgree
PROOF
  <1>1. SqlInv => NamesAgree
    BY DEF SqlInv, ByOneTable, NamesAgree
  <1>2. QED
    BY <1>1, SqlInductive, PTL
===============================================================================
