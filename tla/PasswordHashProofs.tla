-------------------------- MODULE PasswordHashProofs --------------------------
(***************************************************************************)
(* Proofs about PasswordHash, for every set of passwords and of iteration  *)
(* counts, and every number of rows.                                       *)
(***************************************************************************)
EXTENDS PasswordHash, SequenceTheorems, TLAPS

(* A sequence, whatever of. *)
IsList(s) == \E S : s \in Seq(S)

(* A sequence has a length and its places. *)
LEMMA Lists ==
  ASSUME NEW s, IsList(s)
  PROVE  Len(s) \in Nat /\ DOMAIN s = 1 .. Len(s)
  BY LenProperties DEF IsList

(* A sequence of some things is one of more. *)
LEMMA Wider ==
  ASSUME NEW S, NEW T, S \subseteq T, NEW s \in Seq(S)
  PROVE  s \in Seq(T)
PROOF
  <1>1. PICK n \in Nat : n = Len(s) /\ s \in [1 .. n -> S]
    BY LenProperties
  <1>2. s = [i \in 1 .. n |-> s[i]] /\ \A i \in 1 .. n : s[i] \in T
    BY <1>1
  <1>3. [i \in 1 .. n |-> s[i]] \in Seq(T)
    BY <1>2, IsASeq
  <1>4. QED
    BY <1>2, <1>3

(* Where a concatenation has its parts. *)
LEMMA Joined ==
  ASSUME NEW s, NEW t, IsList(s), IsList(t)
  PROVE  /\ IsList(s \o t) /\ Len(s \o t) = Len(s) + Len(t)
         /\ \A i \in 1 .. Len(s) : (s \o t)[i] = s[i]
         /\ \A i \in 1 .. Len(t) : (s \o t)[Len(s) + i] = t[i]
PROOF
  <1>1. PICK S : s \in Seq(S)
    BY DEF IsList
  <1>2. PICK T : t \in Seq(T)
    BY DEF IsList
  <1>3. PICK U : U = S \cup T
    OBVIOUS
  <1>4. s \in Seq(U)
    BY <1>1, <1>3, Wider
  <1>5. t \in Seq(U)
    BY <1>2, <1>3, Wider
  <1>6. /\ s \o t \in Seq(U) /\ Len(s \o t) = Len(s) + Len(t)
        /\ \A i \in 1 .. Len(s) + Len(t) :
             (s \o t)[i] = IF i <= Len(s) THEN s[i] ELSE t[i - Len(s)]
    BY <1>4, <1>5, ConcatProperties
  <1>7. PICK m \in Nat : m = Len(s)
    BY Lists
  <1>8. PICK n \in Nat : n = Len(t)
    BY Lists
  <1>9. ASSUME NEW i \in 1 .. m PROVE (s \o t)[i] = s[i]
    <2>1. i \in 1 .. m + n /\ i <= m
      BY <1>8
    <2>2. QED
      BY <1>6, <1>7, <1>8, <2>1
  <1>10. ASSUME NEW i \in 1 .. n PROVE (s \o t)[m + i] = t[i]
    <2>1. PICK j \in 1 .. m + n : j = m + i /\ ~(j <= m) /\ j - m = i
      BY <1>8
    <2>2. QED
      BY <1>6, <1>7, <1>8, <2>1
  <1>11. QED
    BY <1>6, <1>7, <1>8, <1>9, <1>10 DEF IsList

(* The characters of a part. *)
LEMMA PartChars ==
  ASSUME NEW kind, NEW of, NEW n \in Nat
  PROVE  /\ IsList(Chars(kind, of, n)) /\ Len(Chars(kind, of, n)) = n
         /\ \A i \in 1 .. n : Chars(kind, of, n)[i] = <<kind, of, i>>
PROOF
  <1>1. PICK S : S = {<<kind, of, i>> : i \in 1 .. n}
    OBVIOUS
  <1>2. \A i \in 1 .. n : <<kind, of, i>> \in S
    BY <1>1
  <1>3. Chars(kind, of, n) \in Seq(S)
    BY <1>2, IsASeq DEF Chars
  <1>4. DOMAIN Chars(kind, of, n) = 1 .. n
    BY DEF Chars
  <1>5. Len(Chars(kind, of, n)) = n
    BY <1>3, <1>4, LenProperties
  <1>6. QED
    BY <1>3, <1>5 DEF IsList, Chars

(* A single character. *)
LEMMA OneChar ==
  ASSUME NEW c
  PROVE  IsList(<<c>>) /\ Len(<<c>>) = 1 /\ <<c>>[1] = c
PROOF
  <1>1. <<c>> \in Seq({c})
    OBVIOUS
  <1>2. QED
    BY <1>1 DEF IsList

(* The empty text. *)
LEMMA NoChars == IsList(<< >>) /\ Len(<< >>) = 0
PROOF
  <1>1. << >> \in Seq({})
    OBVIOUS
  <1>2. QED
    BY <1>1 DEF IsList

(* A slice of a sequence. *)
LEMMA Slice ==
  ASSUME NEW s, IsList(s), NEW m \in Nat, NEW n \in Nat, 1 <= m, m <= n, n <= Len(s)
  PROVE  /\ IsList(SubSeq(s, m, n)) /\ Len(SubSeq(s, m, n)) = n - m + 1
         /\ \A i \in 1 .. n - m + 1 : SubSeq(s, m, n)[i] = s[m + i - 1]
PROOF
  <1>1. PICK S : s \in Seq(S)
    BY DEF IsList
  <1>2. /\ SubSeq(s, m, n) \in Seq(S) /\ Len(SubSeq(s, m, n)) = n - m + 1
        /\ \A i \in 1 .. n - m + 1 : SubSeq(s, m, n)[i] = s[m + i - 1]
    BY <1>1, SubSeqProperties
  <1>3. QED
    BY <1>2 DEF IsList

(* A sequence is its elements. *)
LEMMA SameList ==
  ASSUME NEW s, NEW t, IsList(s), IsList(t), Len(s) = Len(t),
         \A i \in 1 .. Len(s) : s[i] = t[i]
  PROVE  s = t
PROOF
  <1>1. PICK S : s \in Seq(S)
    BY DEF IsList
  <1>2. PICK T : t \in Seq(T)
    BY DEF IsList
  <1>3. PICK U : U = S \cup T
    OBVIOUS
  <1>4. s \in Seq(U) /\ t \in Seq(U)
    BY <1>1, <1>2, <1>3, Wider
  <1>5. QED
    BY <1>4, SeqEqual
-------------------------------------------------------------------------------
(* The n characters of a part are in s behind place m. *)
Has(s, m, kind, of, n) == \A i \in 1 .. n : s[m + i] = <<kind, of, i>>

(* The places from a to b are the n behind m. *)
Span(a, b, m, n) ==
  a \in Nat /\ b \in Nat /\ m \in Nat /\ n \in Nat /\ n > 0 /\ a = m + 1 /\ b = m + n

IsSlice(s, a, b, t) == SubSeq(s, a, b) = t

(* The places of a part are the part. *)
LEMMA SliceChars ==
  ASSUME NEW s, IsList(s), NEW kind, NEW of, NEW a, NEW b, NEW m, NEW n, Span(a, b, m, n),
         b <= Len(s), Has(s, m, kind, of, n)
  PROVE  IsSlice(s, a, b, Chars(kind, of, n))
PROOF
  <1> USE DEF Span
  <1>1. /\ IsList(SubSeq(s, a, b)) /\ Len(SubSeq(s, a, b)) = b - a + 1
        /\ \A i \in 1 .. b - a + 1 : SubSeq(s, a, b)[i] = s[a + i - 1]
    BY Slice
  <1>2. b - a + 1 = n /\ \A i \in 1 .. n : a + i - 1 = m + i
    OBVIOUS
  <1>3. \A i \in 1 .. n : SubSeq(s, a, b)[i] = <<kind, of, i>>
    BY <1>1, <1>2 DEF Has
  <1>4. /\ IsList(Chars(kind, of, n)) /\ Len(Chars(kind, of, n)) = n
        /\ \A i \in 1 .. n : Chars(kind, of, n)[i] = <<kind, of, i>>
    BY PartChars
  <1>5. PICK t : t = SubSeq(s, a, b)
    OBVIOUS
  <1>6. PICK u : u = Chars(kind, of, n)
    OBVIOUS
  <1>7. IsList(t) /\ IsList(u) /\ Len(t) = n /\ Len(u) = n /\ \A i \in 1 .. n : t[i] = u[i]
    BY <1>1, <1>2, <1>3, <1>4, <1>5, <1>6
  <1>8. t = u
    BY <1>7, SameList
  <1>9. QED
    BY <1>5, <1>6, <1>8 DEF IsSlice

(* No character of the parts is a separator. *)
LEMMA NotSep ==
  ASSUME NEW kind \in {"id", "cost", "rounds", "salt", "digest", "argon2"}, NEW of, NEW i
  PROVE  <<kind, of, i>> # Sep
  BY DEF Sep

(* The separator found is the first. *)
LEMMA SepAt ==
  ASSUME NEW s, IsList(s), NEW n \in Nat, NEW k \in Nat, 1 <= n, n <= k, k <= Len(s), s[k] = Sep,
         \A j \in n .. k - 1 : s[j] # Sep
  PROVE  NextSep(s, n) = k
PROOF
  <1> DEFINE IsNext(q) == (q <= Len(s) => s[q] = Sep) /\ \A j \in n .. q - 1 : s[j] # Sep
  <1>1. PICK l \in Nat : l = Len(s)
    BY Lists
  <1>2. k \in n .. Len(s) + 1 /\ IsNext(k)
    BY <1>1
  <1>3. ASSUME NEW q \in n .. Len(s) + 1, IsNext(q) PROVE q = k
    <2>1. CASE q < k
      BY <1>1, <1>3, <2>1
    <2>2. CASE q > k
      <3>1. k \in n .. q - 1
        BY <1>1, <2>2
      <3>2. QED
        BY <1>3, <3>1
    <2>3. QED
      BY <1>1, <2>1, <2>2
  <1>4. NextSep(s, n) = CHOOSE q \in n .. Len(s) + 1 : IsNext(q)
    BY DEF NextSep
  <1> HIDE DEF IsNext
  <1>5. QED
    BY <1>2, <1>3, <1>4

(* So behind a part there is the separator that follows it. *)
LEMMA SepBehind ==
  ASSUME NEW s, IsList(s), NEW kind \in {"id", "cost", "rounds", "salt", "digest", "argon2"},
         NEW of, NEW a, NEW b, NEW m, NEW n, Span(a, b, m, n), Has(s, m, kind, of, n),
         NEW k, k = b + 1, k <= Len(s), s[k] = Sep
  PROVE  NextSep(s, a) = k
PROOF
  <1> USE DEF Span
  <1>1. \A j \in a .. k - 1 : s[j] # Sep
    <2> SUFFICES ASSUME NEW j \in a .. k - 1 PROVE s[j] # Sep
      OBVIOUS
    <2>1. PICK i \in 1 .. n : m + i = j
      <3>1. j - m \in 1 .. n /\ m + (j - m) = j
        OBVIOUS
      <3>2. QED
        BY <3>1
    <2>2. s[j] = <<kind, of, i>>
      BY <2>1 DEF Has
    <2>3. QED
      BY <2>2, NotSep
  <1>2. a \in Nat /\ k \in Nat /\ 1 <= a /\ a <= k
    OBVIOUS
  <1>3. QED
    BY <1>1, <1>2, SepAt
-------------------------------------------------------------------------------
(* How a hash or a salt of each kind starts, with cost c and the n-th salt   *)
(* drawn; whatever follows.                                                  *)
StartsBf(s, c, n) ==
  /\ IsList(s) /\ Len(s) >= 29
  /\ s[1] = Sep /\ Has(s, 1, "id", "bf", 2) /\ s[4] = Sep
  /\ Has(s, 4, "cost", c, 2) /\ s[7] = Sep /\ Has(s, 7, "salt", n, 22)

StartsDes(s, n) == IsList(s) /\ Len(s) >= 2 /\ Has(s, 0, "salt", n, 2)

StartsXdes(s, c, n) ==
  /\ IsList(s) /\ Len(s) >= 9
  /\ s[1] = <<"underscore", 0, 0>> /\ Has(s, 1, "cost", c, 4) /\ Has(s, 5, "salt", n, 4)

StartsMd5(s, n) ==
  /\ IsList(s) /\ Len(s) >= 12
  /\ s[1] = Sep /\ Has(s, 1, "id", "md5", 1) /\ s[3] = Sep
  /\ Has(s, 3, "salt", n, 8) /\ s[12] = Sep

StartsBrief(s, alg, n) ==
  /\ IsList(s) /\ Len(s) >= 20
  /\ s[1] = Sep /\ Has(s, 1, "id", alg, 1) /\ s[3] = Sep
  /\ Has(s, 3, "salt", n, 16) /\ s[20] = Sep

StartsLong(s, alg, c, k, n) ==
  /\ IsList(s) /\ Len(s) >= 28 + k
  /\ s[1] = Sep /\ Has(s, 1, "id", alg, 1) /\ s[3] = Sep
  /\ Has(s, 3, "rounds", 0, 7) /\ Has(s, 10, "cost", c, k) /\ s[11 + k] = Sep
  /\ Has(s, 11 + k, "salt", n, 16) /\ s[28 + k] = Sep

ReadAs(alg, c, n) == [alg |-> alg, cost |-> c, salt |-> Chars("salt", n, SaltLen(alg))]

(* The first character of a part. *)
LEMMA FirstOf ==
  ASSUME NEW s, NEW m \in Nat, NEW kind, NEW of, NEW n \in Nat, n > 0, Has(s, m, kind, of, n)
  PROVE  s[m + 1] = <<kind, of, 1>> /\ s[m + 1][1] = kind /\ s[m + 1][2] = of
PROOF
  <1>1. s[m + 1] = <<kind, of, 1>>
    BY DEF Has
  <1>2. QED
    BY <1>1

(* The algorithm a text with an identifier names. *)
LEMMA Identified ==
  ASSUME NEW s, IsList(s), NEW alg, NEW n \in Nat, n > 0, Len(s) > 1, s[1] = Sep,
         Has(s, 1, "id", alg, n)
  PROVE  AlgorithmOf(s) = alg
PROOF
  <1>1. s # << >>
    BY NoChars
  <1>2. PICK m \in Nat : m = 1
    OBVIOUS
  <1>3. s[m + 1][1] = "id" /\ s[m + 1][2] = alg
    BY <1>2, FirstOf
  <1>4. s[2][1] = "id" /\ s[2][2] = alg
    BY <1>2, <1>3
  <1>5. QED
    BY <1>1, <1>4 DEF AlgorithmOf

(* What the library reads from a text of each kind. *)
LEMMA ReadsBf ==
  ASSUME NEW s, NEW c, NEW n, StartsBf(s, c, n)
  PROVE  Setting(s) = ReadAs("bf", c, n)
PROOF
  <1>1. PICK l \in Nat : l = Len(s) /\ l >= 29
    BY Lists DEF StartsBf
  <1>2. AlgorithmOf(s) = "bf"
    BY <1>1, Identified DEF StartsBf
  <1>3. s[5][2] = c
    <2>1. PICK m \in Nat : m = 4
      OBVIOUS
    <2>2. s[m + 1][2] = c
      BY <2>1, FirstOf DEF StartsBf
    <2>3. QED
      BY <2>1, <2>2
  <1>4. SubSeq(s, 8, 29) = Chars("salt", n, 22)
    <2>1. PICK a, b, m, k : Span(a, b, m, k) /\ a = 8 /\ b = 29 /\ m = 7 /\ k = 22
      BY DEF Span
    <2>2. IsList(s) /\ b <= Len(s) /\ Has(s, m, "salt", n, k) /\ Span(a, b, m, k)
      BY <1>1, <2>1 DEF StartsBf
    <2>3. IsSlice(s, a, b, Chars("salt", n, k))
      BY <2>2, SliceChars
    <2>4. QED
      BY <2>1, <2>3 DEF IsSlice
  <1>5. SaltLen("bf") = 22
    BY DEF SaltLen
  <1>6. Len(s) >= 29
    BY <1>1
  <1>7. QED
    BY <1>2, <1>3, <1>4, <1>5, <1>6 DEF Setting, ReadAs

(* des: two characters of salt, and the one cost there is. *)
LEMMA ReadsDes ==
  ASSUME NEW s, NEW n, StartsDes(s, n)
  PROVE  Setting(s) = ReadAs("des", 25, n)
PROOF
  <1>1. PICK l \in Nat : l = Len(s) /\ l >= 2
    BY Lists DEF StartsDes
  <1>2. AlgorithmOf(s) = "des"
    <2>1. PICK m \in Nat : m = 0
      OBVIOUS
    <2>2. s[m + 1] = <<"salt", n, 1>> /\ s[m + 1][1] = "salt"
      BY <2>1, FirstOf DEF StartsDes
    <2>3. s[1] = <<"salt", n, 1>> /\ s[1][1] = "salt"
      BY <2>1, <2>2
    <2>4. s[1] # Sep
      BY <2>3, NotSep
    <2>5. s # << >>
      BY <1>1, NoChars
    <2>6. QED
      BY <2>3, <2>4, <2>5 DEF AlgorithmOf
  <1>3. SubSeq(s, 1, 2) = Chars("salt", n, 2)
    <2>1. PICK a, b, m, k : Span(a, b, m, k) /\ a = 1 /\ b = 2 /\ m = 0 /\ k = 2
      BY DEF Span
    <2>2. IsList(s) /\ b <= Len(s) /\ Has(s, m, "salt", n, k) /\ Span(a, b, m, k)
      BY <1>1, <2>1 DEF StartsDes
    <2>3. IsSlice(s, a, b, Chars("salt", n, k))
      BY <2>2, SliceChars
    <2>4. QED
      BY <2>1, <2>3 DEF IsSlice
  <1>4. SaltLen("des") = 2
    BY DEF SaltLen
  <1>5. Len(s) >= 2
    BY <1>1
  <1>6. QED
    BY <1>2, <1>3, <1>4, <1>5 DEF Setting, ReadAs

(* xdes: the cost and the salt at fixed places. *)
LEMMA ReadsXdes ==
  ASSUME NEW s, NEW c, NEW n, StartsXdes(s, c, n)
  PROVE  Setting(s) = ReadAs("xdes", c, n)
PROOF
  <1>1. PICK l \in Nat : l = Len(s) /\ l >= 9
    BY Lists DEF StartsXdes
  <1>2. AlgorithmOf(s) = "xdes"
    <2>1. s[1][1] = "underscore" /\ s[1] # Sep
      BY DEF StartsXdes, Sep
    <2>2. s # << >>
      BY <1>1, NoChars
    <2>3. QED
      BY <2>1, <2>2 DEF AlgorithmOf
  <1>3. s[2][2] = c
    <2>1. PICK m \in Nat : m = 1
      OBVIOUS
    <2>2. s[m + 1][2] = c
      BY <2>1, FirstOf DEF StartsXdes
    <2>3. QED
      BY <2>1, <2>2
  <1>4. SubSeq(s, 6, 9) = Chars("salt", n, 4)
    <2>1. PICK a, b, m, k : Span(a, b, m, k) /\ a = 6 /\ b = 9 /\ m = 5 /\ k = 4
      BY DEF Span
    <2>2. IsList(s) /\ b <= Len(s) /\ Has(s, m, "salt", n, k) /\ Span(a, b, m, k)
      BY <1>1, <2>1 DEF StartsXdes
    <2>3. IsSlice(s, a, b, Chars("salt", n, k))
      BY <2>2, SliceChars
    <2>4. QED
      BY <2>1, <2>3 DEF IsSlice
  <1>5. SaltLen("xdes") = 4
    BY DEF SaltLen
  <1>6. Len(s) >= 9
    BY <1>1
  <1>7. QED
    BY <1>2, <1>3, <1>4, <1>5, <1>6 DEF Setting, ReadAs

(* md5: the salt up to the separator. *)
LEMMA ReadsMd5 ==
  ASSUME NEW s, NEW n, StartsMd5(s, n)
  PROVE  /\ NextSep(s, 4) = 12 /\ Setting(s) = ReadAs("md5", 1000, n)
PROOF
  <1>1. PICK l \in Nat : l = Len(s) /\ l >= 12
    BY Lists DEF StartsMd5
  <1>2. AlgorithmOf(s) = "md5"
    BY <1>1, Identified DEF StartsMd5
  <1>3. PICK a, b, m, k, e : /\ Span(a, b, m, k) /\ e = b + 1
                             /\ a = 4 /\ b = 11 /\ m = 3 /\ k = 8 /\ e = 12
    BY DEF Span
  <1>4. /\ IsList(s) /\ b <= Len(s) /\ Has(s, m, "salt", n, k) /\ Span(a, b, m, k)
        /\ e = b + 1 /\ e <= Len(s) /\ s[e] = Sep
    BY <1>1, <1>3 DEF StartsMd5
  <1>5. IsSlice(s, a, b, Chars("salt", n, k))
    BY <1>4, SliceChars
  <1>6. NextSep(s, a) = e
    BY <1>4, SepBehind
  <1>7. SaltLen("md5") = 8
    BY DEF SaltLen
  <1>8. NextSep(s, 4) = 12 /\ SubSeq(s, 4, 11) = Chars("salt", n, 8)
    BY <1>3, <1>5, <1>6 DEF IsSlice
  <1>9. PICK end : end = IF NextSep(s, 4) <= 4 + 8 THEN NextSep(s, 4) - 1 ELSE 4 + 8 - 1
    OBVIOUS
  <1>10. Setting(s) = [alg |-> "md5", cost |-> 1000, salt |-> SubSeq(s, 4, end)]
    BY <1>2, <1>9 DEF Setting, UpTo
  <1>11. end = 11
    BY <1>8, <1>9
  <1>12. QED
    BY <1>7, <1>8, <1>10, <1>11 DEF ReadAs

(* The rounds field is there or it is not. *)
LEMMA RoundsField ==
  ASSUME NEW s, IsList(s), Len(s) >= 10
  PROVE  /\ Has(s, 3, "rounds", 0, 7) => HasRounds(s)
         /\ \A n : Has(s, 3, "salt", n, 16) => ~HasRounds(s)
PROOF
  <1>1. PICK a, b, m, k : Span(a, b, m, k) /\ a = 4 /\ b = 10 /\ m = 3 /\ k = 7
    BY DEF Span
  <1>2. PICK l \in Nat : l = Len(s) /\ l >= 10
    BY Lists
  <1>3. b <= Len(s) /\ Span(a, b, m, k)
    BY <1>1, <1>2
  <1>4. ASSUME Has(s, m, "rounds", 0, k) PROVE SubSeq(s, 4, 10) = Chars("rounds", 0, 7)
    <2>1. IsSlice(s, a, b, Chars("rounds", 0, k))
      BY <1>3, <1>4, SliceChars
    <2>2. QED
      BY <1>1, <2>1 DEF IsSlice
  <1>5. ASSUME NEW n, Has(s, 3, "salt", n, 16) PROVE SubSeq(s, 4, 10) # Chars("rounds", 0, 7)
    <2>1. s[4] = <<"salt", n, 1>>
      <3>1. PICK q \in Nat : q = 16 /\ q > 0
        OBVIOUS
      <3>2. m \in Nat /\ Has(s, m, "salt", n, q)
        BY <1>1, <1>5, <3>1
      <3>3. s[m + 1] = <<"salt", n, 1>>
        BY <3>1, <3>2, FirstOf
      <3>4. QED
        BY <1>1, <3>3
    <2>2. PICK x : x = SubSeq(s, 4, 10)
      OBVIOUS
    <2>3. x[1] = s[4]
      <3>1. \A i \in 1 .. b - a + 1 : SubSeq(s, a, b)[i] = s[a + i - 1]
        <4>1. a \in Nat /\ b \in Nat /\ 1 <= a /\ a <= b
          BY <1>1
        <4>2. QED
          BY <1>3, <4>1, Slice
      <3>2. SubSeq(s, a, b)[1] = s[a + 1 - 1]
        BY <1>1, <3>1
      <3>3. QED
        BY <1>1, <2>2, <3>2
    <2>4. Chars("rounds", 0, 7)[1] = <<"rounds", 0, 1>>
      BY PartChars
    <2>5. <<"rounds", 0, 1>> # <<"salt", n, 1>>
      OBVIOUS
    <2>6. QED
      BY <2>1, <2>2, <2>3, <2>4, <2>5
  <1>6. QED
    BY <1>1, <1>4, <1>5 DEF HasRounds

(* The separator behind the identifier of one character. *)
LEMMA SepAfterId ==
  ASSUME NEW s, IsList(s), NEW alg, Len(s) >= 3, Has(s, 1, "id", alg, 1), s[3] = Sep
  PROVE  NextSep(s, 2) = 3
PROOF
  <1>1. PICK a, b, m, k, e : /\ Span(a, b, m, k) /\ e = b + 1
                             /\ a = 2 /\ b = 2 /\ m = 1 /\ k = 1 /\ e = 3
    BY DEF Span
  <1>2. /\ Has(s, m, "id", alg, k) /\ Span(a, b, m, k) /\ e = b + 1 /\ e <= Len(s) /\ s[e] = Sep
    BY <1>1, Lists
  <1>3. NextSep(s, a) = e
    BY <1>2, SepBehind
  <1>4. QED
    BY <1>1, <1>3

(* sha-crypt without a rounds field: the default cost, the salt from place 4 on, *)
LEMMA ReadsBrief ==
  ASSUME NEW s, NEW alg \in Sha, NEW n, StartsBrief(s, alg, n)
  PROVE  /\ ~HasRounds(s) /\ ShaEnd(s) = 20 /\ Setting(s) = ReadAs(alg, 5000, n)
PROOF
  <1>1. PICK l \in Nat : l = Len(s) /\ l >= 20
    BY Lists DEF StartsBrief
  <1>2. AlgorithmOf(s) = alg
    BY <1>1, Identified DEF StartsBrief
  <1>3. PICK a, b, m, k, e : /\ Span(a, b, m, k) /\ e = b + 1
                             /\ a = 4 /\ b = 19 /\ m = 3 /\ k = 16 /\ e = 20
    BY DEF Span
  <1>4. /\ IsList(s) /\ b <= Len(s) /\ Has(s, m, "salt", n, k) /\ Span(a, b, m, k)
        /\ e = b + 1 /\ e <= Len(s) /\ s[e] = Sep
    BY <1>1, <1>3 DEF StartsBrief
  <1>5. IsSlice(s, a, b, Chars("salt", n, k))
    BY <1>4, SliceChars
  <1>6. NextSep(s, a) = e
    BY <1>4, SepBehind
  <1>7. SaltLen(alg) = 16
    BY DEF SaltLen, Sha
  <1>8. NextSep(s, 4) = 20 /\ SubSeq(s, 4, 19) = Chars("salt", n, 16)
    BY <1>3, <1>5, <1>6 DEF IsSlice
  <1>9. ~HasRounds(s)
    BY <1>1, RoundsField DEF StartsBrief
  <1>10. NextSep(s, 2) = 3
    BY <1>1, SepAfterId DEF StartsBrief
  <1>11. NextSep(s, NextSep(s, 2) + 1) = 20
    <2>1. NextSep(s, 2) + 1 = 4
      BY <1>10
    <2>2. QED
      BY <1>8, <2>1
  <1>12. PICK end : end = IF NextSep(s, 4) <= 4 + 16 THEN NextSep(s, 4) - 1 ELSE 4 + 16 - 1
    OBVIOUS
  <1>13. Setting(s) = [alg |-> alg, cost |-> 5000, salt |-> SubSeq(s, 4, end)]
    <2>1. alg # "bf" /\ alg # "des" /\ alg # "xdes" /\ alg # "md5"
      BY DEF Sha
    <2>2. Setting(s) = [alg |-> alg, cost |-> 5000, salt |-> UpTo(s, 4, 16)]
      BY <1>2, <1>9, <2>1 DEF Setting
    <2>3. QED
      BY <1>12, <2>2 DEF UpTo
  <1>14. end = 19
    BY <1>8, <1>12
  <1>15. QED
    BY <1>7, <1>8, <1>9, <1>11, <1>13, <1>14 DEF ReadAs, ShaEnd

(* and with one: the cost from the field, the salt behind it. *)
LEMMA ReadsLong ==
  ASSUME NEW s, NEW alg \in Sha, NEW c, NEW k \in 4 .. 9, NEW n, StartsLong(s, alg, c, k, n)
  PROVE  /\ HasRounds(s) /\ ShaEnd(s) = 28 + k /\ Setting(s) = ReadAs(alg, c, n)
PROOF
  <1>1. PICK l \in Nat : l = Len(s) /\ l >= 28 + k
    BY Lists DEF StartsLong
  <1>2. AlgorithmOf(s) = alg
    BY <1>1, Identified DEF StartsLong
  <1>3. PICK a, b, m, q, e : /\ Span(a, b, m, q) /\ e = b + 1
                             /\ a = 12 + k /\ b = 27 + k /\ m = 11 + k /\ q = 16 /\ e = 28 + k
    BY DEF Span
  <1>4. /\ IsList(s) /\ b <= Len(s) /\ Has(s, m, "salt", n, q) /\ Span(a, b, m, q)
        /\ e = b + 1 /\ e <= Len(s) /\ s[e] = Sep
    BY <1>1, <1>3 DEF StartsLong
  <1>5. IsSlice(s, a, b, Chars("salt", n, q))
    BY <1>4, SliceChars
  <1>6. NextSep(s, a) = e
    BY <1>4, SepBehind
  <1>7. SaltLen(alg) = 16
    BY DEF SaltLen, Sha
  <1>8. NextSep(s, 12 + k) = 28 + k /\ SubSeq(s, 12 + k, 27 + k) = Chars("salt", n, 16)
    BY <1>3, <1>5, <1>6 DEF IsSlice
  <1>9. HasRounds(s)
    BY <1>1, RoundsField DEF StartsLong
  <1>10. NextSep(s, 2) = 3
    BY <1>1, SepAfterId DEF StartsLong
  <1>11. PICK f \in Nat : f = 11 + k
    OBVIOUS
  <1>12. \A j \in 4 .. f - 1 : s[j] # Sep
    <2> SUFFICES ASSUME NEW j \in 4 .. f - 1 PROVE s[j] # Sep
      OBVIOUS
    <2>1. CASE j <= 10
      <3>1. PICK i \in 1 .. 7 : 3 + i = j
        <4>1. j - 3 \in 1 .. 7 /\ 3 + (j - 3) = j
          BY <2>1, <1>11
        <4>2. QED
          BY <4>1
      <3>2. s[j] = <<"rounds", 0, i>>
        BY <3>1 DEF StartsLong, Has
      <3>3. QED
        BY <3>2, NotSep
    <2>2. CASE j > 10
      <3>1. PICK i \in 1 .. k : 10 + i = j
        <4>1. j - 10 \in 1 .. k /\ 10 + (j - 10) = j
          BY <2>2, <1>11
        <4>2. QED
          BY <4>1
      <3>2. s[j] = <<"cost", c, i>>
        BY <3>1 DEF StartsLong, Has
      <3>3. QED
        BY <3>2, NotSep
    <2>3. QED
      BY <1>11, <2>1, <2>2
  <1>13. IsList(s) /\ f <= Len(s) /\ s[f] = Sep
    BY <1>1, <1>11 DEF StartsLong
  <1>14. NextSep(s, 4) = f
    <2>1. PICK o \in Nat : o = 4
      OBVIOUS
    <2>2. o \in Nat /\ f \in Nat /\ 1 <= o /\ o <= f /\ \A j \in o .. f - 1 : s[j] # Sep
      BY <1>11, <1>12, <2>1
    <2>3. NextSep(s, o) = f
      BY <1>13, <2>2, SepAt
    <2>4. QED
      BY <2>1, <2>3
  <1>15. NextSep(s, 11) = f
    <2>1. PICK o \in Nat : o = 11
      OBVIOUS
    <2>2. o \in Nat /\ f \in Nat /\ 1 <= o /\ o <= f /\ \A j \in o .. f - 1 : s[j] # Sep
      BY <1>11, <1>12, <2>1
    <2>3. NextSep(s, o) = f
      BY <1>13, <2>2, SepAt
    <2>4. QED
      BY <2>1, <2>3
  <1>16. s[11][2] = c
    <2>1. PICK o \in Nat : o = 10
      OBVIOUS
    <2>2. s[o + 1][2] = c
      BY <2>1, FirstOf DEF StartsLong
    <2>3. QED
      BY <2>1, <2>2
  <1>17. PICK g \in Nat : g = 12 + k /\ g = f + 1
    BY <1>11
  <1>18. ShaEnd(s) = 28 + k
    <2>1. NextSep(s, 2) + 1 = 4
      BY <1>10
    <2>2. NextSep(s, NextSep(s, 2) + 1) = f
      BY <1>14, <2>1
    <2>3. NextSep(s, NextSep(s, NextSep(s, 2) + 1) + 1) = 28 + k
      BY <1>8, <1>17, <2>2
    <2>4. QED
      BY <1>9, <2>3 DEF ShaEnd
  <1>19. PICK end : end = IF NextSep(s, g) <= g + 16 THEN NextSep(s, g) - 1 ELSE g + 16 - 1
    OBVIOUS
  <1>20. end = 27 + k
    BY <1>8, <1>17, <1>19
  <1>21. NextSep(s, 11) + 1 = g
    BY <1>15, <1>17
  <1>22. Setting(s) = [alg |-> alg, cost |-> c, salt |-> SubSeq(s, g, end)]
    <2>1. alg # "bf" /\ alg # "des" /\ alg # "xdes" /\ alg # "md5"
      BY DEF Sha
    <2>2. Setting(s) = [alg |-> alg, cost |-> c, salt |-> UpTo(s, g, 16)]
      BY <1>2, <1>9, <1>16, <1>21, <2>1 DEF Setting
    <2>3. QED
      BY <1>19, <2>2 DEF UpTo
  <1>23. QED
    BY <1>7, <1>8, <1>9, <1>17, <1>18, <1>20, <1>22 DEF ReadAs
-------------------------------------------------------------------------------
(* A part stays where it is when something follows, *)
LEMMA HasLeft ==
  ASSUME NEW s, NEW t, IsList(s), IsList(t), NEW kind, NEW of, NEW p \in Nat, NEW n \in Nat,
         p + n <= Len(s), Has(s, p, kind, of, n)
  PROVE  Has(s \o t, p, kind, of, n)
PROOF
  <1>1. PICK l \in Nat : l = Len(s)
    BY Lists
  <1>2. \A i \in 1 .. l : (s \o t)[i] = s[i]
    BY <1>1, Joined
  <1>3. \A i \in 1 .. n : p + i \in 1 .. l
    BY <1>1
  <1>4. QED
    BY <1>2, <1>3 DEF Has

(* and moves by the length of what comes before. *)
LEMMA HasRight ==
  ASSUME NEW s, NEW t, IsList(s), IsList(t), NEW kind, NEW of, NEW p \in Nat, NEW n \in Nat,
         p + n <= Len(t), Has(t, p, kind, of, n), NEW q, q = Len(s) + p
  PROVE  Has(s \o t, q, kind, of, n)
PROOF
  <1>1. PICK m \in Nat : m = Len(s)
    BY Lists
  <1>2. PICK l \in Nat : l = Len(t)
    BY Lists
  <1>3. \A j \in 1 .. l : (s \o t)[m + j] = t[j]
    BY <1>1, <1>2, Joined
  <1>4. ASSUME NEW i \in 1 .. n PROVE (s \o t)[q + i] = <<kind, of, i>>
    <2>1. PICK j \in 1 .. l : j = p + i
      BY <1>2
    <2>2. q + i = m + j
      BY <1>1, <2>1
    <2>3. t[j] = <<kind, of, i>>
      BY <2>1 DEF Has
    <2>4. QED
      BY <1>3, <2>2, <2>3
  <1>5. QED
    BY <1>4 DEF Has

(* A part is at the start of itself. *)
LEMMA CharsHas ==
  ASSUME NEW kind, NEW of, NEW n \in Nat
  PROVE  /\ IsList(Chars(kind, of, n)) /\ Len(Chars(kind, of, n)) = n
         /\ Has(Chars(kind, of, n), 0, kind, of, n)
PROOF
  <1>1. \A i \in 1 .. n : 0 + i = i
    OBVIOUS
  <1>2. QED
    BY <1>1, PartChars DEF Has

(* y is x and a separator. *)
Closes(y, x) ==
  /\ IsList(y) /\ Len(y) = Len(x) + 1 /\ y[Len(x) + 1] = Sep
  /\ \A i \in 1 .. Len(x) : y[i] = x[i]

(* A separator at the end. *)
LEMMA SepAdded ==
  ASSUME NEW x, IsList(x), NEW y, y = x \o <<Sep>>
  PROVE  Closes(y, x)
PROOF
  <1>1. PICK t : t = <<Sep>> /\ IsList(t) /\ Len(t) = 1 /\ t[1] = Sep
    BY OneChar
  <1>2. PICK m \in Nat : m = Len(x)
    BY Lists
  <1>3. QED
    BY <1>1, <1>2, Joined DEF Closes

(* y is x and a part. *)
Adds(y, x, kind, of, n) ==
  /\ IsList(y) /\ Len(y) = Len(x) + n /\ Has(y, Len(x), kind, of, n)
  /\ \A i \in 1 .. Len(x) : y[i] = x[i]

(* A part at the end. *)
LEMMA PartAdded ==
  ASSUME NEW x, IsList(x), NEW kind, NEW of, NEW n \in Nat, NEW y, y = x \o Chars(kind, of, n)
  PROVE  Adds(y, x, kind, of, n)
PROOF
  <1>1. PICK t : t = Chars(kind, of, n) /\ IsList(t) /\ Len(t) = n /\ Has(t, 0, kind, of, n)
    BY CharsHas
  <1>2. IsList(y) /\ Len(y) = Len(x) + n /\ \A i \in 1 .. Len(x) : y[i] = x[i]
    BY <1>1, Joined
  <1>3. PICK p \in Nat : p = 0
    OBVIOUS
  <1>4. p \in Nat /\ p + n <= Len(t) /\ Has(t, p, kind, of, n) /\ Len(x) = Len(x) + p
    BY <1>1, <1>3, Lists
  <1>5. Has(x \o t, Len(x), kind, of, n)
    BY <1>1, <1>4, HasRight
  <1>6. QED
    BY <1>1, <1>2, <1>5 DEF Adds

(* The identifier of an algorithm between its separators. *)
IsTag(t, alg, n) ==
  IsList(t) /\ Len(t) = n + 2 /\ t[1] = Sep /\ Has(t, 1, "id", alg, n) /\ t[n + 2] = Sep

(* A tag is its identifier between separators. *)
LEMMA TagParts ==
  ASSUME NEW alg, NEW n \in {1, 2}
  PROVE  IsTag(<<Sep>> \o Chars("id", alg, n) \o <<Sep>>, alg, n)
PROOF
  <1>1. PICK e : e = <<Sep>> /\ IsList(e) /\ Len(e) = 1 /\ e[1] = Sep
    BY OneChar
  <1>2. PICK id : /\ id = Chars("id", alg, n) /\ IsList(id) /\ Len(id) = n
                  /\ Has(id, 0, "id", alg, n)
    BY CharsHas
  <1>3. PICK x : x = e \o id
    OBVIOUS
  <1>4. IsList(x) /\ Len(x) = 1 + n /\ x[1] = Sep
    BY <1>1, <1>2, <1>3, Joined
  <1>5. Has(x, 1, "id", alg, n)
    <2>1. PICK p, q : p \in Nat /\ p + n <= Len(id) /\ q = Len(e) + p /\ p = 0 /\ q = 1
      BY <1>1, <1>2
    <2>2. p \in Nat /\ n \in Nat /\ p + n <= Len(id) /\ q = Len(e) + p /\ Has(id, p, "id", alg, n)
      BY <1>2, <2>1
    <2>3. Has(e \o id, q, "id", alg, n)
      BY <1>1, <1>2, <2>2, HasRight
    <2>4. QED
      BY <1>3, <2>1, <2>3
  <1>6. PICK t : t = x \o e
    OBVIOUS
  <1>7. IsList(t) /\ Len(t) = n + 2 /\ t[1] = Sep /\ t[n + 2] = Sep
    BY <1>1, <1>4, <1>6, Joined
  <1>8. Has(t, 1, "id", alg, n)
    <2>1. Has(x \o e, 1, "id", alg, n)
      BY <1>1, <1>4, <1>5, HasLeft
    <2>2. QED
      BY <1>6, <2>1
  <1>9. QED
    BY <1>1, <1>2, <1>3, <1>6, <1>7, <1>8 DEF IsTag

(* What a salt is made of. *)
Front(alg, c, n, brief) ==
  Tag(alg) \o CostChars(alg, c, brief) \o Chars("salt", n, SaltLen(alg))
    \o (IF alg \in Sha \cup {"md5"} THEN <<Sep>> ELSE << >>)

(* Nothing behind a text. *)
LEMMA NothingAdded ==
  ASSUME NEW s, IsList(s)
  PROVE  s \o << >> = s /\ << >> \o s = s
PROOF
  <1>1. PICK S : s \in Seq(S)
    BY DEF IsList
  <1>2. QED
    BY <1>1, ConcatEmptySeq

(* A salt of each kind starts as its kind does, and has its length. *)
LEMMA FrontDes ==
  ASSUME NEW c, NEW n, NEW brief
  PROVE  StartsDes(Front("des", c, n, brief), n) /\ Len(Front("des", c, n, brief)) = 2
PROOF
  <1>1. PICK e : e = << >> /\ IsList(e) /\ Len(e) = 0
    BY NoChars
  <1>2. e \o e = e
    BY <1>1, NothingAdded
  <1>3. PICK x : x = e \o Chars("salt", n, 2)
    OBVIOUS
  <1>4. IsList(x) /\ Len(x) = 2 /\ Has(x, 0, "salt", n, 2)
    <2>1. Adds(x, e, "salt", n, 2)
      BY <1>1, <1>3, PartAdded
    <2>2. QED
      BY <1>1, <2>1 DEF Adds
  <1>5. x \o e = x
    BY <1>1, <1>4, NothingAdded
  <1>6. Front("des", c, n, brief) = x
    <2>1. Tag("des") = e /\ CostChars("des", c, brief) = e /\ SaltLen("des") = 2
      BY <1>1 DEF Tag, CostChars, SaltLen, Sha
    <2>2. "des" \notin Sha \cup {"md5"}
      BY DEF Sha
    <2>3. Front("des", c, n, brief) = e \o e \o Chars("salt", n, 2) \o e
      BY <1>1, <2>1, <2>2 DEF Front
    <2>4. QED
      BY <1>2, <1>3, <1>5, <2>3
  <1>7. QED
    BY <1>4, <1>6 DEF StartsDes

(* md5: tag, salt, separator. *)
LEMMA FrontMd5 ==
  ASSUME NEW c, NEW n, NEW brief
  PROVE  StartsMd5(Front("md5", c, n, brief), n) /\ Len(Front("md5", c, n, brief)) = 12
PROOF
  <1>1. PICK t : t = Tag("md5") /\ IsList(t) /\ Len(t) = 3 /\ t[1] = Sep /\ t[3] = Sep
                 /\ Has(t, 1, "id", "md5", 1)
    <2>1. Tag("md5") = <<Sep>> \o Chars("id", "md5", 1) \o <<Sep>>
      BY DEF Tag
    <2>2. IsTag(<<Sep>> \o Chars("id", "md5", 1) \o <<Sep>>, "md5", 1)
      BY TagParts
    <2>3. IsTag(Tag("md5"), "md5", 1)
      BY <2>1, <2>2
    <2>4. QED
      BY <2>3 DEF IsTag
  <1>2. PICK x : x = t \o Chars("salt", n, 8)
    OBVIOUS
  <1>3. IsList(x) /\ Len(x) = 11 /\ Has(x, 3, "salt", n, 8) /\ \A i \in 1 .. 3 : x[i] = t[i]
    <2>1. Adds(x, t, "salt", n, 8)
      BY <1>1, <1>2, PartAdded
    <2>2. QED
      BY <1>1, <2>1 DEF Adds
  <1>4. PICK y : y = x \o <<Sep>>
    OBVIOUS
  <1>5. IsList(y) /\ Len(y) = 12 /\ y[12] = Sep /\ \A i \in 1 .. 11 : y[i] = x[i]
    <2>1. Closes(y, x)
      BY <1>3, <1>4, SepAdded
    <2>2. QED
      BY <1>3, <2>1 DEF Closes
  <1>6. Front("md5", c, n, brief) = y
    <2>1. CostChars("md5", c, brief) = << >> /\ SaltLen("md5") = 8
      BY DEF CostChars, SaltLen, Sha
    <2>2. t \o << >> = t
      BY <1>1, NothingAdded
    <2>3. QED
      BY <1>1, <1>2, <1>4, <2>1, <2>2 DEF Front
  <1>7. \A i \in 1 .. 3 : y[i] = t[i]
    BY <1>3, <1>5
  <1>8. Has(y, 1, "id", "md5", 1) /\ Has(y, 3, "salt", n, 8)
    BY <1>1, <1>3, <1>5, <1>7 DEF Has
  <1>9. QED
    BY <1>1, <1>5, <1>6, <1>7, <1>8 DEF StartsMd5

(* xdes: underscore, cost, salt. *)
LEMMA FrontXdes ==
  ASSUME NEW c, c % TwoTo24 = c, NEW n, NEW brief
  PROVE  StartsXdes(Front("xdes", c, n, brief), c, n) /\ Len(Front("xdes", c, n, brief)) = 9
PROOF
  <1>1. PICK t : t = Tag("xdes") /\ IsList(t) /\ Len(t) = 1 /\ t[1] = <<"underscore", 0, 0>>
    BY OneChar DEF Tag
  <1>2. PICK w : w = t \o Chars("cost", c, 4)
    OBVIOUS
  <1>3. IsList(w) /\ Len(w) = 5 /\ Has(w, 1, "cost", c, 4) /\ w[1] = t[1]
    <2>1. Adds(w, t, "cost", c, 4)
      BY <1>1, <1>2, PartAdded
    <2>2. QED
      BY <1>1, <2>1 DEF Adds
  <1>4. PICK x : x = w \o Chars("salt", n, 4)
    OBVIOUS
  <1>5. IsList(x) /\ Len(x) = 9 /\ Has(x, 5, "salt", n, 4) /\ \A i \in 1 .. 5 : x[i] = w[i]
    <2>1. Adds(x, w, "salt", n, 4)
      BY <1>3, <1>4, PartAdded
    <2>2. QED
      BY <1>3, <2>1 DEF Adds
  <1>6. Front("xdes", c, n, brief) = x
    <2>1. CostChars("xdes", c, brief) = Chars("cost", c, 4) /\ SaltLen("xdes") = 4
      BY DEF CostChars, SaltLen
    <2>2. "xdes" \notin Sha \cup {"md5"}
      BY DEF Sha
    <2>3. x \o << >> = x
      BY <1>5, NothingAdded
    <2>4. QED
      BY <1>1, <1>2, <1>4, <2>1, <2>2, <2>3 DEF Front
  <1>7. Has(x, 1, "cost", c, 4) /\ x[1] = t[1]
    BY <1>3, <1>5 DEF Has
  <1>8. StartsXdes(x, c, n)
    BY <1>1, <1>5, <1>7 DEF StartsXdes
  <1>9. QED
    BY <1>5, <1>6, <1>8

(* bf: tag, two digits, separator, salt. *)
LEMMA FrontBf ==
  ASSUME NEW c, NEW n, NEW brief
  PROVE  StartsBf(Front("bf", c, n, brief), c, n) /\ Len(Front("bf", c, n, brief)) = 29
PROOF
  <1>1. PICK t : t = Tag("bf") /\ IsList(t) /\ Len(t) = 4 /\ t[1] = Sep /\ t[4] = Sep
                 /\ Has(t, 1, "id", "bf", 2)
    <2>1. Tag("bf") = <<Sep>> \o Chars("id", "bf", 2) \o <<Sep>>
      BY DEF Tag
    <2>2. IsTag(<<Sep>> \o Chars("id", "bf", 2) \o <<Sep>>, "bf", 2)
      BY TagParts
    <2>3. IsTag(Tag("bf"), "bf", 2)
      BY <2>1, <2>2
    <2>4. QED
      BY <2>3 DEF IsTag
  <1>2. PICK u : u = Chars("cost", c, 2) /\ IsList(u) /\ Len(u) = 2 /\ Has(u, 0, "cost", c, 2)
    BY CharsHas
  <1>3. PICK v : v = u \o <<Sep>>
    OBVIOUS
  <1>4. IsList(v) /\ Len(v) = 3 /\ v[3] = Sep /\ \A i \in 1 .. 2 : v[i] = u[i]
    <2>1. Closes(v, u)
      BY <1>2, <1>3, SepAdded
    <2>2. QED
      BY <1>2, <2>1 DEF Closes
  <1>5. PICK w : w = t \o v
    OBVIOUS
  <1>6. /\ IsList(w) /\ Len(w) = 7 /\ \A i \in 1 .. 4 : w[i] = t[i]
        /\ \A i \in 1 .. 3 : w[4 + i] = v[i]
    <2>1. /\ IsList(t \o v) /\ Len(t \o v) = Len(t) + Len(v)
          /\ \A i \in 1 .. Len(t) : (t \o v)[i] = t[i]
          /\ \A i \in 1 .. Len(v) : (t \o v)[Len(t) + i] = v[i]
      <3>1. IsList(t) /\ IsList(v)
        BY <1>1, <1>4
      <3>2. QED
        BY <3>1, Joined
    <2>2. QED
      BY <1>1, <1>4, <1>5, <2>1
  <1>7. /\ w[1] = Sep /\ w[4] = Sep /\ Has(w, 1, "id", "bf", 2)
        /\ w[7] = Sep /\ Has(w, 4, "cost", c, 2)
    <2>1. w[4 + 3] = v[3]
      BY <1>6
    <2>2. w[7] = Sep
      BY <1>4, <2>1
    <2>3. \A i \in 1 .. 2 : w[4 + i] = v[i] /\ v[i] = u[i] /\ u[i] = <<"cost", c, i>>
      BY <1>2, <1>4, <1>6 DEF Has
    <2>4. QED
      BY <1>1, <1>6, <2>2, <2>3 DEF Has
  <1>8. PICK x : x = w \o Chars("salt", n, 22)
    OBVIOUS
  <1>9. IsList(x) /\ Len(x) = 29 /\ Has(x, 7, "salt", n, 22) /\ \A i \in 1 .. 7 : x[i] = w[i]
    <2>1. Adds(x, w, "salt", n, 22)
      BY <1>6, <1>8, PartAdded
    <2>2. QED
      BY <1>6, <2>1 DEF Adds
  <1>10. Front("bf", c, n, brief) = x
    <2>1. CostChars("bf", c, brief) = v /\ SaltLen("bf") = 22
      BY <1>2, <1>3 DEF CostChars, SaltLen
    <2>2. "bf" \notin Sha \cup {"md5"}
      BY DEF Sha
    <2>3. x \o << >> = x
      BY <1>9, NothingAdded
    <2>4. QED
      BY <1>1, <1>5, <1>8, <2>1, <2>2, <2>3 DEF Front
  <1>11. /\ x[1] = Sep /\ x[4] = Sep /\ Has(x, 1, "id", "bf", 2)
         /\ x[7] = Sep /\ Has(x, 4, "cost", c, 2)
    BY <1>7, <1>9 DEF Has
  <1>12. StartsBf(x, c, n)
    BY <1>9, <1>11 DEF StartsBf
  <1>13. QED
    BY <1>9, <1>10, <1>12

(* The tag of sha-crypt. *)
LEMMA ShaTag ==
  ASSUME NEW alg \in Sha
  PROVE  /\ IsList(Tag(alg)) /\ Len(Tag(alg)) = 3 /\ Tag(alg)[1] = Sep /\ Tag(alg)[3] = Sep
         /\ Has(Tag(alg), 1, "id", alg, 1)
PROOF
  <1>1. Tag(alg) = <<Sep>> \o Chars("id", alg, 1) \o <<Sep>>
    BY DEF Tag, Sha
  <1>2. IsTag(<<Sep>> \o Chars("id", alg, 1) \o <<Sep>>, alg, 1)
    BY TagParts
  <1>3. IsTag(Tag(alg), alg, 1)
    BY <1>1, <1>2
  <1>4. QED
    BY <1>3 DEF IsTag

(* The default cost, left out. *)
Short(c, brief) == brief /\ c = 5000

(* sha-crypt with the default left out, *)
LEMMA FrontBrief ==
  ASSUME NEW alg \in Sha, NEW c, NEW n, NEW brief, Short(c, brief)
  PROVE  /\ StartsBrief(Front(alg, c, n, brief), alg, n)
         /\ Len(Front(alg, c, n, brief)) = 20
PROOF
  <1>1. PICK t : t = Tag(alg) /\ IsList(t) /\ Len(t) = 3 /\ t[1] = Sep /\ t[3] = Sep
                 /\ Has(t, 1, "id", alg, 1)
    BY ShaTag
  <1>2. PICK x : x = t \o Chars("salt", n, 16)
    OBVIOUS
  <1>3. IsList(x) /\ Len(x) = 19 /\ Has(x, 3, "salt", n, 16) /\ \A i \in 1 .. 3 : x[i] = t[i]
    <2>1. Adds(x, t, "salt", n, 16)
      BY <1>1, <1>2, PartAdded
    <2>2. QED
      BY <1>1, <2>1 DEF Adds
  <1>4. PICK y : y = x \o <<Sep>>
    OBVIOUS
  <1>5. IsList(y) /\ Len(y) = 20 /\ y[20] = Sep /\ \A i \in 1 .. 19 : y[i] = x[i]
    <2>1. Closes(y, x)
      BY <1>3, <1>4, SepAdded
    <2>2. QED
      BY <1>3, <2>1 DEF Closes
  <1>6. Front(alg, c, n, brief) = y
    <2>1. CostChars(alg, c, brief) = << >> /\ SaltLen(alg) = 16
      BY DEF CostChars, SaltLen, Sha, Short
    <2>2. t \o << >> = t
      BY <1>1, NothingAdded
    <2>3. alg \in Sha \cup {"md5"}
      OBVIOUS
    <2>4. Front(alg, c, n, brief) = t \o << >> \o Chars("salt", n, 16) \o <<Sep>>
      BY <1>1, <2>1, <2>3 DEF Front
    <2>5. QED
      BY <1>2, <1>4, <2>2, <2>4
  <1>7. \A i \in 1 .. 3 : y[i] = t[i]
    BY <1>3, <1>5
  <1>8. Has(y, 1, "id", alg, 1) /\ Has(y, 3, "salt", n, 16)
    BY <1>1, <1>3, <1>5, <1>7 DEF Has
  <1>9. StartsBrief(y, alg, n)
    BY <1>1, <1>5, <1>7, <1>8 DEF StartsBrief
  <1>10. QED
    BY <1>5, <1>6, <1>9

(* The cost of sha-crypt has four to nine digits. *)
LEMMA DigitCount ==
  ASSUME NEW c
  PROVE  Digits(c) \in 4 .. 9
  BY SMT DEF Digits

(* and with the cost written out. *)
LEMMA FrontLong ==
  ASSUME NEW alg \in Sha, NEW c, NEW n, NEW brief, ~Short(c, brief)
  PROVE  /\ StartsLong(Front(alg, c, n, brief), alg, c, Digits(c), n)
         /\ Len(Front(alg, c, n, brief)) = 28 + Digits(c)
PROOF
  <1>1. PICK t : t = Tag(alg) /\ IsList(t) /\ Len(t) = 3 /\ t[1] = Sep /\ t[3] = Sep
                 /\ Has(t, 1, "id", alg, 1)
    BY ShaTag
  <1>2. PICK k \in 4 .. 9 : k = Digits(c)
    BY DigitCount
  <1>3. PICK u : u = Chars("rounds", 0, 7) /\ IsList(u) /\ Len(u) = 7 /\ Has(u, 0, "rounds", 0, 7)
    BY CharsHas
  <1>4. PICK v : v = u \o Chars("cost", c, k)
    OBVIOUS
  <1>5. IsList(v) /\ Len(v) = 7 + k /\ Has(v, 7, "cost", c, k) /\ \A i \in 1 .. 7 : v[i] = u[i]
    <2>1. k \in Nat
      BY <1>2
    <2>2. Adds(v, u, "cost", c, k)
      BY <1>3, <1>4, <2>1, PartAdded
    <2>3. QED
      BY <1>3, <2>2 DEF Adds
  <1>6. PICK z : z = v \o <<Sep>>
    OBVIOUS
  <1>7. IsList(z) /\ Len(z) = 8 + k /\ z[8 + k] = Sep /\ \A i \in 1 .. 7 + k : z[i] = v[i]
    <2>1. Closes(z, v)
      BY <1>5, <1>6, SepAdded
    <2>2. QED
      BY <1>2, <1>5, <2>1 DEF Closes
  <1>8. PICK w : w = t \o z
    OBVIOUS
  <1>9. /\ IsList(w) /\ Len(w) = 11 + k /\ \A i \in 1 .. 3 : w[i] = t[i]
        /\ \A i \in 1 .. 8 + k : w[3 + i] = z[i]
    <2>1. /\ IsList(t \o z) /\ Len(t \o z) = Len(t) + Len(z)
          /\ \A i \in 1 .. Len(t) : (t \o z)[i] = t[i]
          /\ \A i \in 1 .. Len(z) : (t \o z)[Len(t) + i] = z[i]
      <3>1. IsList(t) /\ IsList(z)
        BY <1>1, <1>7
      <3>2. QED
        BY <3>1, Joined
    <2>2. QED
      BY <1>1, <1>2, <1>7, <1>8, <2>1
  <1>10. w[1] = Sep /\ w[3] = Sep /\ Has(w, 1, "id", alg, 1)
    BY <1>1, <1>9 DEF Has
  <1>11. w[11 + k] = Sep
    <2>1. PICK i \in 1 .. 8 + k : i = 8 + k /\ 3 + i = 11 + k
      BY <1>2
    <2>2. w[3 + i] = z[i]
      BY <1>9
    <2>3. QED
      BY <1>7, <2>1, <2>2
  <1>12. Has(w, 3, "rounds", 0, 7)
    <2>1. \A i \in 1 .. 7 : i \in 1 .. 8 + k /\ i \in 1 .. 7 + k
      BY <1>2
    <2>2. \A i \in 1 .. 7 : w[3 + i] = z[i] /\ z[i] = v[i] /\ v[i] = u[i]
      BY <1>5, <1>7, <1>9, <2>1
    <2>3. \A i \in 1 .. 7 : u[i] = <<"rounds", 0, i>>
      BY <1>3 DEF Has
    <2>4. QED
      BY <2>2, <2>3 DEF Has
  <1>13. Has(w, 10, "cost", c, k)
    <2> SUFFICES ASSUME NEW i \in 1 .. k PROVE w[10 + i] = <<"cost", c, i>>
      BY DEF Has
    <2>1. PICK j \in 1 .. 7 + k : j = 7 + i /\ 3 + j = 10 + i /\ j \in 1 .. 8 + k
      BY <1>2
    <2>2. w[3 + j] = z[j] /\ z[j] = v[j]
      BY <1>7, <1>9, <2>1
    <2>3. v[7 + i] = <<"cost", c, i>>
      BY <1>5 DEF Has
    <2>4. QED
      BY <2>1, <2>2, <2>3
  <1>14. PICK x : x = w \o Chars("salt", n, 16)
    OBVIOUS
  <1>15. /\ IsList(x) /\ Len(x) = 27 + k /\ Has(x, 11 + k, "salt", n, 16)
         /\ \A i \in 1 .. 11 + k : x[i] = w[i]
    <2>1. Adds(x, w, "salt", n, 16)
      BY <1>9, <1>14, PartAdded
    <2>2. QED
      BY <1>2, <1>9, <2>1 DEF Adds
  <1>16. PICK y : y = x \o <<Sep>>
    OBVIOUS
  <1>17. IsList(y) /\ Len(y) = 28 + k /\ y[28 + k] = Sep /\ \A i \in 1 .. 27 + k : y[i] = x[i]
    <2>1. Closes(y, x)
      BY <1>15, <1>16, SepAdded
    <2>2. QED
      BY <1>2, <1>15, <2>1 DEF Closes
  <1>18. \A i \in 1 .. 11 + k : y[i] = w[i]
    BY <1>2, <1>15, <1>17
  <1>19. y[1] = Sep /\ y[3] = Sep /\ y[11 + k] = Sep
    BY <1>2, <1>10, <1>11, <1>18
  <1>20. Has(y, 1, "id", alg, 1) /\ Has(y, 3, "rounds", 0, 7) /\ Has(y, 10, "cost", c, k)
    <2>1. /\ \A i \in 1 .. 1 : 1 + i \in 1 .. 11 + k
          /\ \A i \in 1 .. 7 : 3 + i \in 1 .. 11 + k
          /\ \A i \in 1 .. k : 10 + i \in 1 .. 11 + k
      BY <1>2
    <2>2. QED
      BY <1>10, <1>12, <1>13, <1>18, <2>1 DEF Has
  <1>21. Has(y, 11 + k, "salt", n, 16)
    <2>1. \A i \in 1 .. 16 : (11 + k) + i \in 1 .. 27 + k
      BY <1>2
    <2>2. QED
      BY <1>15, <1>17, <2>1 DEF Has
  <1>22. StartsLong(y, alg, c, k, n)
    BY <1>2, <1>17, <1>19, <1>20, <1>21 DEF StartsLong
  <1>23. Front(alg, c, n, brief) = y
    <2>1. SaltLen(alg) = 16
      BY DEF SaltLen, Sha
    <2>2. CostChars(alg, c, brief) = z
      BY <1>2, <1>3, <1>4, <1>6 DEF CostChars, Sha, Short
    <2>3. alg \in Sha \cup {"md5"}
      OBVIOUS
    <2>4. Front(alg, c, n, brief) = t \o z \o Chars("salt", n, 16) \o <<Sep>>
      BY <1>1, <2>1, <2>2, <2>3 DEF Front
    <2>5. QED
      BY <1>8, <1>14, <1>16, <2>4
  <1>24. QED
    BY <1>2, <1>17, <1>22, <1>23
-------------------------------------------------------------------------------
(* t is s and more. *)
Continues(t, s) ==
  IsList(s) /\ IsList(t) /\ Len(t) >= Len(s) /\ \A i \in 1 .. Len(s) : t[i] = s[i]

(* What a text starts with, one that goes on after it starts with too. *)
LEMMA HasMore ==
  ASSUME NEW s, NEW t, Continues(t, s), NEW p \in Nat, NEW kind, NEW of, NEW n \in Nat,
         p + n <= Len(s), Has(s, p, kind, of, n)
  PROVE  Has(t, p, kind, of, n)
PROOF
  <1>1. PICK l \in Nat : l = Len(s)
    BY Lists DEF Continues
  <1>2. \A i \in 1 .. n : p + i \in 1 .. l
    BY <1>1
  <1>3. \A i \in 1 .. n : t[p + i] = s[p + i]
    BY <1>1, <1>2 DEF Continues
  <1>4. QED
    BY <1>3 DEF Has

(* So the start of each kind is there in any text that goes on from it. *)
LEMMA MoreBf ==
  ASSUME NEW s, NEW t, Continues(t, s), NEW c, NEW n, StartsBf(s, c, n)
  PROVE  StartsBf(t, c, n)
PROOF
  <1>1. PICK l \in Nat : l = Len(s) /\ l >= 29
    BY Lists DEF StartsBf
  <1>2. Has(t, 1, "id", "bf", 2) /\ Has(t, 4, "cost", c, 2) /\ Has(t, 7, "salt", n, 22)
    BY <1>1, HasMore DEF StartsBf
  <1>3. t[1] = Sep /\ t[4] = Sep /\ t[7] = Sep
    BY <1>1 DEF StartsBf, Continues
  <1>4. IsList(t) /\ Len(t) >= 29
    BY <1>1, Lists DEF Continues
  <1>5. QED
    BY <1>2, <1>3, <1>4 DEF StartsBf

(* des. *)
LEMMA MoreDes ==
  ASSUME NEW s, NEW t, Continues(t, s), NEW n, StartsDes(s, n)
  PROVE  StartsDes(t, n)
PROOF
  <1>1. PICK l \in Nat : l = Len(s) /\ l >= 2
    BY Lists DEF StartsDes
  <1>2. Has(t, 0, "salt", n, 2)
    BY <1>1, HasMore DEF StartsDes
  <1>3. IsList(t) /\ Len(t) >= 2
    BY <1>1, Lists DEF Continues
  <1>4. QED
    BY <1>2, <1>3 DEF StartsDes

(* xdes. *)
LEMMA MoreXdes ==
  ASSUME NEW s, NEW t, Continues(t, s), NEW c, NEW n, StartsXdes(s, c, n)
  PROVE  StartsXdes(t, c, n)
PROOF
  <1>1. PICK l \in Nat : l = Len(s) /\ l >= 9
    BY Lists DEF StartsXdes
  <1>2. Has(t, 1, "cost", c, 4) /\ Has(t, 5, "salt", n, 4)
    BY <1>1, HasMore DEF StartsXdes
  <1>3. t[1] = <<"underscore", 0, 0>>
    BY <1>1 DEF StartsXdes, Continues
  <1>4. IsList(t) /\ Len(t) >= 9
    BY <1>1, Lists DEF Continues
  <1>5. QED
    BY <1>2, <1>3, <1>4 DEF StartsXdes

(* md5. *)
LEMMA MoreMd5 ==
  ASSUME NEW s, NEW t, Continues(t, s), NEW n, StartsMd5(s, n)
  PROVE  StartsMd5(t, n)
PROOF
  <1>1. PICK l \in Nat : l = Len(s) /\ l >= 12
    BY Lists DEF StartsMd5
  <1>2. Has(t, 1, "id", "md5", 1) /\ Has(t, 3, "salt", n, 8)
    BY <1>1, HasMore DEF StartsMd5
  <1>3. t[1] = Sep /\ t[3] = Sep /\ t[12] = Sep
    BY <1>1 DEF StartsMd5, Continues
  <1>4. IsList(t) /\ Len(t) >= 12
    BY <1>1, Lists DEF Continues
  <1>5. QED
    BY <1>2, <1>3, <1>4 DEF StartsMd5

(* sha-crypt with the default left out. *)
LEMMA MoreBrief ==
  ASSUME NEW s, NEW t, Continues(t, s), NEW alg, NEW n, StartsBrief(s, alg, n)
  PROVE  StartsBrief(t, alg, n)
PROOF
  <1>1. PICK l \in Nat : l = Len(s) /\ l >= 20
    BY Lists DEF StartsBrief
  <1>2. Has(t, 1, "id", alg, 1) /\ Has(t, 3, "salt", n, 16)
    BY <1>1, HasMore DEF StartsBrief
  <1>3. t[1] = Sep /\ t[3] = Sep /\ t[20] = Sep
    BY <1>1 DEF StartsBrief, Continues
  <1>4. IsList(t) /\ Len(t) >= 20
    BY <1>1, Lists DEF Continues
  <1>5. QED
    BY <1>2, <1>3, <1>4 DEF StartsBrief

(* sha-crypt with a rounds field. *)
LEMMA MoreLong ==
  ASSUME NEW s, NEW t, Continues(t, s), NEW alg, NEW c, NEW k \in 4 .. 9, NEW n,
         StartsLong(s, alg, c, k, n)
  PROVE  StartsLong(t, alg, c, k, n)
PROOF
  <1>1. PICK l \in Nat : l = Len(s) /\ l >= 28 + k
    BY Lists DEF StartsLong
  <1>2. PICK m \in Nat : m = 11 + k /\ m + 16 <= l
    BY <1>1
  <1>3. /\ Has(t, 1, "id", alg, 1) /\ Has(t, 3, "rounds", 0, 7) /\ Has(t, 10, "cost", c, k)
        /\ Has(t, m, "salt", n, 16)
    BY <1>1, <1>2, HasMore DEF StartsLong
  <1>4. t[1] = Sep /\ t[3] = Sep /\ t[11 + k] = Sep /\ t[28 + k] = Sep
    BY <1>1 DEF StartsLong, Continues
  <1>5. IsList(t) /\ Len(t) >= 28 + k
    BY <1>1, Lists DEF Continues
  <1>6. QED
    BY <1>2, <1>3, <1>4, <1>5 DEF StartsLong

(* How a hash or a salt of any kind starts. *)
Starts(s, alg, c, n, brief) ==
  /\ alg = "bf" => StartsBf(s, c, n)
  /\ alg = "des" => StartsDes(s, n) /\ c = 25
  /\ alg = "xdes" => StartsXdes(s, c, n)
  /\ alg = "md5" => StartsMd5(s, n) /\ c = 1000
  /\ alg \in Sha /\ Short(c, brief) => StartsBrief(s, alg, n)
  /\ alg \in Sha /\ ~Short(c, brief) => StartsLong(s, alg, c, Digits(c), n)

(* A salt with a cost that fits starts as its kind does, *)
LEMMA FrontStarts ==
  ASSUME NEW alg \in Algorithm, NEW c \in Int, CostFits(alg, c), NEW n, NEW brief
  PROVE  Starts(Front(alg, c, n, brief), alg, c, n, brief)
PROOF
  <1>1. alg = "xdes" => c % TwoTo24 = c
    <2>1. ASSUME alg = "xdes" PROVE c > 0 /\ c < TwoTo24
      BY <2>1 DEF CostFits
    <2>2. ASSUME c > 0, c < TwoTo24 PROVE c % TwoTo24 = c
      BY <2>2, SMT DEF TwoTo24
    <2>3. QED
      BY <2>1, <2>2
  <1>2. alg = "bf" => StartsBf(Front(alg, c, n, brief), c, n)
    BY FrontBf
  <1>3. alg = "des" => StartsDes(Front(alg, c, n, brief), n) /\ c = 25
    BY FrontDes DEF CostFits
  <1>4. alg = "xdes" => StartsXdes(Front(alg, c, n, brief), c, n)
    BY <1>1, FrontXdes
  <1>5. alg = "md5" => StartsMd5(Front(alg, c, n, brief), n) /\ c = 1000
    BY FrontMd5 DEF CostFits
  <1>6. alg \in Sha /\ Short(c, brief) => StartsBrief(Front(alg, c, n, brief), alg, n)
    BY FrontBrief
  <1>7. alg \in Sha /\ ~Short(c, brief) =>
          StartsLong(Front(alg, c, n, brief), alg, c, Digits(c), n)
    BY FrontLong
  <1>8. QED
    BY <1>2, <1>3, <1>4, <1>5, <1>6, <1>7 DEF Starts

(* and so does every text that goes on from it. *)
LEMMA StartsMore ==
  ASSUME NEW s, NEW t, Continues(t, s), NEW alg, NEW c, NEW n, NEW brief,
         Starts(s, alg, c, n, brief)
  PROVE  Starts(t, alg, c, n, brief)
PROOF
  <1>1. alg = "bf" => StartsBf(t, c, n)
    BY MoreBf DEF Starts
  <1>2. alg = "des" => StartsDes(t, n) /\ c = 25
    BY MoreDes DEF Starts
  <1>3. alg = "xdes" => StartsXdes(t, c, n)
    BY MoreXdes DEF Starts
  <1>4. alg = "md5" => StartsMd5(t, n) /\ c = 1000
    BY MoreMd5 DEF Starts
  <1>5. alg \in Sha /\ Short(c, brief) => StartsBrief(t, alg, n)
    BY MoreBrief DEF Starts
  <1>6. alg \in Sha /\ ~Short(c, brief) => StartsLong(t, alg, c, Digits(c), n)
    BY MoreLong, DigitCount DEF Starts
  <1>7. QED
    BY <1>1, <1>2, <1>3, <1>4, <1>5, <1>6 DEF Starts

(* The library reads from a text what it starts with. *)
LEMMA SettingRead ==
  ASSUME NEW s, NEW alg \in Algorithm, NEW c, NEW n, NEW brief, Starts(s, alg, c, n, brief)
  PROVE  /\ Setting(s) = ReadAs(alg, c, n)
         /\ alg \in Sha => (HasRounds(s) <=> ~Short(c, brief))
PROOF
  <1>1. CASE alg = "bf"
    BY <1>1, ReadsBf DEF Starts, Sha
  <1>2. CASE alg = "des"
    BY <1>2, ReadsDes DEF Starts, Sha
  <1>3. CASE alg = "xdes"
    BY <1>3, ReadsXdes DEF Starts, Sha
  <1>4. CASE alg = "md5"
    BY <1>4, ReadsMd5 DEF Starts, Sha
  <1>5. CASE alg \in Sha /\ Short(c, brief)
    <2>1. c = 5000 /\ StartsBrief(s, alg, n)
      BY <1>5 DEF Starts, Short
    <2>2. ~HasRounds(s) /\ Setting(s) = ReadAs(alg, 5000, n)
      BY <1>5, <2>1, ReadsBrief
    <2>3. QED
      BY <1>5, <2>1, <2>2
  <1>6. CASE alg \in Sha /\ ~Short(c, brief)
    <2>1. PICK k \in 4 .. 9 : k = Digits(c)
      BY DigitCount
    <2>2. StartsLong(s, alg, c, k, n)
      BY <1>6, <2>1 DEF Starts
    <2>3. HasRounds(s) /\ Setting(s) = ReadAs(alg, c, n)
      BY <1>6, <2>2, ReadsLong
    <2>4. QED
      BY <1>6, <2>3
  <1>7. QED
    BY <1>1, <1>2, <1>3, <1>4, <1>5, <1>6 DEF Algorithm, Sha
-------------------------------------------------------------------------------
(* The hash of a password with the n-th salt drawn. *)
Made(alg, c, n, pw, brief) == Hash(alg, c, Chars("salt", n, SaltLen(alg)), pw, brief)

(* What the digest of a hash is of. *)
Digested(alg, c, n, pw) == <<ReadOf(alg, pw), alg, c, Chars("salt", n, SaltLen(alg))>>

(* How long a salt is. *)
Ends(alg, c, brief) ==
  IF alg \in Sha THEN (IF Short(c, brief) THEN 20 ELSE 28 + Digits(c))
  ELSE IF alg = "md5" THEN 12 ELSE FixedEnd(alg)

(* A cost that fits is not moved. *)
LEMMA NotClamped ==
  ASSUME NEW alg, NEW c \in Int, CostFits(alg, c)
  PROVE  Clamped(alg, c) = c
PROOF
  <1>1. CASE alg \in Sha
    <2>1. c >= 1000 /\ c <= MaxSha
      BY <1>1 DEF CostFits
    <2>2. ~(c < 1000) /\ ~(c > MaxSha)
      BY <2>1, SMT DEF MaxSha
    <2>3. QED
      BY <1>1, <2>2 DEF Clamped
  <1>2. CASE alg \notin Sha
    BY <1>2 DEF Clamped
  <1>3. QED
    BY <1>1, <1>2

(* A salt is a text of the length of its kind. *)
LEMMA FrontEnds ==
  ASSUME NEW alg \in Algorithm, NEW c \in Int, CostFits(alg, c), NEW n, NEW brief
  PROVE  IsList(Front(alg, c, n, brief)) /\ Len(Front(alg, c, n, brief)) = Ends(alg, c, brief)
PROOF
  <1>1. PICK s : s = Front(alg, c, n, brief) /\ Starts(s, alg, c, n, brief)
    BY FrontStarts
  <1>2. CASE alg = "bf"
    <2>1. IsList(s)
      BY <1>1, <1>2 DEF Starts, StartsBf
    <2>2. Len(s) = 29
      BY <1>1, <1>2, FrontBf
    <2>3. QED
      BY <1>1, <1>2, <2>1, <2>2 DEF Ends, FixedEnd, Sha
  <1>3. CASE alg = "des"
    <2>1. IsList(s)
      BY <1>1, <1>3 DEF Starts, StartsDes
    <2>2. Len(s) = 2
      BY <1>1, <1>3, FrontDes
    <2>3. QED
      BY <1>1, <1>3, <2>1, <2>2 DEF Ends, FixedEnd, Sha
  <1>4. CASE alg = "xdes"
    <2>1. IsList(s)
      BY <1>1, <1>4 DEF Starts, StartsXdes
    <2>2. c % TwoTo24 = c
      <3>1. c > 0 /\ c < TwoTo24
        BY <1>4 DEF CostFits
      <3>2. QED
        BY <3>1, SMT DEF TwoTo24
    <2>3. Len(s) = 9
      BY <1>1, <1>4, <2>2, FrontXdes
    <2>4. QED
      BY <1>1, <1>4, <2>1, <2>3 DEF Ends, FixedEnd, Sha
  <1>5. CASE alg = "md5"
    <2>1. IsList(s)
      BY <1>1, <1>5 DEF Starts, StartsMd5
    <2>2. Len(s) = 12
      BY <1>1, <1>5, FrontMd5
    <2>3. QED
      BY <1>1, <1>5, <2>1, <2>2 DEF Ends, Sha
  <1>6. CASE alg \in Sha /\ Short(c, brief)
    <2>1. IsList(s)
      BY <1>1, <1>6 DEF Starts, StartsBrief
    <2>2. Len(s) = 20
      BY <1>1, <1>6, FrontBrief
    <2>3. QED
      BY <1>1, <1>6, <2>1, <2>2 DEF Ends
  <1>7. CASE alg \in Sha /\ ~Short(c, brief)
    <2>1. IsList(s)
      BY <1>1, <1>7 DEF Starts, StartsLong
    <2>2. Len(s) = 28 + Digits(c)
      BY <1>1, <1>7, FrontLong
    <2>3. QED
      BY <1>1, <1>7, <2>1, <2>2 DEF Ends
  <1>8. QED
    BY <1>2, <1>3, <1>4, <1>5, <1>6, <1>7 DEF Algorithm, Sha

(* A hash is its salt and a digest. *)
LEMMA HashParts ==
  ASSUME NEW alg \in Algorithm, NEW c \in Int, CostFits(alg, c), NEW n, NEW brief, NEW pw
  PROVE  Made(alg, c, n, pw, brief) =
           Front(alg, c, n, brief) \o Chars("digest", Digested(alg, c, n, pw), DigestLen(alg))
  BY NotClamped DEF Made, Hash, Front, Digested

(* Every digest has a character. *)
LEMMA DigestLength ==
  ASSUME NEW alg
  PROVE  DigestLen(alg) \in Nat /\ DigestLen(alg) > 0
  BY DEF DigestLen

(* A hash goes on from its salt, with the digest. *)
LEMMA HashStarts ==
  ASSUME NEW alg \in Algorithm, NEW c \in Int, CostFits(alg, c), NEW n, NEW brief, NEW pw,
         NEW h, h = Made(alg, c, n, pw, brief)
  PROVE  /\ Continues(h, Front(alg, c, n, brief)) /\ Starts(h, alg, c, n, brief)
         /\ Len(h) > Len(Front(alg, c, n, brief))
         /\ h[Len(Front(alg, c, n, brief)) + 1] = <<"digest", Digested(alg, c, n, pw), 1>>
PROOF
  <1>1. PICK s : s = Front(alg, c, n, brief) /\ IsList(s) /\ Starts(s, alg, c, n, brief)
    BY FrontStarts, FrontEnds
  <1>2. PICK d \in Nat : d = DigestLen(alg) /\ d > 0
    BY DigestLength
  <1>3. h = s \o Chars("digest", Digested(alg, c, n, pw), d)
    BY <1>1, <1>2, HashParts
  <1>4. Adds(h, s, "digest", Digested(alg, c, n, pw), d)
    BY <1>1, <1>2, <1>3, PartAdded
  <1>5. PICK l \in Nat : l = Len(s)
    BY <1>1, Lists
  <1>6. Continues(h, s) /\ Len(h) > Len(s)
    BY <1>1, <1>2, <1>4, <1>5 DEF Adds, Continues
  <1>7. Starts(h, alg, c, n, brief)
    BY <1>1, <1>6, StartsMore
  <1>8. h[l + 1] = <<"digest", Digested(alg, c, n, pw), 1>>
    <2>1. Has(h, l, "digest", Digested(alg, c, n, pw), d)
      BY <1>4, <1>5 DEF Adds
    <2>2. QED
      BY <1>2, <1>5, <2>1, FirstOf
  <1>9. QED
    BY <1>1, <1>5, <1>6, <1>7, <1>8

(* The start of a text is the text it goes on from. *)
LEMMA StartSlice ==
  ASSUME NEW t, NEW s, Continues(t, s), NEW e \in Nat, e > 0, e = Len(s)
  PROVE  IsSlice(t, 1, e, s)
PROOF
  <1>1. PICK l \in Nat : l = Len(t) /\ e <= l
    BY Lists DEF Continues
  <1>2. PICK m \in Nat : m = 1 /\ 1 <= m /\ m <= e /\ e - m + 1 = e
    OBVIOUS
  <1>3. IsList(t) /\ e <= Len(t)
    BY <1>1 DEF Continues
  <1>4. PICK x : x = SubSeq(t, m, e)
    OBVIOUS
  <1>5. IsList(x) /\ Len(x) = e /\ \A i \in 1 .. e : x[i] = t[m + i - 1]
    BY <1>2, <1>3, <1>4, Slice
  <1>6. ASSUME NEW i \in 1 .. e PROVE x[i] = s[i]
    <2>1. m + i - 1 = i
      BY <1>2
    <2>2. t[i] = s[i]
      BY DEF Continues
    <2>3. QED
      BY <1>5, <2>1, <2>2
  <1>7. x = s
    BY <1>5, <1>6, SameList DEF Continues
  <1>8. QED
    BY <1>2, <1>4, <1>7 DEF IsSlice

(* The salt that is cut from a hash is the one it was made with. *)
LEMMA PrefixIsSalt ==
  ASSUME NEW alg \in Algorithm, NEW c \in Int, CostFits(alg, c), NEW n, NEW brief, NEW pw,
         NEW h, h = Made(alg, c, n, pw, brief)
  PROVE  salt_prefix(h, alg) = Front(alg, c, n, brief)
PROOF
  <1>1. PICK s : s = Front(alg, c, n, brief) /\ Continues(h, s) /\ Len(s) = Ends(alg, c, brief)
    BY FrontEnds, HashStarts
  <1>2. Starts(h, alg, c, n, brief)
    BY HashStarts
  <1>3. PICK k \in 4 .. 9 : k = Digits(c)
    BY DigitCount
  <1>4. alg \in Sha /\ Short(c, brief) => ShaEnd(h) = 20
    BY <1>2, ReadsBrief DEF Starts
  <1>5. alg \in Sha /\ ~Short(c, brief) => ShaEnd(h) = 28 + k
    BY <1>2, <1>3, ReadsLong DEF Starts
  <1>6. alg = "md5" => NextSep(h, 4) = 12
    BY <1>2, ReadsMd5 DEF Starts
  <1>7. PICK e : e = Ends(alg, c, brief)
    OBVIOUS
  <1>8. salt_prefix(h, alg) = SubSeq(h, 1, e)
    <2>1. e = IF alg \in Sha THEN ShaEnd(h)
              ELSE IF alg = "md5" THEN NextSep(h, 4) ELSE FixedEnd(alg)
      BY <1>3, <1>4, <1>5, <1>6, <1>7 DEF Ends
    <2>2. QED
      BY <2>1 DEF salt_prefix
  <1>9. e \in Nat /\ e > 0
    <2>1. CASE alg \in Sha
      BY <1>3, <1>7, <2>1 DEF Ends
    <2>2. CASE alg \notin Sha
      BY <1>7, <2>2 DEF Ends, FixedEnd, Algorithm, Sha
    <2>3. QED
      BY <2>1, <2>2
  <1>10. IsSlice(h, 1, e, s)
    BY <1>1, <1>7, <1>9, StartSlice
  <1>11. QED
    BY <1>1, <1>8, <1>10 DEF IsSlice

(* Whether the default cost was written is all that brief decides. *)
LEMMA SameCostChars ==
  ASSUME NEW alg, NEW c, NEW brief, NEW other,
         alg \in Sha => (Short(c, other) <=> Short(c, brief))
  PROVE  CostChars(alg, c, other) = CostChars(alg, c, brief)
PROOF
  <1>1. CASE alg \in Sha
    <2>1. alg # "bf" /\ alg # "xdes"
      BY <1>1 DEF Sha
    <2>2. CASE Short(c, brief)
      <3>1. (brief /\ c = 5000) /\ (other /\ c = 5000)
        BY <1>1, <2>2 DEF Short
      <3>2. QED
        BY <1>1, <2>1, <3>1 DEF CostChars
    <2>3. CASE ~Short(c, brief)
      <3>1. ~(brief /\ c = 5000) /\ ~(other /\ c = 5000)
        BY <1>1, <2>3 DEF Short
      <3>2. QED
        BY <1>1, <2>1, <3>1 DEF CostChars
    <2>4. QED
      BY <2>2, <2>3
  <1>2. CASE alg \notin Sha
    BY <1>2 DEF CostChars
  <1>3. QED
    BY <1>1, <1>2

(* crypt makes a hash with the cost and the salt of the text it is given. *)
LEMMA CryptMakes ==
  ASSUME NEW alg \in Algorithm, NEW c \in Int, CostFits(alg, c), NEW n, NEW brief, NEW pw,
         NEW t, Starts(t, alg, c, n, brief)
  PROVE  /\ Setting(t) # Invalid
         /\ Crypt(pw, t) = Made(alg, c, n, pw, brief)
         /\ Crypt(pw, t) # << >>
PROOF
  <1>1. Setting(t) = ReadAs(alg, c, n)
    BY SettingRead
  <1>2. Setting(t) # Invalid
    <2>1. ReadAs(alg, c, n).alg # Invalid.alg
      BY DEF ReadAs, Invalid, Algorithm
    <2>2. QED
      BY <1>1, <2>1
  <1>3. PICK other : other = ~HasRounds(t)
    OBVIOUS
  <1>4. ASSUME alg \in Sha PROVE Short(c, other) <=> Short(c, brief)
    <2>1. HasRounds(t) <=> ~Short(c, brief)
      BY <1>4, SettingRead
    <2>2. other <=> ~HasRounds(t)
      BY <1>3
    <2>3. other <=> Short(c, brief)
      BY <2>1, <2>2, Zenon
    <2>4. ASSUME Short(c, brief) PROVE Short(c, other)
      <3>1. c = 5000
        BY <2>4 DEF Short
      <3>2. other
        BY <2>3, <2>4, Zenon
      <3>3. QED
        BY <3>1, <3>2 DEF Short
    <2>5. ASSUME Short(c, other) PROVE Short(c, brief)
      <3>1. other
        BY <2>5, Zenon DEF Short
      <3>2. QED
        BY <2>3, <3>1, Zenon
    <2>6. QED
      BY <2>4, <2>5
  <1>5. Crypt(pw, t) = Made(alg, c, n, pw, other)
    <2>1. PICK p : p = Setting(t) /\ p # Invalid
      BY <1>2
    <2>2. Crypt(pw, t) = Hash(p.alg, p.cost, p.salt, pw, other)
      BY <1>3, <2>1 DEF Crypt
    <2>3. p.alg = alg /\ p.cost = c /\ p.salt = Chars("salt", n, SaltLen(alg))
      BY <1>1, <2>1 DEF ReadAs
    <2>4. QED
      BY <2>2, <2>3 DEF Made
  <1>6. Front(alg, c, n, other) = Front(alg, c, n, brief)
    <2>1. CostChars(alg, c, other) = CostChars(alg, c, brief)
      BY <1>4, SameCostChars
    <2>2. QED
      BY <2>1 DEF Front
  <1>7. Made(alg, c, n, pw, other) = Made(alg, c, n, pw, brief)
    <2>1. PICK d : d = Chars("digest", Digested(alg, c, n, pw), DigestLen(alg))
      OBVIOUS
    <2>2. Made(alg, c, n, pw, other) = Front(alg, c, n, other) \o d
      BY <2>1, HashParts, Zenon
    <2>3. Made(alg, c, n, pw, brief) = Front(alg, c, n, brief) \o d
      BY <2>1, HashParts, Zenon
    <2>4. QED
      BY <1>6, <2>2, <2>3, Zenon
  <1>8. Crypt(pw, t) # << >>
    <2>1. PICK h : h = Made(alg, c, n, pw, brief) /\ Len(h) > Len(Front(alg, c, n, brief))
      BY HashStarts
    <2>2. Len(Front(alg, c, n, brief)) \in Nat
      BY FrontEnds, Lists
    <2>3. QED
      BY <1>5, <1>7, <2>1, <2>2, NoChars
  <1>9. QED
    BY <1>2, <1>5, <1>7, <1>8

(* A hash tells what the algorithm reads of a password, *)
LEMMA HashesTell ==
  ASSUME NEW alg \in Algorithm, NEW c \in Int, CostFits(alg, c), NEW n, NEW brief,
         NEW pw, NEW other, Made(alg, c, n, pw, brief) = Made(alg, c, n, other, brief)
  PROVE  ReadOf(alg, pw) = ReadOf(alg, other)
PROOF
  <1>1. PICK h : h = Made(alg, c, n, pw, brief)
    OBVIOUS
  <1>2. PICK e : e = Len(Front(alg, c, n, brief))
    OBVIOUS
  <1>3. h[e + 1] = <<"digest", Digested(alg, c, n, pw), 1>>
    BY <1>1, <1>2, HashStarts
  <1>4. h[e + 1] = <<"digest", Digested(alg, c, n, other), 1>>
    BY <1>1, <1>2, HashStarts
  <1>5. Digested(alg, c, n, pw) = Digested(alg, c, n, other)
    BY <1>3, <1>4
  <1>6. QED
    BY <1>5 DEF Digested

(* and nothing else of it. *)
LEMMA HashesAgree ==
  ASSUME NEW alg \in Algorithm, NEW c \in Int, CostFits(alg, c), NEW n, NEW brief,
         NEW pw, NEW other, ReadOf(alg, pw) = ReadOf(alg, other)
  PROVE  Made(alg, c, n, pw, brief) = Made(alg, c, n, other, brief)
PROOF
  <1>1. Digested(alg, c, n, pw) = Digested(alg, c, n, other)
    BY DEF Digested
  <1>2. PICK d : d = Chars("digest", Digested(alg, c, n, pw), DigestLen(alg))
    OBVIOUS
  <1>3. d = Chars("digest", Digested(alg, c, n, other), DigestLen(alg))
    BY <1>1, <1>2
  <1>4. Made(alg, c, n, pw, brief) = Front(alg, c, n, brief) \o d
    BY <1>2, HashParts
  <1>5. Made(alg, c, n, other, brief) = Front(alg, c, n, brief) \o d
    BY <1>3, HashParts
  <1>6. QED
    BY <1>4, <1>5
-------------------------------------------------------------------------------
(* A password: bytes, none of them zero. *)
Bytes == Seq(1 .. 255)

(* It has a length and bytes up to there. *)
LEMMA BytesOf ==
  ASSUME NEW p \in Bytes
  PROVE  /\ Len(p) \in Nat
         /\ \A i \in 1 .. Len(p) : p[i] \in 1 .. 255
PROOF
  <1>1. PICK S : S = 1 .. 255 /\ p \in Seq(S)
    BY DEF Bytes
  <1>2. Len(p) \in Nat /\ \A i \in 1 .. Len(p) : p[i] \in S
    BY <1>1, LenProperties, ElementOfSeq
  <1>3. QED
    BY <1>1, <1>2

(* DES reads the same keys from two passwords whose bytes there have the    *)
(* same seven bits.                                                         *)
LEMMA SameKeys ==
  ASSUME NEW p \in Bytes, NEW q \in Bytes, NEW n \in Nat
  PROVE  DesKeys(p, n) = DesKeys(q, n)
           <=> \A i \in 1 .. 8 * n : Byte(p, i) % 128 = Byte(q, i) % 128
PROOF
  <1>1. ASSUME NEW i \in 1 .. 8 * n
        PROVE  /\ DesKeys(p, n)[i] = Byte(p, i) % 128
               /\ DesKeys(q, n)[i] = Byte(q, i) % 128
    <2>1. 0 % 128 = 0
      OBVIOUS
    <2>2. DesKeys(p, n)[i] = IF i <= Len(p) THEN p[i] % 128 ELSE 0
      BY DEF DesKeys
    <2>3. DesKeys(q, n)[i] = IF i <= Len(q) THEN q[i] % 128 ELSE 0
      BY DEF DesKeys
    <2>4. QED
      BY <2>1, <2>2, <2>3 DEF Byte
  <1>2. ASSUME DesKeys(p, n) = DesKeys(q, n), NEW i \in 1 .. 8 * n
        PROVE  Byte(p, i) % 128 = Byte(q, i) % 128
    BY <1>1, <1>2
  <1>3. ASSUME \A i \in 1 .. 8 * n : Byte(p, i) % 128 = Byte(q, i) % 128
        PROVE  DesKeys(p, n) = DesKeys(q, n)
    <2>1. \A i \in 1 .. 8 * n : DesKeys(p, n)[i] = DesKeys(q, n)[i]
      BY <1>1, <1>3
    <2>2. /\ DesKeys(p, n) = [i \in 1 .. 8 * n |-> DesKeys(p, n)[i]]
          /\ DesKeys(q, n) = [i \in 1 .. 8 * n |-> DesKeys(q, n)[i]]
      BY DEF DesKeys
    <2>3. QED
      BY <2>1, <2>2
  <1>4. QED
    BY <1>2, <1>3

(* Passwords of xdes with the same keys fill the same number of them. *)
LEMMA SameKeyCount ==
  ASSUME NEW p \in Bytes, NEW q \in Bytes, NEW m \in Nat, NEW n \in Nat,
         DesKeys(p, m) = DesKeys(q, n)
  PROVE  m = n
PROOF
  <1>1. DOMAIN DesKeys(p, m) = 1 .. 8 * m /\ DOMAIN DesKeys(q, n) = 1 .. 8 * n
    BY DEF DesKeys
  <1>2. 1 .. 8 * m = 1 .. 8 * n
    BY <1>1
  <1>3. CASE m < n
    <2>1. 8 * n \in 1 .. 8 * n /\ 8 * n \notin 1 .. 8 * m
      BY <1>3
    <2>2. QED
      BY <1>2, <2>1
  <1>4. CASE n < m
    <2>1. 8 * m \in 1 .. 8 * m /\ 8 * m \notin 1 .. 8 * n
      BY <1>4
    <2>2. QED
      BY <1>2, <2>1
  <1>5. QED
    BY <1>3, <1>4

(* How many bytes bcrypt reads of a password, and which. *)
Most(p) == IF Len(p) <= 72 THEN Len(p) ELSE 72
FirstBytes(p) == SubSeq(p, 1, Most(p))

(* They are the first ones. *)
LEMMA FirstBytesOf ==
  ASSUME NEW p \in Bytes
  PROVE  /\ IsList(FirstBytes(p)) /\ Len(FirstBytes(p)) = Most(p)
         /\ Most(p) \in 0 .. 72 /\ Most(p) <= Len(p)
         /\ \A i \in 1 .. Most(p) : FirstBytes(p)[i] = p[i]
PROOF
  <1>1. PICK l \in Nat : l = Len(p)
    BY BytesOf
  <1>2. PICK k \in Nat : k = Most(p) /\ k <= l /\ k <= 72
    <2>1. Most(p) = IF l <= 72 THEN l ELSE 72
      BY <1>1 DEF Most
    <2>2. QED
      BY <2>1
  <1>3. IsList(p)
    BY DEF IsList, Bytes
  <1>4. /\ IsList(SubSeq(p, 1, k)) /\ Len(SubSeq(p, 1, k)) = k
        /\ \A i \in 1 .. k : SubSeq(p, 1, k)[i] = p[i]
    <2>1. CASE k = 0
      <3>1. SubSeq(p, 1, k) = << >>
        BY <2>1, SubSeqEmpty
      <3>2. \A i \in 1 .. k : FALSE
        BY <2>1
      <3>3. IsList(SubSeq(p, 1, k)) /\ Len(SubSeq(p, 1, k)) = k
        BY <2>1, <3>1, NoChars, Zenon
      <3>4. QED
        BY <3>2, <3>3
    <2>2. CASE k # 0
      <3>1. 1 \in Nat /\ 1 <= 1 /\ 1 <= k /\ k <= Len(p)
        BY <1>1, <1>2, <2>2
      <3>2. /\ IsList(SubSeq(p, 1, k)) /\ Len(SubSeq(p, 1, k)) = k - 1 + 1
            /\ \A i \in 1 .. k - 1 + 1 : SubSeq(p, 1, k)[i] = p[1 + i - 1]
        BY <1>3, <3>1, Slice
      <3>3. k - 1 + 1 = k /\ \A i \in 1 .. k : 1 + i - 1 = i
        BY <3>1
      <3>4. QED
        BY <3>2, <3>3
    <2>3. QED
      BY <2>1, <2>2
  <1>5. QED
    <2>1. FirstBytes(p) = SubSeq(p, 1, k)
      BY <1>2, Zenon DEF FirstBytes
    <2>2. PICK t : t = FirstBytes(p)
      OBVIOUS
    <2>3. IsList(t) /\ Len(t) = k /\ \A i \in 1 .. k : t[i] = p[i]
      BY <1>4, <2>1, <2>2, Zenon
    <2>4. k \in 0 .. 72
      BY <1>2
    <2>5. k <= Len(p)
      BY <1>1, <1>2, Zenon
    <2>6. QED
      BY <1>2, <2>2, <2>3, <2>4, <2>5, Zenon

(* bcrypt reads the same from two passwords with the same bytes there. *)
LEMMA SameFirst ==
  ASSUME NEW p \in Bytes, NEW q \in Bytes
  PROVE  FirstBytes(p) = FirstBytes(q) <=> \A i \in 1 .. 72 : Byte(p, i) = Byte(q, i)
PROOF
  <1>1. PICK l \in Nat, m \in Nat : l = Len(p) /\ m = Len(q)
    BY BytesOf
  <1>2. PICK a \in 0 .. 72, b \in 0 .. 72 : a = Most(p) /\ b = Most(q) /\ a <= l /\ b <= m
    BY <1>1, FirstBytesOf
  <1>3. (a = 72 \/ a = l) /\ (b = 72 \/ b = m)
    BY <1>1, <1>2 DEF Most
  <1>4. ASSUME NEW i \in 1 .. 72 PROVE Byte(p, i) = IF i <= a THEN p[i] ELSE 0
    BY <1>1, <1>2, <1>3 DEF Byte
  <1>5. ASSUME NEW i \in 1 .. 72 PROVE Byte(q, i) = IF i <= b THEN q[i] ELSE 0
    BY <1>1, <1>2, <1>3 DEF Byte
  <1>6. \A i \in 1 .. a : FirstBytes(p)[i] = p[i] /\ p[i] \in 1 .. 255
    <2>1. \A i \in 1 .. a : FirstBytes(p)[i] = p[i]
      BY <1>2, FirstBytesOf
    <2>2. \A i \in 1 .. l : p[i] \in 1 .. 255
      BY <1>1, BytesOf
    <2>3. QED
      BY <1>2, <2>1, <2>2
  <1>7. \A i \in 1 .. b : FirstBytes(q)[i] = q[i] /\ q[i] \in 1 .. 255
    <2>1. \A i \in 1 .. b : FirstBytes(q)[i] = q[i]
      BY <1>2, FirstBytesOf
    <2>2. \A i \in 1 .. m : q[i] \in 1 .. 255
      BY <1>1, BytesOf
    <2>3. QED
      BY <1>2, <2>1, <2>2
  <1>8. Len(FirstBytes(p)) = a /\ Len(FirstBytes(q)) = b
    BY <1>2, FirstBytesOf
  <1>9. ASSUME FirstBytes(p) = FirstBytes(q), NEW i \in 1 .. 72 PROVE Byte(p, i) = Byte(q, i)
    <2>1. a = b
      BY <1>8, <1>9
    <2>2. CASE i <= a
      <3>1. i \in 1 .. a /\ i \in 1 .. b
        BY <2>1, <2>2
      <3>2. p[i] = q[i]
        BY <1>6, <1>7, <1>9, <3>1
      <3>3. Byte(p, i) = p[i]
        BY <1>4, <2>2
      <3>4. Byte(q, i) = q[i]
        BY <1>5, <2>1, <2>2
      <3>5. QED
        BY <3>2, <3>3, <3>4
    <2>3. CASE ~(i <= a)
      <3>1. Byte(p, i) = 0
        BY <1>4, <2>3
      <3>2. Byte(q, i) = 0
        BY <1>5, <2>1, <2>3
      <3>3. QED
        BY <3>1, <3>2
    <2>4. QED
      BY <2>2, <2>3
  <1>10. ASSUME \A i \in 1 .. 72 : Byte(p, i) = Byte(q, i) PROVE FirstBytes(p) = FirstBytes(q)
    <2>1. ~(a < b)
      <3>1. SUFFICES ASSUME a < b PROVE FALSE
        OBVIOUS
      <3>2. b \in 1 .. 72 /\ b \in 1 .. b /\ ~(b <= a)
        BY <3>1
      <3>3. Byte(p, b) = 0
        BY <1>4, <3>2
      <3>4. Byte(q, b) = q[b]
        <4>1. b <= b
          BY <3>2
        <4>2. QED
          BY <1>5, <3>2, <4>1
      <3>5. q[b] \in 1 .. 255
        BY <1>7, <3>2
      <3>6. Byte(p, b) = Byte(q, b)
        BY <1>10, <3>2
      <3>7. QED
        BY <3>3, <3>4, <3>5, <3>6
    <2>2. ~(b < a)
      <3>1. SUFFICES ASSUME b < a PROVE FALSE
        OBVIOUS
      <3>2. a \in 1 .. 72 /\ a \in 1 .. a /\ ~(a <= b)
        BY <3>1
      <3>3. Byte(q, a) = 0
        BY <1>5, <3>2
      <3>4. Byte(p, a) = p[a]
        <4>1. a <= a
          BY <3>2
        <4>2. QED
          BY <1>4, <3>2, <4>1
      <3>5. p[a] \in 1 .. 255
        BY <1>6, <3>2
      <3>6. Byte(q, a) = Byte(p, a)
        BY <1>10, <3>2
      <3>7. QED
        BY <3>3, <3>4, <3>5, <3>6
    <2>3. a = b
      BY <2>1, <2>2
    <2>4. ASSUME NEW i \in 1 .. a PROVE FirstBytes(p)[i] = FirstBytes(q)[i]
      <3>1. i \in 1 .. 72 /\ i \in 1 .. b /\ i <= a /\ i <= b
        BY <2>3
      <3>2. p[i] = q[i]
        <4>1. Byte(p, i) = p[i]
          BY <1>4, <3>1
        <4>2. Byte(q, i) = q[i]
          BY <1>5, <3>1
        <4>3. QED
          BY <1>10, <3>1, <4>1, <4>2
      <3>3. QED
        BY <1>6, <1>7, <3>1, <3>2
    <2>5. IsList(FirstBytes(p)) /\ IsList(FirstBytes(q))
      BY FirstBytesOf
    <2>6. QED
      BY <1>8, <2>3, <2>4, <2>5, SameList
  <1>11. QED
    BY <1>9, <1>10

(* Of two passwords an algorithm reads the same if, and only if, it does    *)
(* not tell them apart.                                                     *)
LEMMA ReadsSame ==
  ASSUME NEW alg \in Algorithm, NEW p \in Bytes, NEW q \in Bytes
  PROVE  ReadOf(alg, p) = ReadOf(alg, q) <=> SamePassword(alg, p, q)
PROOF
  <1>1. CASE alg = "des"
    <2>1. ReadOf(alg, p) = DesKeys(p, 1) /\ ReadOf(alg, q) = DesKeys(q, 1)
      BY <1>1 DEF ReadOf
    <2>2. SamePassword(alg, p, q) <=> \A i \in 1 .. 8 : Byte(p, i) % 128 = Byte(q, i) % 128
      BY <1>1 DEF SamePassword, Sha
    <2>3. DesKeys(p, 1) = DesKeys(q, 1)
            <=> \A i \in 1 .. 8 : Byte(p, i) % 128 = Byte(q, i) % 128
      <3>1. 1 .. 8 * 1 = 1 .. 8
        OBVIOUS
      <3>2. DesKeys(p, 1) = DesKeys(q, 1)
              <=> \A i \in 1 .. 8 * 1 : Byte(p, i) % 128 = Byte(q, i) % 128
        <4>1. PICK n \in Nat : n = 1
          OBVIOUS
        <4>2. DesKeys(p, n) = DesKeys(q, n)
                <=> \A i \in 1 .. 8 * n : Byte(p, i) % 128 = Byte(q, i) % 128
          BY SameKeys
        <4>3. QED
          BY <4>1, <4>2, Zenon
      <3>3. QED
        BY <3>1, <3>2
    <2>4. QED
      BY <2>1, <2>2, <2>3
  <1>2. CASE alg = "xdes"
    <2>1. PICK m \in Nat, n \in Nat : m = Keys(Len(p)) /\ n = Keys(Len(q))
      <3>1. PICK k \in Nat, l \in Nat : k = Len(p) /\ l = Len(q)
        BY BytesOf
      <3>2. Keys(k) \in Nat /\ Keys(l) \in Nat
        BY DEF Keys
      <3>3. QED
        BY <3>1, <3>2
    <2>2. ReadOf(alg, p) = DesKeys(p, m) /\ ReadOf(alg, q) = DesKeys(q, n)
      BY <1>2, <2>1 DEF ReadOf
    <2>3. SamePassword(alg, p, q)
            <=> m = n /\ \A i \in 1 .. 8 * m : Byte(p, i) % 128 = Byte(q, i) % 128
      BY <1>2, <2>1 DEF SamePassword, Sha
    <2>4. DesKeys(p, m) = DesKeys(q, n) => m = n
      BY SameKeyCount
    <2>5. DesKeys(p, m) = DesKeys(q, m)
            <=> \A i \in 1 .. 8 * m : Byte(p, i) % 128 = Byte(q, i) % 128
      BY SameKeys
    <2>6. QED
      BY <2>2, <2>3, <2>4, <2>5
  <1>3. CASE alg = "bf"
    <2>1. ReadOf(alg, p) = FirstBytes(p) /\ ReadOf(alg, q) = FirstBytes(q)
      BY <1>3 DEF ReadOf, FirstBytes, Most
    <2>2. SamePassword(alg, p, q) <=> \A i \in 1 .. 72 : Byte(p, i) = Byte(q, i)
      BY <1>3 DEF SamePassword, Sha
    <2>3. QED
      BY <2>1, <2>2, SameFirst
  <1>4. CASE alg \in Sha \cup {"md5"}
    BY <1>4 DEF ReadOf, SamePassword, Sha
  <1>5. QED
    BY <1>1, <1>2, <1>3, <1>4 DEF Algorithm, Sha
-------------------------------------------------------------------------------
(* A hash of crypt does not read as one of Argon2. *)
LEMMA NotArgon ==
  ASSUME NEW alg \in Algorithm, NEW c, NEW n, NEW brief, NEW h, Starts(h, alg, c, n, brief)
  PROVE  h[2][1] # "argon2"
PROOF
  <1>1. PICK one \in Nat : one = 1
    OBVIOUS
  <1>2. CASE alg = "des"
    <2>1. Has(h, 0, "salt", n, 2)
      BY <1>2 DEF Starts, StartsDes
    <2>2. h[2] = <<"salt", n, 2>>
      BY <2>1 DEF Has
    <2>3. QED
      BY <2>2
  <1>3. CASE alg = "xdes"
    <2>1. Has(h, 1, "cost", c, 4)
      BY <1>3 DEF Starts, StartsXdes
    <2>2. h[2] = <<"cost", c, 1>>
      BY <2>1 DEF Has
    <2>3. QED
      BY <2>2
  <1>4. CASE alg = "bf"
    <2>1. Has(h, 1, "id", alg, 2)
      BY <1>4 DEF Starts, StartsBf
    <2>2. h[2] = <<"id", alg, 1>>
      BY <2>1 DEF Has
    <2>3. QED
      BY <2>2
  <1>5. CASE alg \in {"md5"} \cup Sha
    <2>1. Has(h, 1, "id", alg, 1)
      BY <1>5 DEF Starts, StartsMd5, StartsBrief, StartsLong, Sha
    <2>2. h[2] = <<"id", alg, 1>>
      BY <2>1 DEF Has
    <2>3. QED
      BY <2>2
  <1>6. QED
    BY <1>2, <1>3, <1>4, <1>5 DEF Algorithm, Sha

(* The Argon2 hash of a password with the n-th salt drawn. *)
ArgonMade(pw, n) == <<Sep>> \o Chars("argon2", <<pw, n>>, 1)

(* It reads as one, and as no setting of crypt. *)
LEMMA ArgonParts ==
  ASSUME NEW pw, NEW n, NEW h, h = ArgonMade(pw, n)
  PROVE  h[2] = <<"argon2", <<pw, n>>, 1>> /\ Setting(h) = Invalid
PROOF
  <1>1. PICK e : e = <<Sep>> /\ IsList(e) /\ Len(e) = 1 /\ e[1] = Sep
    BY OneChar
  <1>2. PICK of : of = <<pw, n>>
    OBVIOUS
  <1>3. h = e \o Chars("argon2", of, 1)
    BY <1>1, <1>2 DEF ArgonMade
  <1>4. Adds(h, e, "argon2", of, 1)
    BY <1>1, <1>3, PartAdded
  <1>5. h[1] = Sep /\ Len(h) = 2 /\ Has(h, 1, "argon2", of, 1)
    BY <1>1, <1>4 DEF Adds
  <1>6. h[2] = <<"argon2", of, 1>>
    BY <1>5 DEF Has
  <1>7. h # << >>
    BY <1>5, NoChars
  <1>8. h[2][1] = "argon2"
    BY <1>6
  <1>9. AlgorithmOf(h) = "none"
    BY <1>5, <1>7, <1>8 DEF AlgorithmOf
  <1>10. Setting(h) = Invalid
    BY <1>9 DEF Setting, Sha
  <1>11. QED
    BY <1>2, <1>6, <1>10
-------------------------------------------------------------------------------
(* A call of gen_salt that goes through. *)
Taken(alg, rounds) ==
  alg \in Algorithm /\ Cost(alg, rounds) \in Int /\ CostFits(alg, Cost(alg, rounds))

(* A salt on its way to crypt is all of the salt drawn last, *)
SaltIs(s, n) ==
  /\ Taken(s.alg, s.rounds)
  /\ \E brief \in BOOLEAN : s.text = Front(s.alg, Cost(s.alg, s.rounds), n, brief)

(* and a row is made with one of its own. *)
CryptRow(row, n) ==
  /\ row.kind = "crypt" /\ row.pw \in Bytes /\ Taken(row.from.alg, row.from.rounds)
  /\ \E brief \in BOOLEAN :
       row.hash = Made(row.from.alg, Cost(row.from.alg, row.from.rounds), n, row.pw, brief)

ArgonRow(row, n) == row.kind = "argon2" /\ row.hash = ArgonMade(row.pw, n)

RowFrom(row, n) == CryptRow(row, n) \/ ArgonRow(row, n)

(* The parts of a row of crypt. *)
LEMMA CryptParts ==
  ASSUME NEW row, NEW n, CryptRow(row, n)
  PROVE  \E alg \in Algorithm, c \in Int, brief \in BOOLEAN :
           /\ alg = row.from.alg /\ c = Cost(alg, row.from.rounds) /\ CostFits(alg, c)
           /\ row.kind = "crypt" /\ row.hash = Made(alg, c, n, row.pw, brief)
           /\ Starts(row.hash, alg, c, n, brief)
PROOF
  <1>1. PICK alg, c : /\ alg = row.from.alg /\ c = Cost(alg, row.from.rounds)
                      /\ alg \in Algorithm /\ c \in Int /\ CostFits(alg, c)
    BY DEF CryptRow, Taken
  <1>2. PICK brief \in BOOLEAN : row.hash = Made(alg, c, n, row.pw, brief)
    BY <1>1 DEF CryptRow
  <1>3. Starts(row.hash, alg, c, n, brief)
    BY <1>1, <1>2, HashStarts
  <1>4. QED
    BY <1>1, <1>2, <1>3 DEF CryptRow

(* What crypt says of a row. *)
LEMMA CryptSays ==
  ASSUME NEW row, NEW n, RowFrom(row, n), NEW pw \in Bytes, NEW got, got = Crypt(pw, row.hash)
  PROVE  /\ got = << >> <=> row.kind = "argon2"
         /\ row.kind = "crypt" => (got = row.hash <=> SamePassword(row.from.alg, pw, row.pw))
         /\ row.kind \in {"crypt", "argon2"}
PROOF
  <1>1. CASE ArgonRow(row, n)
    <2>1. Setting(row.hash) = Invalid
      BY <1>1, ArgonParts DEF ArgonRow
    <2>2. got = << >>
      BY <2>1 DEF Crypt
    <2>3. QED
      BY <1>1, <2>2 DEF ArgonRow
  <1>2. CASE CryptRow(row, n)
    <2>1. PICK alg \in Algorithm, c \in Int, brief \in BOOLEAN :
            /\ alg = row.from.alg
            /\ CostFits(alg, c) /\ row.hash = Made(alg, c, n, row.pw, brief)
            /\ Starts(row.hash, alg, c, n, brief)
      BY <1>2, CryptParts
    <2>2. got = Made(alg, c, n, pw, brief) /\ got # << >>
      BY <2>1, CryptMakes
    <2>3. row.pw \in Bytes
      BY <1>2 DEF CryptRow
    <2>4. ReadOf(alg, pw) = ReadOf(alg, row.pw) <=> SamePassword(alg, pw, row.pw)
      BY <2>3, ReadsSame
    <2>5. ASSUME got = row.hash PROVE ReadOf(alg, pw) = ReadOf(alg, row.pw)
      <3>1. Made(alg, c, n, pw, brief) = Made(alg, c, n, row.pw, brief)
        BY <2>1, <2>2, <2>5
      <3>2. QED
        BY <2>1, <3>1, HashesTell
    <2>6. ASSUME ReadOf(alg, pw) = ReadOf(alg, row.pw) PROVE got = row.hash
      BY <2>1, <2>2, <2>6, HashesAgree
    <2>7. QED
      BY <1>2, <2>1, <2>2, <2>4, <2>5, <2>6 DEF CryptRow
  <1>3. QED
    BY <1>1, <1>2 DEF RowFrom

(* What argon2id_verify says of a row. *)
LEMMA ArgonSays ==
  ASSUME NEW row, NEW n, RowFrom(row, n), NEW pw
  PROVE  /\ Verdict(pw, row.hash) = "yes" <=> row.kind = "argon2" /\ pw = row.pw
         /\ Verdict(pw, row.hash) \in {"yes", "no"}
PROOF
  <1>1. Verdict(pw, row.hash) \in {"yes", "no"}
    BY DEF Verdict
  <1>2. CASE ArgonRow(row, n)
    <2>1. row.hash[2] = <<"argon2", <<row.pw, n>>, 1>>
      BY <1>2, ArgonParts DEF ArgonRow
    <2>2. row.hash[2][1] = "argon2" /\ row.hash[2][2][1] = row.pw
      BY <2>1
    <2>3. QED
      BY <1>1, <1>2, <2>2 DEF ArgonRow, Verdict
  <1>3. CASE CryptRow(row, n)
    <2>1. row.hash[2][1] # "argon2"
      BY <1>3, CryptParts, NotArgon
    <2>2. QED
      BY <1>1, <1>3, <2>1 DEF CryptRow, Verdict
  <1>4. QED
    BY <1>2, <1>3 DEF RowFrom

(* The salt that was drawn for a hash, read from the hash. *)
DrawOf(h) == IF h[2][1] = "argon2" THEN h[2][2][2] ELSE Setting(h).salt[1][2]

(* It is the number of the row. *)
LEMMA DrawRead ==
  ASSUME NEW row, NEW n, RowFrom(row, n)
  PROVE  DrawOf(row.hash) = n
PROOF
  <1>1. CASE ArgonRow(row, n)
    <2>1. row.hash[2] = <<"argon2", <<row.pw, n>>, 1>>
      BY <1>1, ArgonParts DEF ArgonRow
    <2>2. row.hash[2][1] = "argon2" /\ row.hash[2][2][2] = n
      BY <2>1
    <2>3. QED
      BY <2>2 DEF DrawOf
  <1>2. CASE CryptRow(row, n)
    <2>1. PICK alg \in Algorithm, c \in Int, brief \in BOOLEAN : Starts(row.hash, alg, c, n, brief)
      BY <1>2, CryptParts
    <2>2. row.hash[2][1] # "argon2"
      BY <2>1, NotArgon
    <2>3. PICK k \in Nat : k = SaltLen(alg) /\ k > 0
      BY DEF SaltLen
    <2>4. Setting(row.hash).salt = Chars("salt", n, k)
      <3>1. Setting(row.hash) = ReadAs(alg, c, n)
        BY <2>1, SettingRead
      <3>2. QED
        BY <2>3, <3>1 DEF ReadAs
    <2>5. Chars("salt", n, k)[1] = <<"salt", n, 1>>
      BY <2>3 DEF Chars
    <2>6. Setting(row.hash).salt[1][2] = n
      BY <2>4, <2>5
    <2>7. QED
      BY <2>2, <2>6 DEF DrawOf
  <1>3. QED
    BY <1>1, <1>2 DEF RowFrom
-------------------------------------------------------------------------------
(* Every salt drawn but a pending one is in the table, in the order drawn. *)
CountInv ==
  /\ drawn \in Nat /\ IsList(table)
  /\ salt = None => Len(table) = drawn
  /\ salt # None => Len(table) + 1 = drawn

SaltInv == salt # None => SaltIs(salt, drawn)

RowsInv == \A r \in 1 .. Len(table) : RowFrom(table[r], r)

(* What an answer must be for a row. *)
Fits(a, row) ==
  /\ a.says = "yes" <=> a.fn = row.kind /\ Right(row, a.pw)
  /\ a.says = "error" <=> a.fn = "crypt" /\ row.kind = "argon2"

AnswerInv ==
  answer # None => answer.row \in 1 .. Len(table) /\ Fits(answer, table[answer.row])

(* The inductive invariant: what is in the table follows from the salt that *)
(* was drawn for it, and from nothing of the hash the salt was cut from.    *)
IInv == CountInv /\ SaltInv /\ RowsInv /\ AnswerInv

(* A row at the end. *)
LEMMA RowAdded ==
  ASSUME NEW t, IsList(t), NEW e
  PROVE  /\ IsList(Append(t, e)) /\ Len(Append(t, e)) = Len(t) + 1
         /\ Append(t, e)[Len(t) + 1] = e
         /\ \A i \in 1 .. Len(t) : Append(t, e)[i] = t[i]
PROOF
  <1>1. PICK S : t \in Seq(S)
    BY DEF IsList
  <1>2. PICK T : T = S \cup {e}
    OBVIOUS
  <1>3. t \in Seq(T) /\ e \in T
    BY <1>1, <1>2, Wider
  <1>4. PICK l \in Nat : l = Len(t)
    BY Lists
  <1>5. /\ Append(t, e) \in Seq(T) /\ Len(Append(t, e)) = Len(t) + 1
        /\ \A i \in 1 .. Len(t) : Append(t, e)[i] = t[i]
        /\ Append(t, e)[Len(t) + 1] = e
    BY <1>3, AppendProperties
  <1>6. QED
    BY <1>5 DEF IsList

(* At first nothing is drawn or stored. *)
LEMMA InitInv == Init => IInv
PROOF
  <1>1. SUFFICES ASSUME Init PROVE IInv
    OBVIOUS
  <1>2. drawn = 0 /\ salt = None /\ table = << >> /\ answer = None
    BY <1>1 DEF Init
  <1>3. IsList(table) /\ Len(table) = 0
    BY <1>2, NoChars
  <1>4. QED
    BY <1>2, <1>3 DEF IInv, CountInv, SaltInv, RowsInv, AnswerInv

(* A row that is added disturbs no answer. *)
LEMMA Grows ==
  ASSUME IInv, NEW row, table' = Append(table, row), RowFrom(row, Len(table) + 1),
         answer' = answer
  PROVE  /\ IsList(table') /\ Len(table') = Len(table) + 1
         /\ RowsInv' /\ AnswerInv'
PROOF
  <1>1. IsList(table)
    BY DEF IInv, CountInv
  <1>2. PICK l \in Nat : l = Len(table)
    BY <1>1, Lists
  <1>3. /\ IsList(table') /\ Len(table') = l + 1 /\ table'[l + 1] = row
        /\ \A i \in 1 .. l : table'[i] = table[i]
    BY <1>1, <1>2, RowAdded
  <1>4. ASSUME NEW r \in 1 .. l + 1 PROVE RowFrom(table'[r], r)
    <2>1. CASE r = l + 1
      BY <1>2, <1>3, <2>1
    <2>2. CASE r # l + 1
      <3>1. r \in 1 .. l
        BY <1>2, <2>2
      <3>2. RowFrom(table[r], r)
        BY <1>2, <3>1 DEF IInv, RowsInv
      <3>3. QED
        BY <1>3, <3>1, <3>2
    <2>3. QED
      BY <2>1, <2>2
  <1>5. RowsInv'
    BY <1>3, <1>4 DEF RowsInv
  <1>6. AnswerInv'
    <2>1. SUFFICES ASSUME answer' # None
                   PROVE  answer'.row \in 1 .. Len(table') /\ Fits(answer', table'[answer'.row])
      BY DEF AnswerInv
    <2>2. answer # None
      BY <2>1
    <2>3. PICK r \in 1 .. l : r = answer.row /\ Fits(answer, table[r])
      BY <1>2, <2>2 DEF IInv, AnswerInv
    <2>4. table'[r] = table[r] /\ r \in 1 .. l + 1
      BY <1>2, <1>3
    <2>5. Fits(answer', table'[r])
      BY <2>3, <2>4
    <2>6. QED
      BY <1>3, <2>3, <2>4, <2>5
  <1>7. QED
    BY <1>2, <1>3, <1>5, <1>6

(* gen_salt returns all of the salt it drew. *)
LEMMA GenSaltInv ==
  ASSUME IInv, NEW alg, NEW rounds \in Rounds, NEW brief \in BOOLEAN, gen_salt(alg, rounds, brief)
  PROVE  IInv'
PROOF
  <1>1. PICK c : c = Cost(alg, rounds) /\ c \in Int
    <2>1. rounds \in Int
      BY HashConstants
    <2>2. Cost(alg, rounds) \in Int
      BY <2>1 DEF Cost
    <2>3. QED
      BY <2>2
  <1>2. alg \in Algorithm /\ CostFits(alg, c)
    BY <1>1 DEF gen_salt
  <1>3. PICK pw : pw = << >>
    OBVIOUS
  <1>4. PICK n : n = drawn + 1
    OBVIOUS
  <1>5. PICK h : h = Made(alg, c, n, pw, brief)
    OBVIOUS
  <1>6. salt' = [text |-> salt_prefix(h, alg), alg |-> alg, rounds |-> rounds]
    BY <1>1, <1>3, <1>4, <1>5 DEF gen_salt, Made
  <1>7. drawn' = n /\ salt = None /\ table' = table /\ answer' = answer
    BY <1>4 DEF gen_salt, Ready
  <1>8. salt_prefix(h, alg) = Front(alg, c, n, brief)
    BY <1>1, <1>2, <1>5, PrefixIsSalt
  <1>9. salt'.text = Front(alg, c, n, brief) /\ salt'.alg = alg /\ salt'.rounds = rounds
    BY <1>6, <1>8
  <1>10. salt' # None
    BY <1>6 DEF None
  <1>11. SaltInv'
    <2>1. Taken(salt'.alg, salt'.rounds)
      BY <1>1, <1>2, <1>9 DEF Taken
    <2>2. salt'.text = Front(salt'.alg, Cost(salt'.alg, salt'.rounds), drawn', brief)
      BY <1>1, <1>7, <1>9
    <2>3. SaltIs(salt', drawn')
      BY <2>1, <2>2 DEF SaltIs
    <2>4. QED
      BY <2>3 DEF SaltInv
  <1>12. CountInv'
    BY <1>4, <1>7, <1>10 DEF IInv, CountInv
  <1>13. RowsInv' /\ AnswerInv'
    BY <1>7 DEF IInv, RowsInv, AnswerInv
  <1>14. QED
    BY <1>11, <1>12, <1>13 DEF IInv

(* crypt takes it and adds a row. *)
LEMMA StoreInv ==
  ASSUME IInv, NEW pw \in Password, Store(pw)
  PROVE  IInv'
PROOF
  <1>1. salt # None /\ SaltIs(salt, drawn) /\ Len(table) + 1 = drawn
    BY DEF Store, IInv, CountInv, SaltInv
  <1>2. PICK alg, c : /\ alg = salt.alg /\ c = Cost(alg, salt.rounds)
                      /\ alg \in Algorithm /\ c \in Int /\ CostFits(alg, c)
    BY <1>1 DEF SaltIs, Taken
  <1>3. PICK brief \in BOOLEAN : salt.text = Front(alg, c, drawn, brief)
    BY <1>1, <1>2 DEF SaltIs
  <1>4. Starts(salt.text, alg, c, drawn, brief)
    BY <1>2, <1>3, FrontStarts
  <1>5. Crypt(pw, salt.text) = Made(alg, c, drawn, pw, brief) /\ Crypt(pw, salt.text) # << >>
    BY <1>2, <1>4, CryptMakes
  <1>6. PICK row : row = [hash |-> Crypt(pw, salt.text), pw |-> pw, kind |-> "crypt",
                          from |-> salt]
    OBVIOUS
  <1>7. table' = Append(table, row) /\ salt' = None /\ drawn' = drawn /\ answer' = answer
    BY <1>5, <1>6 DEF Store
  <1>8. /\ row.kind = "crypt" /\ row.from = salt /\ row.pw = pw
        /\ row.hash = Made(alg, c, drawn, pw, brief)
    BY <1>5, <1>6
  <1>9. RowFrom(row, Len(table) + 1)
    <2>1. Taken(row.from.alg, row.from.rounds)
      BY <1>1, <1>8 DEF SaltIs
    <2>2. row.hash = Made(row.from.alg, Cost(row.from.alg, row.from.rounds), drawn, row.pw, brief)
      BY <1>2, <1>8
    <2>3. row.pw \in Bytes
      BY <1>8, HashConstants DEF Bytes
    <2>4. CryptRow(row, drawn)
      BY <1>8, <2>1, <2>2, <2>3 DEF CryptRow
    <2>5. QED
      BY <1>1, <2>4 DEF RowFrom
  <1>10. IsList(table') /\ Len(table') = Len(table) + 1 /\ RowsInv' /\ AnswerInv'
    BY <1>7, <1>9, Grows
  <1>11. CountInv'
    BY <1>1, <1>7, <1>10 DEF IInv, CountInv
  <1>12. SaltInv'
    BY <1>7 DEF SaltInv
  <1>13. QED
    BY <1>10, <1>11, <1>12 DEF IInv

(* argon2id_hash draws a salt and adds a row. *)
LEMMA ArgonInv ==
  ASSUME IInv, NEW pw \in Password, argon2id_hash(pw)
  PROVE  IInv'
PROOF
  <1>1. salt = None /\ salt' = None /\ drawn' = drawn + 1 /\ answer' = answer
    BY DEF argon2id_hash, Ready
  <1>2. Len(table) = drawn /\ drawn \in Nat
    BY <1>1 DEF IInv, CountInv
  <1>3. PICK row : row = [hash |-> ArgonMade(pw, drawn + 1), pw |-> pw, kind |-> "argon2",
                          from |-> None]
    OBVIOUS
  <1>4. table' = Append(table, row)
    BY <1>3 DEF argon2id_hash, ArgonMade
  <1>5. row.kind = "argon2" /\ row.pw = pw /\ row.hash = ArgonMade(pw, drawn + 1)
    BY <1>3
  <1>6. RowFrom(row, Len(table) + 1)
    BY <1>2, <1>5 DEF RowFrom, ArgonRow
  <1>7. IsList(table') /\ Len(table') = Len(table) + 1 /\ RowsInv' /\ AnswerInv'
    BY <1>1, <1>4, <1>6, Grows
  <1>8. CountInv'
    BY <1>1, <1>2, <1>7 DEF CountInv
  <1>9. SaltInv'
    BY <1>1 DEF SaltInv
  <1>10. QED
    BY <1>7, <1>8, <1>9 DEF IInv

(* A check leaves everything but the answer. *)
LEMMA Answers ==
  ASSUME IInv, UNCHANGED <<drawn, salt, table>>, answer'.row \in 1 .. Len(table),
         Fits(answer', table[answer'.row])
  PROVE  IInv'
PROOF
  <1>1. drawn' = drawn /\ salt' = salt /\ table' = table
    OBVIOUS
  <1>2. CountInv' /\ SaltInv' /\ RowsInv'
    BY <1>1 DEF IInv, CountInv, SaltInv, RowsInv
  <1>3. AnswerInv'
    BY <1>1 DEF AnswerInv
  <1>4. QED
    BY <1>2, <1>3 DEF IInv

(* crypt answers right for every row, *)
LEMMA CheckInv ==
  ASSUME IInv, NEW pw \in Password, NEW r \in 1 .. Len(table), CheckCrypt(pw, r)
  PROVE  IInv'
PROOF
  <1>1. PICK row : row = table[r] /\ RowFrom(row, r)
    BY DEF IInv, RowsInv
  <1>2. PICK got : got = Crypt(pw, row.hash)
    OBVIOUS
  <1>3. PICK says : says = IF got = << >> THEN "error"
                           ELSE IF got = row.hash THEN "yes" ELSE "no"
    OBVIOUS
  <1>4. answer' = [fn |-> "crypt", pw |-> pw, row |-> r, says |-> says]
    BY <1>1, <1>2, <1>3 DEF CheckCrypt
  <1>5. answer'.fn = "crypt" /\ answer'.pw = pw /\ answer'.row = r /\ answer'.says = says
    BY <1>4
  <1>6. /\ got = << >> <=> row.kind = "argon2"
        /\ row.kind = "crypt" => (got = row.hash <=> SamePassword(row.from.alg, pw, row.pw))
        /\ row.kind \in {"crypt", "argon2"}
    <2>1. pw \in Bytes
      BY HashConstants DEF Bytes
    <2>2. QED
      BY <1>1, <1>2, <2>1, CryptSays
  <1>7. Fits(answer', row)
    BY <1>3, <1>5, <1>6 DEF Fits, Right
  <1>8. UNCHANGED <<drawn, salt, table>>
    BY DEF CheckCrypt
  <1>9. QED
    BY <1>1, <1>5, <1>7, <1>8, Answers

(* and so does argon2id_verify. *)
LEMMA VerifyInv ==
  ASSUME IInv, NEW pw \in Password, NEW r \in 1 .. Len(table), argon2id_verify(pw, r)
  PROVE  IInv'
PROOF
  <1>1. PICK row : row = table[r] /\ RowFrom(row, r)
    BY DEF IInv, RowsInv
  <1>2. PICK says : says = Verdict(pw, row.hash)
    OBVIOUS
  <1>3. answer' = [fn |-> "argon2", pw |-> pw, row |-> r, says |-> says]
    BY <1>1, <1>2 DEF argon2id_verify
  <1>4. answer'.fn = "argon2" /\ answer'.pw = pw /\ answer'.row = r /\ answer'.says = says
    BY <1>3
  <1>5. /\ says = "yes" <=> row.kind = "argon2" /\ pw = row.pw
        /\ says \in {"yes", "no"}
    BY <1>1, <1>2, ArgonSays
  <1>6. Fits(answer', row)
    BY <1>4, <1>5 DEF Fits, Right
  <1>7. UNCHANGED <<drawn, salt, table>>
    BY DEF argon2id_verify
  <1>8. QED
    BY <1>1, <1>4, <1>6, <1>7, Answers

(* A step that changes nothing. *)
LEMMA StutterInv == IInv /\ UNCHANGED vars => IInv'
PROOF
  <1>1. SUFFICES ASSUME IInv, UNCHANGED vars PROVE IInv'
    OBVIOUS
  <1>2. drawn' = drawn /\ salt' = salt /\ table' = table /\ answer' = answer
    BY <1>1 DEF vars
  <1>3. QED
    BY <1>1, <1>2 DEF IInv, CountInv, SaltInv, RowsInv, AnswerInv

(* The invariant holds of the calls of gen_salt, crypt, argon2id_hash and   *)
(* argon2id_verify in any order.                                            *)
THEOREM Invariance == Spec => []IInv
PROOF
  <1>1. Init => IInv
    BY InitInv
  <1>2. IInv /\ [Next]_vars => IInv'
    <2>1. SUFFICES ASSUME IInv, [Next]_vars PROVE IInv'
      OBVIOUS
    <2>2. ASSUME NEW alg \in Algorithm \cup {"none"}, NEW r \in Rounds, NEW brief \in BOOLEAN,
                 gen_salt(alg, r, brief)
          PROVE  IInv'
      BY <2>1, <2>2, GenSaltInv
    <2>3. ASSUME NEW pw \in Password, Store(pw) PROVE IInv'
      BY <2>1, <2>3, StoreInv
    <2>4. ASSUME NEW pw \in Password, argon2id_hash(pw) PROVE IInv'
      BY <2>1, <2>4, ArgonInv
    <2>5. ASSUME NEW pw \in Password, NEW r \in 1 .. Len(table), CheckCrypt(pw, r)
          PROVE  IInv'
      BY <2>1, <2>5, CheckInv
    <2>6. ASSUME NEW pw \in Password, NEW r \in 1 .. Len(table), argon2id_verify(pw, r)
          PROVE  IInv'
      BY <2>1, <2>6, VerifyInv
    <2>7. CASE UNCHANGED vars
      BY <2>1, <2>7, StutterInv
    <2>8. QED
      BY <2>1, <2>2, <2>3, <2>4, <2>5, <2>6, <2>7 DEF Next
  <1>3. QED
    BY <1>1, <1>2, PTL DEF Spec

(* crypt and argon2id_verify accept the password of a stored hash, and no   *)
(* other that its algorithm tells from it, each against the hashes of its   *)
(* own kind only.                                                           *)
THEOREM PasswordsVerify == Spec => []Verifies
PROOF
  <1>1. IInv => Verifies
    BY DEF IInv, AnswerInv, Fits, Verifies
  <1>2. QED
    BY <1>1, Invariance, PTL

(* What gen_salt was asked for is what crypt used, with the whole salt that *)
(* was drawn: nothing is lost where the salt is cut off a hash.             *)
THEOREM CostsKept == Spec => []CostKept
PROOF
  <1>1. IInv => CostKept
    <2>1. SUFFICES ASSUME IInv, NEW r \in 1 .. Len(table), table[r].kind = "crypt"
                   PROVE  LET p == Setting(table[r].hash)
                              f == table[r].from
                          IN /\ p.alg = f.alg
                             /\ p.cost = Cost(f.alg, f.rounds)
                             /\ \E n \in 1 .. drawn : p.salt = Chars("salt", n, SaltLen(p.alg))
      BY DEF CostKept
    <2>2. PICK row : row = table[r] /\ CryptRow(row, r)
      <3>1. RowFrom(table[r], r)
        BY <2>1 DEF IInv, RowsInv
      <3>2. QED
        BY <2>1, <3>1 DEF RowFrom, ArgonRow
    <2>3. PICK alg \in Algorithm, c \in Int, brief \in BOOLEAN :
            /\ alg = row.from.alg /\ c = Cost(alg, row.from.rounds)
            /\ Starts(row.hash, alg, c, r, brief)
      BY <2>2, CryptParts
    <2>4. Setting(row.hash) = ReadAs(alg, c, r)
      BY <2>3, SettingRead
    <2>5. PICK p : /\ p = Setting(table[r].hash) /\ p.alg = alg /\ p.cost = c
                   /\ p.salt = Chars("salt", r, SaltLen(alg))
      BY <2>2, <2>4 DEF ReadAs
    <2>6. r \in 1 .. drawn
      <3>1. PICK l \in Nat : l = Len(table)
        BY <2>1, Lists DEF IInv, CountInv
      <3>2. drawn \in Nat /\ l <= drawn
        BY <2>1, <3>1 DEF IInv, CountInv
      <3>3. QED
        BY <2>1, <3>1, <3>2
    <2>7. QED
      BY <2>2, <2>3, <2>5, <2>6
  <1>2. QED
    BY <1>1, Invariance, PTL

(* crypt takes every salt that gen_salt returns, and no two rows have one   *)
(* hash: the salt drawn can be read from it.                                *)
THEOREM RowsAllDiffer == Spec => []RowsDiffer
PROOF
  <1>1. IInv => RowsDiffer
    <2>1. SUFFICES ASSUME IInv PROVE RowsDiffer
      OBVIOUS
    <2>2. ASSUME salt # None PROVE Setting(salt.text) # Invalid
      <3>1. SaltIs(salt, drawn)
        BY <2>1, <2>2 DEF IInv, SaltInv
      <3>2. PICK alg, c : /\ alg = salt.alg /\ c = Cost(alg, salt.rounds)
                          /\ alg \in Algorithm /\ c \in Int /\ CostFits(alg, c)
        BY <3>1 DEF SaltIs, Taken
      <3>3. PICK brief \in BOOLEAN : salt.text = Front(alg, c, drawn, brief)
        BY <3>1, <3>2 DEF SaltIs
      <3>4. Starts(salt.text, alg, c, drawn, brief)
        BY <3>2, <3>3, FrontStarts
      <3>5. QED
        BY <3>2, <3>4, CryptMakes
    <2>3. ASSUME NEW i \in 1 .. Len(table), NEW j \in 1 .. Len(table),
                 table[i].hash = table[j].hash
          PROVE  i = j
      <3>1. RowFrom(table[i], i) /\ RowFrom(table[j], j)
        BY <2>1 DEF IInv, RowsInv
      <3>2. DrawOf(table[i].hash) = i /\ DrawOf(table[j].hash) = j
        BY <3>1, DrawRead
      <3>3. QED
        BY <2>3, <3>2
    <2>4. QED
      BY <2>2, <2>3 DEF RowsDiffer
  <1>2. QED
    BY <1>1, Invariance, PTL
===============================================================================
