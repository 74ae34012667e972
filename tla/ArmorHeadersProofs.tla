-------------------------- MODULE ArmorHeadersProofs --------------------------
(***************************************************************************)
(* Proofs about ArmorHeaders, for every set of data and characters and for *)
(* arrays of every length.                                                 *)
(*                                                                         *)
(* LaidOut says where an armor has which line.  The invariant is that the  *)
(* kept armor is laid out as the arrays it was made of say, and that the   *)
(* reader stands behind as many lines as it has returned headers.          *)
(***************************************************************************)
EXTENDS ArmorHeaders, SequenceTheorems, WellFoundedInduction, TLAPS

Ascii == Char \ NonAscii

(* The text t is the lines of the headers h, which end at the places off,   *)
(* an empty line and the data d.                                            *)
LaidOut(t, d, h, off) ==
  /\ off \in [0 .. Len(h) -> Nat] /\ off[0] = 0
  /\ \A i \in 1 .. Len(h) :
       /\ off[i] = off[i - 1] + Len(Line(h[i][1], h[i][2])) /\ off[i] <= off[Len(h)]
       /\ \A j \in 1 .. Len(Line(h[i][1], h[i][2])) :
            t[off[i - 1] + j] = Line(h[i][1], h[i][2])[j]
  /\ Len(d) \in Nat /\ Len(t) = off[Len(h)] + 1 + Len(d)
  /\ t[off[Len(h)] + 1] = "NL" /\ \A j \in 1 .. Len(d) : t[off[Len(h)] + 1 + j] = d[j]

(* What armor and armor_with_headers make armor of. *)
Fitting(k, v) ==
  /\ Len(k.elems) \in Nat /\ Len(v.elems) = Len(k.elems)
  /\ ndim(k) = ndim(v) /\ (Len(k.elems) # 0 => ndim(k) = 1)
  /\ \A i \in 1 .. Len(k.elems) :
       /\ k.elems[i] \in Seq(Ascii) /\ v.elems[i] \in Seq(Ascii)
       /\ ~Contains(k.elems[i], "colon") /\ ~Contains(k.elems[i], "NL")
       /\ ~Contains(v.elems[i], "NL")

Reader == [pc : {"headers", "done"}, at : Nat, headers : Seq(Seq(Ascii) \X Seq(Ascii)),
           data : Seq(Ascii)]

(* The reader is between two lines, or behind the last. *)
ReaderAt(h, off) ==
  /\ read \in Reader
  /\ Len(read.headers) <= Len(h)
  /\ \A n \in 1 .. Len(read.headers) : read.headers[n] = h[n]
  /\ \/ read.pc = "headers" /\ read.at = off[Len(read.headers)] + 1
     \/ read.pc = "done" /\ Len(read.headers) = Len(h) /\ read.data = from.data

Armored ==
  /\ text \in Seq(Ascii) /\ from # None /\ from.data \in Data /\ from.data # << >>
  /\ Fitting(from.keys, from.values)
  /\ \E off : /\ LaidOut(text, from.data, Headers(from.keys, from.values), off)
              /\ read # None => ReaderAt(Headers(from.keys, from.values), off)

(* The armor of empty data, which no reader takes for one. *)
EmptyArmor ==
  /\ text = << >> /\ from # None /\ from.data = << >>
  /\ read = None \/ read.pc = "error"

Nothing == text = << >> /\ from = None /\ read = None

IInv == Nothing \/ EmptyArmor \/ Armored
-------------------------------------------------------------------------------
(* A set of naturals has a least element. *)
LEMMA Least ==
  ASSUME NEW T \in SUBSET Nat, T # {}
  PROVE  \E n \in T : \A m \in T : n <= m
PROOF
  <1> DEFINE Less == OpToRel(<, Nat)
  <1>1. IsWellFoundedOn(Less, Nat)
    BY NatLessThanWellFounded
  <1>2. \A x \in Nat, y \in Nat : x < y => <<x, y>> \in Less
    BY DEF OpToRel
  <1> HIDE DEF Less
  <1>3. PICK x \in T : \A y \in T : ~(<<y, x>> \in Less)
    BY <1>1, WFMin
  <1>4. \A y \in T : ~(y < x)
    BY <1>2, <1>3
  <1>5. QED
    BY <1>4

(* Induction, about a set. *)
LEMMA Induction ==
  ASSUME NEW T, 0 \in T, \A n \in Nat : n \in T => n + 1 \in T
  PROVE  \A n \in Nat : n \in T
PROOF
  <1> DEFINE U == {n \in Nat : n \notin T}
  <1> SUFFICES ASSUME U # {} PROVE FALSE
    OBVIOUS
  <1>1. PICK n \in U : \A m \in U : n <= m
    BY Least
  <1>2. n # 0 /\ n - 1 \in Nat
    OBVIOUS
  <1>3. n - 1 \in T
    BY <1>1, <1>2
  <1>4. n - 1 + 1 \in T
    BY <1>2, <1>3
  <1>5. QED
    BY <1>4

(* The recursion behind encode_armor. *)
LinesStep(h, f, i) == IF i = 0 THEN << >> ELSE f[i - 1] \o Line(h[i][1], h[i][2])

(* It defines a function on every interval that starts at zero. *)
LEMMA LinesExist ==
  ASSUME NEW h
  PROVE  \A n \in Nat : \E f : f = [i \in 0 .. n |-> LinesStep(h, f, i)]
PROOF
  <1> DEFINE Good(n) == \E f : f = [i \in 0 .. n |-> LinesStep(h, f, i)]
             T == {n \in Nat : Good(n)}
  <1>1. Good(0)
    <2> DEFINE f == [i \in 0 .. 0 |-> << >>]
    <2>1. \A i \in 0 .. 0 : LinesStep(h, f, i) = << >>
      BY DEF LinesStep
    <2>2. f = [i \in 0 .. 0 |-> LinesStep(h, f, i)]
      BY <2>1
    <2>3. QED
      BY <2>2
  <1>2. ASSUME NEW n \in Nat, Good(n) PROVE Good(n + 1)
    <2>1. PICK f : f = [i \in 0 .. n |-> LinesStep(h, f, i)]
      BY <1>2
    <2> DEFINE g == [i \in 0 .. n + 1 |-> IF i <= n THEN f[i] ELSE LinesStep(h, f, i)]
    <2>2. \A i \in 0 .. n : g[i] = f[i] /\ f[i] = LinesStep(h, f, i)
      BY <2>1
    <2>3. ASSUME NEW i \in 0 .. n + 1
          PROVE  LinesStep(h, f, i) = LinesStep(h, g, i)
      <3> HIDE DEF g
      <3>1. i # 0 => f[i - 1] = g[i - 1]
        BY <2>2
      <3>2. QED
        BY <3>1 DEF LinesStep
    <2>4. \A i \in 0 .. n + 1 : g[i] = LinesStep(h, g, i)
      <3>1. SUFFICES ASSUME NEW i \in 0 .. n + 1 PROVE g[i] = LinesStep(h, f, i)
        BY <2>3
      <3>2. CASE i <= n
        <4>1. i \in 0 .. n
          BY <3>2
        <4>2. QED
          BY <2>2, <4>1
      <3>3. CASE ~(i <= n)
        BY <3>3
      <3>4. QED
        BY <3>2, <3>3
    <2>5. g = [i \in 0 .. n + 1 |-> g[i]]
      OBVIOUS
    <2> HIDE DEF g
    <2>6. g = [i \in 0 .. n + 1 |-> LinesStep(h, g, i)]
      BY <2>4, <2>5
    <2>7. QED
      BY <2>6
  <1> HIDE DEF Good
  <1>3. 0 \in T /\ \A n \in Nat : n \in T => n + 1 \in T
    BY <1>1, <1>2
  <1> HIDE DEF T
  <1>4. \A n \in Nat : n \in T
    BY <1>3, Induction
  <1>5. QED
    BY <1>4 DEF Good, T

(* Where a concatenation has its parts. *)
LEMMA Joined ==
  ASSUME NEW S, NEW s \in Seq(S), NEW t \in Seq(S)
  PROVE  /\ s \o t \in Seq(S) /\ Len(s \o t) = Len(s) + Len(t)
         /\ Len(s) \in Nat /\ Len(t) \in Nat
         /\ \A j \in 1 .. Len(s) : (s \o t)[j] = s[j]
         /\ \A j \in 1 .. Len(t) : (s \o t)[Len(s) + j] = t[j]
PROOF
  <1>1. Len(s) \in Nat /\ Len(t) \in Nat
    BY LenProperties
  <1>2. /\ s \o t \in Seq(S) /\ Len(s \o t) = Len(s) + Len(t)
        /\ \A i \in 1 .. Len(s) + Len(t) :
             (s \o t)[i] = IF i <= Len(s) THEN s[i] ELSE t[i - Len(s)]
    BY ConcatProperties
  <1>3. ASSUME NEW j \in 1 .. Len(s) PROVE (s \o t)[j] = s[j]
    <2>1. j \in 1 .. Len(s) + Len(t) /\ j <= Len(s)
      BY <1>1
    <2>2. QED
      BY <1>2, <2>1
  <1>4. ASSUME NEW j \in 1 .. Len(t) PROVE (s \o t)[Len(s) + j] = t[j]
    <2> DEFINE i == Len(s) + j
    <2>1. i \in 1 .. Len(s) + Len(t) /\ ~(i <= Len(s)) /\ i - Len(s) = j
      BY <1>1
    <2> HIDE DEF i
    <2>2. (s \o t)[i] = t[i - Len(s)]
      BY <1>2, <2>1
    <2>3. QED
      BY <2>1, <2>2 DEF i
  <1>5. QED
    BY <1>1, <1>2, <1>3, <1>4

(* The fixed parts of the format. *)
LEMMA Marks ==
  /\ Colon \in Seq(Ascii) /\ Len(Colon) = 1 /\ Colon[1] = "colon"
  /\ NewLine \in Seq(Ascii) /\ Len(NewLine) = 1 /\ NewLine[1] = "NL"
PROOF
  <1>1. "colon" \in Ascii /\ "NL" \in Ascii
    BY ArmorConstants DEF Ascii
  <1> HIDE DEF Ascii
  <1>2. \A c \in Ascii : <<c>> \in Seq(Ascii) /\ Len(<<c>>) = 1 /\ <<c>>[1] = c
    OBVIOUS
  <1>3. QED
    BY <1>1, <1>2 DEF Colon, NewLine

(* Where a line has the key, the colon, the value and the line feed. *)
LEMMA LineParts ==
  ASSUME NEW k \in Seq(Ascii), NEW v \in Seq(Ascii)
  PROVE  /\ Line(k, v) \in Seq(Ascii) /\ Len(Line(k, v)) = Len(k) + Len(v) + 2
         /\ \A j \in 1 .. Len(k) : Line(k, v)[j] = k[j]
         /\ Line(k, v)[Len(k) + 1] = "colon"
         /\ \A j \in 1 .. Len(v) : Line(k, v)[Len(k) + 1 + j] = v[j]
         /\ Line(k, v)[Len(k) + Len(v) + 2] = "NL"
PROOF
  <1> HIDE DEF Ascii
  <1>1. PICK c \in Seq(Ascii) : c = Colon /\ Len(c) = 1 /\ c[1] = "colon"
    BY Marks
  <1>2. PICK e \in Seq(Ascii) : e = NewLine /\ Len(e) = 1 /\ e[1] = "NL"
    BY Marks
  <1>3. PICK a \in Seq(Ascii) : a = k \o c
    BY Joined
  <1>4. PICK b \in Seq(Ascii) : b = a \o v
    BY Joined
  <1>5. PICK l \in Seq(Ascii) : l = b \o e
    BY Joined
  <1>6. Line(k, v) = l
    BY <1>1, <1>2, <1>3, <1>4, <1>5 DEF Line
  <1>7. PICK m \in Nat, n \in Nat : m = Len(k) /\ n = Len(v)
    BY LenProperties
  <1>8. /\ Len(a) = m + 1 /\ a[m + 1] = "colon" /\ \A j \in 1 .. m : a[j] = k[j]
    <2>1. /\ Len(a) = m + 1 /\ \A j \in 1 .. m : a[j] = k[j]
          /\ \A j \in 1 .. 1 : a[m + j] = c[j]
      <3>1. /\ Len(a) = Len(k) + Len(c) /\ \A j \in 1 .. Len(k) : a[j] = k[j]
            /\ \A j \in 1 .. Len(c) : a[Len(k) + j] = c[j]
        BY <1>3, Joined
      <3>2. QED
        BY <1>1, <1>7, <3>1
    <2>2. a[m + 1] = "colon"
      BY <1>1, <2>1
    <2>3. QED
      BY <2>1, <2>2
  <1>9. /\ Len(b) = m + 1 + n /\ \A j \in 1 .. m + 1 : b[j] = a[j]
        /\ \A j \in 1 .. n : b[m + 1 + j] = v[j]
    <2>1. /\ Len(b) = Len(a) + Len(v) /\ \A j \in 1 .. Len(a) : b[j] = a[j]
          /\ \A j \in 1 .. Len(v) : b[Len(a) + j] = v[j]
      BY <1>4, Joined
    <2>2. QED
      BY <1>7, <1>8, <2>1
  <1>10. /\ Len(l) = m + 1 + n + 1 /\ \A j \in 1 .. m + 1 + n : l[j] = b[j]
         /\ l[m + 1 + n + 1] = "NL"
    <2>1. /\ Len(l) = m + 1 + n + 1 /\ \A j \in 1 .. m + 1 + n : l[j] = b[j]
          /\ \A j \in 1 .. 1 : l[m + 1 + n + j] = e[j]
      <3>1. /\ Len(l) = Len(b) + Len(e) /\ \A j \in 1 .. Len(b) : l[j] = b[j]
            /\ \A j \in 1 .. Len(e) : l[Len(b) + j] = e[j]
        BY <1>5, Joined
      <3>2. QED
        BY <1>2, <1>9, <3>1
    <2>2. l[m + 1 + n + 1] = "NL"
      BY <1>2, <2>1
    <2>3. QED
      BY <2>1, <2>2
  <1>11. m + 1 + n + 1 = m + n + 2
    OBVIOUS
  <1>12. \A j \in 1 .. m + 1 : l[j] = a[j]
    BY <1>9, <1>10
  <1>13. \A j \in 1 .. m : l[j] = k[j]
    BY <1>8, <1>12
  <1>14. l[m + 1] = "colon"
    BY <1>8, <1>12
  <1>15. \A j \in 1 .. n : l[m + 1 + j] = v[j]
    BY <1>9, <1>10
  <1>16. QED
    BY <1>6, <1>7, <1>10, <1>11, <1>13, <1>14, <1>15

(* Sequence q begins with p. *)
Starts(q, p) == Len(p) <= Len(q) /\ \A j \in 1 .. Len(p) : q[j] = p[j]

(* What q begins with it begins with whatever is put behind it. *)
LEMMA StartsMore ==
  ASSUME NEW S, NEW p \in Seq(S), NEW q \in Seq(S), NEW t \in Seq(S), Starts(q, p)
  PROVE  Starts(q \o t, p)
PROOF
  <1>1. PICK a \in Nat, b \in Nat, c \in Nat : a = Len(p) /\ b = Len(q) /\ c = Len(t)
    BY LenProperties
  <1>2. a <= b /\ \A j \in 1 .. a : q[j] = p[j]
    BY <1>1 DEF Starts
  <1>3. Len(q \o t) = b + c /\ \A j \in 1 .. b : (q \o t)[j] = q[j]
    BY <1>1, Joined
  <1>4. a <= b + c /\ \A j \in 1 .. a : (q \o t)[j] = p[j]
    BY <1>2, <1>3
  <1>5. QED
    BY <1>1, <1>3, <1>4 DEF Starts

(* Some places of the line ends make the text the armor of d and h. *)
HasLayout(t, d, h) == \E off : LaidOut(t, d, h, off)

(* The writer lays the lines out one behind another. *)
LEMMA Encoded ==
  ASSUME NEW h \in Seq(Seq(Ascii) \X Seq(Ascii)), NEW d \in Seq(Ascii), d # << >>
  PROVE  encode_armor(d, h) \in Seq(Ascii) /\ HasLayout(encode_armor(d, h), d, h)
PROOF
  <1> HIDE DEF Ascii
  <1> DEFINE n == Len(h)
             lines == CHOOSE f : f = [i \in 0 .. n |-> LinesStep(h, f, i)]
             L(i) == Line(h[i][1], h[i][2])
             Good(k) == \A i \in 0 .. k : lines[i] \in Seq(Ascii) /\ Starts(lines[k], lines[i])
             T == {k \in Nat : k <= n => Good(k)}
  <1>1. n \in Nat
    BY LenProperties
  <1>2. encode_armor(d, h) = lines[n] \o NewLine \o d
    BY DEF encode_armor, LinesStep
  <1>3. lines = [i \in 0 .. n |-> LinesStep(h, lines, i)]
    <2>1. \E f : f = [i \in 0 .. n |-> LinesStep(h, f, i)]
      BY <1>1, LinesExist
    <2>2. QED
      BY <2>1, Zenon
  <1> HIDE DEF lines
  <1>4. lines[0] = << >> /\ \A i \in 1 .. n : lines[i] = lines[i - 1] \o L(i)
    <2>1. \A i \in 0 .. n : lines[i] = LinesStep(h, lines, i)
      BY <1>3
    <2>2. LinesStep(h, lines, 0) = << >>
      BY DEF LinesStep
    <2>3. ASSUME NEW i \in 1 .. n PROVE LinesStep(h, lines, i) = lines[i - 1] \o L(i)
      <3>1. i # 0
        BY <1>1
      <3>2. QED
        BY <3>1, Zenon DEF LinesStep
    <2> HIDE DEF n, L
    <2>4. 0 \in 0 .. n /\ \A i \in 1 .. n : i \in 0 .. n
      BY <1>1
    <2>5. QED
      BY <2>1, <2>2, <2>3, <2>4, Zenon
  <1>5. \A i \in 1 .. n : L(i) \in Seq(Ascii) /\ h[i][1] \in Seq(Ascii) /\ h[i][2] \in Seq(Ascii)
    <2>1. SUFFICES ASSUME NEW i \in 1 .. n
                   PROVE  L(i) \in Seq(Ascii) /\ h[i][1] \in Seq(Ascii) /\ h[i][2] \in Seq(Ascii)
      OBVIOUS
    <2>2. h[i] \in Seq(Ascii) \X Seq(Ascii)
      BY ElementOfSeq
    <2>3. h[i][1] \in Seq(Ascii) /\ h[i][2] \in Seq(Ascii)
      BY <2>2
    <2>4. QED
      BY <2>3, LineParts
  <1> HIDE DEF n, L
  <1>6. 0 \in T
    <2>1. lines[0] \in Seq(Ascii)
      BY <1>4, EmptySeq
    <2>2. Starts(lines[0], lines[0])
      BY <1>4 DEF Starts
    <2>3. Good(0)
      BY <2>1, <2>2
    <2>4. QED
      BY <2>3
  <1>7. ASSUME NEW k \in Nat, k \in T PROVE k + 1 \in T
    <2> SUFFICES ASSUME k + 1 <= n PROVE Good(k + 1)
      OBVIOUS
    <2>1. Good(k) /\ k + 1 \in 1 .. n /\ k + 1 - 1 = k
      BY <1>1, <1>7
    <2>2. lines[k + 1] = lines[k + 1 - 1] \o L(k + 1) /\ L(k + 1) \in Seq(Ascii)
      <3>1. PICK i \in 1 .. n : i = k + 1
        BY <2>1
      <3>2. lines[i] = lines[i - 1] \o L(i) /\ L(i) \in Seq(Ascii)
        BY <1>4, <1>5, Zenon
      <3> HIDE DEF Good, T
      <3>3. QED
        BY <3>1, <3>2
    <2>3. lines[k] \in Seq(Ascii) /\ lines[k + 1] \in Seq(Ascii)
      <3>1. lines[k] \in Seq(Ascii)
        BY <2>1
      <3>2. QED
        BY <2>1, <2>2, <3>1, Joined
    <2>4. ASSUME NEW i \in 0 .. k PROVE Starts(lines[k + 1], lines[i])
      <3>1. Starts(lines[k], lines[i]) /\ lines[i] \in Seq(Ascii)
        BY <2>1
      <3>2. QED
        BY <2>1, <2>2, <2>3, <3>1, StartsMore
    <2>5. Starts(lines[k + 1], lines[k + 1])
      <3>1. PICK m \in Nat : m = Len(lines[k + 1])
        BY <2>3, LenProperties
      <3>2. QED
        BY <3>1 DEF Starts
    <2>6. \A i \in 0 .. k + 1 : i \in 0 .. k \/ i = k + 1
      OBVIOUS
    <2>7. \A i \in 0 .. k : lines[i] \in Seq(Ascii)
      BY <2>1
    <2>8. QED
      BY <2>3, <2>4, <2>5, <2>6, <2>7
  <1>8. Good(n)
    <2> HIDE DEF T
    <2>1. n \in T
      BY <1>1, <1>6, <1>7, Induction
    <2> USE DEF T
    <2> HIDE DEF Good
    <2>2. QED
      BY <1>1, <2>1
  <1> DEFINE off == [i \in 0 .. n |-> Len(lines[i])]
  <1>9. /\ off \in [0 .. n -> Nat] /\ off[0] = 0
        /\ \A i \in 0 .. n : off[i] = Len(lines[i]) /\ off[i] <= off[n]
    <2>1. \A i \in 0 .. n : Len(lines[i]) \in Nat /\ Len(lines[i]) <= Len(lines[n])
      BY <1>8, LenProperties DEF Starts
    <2>2. Len(lines[0]) = 0
      BY <1>4
    <2>3. QED
      BY <1>1, <2>1, <2>2
  <1> HIDE DEF off
  <1>10. PICK t \in Seq(Ascii) : t = encode_armor(d, h)
    <2>1. lines[n] \in Seq(Ascii)
      BY <1>1, <1>8
    <2>2. lines[n] \o NewLine \in Seq(Ascii)
      BY <2>1, Marks, Joined
    <2>3. QED
      BY <1>2, <2>1, <2>2, Joined
  <1>11. /\ Len(d) \in Nat /\ Len(t) = off[n] + 1 + Len(d) /\ t[off[n] + 1] = "NL"
         /\ \A j \in 1 .. Len(d) : t[off[n] + 1 + j] = d[j]
         /\ \A j \in 1 .. off[n] : t[j] = lines[n][j]
    <2>1. PICK e \in Seq(Ascii) : e = NewLine /\ Len(e) = 1 /\ e[1] = "NL"
      BY Marks
    <2>2. PICK z \in Nat : z = Len(d)
      BY LenProperties
    <2>3. PICK p \in Seq(Ascii) : p = lines[n]
      BY <1>1, <1>8
    <2>4. PICK q \in Seq(Ascii) : q = p \o e
      BY Joined
    <2>5. t = q \o d
      BY <1>2, <1>10, <2>1, <2>3, <2>4
    <2>6. PICK m \in Nat : m = Len(p) /\ m = off[n]
      BY <1>1, <1>9, <2>3
    <2>7. /\ Len(q) = m + 1 /\ q[m + 1] = "NL" /\ \A j \in 1 .. m : q[j] = p[j]
      <3>1. /\ Len(q) = Len(p) + Len(e) /\ \A j \in 1 .. Len(p) : q[j] = p[j]
            /\ \A j \in 1 .. Len(e) : q[Len(p) + j] = e[j]
        BY <2>4, Joined
      <3>2. /\ Len(q) = m + 1 /\ \A j \in 1 .. m : q[j] = p[j]
            /\ \A j \in 1 .. 1 : q[m + j] = e[j]
        BY <2>1, <2>6, <3>1
      <3>3. QED
        BY <2>1, <3>2
    <2>8. /\ Len(t) = m + 1 + z /\ \A j \in 1 .. m + 1 : t[j] = q[j]
          /\ \A j \in 1 .. z : t[m + 1 + j] = d[j]
      <3>1. /\ Len(t) = Len(q) + Len(d) /\ \A j \in 1 .. Len(q) : t[j] = q[j]
            /\ \A j \in 1 .. Len(d) : t[Len(q) + j] = d[j]
        BY <2>5, Joined
      <3>2. QED
        BY <2>2, <2>7, <3>1
    <2>9. m + 1 \in 1 .. m + 1 /\ \A j \in 1 .. m : j \in 1 .. m + 1
      OBVIOUS
    <2>10. t[m + 1] = "NL" /\ \A j \in 1 .. m : t[j] = p[j]
      BY <2>7, <2>8, <2>9
    <2>11. QED
      BY <2>2, <2>3, <2>6, <2>8, <2>10
  <1>12. ASSUME NEW i \in 1 .. n
         PROVE  /\ off[i] = off[i - 1] + Len(L(i))
                /\ \A j \in 1 .. Len(L(i)) : t[off[i - 1] + j] = L(i)[j]
    <2>1. i - 1 \in 0 .. n /\ i \in 0 .. n
      BY <1>1
    <2>2. PICK p \in Seq(Ascii), q \in Seq(Ascii), l \in Seq(Ascii) :
            p = lines[i - 1] /\ q = lines[i] /\ l = L(i)
      BY <1>5, <1>8, <2>1
    <2>3. q = p \o l
      BY <1>4, <2>2
    <2>4. PICK a \in Nat, b \in Nat : a = off[i - 1] /\ a = Len(p) /\ b = Len(l)
      BY <1>9, <2>1, <2>2, LenProperties
    <2>5. Len(q) = a + b /\ \A j \in 1 .. b : q[a + j] = l[j]
      <3>1. Len(q) = Len(p) + Len(l) /\ \A j \in 1 .. Len(l) : q[Len(p) + j] = l[j]
        BY <2>3, Joined
      <3>2. QED
        BY <2>4, <3>1
    <2>6. off[i] = a + b /\ a + b <= off[n] /\ off[n] \in Nat
      BY <1>1, <1>9, <2>1, <2>2, <2>5
    <2>7. \A j \in 1 .. a + b : t[j] = q[j]
      <3>1. \A j \in 1 .. a + b : lines[n][j] = q[j]
        BY <1>8, <2>1, <2>2, <2>5 DEF Starts
      <3>2. \A j \in 1 .. a + b : j \in 1 .. off[n]
        BY <2>6
      <3>3. QED
        BY <1>11, <3>1, <3>2
    <2>8. \A j \in 1 .. b : t[a + j] = l[j]
      <3>1. \A j \in 1 .. b : a + j \in 1 .. a + b
        OBVIOUS
      <3>2. QED
        BY <2>5, <2>7, <3>1
    <2>9. QED
      BY <2>2, <2>4, <2>6, <2>8
  <1>13. LaidOut(t, d, h, off)
    <2>1. \A i \in 1 .. n : off[i] <= off[n]
      <3>1. \A i \in 1 .. n : i \in 0 .. n
        BY <1>1
      <3>2. QED
        BY <1>9, <3>1
    <2>2. QED
      BY <1>9, <1>11, <1>12, <2>1 DEF LaidOut, n, L
  <1>14. QED
    BY <1>10, <1>13 DEF HasLayout

-------------------------------------------------------------------------------
(* What SubSeq takes from a sequence. *)
LEMMA Part ==
  ASSUME NEW S, NEW s \in Seq(S), NEW p \in Nat, NEW q \in Nat,
         1 <= p, p <= q + 1, q <= Len(s)
  PROVE  /\ SubSeq(s, p, q) \in Seq(S) /\ Len(SubSeq(s, p, q)) = q + 1 - p
         /\ \A i \in 1 .. q + 1 - p : SubSeq(s, p, q)[i] = s[p + i - 1]
PROOF
  <1>1. PICK n \in Nat : n = Len(s)
    BY LenProperties
  <1>2. \A j \in p .. q : s[j] \in S
    <2>1. \A j \in p .. q : j \in 1 .. Len(s)
      BY <1>1
    <2>2. QED
      BY <2>1, ElementOfSeq
  <1>3. p \in Int /\ q \in Int
    OBVIOUS
  <1>4. /\ SubSeq(s, p, q) \in Seq(S)
        /\ Len(SubSeq(s, p, q)) = IF p <= q THEN q - p + 1 ELSE 0
        /\ \A i \in 1 .. q - p + 1 : SubSeq(s, p, q)[i] = s[p + i - 1]
    BY <1>2, <1>3, SubSeqProperties
  <1>5. q - p + 1 = q + 1 - p /\ (~(p <= q) => q + 1 - p = 0)
    OBVIOUS
  <1>6. QED
    BY <1>4, <1>5, Zenon

(* A part of a sequence has a character if the sequence has it there. *)
LEMMA PartContains ==
  ASSUME NEW S, NEW s \in Seq(S), NEW p \in Nat, NEW e \in Nat, NEW c,
         1 <= p, p <= e, e <= Len(s) + 1
  PROVE  Contains(SubSeq(s, p, e - 1), c) <=> \E j \in p .. e - 1 : s[j] = c
PROOF
  <1>1. PICK n \in Nat : n = Len(s)
    BY LenProperties
  <1>2. PICK f \in Nat : f = e - 1 /\ p <= f + 1 /\ f <= n
    BY <1>1
  <1>3. PICK q \in Seq(S) : q = SubSeq(s, p, f)
    BY <1>1, <1>2, Part
  <1>4. Len(q) = f + 1 - p /\ \A i \in 1 .. f + 1 - p : q[i] = s[p + i - 1]
    BY <1>1, <1>2, <1>3, Part
  <1>5. ASSUME NEW i \in 1 .. f + 1 - p, q[i] = c PROVE \E j \in p .. f : s[j] = c
    <2>1. p + i - 1 \in p .. f
      OBVIOUS
    <2>2. s[p + i - 1] = c
      BY <1>4, <1>5
    <2>3. QED
      BY <2>1, <2>2
  <1>6. ASSUME NEW j \in p .. f, s[j] = c PROVE \E i \in 1 .. f + 1 - p : q[i] = c
    <2>1. j - p + 1 \in 1 .. f + 1 - p /\ p + (j - p + 1) - 1 = j
      OBVIOUS
    <2>2. q[j - p + 1] = c
      BY <1>4, <1>6, <2>1
    <2>3. QED
      BY <2>1, <2>2
  <1>7. Contains(q, c) <=> \E i \in 1 .. f + 1 - p : q[i] = c
    BY <1>4 DEF Contains
  <1>8. Contains(q, c) <=> \E j \in p .. f : s[j] = c
    BY <1>5, <1>6, <1>7
  <1>9. QED
    BY <1>2, <1>3, <1>8

(* The first place from p on where s has the character c. *)
First(s, p, c) ==
  CHOOSE i \in p .. Len(s) : s[i] = c /\ ~Contains(SubSeq(s, p, i - 1), c)

(* It is the place with c and no c before it. *)
LEMMA FirstPlace ==
  ASSUME NEW S, NEW s \in Seq(S), NEW p \in Nat, NEW e \in Nat, NEW c,
         1 <= p, p <= e, e <= Len(s), s[e] = c, \A j \in p .. e - 1 : s[j] # c
  PROVE  First(s, p, c) = e
PROOF
  <1>1. PICK n \in Nat : n = Len(s)
    BY LenProperties
  <1> DEFINE Here(i) == s[i] = c /\ ~Contains(SubSeq(s, p, i - 1), c)
  <1>2. \A i \in p .. n : Here(i) <=> s[i] = c /\ \A j \in p .. i - 1 : s[j] # c
    BY <1>1, PartContains
  <1> HIDE DEF Here
  <1>3. e \in p .. n /\ Here(e)
    BY <1>1, <1>2
  <1>4. ASSUME NEW i \in p .. n, Here(i) PROVE i = e
    <2>1. s[i] = c /\ \A j \in p .. i - 1 : s[j] # c
      BY <1>2, <1>4
    <2>2. ~(i < e)
      BY <2>1
    <2>3. ~(e < i)
      BY <2>1
    <2>4. QED
      BY <2>2, <2>3
  <1>5. (CHOOSE i \in p .. n : Here(i)) = e
    BY <1>3, <1>4
  <1>6. QED
    BY <1>1, <1>5 DEF First, Here

(* The text l is a key k of length m, the colon and a value v of length n. *)
Joins(l, k, m, v, n) ==
  /\ m = Len(k) /\ n = Len(v) /\ Len(l) = m + 1 + n /\ l[m + 1] = "colon"
  /\ \A j \in 1 .. m : l[j] = k[j]
  /\ \A j \in 1 .. n : l[m + 1 + j] = v[j]

(* A line is split behind its key, which has no colon. *)
LEMMA SplitLine ==
  ASSUME NEW k \in Seq(Ascii), NEW v \in Seq(Ascii), NEW l \in Seq(Ascii),
         NEW m \in Nat, NEW n \in Nat, Joins(l, k, m, v, n), ~Contains(k, "colon")
  PROVE  Split(l) = <<k, v>>
PROOF
  <1> HIDE DEF Ascii
  <1>1. \A j \in 1 .. m : l[j] # "colon"
    BY DEF Contains, Joins
  <1> DEFINE z == First(l, 1, "colon")
  <1>2. z = m + 1
    <2>1. l[m + 1] = "colon" /\ m + 1 <= Len(l)
      BY DEF Joins
    <2>2. PICK p \in Nat : p = 1
      OBVIOUS
    <2>3. PICK e \in Nat : e = m + 1
      OBVIOUS
    <2>4. 1 <= p /\ p <= e /\ e <= Len(l) /\ l[e] = "colon"
      BY <2>1, <2>2, <2>3
    <2>5. \A j \in p .. e - 1 : l[j] # "colon"
      BY <1>1, <2>2, <2>3
    <2>6. First(l, p, "colon") = e
      BY <2>4, <2>5, FirstPlace
    <2>7. QED
      BY <2>2, <2>3, <2>6
  <1>3. Split(l) = <<SubSeq(l, 1, z - 1), SubSeq(l, z + 1, Len(l))>>
    <2>1. Contains(l, "colon")
      <3>1. m + 1 \in 1 .. Len(l) /\ l[m + 1] = "colon"
        BY DEF Joins
      <3>2. QED
        BY <3>1, Zenon DEF Contains
    <2>2. QED
      BY <2>1, Zenon DEF Split, First
  <1> HIDE DEF z
  <1>4. z - 1 = m /\ z + 1 = m + 2
    BY <1>2
  <1>5. SubSeq(l, 1, m) = k
    <2>1. PICK p \in Nat : p = 1
      OBVIOUS
    <2>2. 1 <= p /\ p <= m + 1 /\ m <= Len(l) /\ m + 1 - p = m
      BY <2>1 DEF Joins
    <2>3. PICK q \in Seq(Ascii) : q = SubSeq(l, p, m)
      BY <2>2, Part
    <2>4. Len(q) = m + 1 - p /\ \A i \in 1 .. m + 1 - p : q[i] = l[p + i - 1]
      BY <2>2, <2>3, Part
    <2>5. \A i \in 1 .. m : p + i - 1 = i
      BY <2>1
    <2>6. Len(q) = m /\ \A i \in 1 .. m : q[i] = l[i]
      BY <2>2, <2>4, <2>5
    <2>7. Len(q) = Len(k) /\ \A i \in 1 .. Len(q) : q[i] = k[i]
      BY <2>6 DEF Joins
    <2>8. q = k
      BY <2>7, SeqEqual
    <2>9. QED
      BY <2>1, <2>3, <2>8
  <1>6. SubSeq(l, m + 2, Len(l)) = v
    <2>1. PICK a \in Nat : a = m + 2
      OBVIOUS
    <2>2. PICK b \in Nat : b = Len(l) /\ b = m + 1 + n
      BY DEF Joins
    <2>3. 1 <= a /\ a <= b + 1 /\ b <= Len(l) /\ b + 1 - a = n
      BY <2>1, <2>2
    <2>4. PICK q \in Seq(Ascii) : q = SubSeq(l, a, b)
      BY <2>3, Part
    <2>5. Len(q) = b + 1 - a /\ \A i \in 1 .. b + 1 - a : q[i] = l[a + i - 1]
      BY <2>3, <2>4, Part
    <2>6. \A i \in 1 .. n : a + i - 1 = m + 1 + i
      BY <2>1
    <2>7. Len(q) = n /\ \A i \in 1 .. n : q[i] = l[m + 1 + i]
      BY <2>3, <2>5, <2>6
    <2>8. Len(q) = Len(v) /\ \A i \in 1 .. Len(q) : q[i] = v[i]
      BY <2>7 DEF Joins
    <2>9. q = v
      BY <2>8, SeqEqual
    <2>10. QED
      BY <2>1, <2>2, <2>4, <2>9
  <1>7. QED
    BY <1>3, <1>4, <1>5, <1>6

(* A header is read from where its line is: the reader finds the end of the *)
(* line and splits it into the key and the value that were written.         *)
LEMMA ReadHeader ==
  ASSUME NEW t \in Seq(Ascii), NEW d, NEW h \in Seq(Seq(Ascii) \X Seq(Ascii)), NEW off,
         LaidOut(t, d, h, off), NEW i \in 1 .. Len(h),
         ~Contains(h[i][1], "colon"), ~Contains(h[i][1], "NL"), ~Contains(h[i][2], "NL")
  PROVE  /\ off[i - 1] + 1 \in Nat /\ off[i] \in Nat /\ off[i] # off[i - 1] + 1
         /\ First(t, off[i - 1] + 1, "NL") = off[i]
         /\ Split(SubSeq(t, off[i - 1] + 1, off[i] - 1)) = h[i]
PROOF
  <1> HIDE DEF Ascii
  <1>1. PICK k \in Seq(Ascii), v \in Seq(Ascii) : h[i] = <<k, v>> /\ k = h[i][1] /\ v = h[i][2]
    <2>1. h[i] \in Seq(Ascii) \X Seq(Ascii)
      BY ElementOfSeq
    <2>2. QED
      BY <2>1
  <1>2. PICK m \in Nat, n \in Nat : m = Len(k) /\ n = Len(v)
    BY LenProperties
  <1>3. PICK l : l = Line(k, v)
    OBVIOUS
  <1>4. /\ Len(l) = m + n + 2 /\ l[m + 1] = "colon" /\ l[m + n + 2] = "NL"
        /\ (\A j \in 1 .. m : l[j] = k[j]) /\ \A j \in 1 .. n : l[m + 1 + j] = v[j]
    <2>1. /\ Len(l) = Len(k) + Len(v) + 2 /\ \A j \in 1 .. Len(k) : l[j] = k[j]
          /\ l[Len(k) + 1] = "colon" /\ \A j \in 1 .. Len(v) : l[Len(k) + 1 + j] = v[j]
          /\ l[Len(k) + Len(v) + 2] = "NL"
      <3>1. /\ Len(Line(k, v)) = Len(k) + Len(v) + 2
            /\ \A j \in 1 .. Len(k) : Line(k, v)[j] = k[j]
            /\ Line(k, v)[Len(k) + 1] = "colon"
            /\ \A j \in 1 .. Len(v) : Line(k, v)[Len(k) + 1 + j] = v[j]
            /\ Line(k, v)[Len(k) + Len(v) + 2] = "NL"
        BY LineParts
      <3>2. QED
        BY <1>3, <3>1, Zenon
    <2>2. QED
      BY <1>2, <2>1, Zenon
  <1>5. PICK w \in Nat : w = Len(h) /\ i \in 1 .. w
    BY LenProperties
  <1>6. PICK o \in Nat : o = off[i - 1]
    <2>1. off \in [0 .. w -> Nat]
      BY <1>5 DEF LaidOut
    <2>2. i - 1 \in 0 .. w
      BY <1>5
    <2>3. QED
      BY <2>1, <2>2
  <1>7. PICK z \in Nat : z = Len(t) /\ off[i] + 1 <= z
    <2>1. off \in [0 .. w -> Nat] /\ i \in 0 .. w /\ w \in 0 .. w
      BY <1>5 DEF LaidOut
    <2>2. off[i] <= off[w] /\ Len(d) \in Nat /\ Len(t) = off[w] + 1 + Len(d)
      BY <1>5 DEF LaidOut
    <2>3. off[i] \in Nat /\ off[w] \in Nat
      BY <2>1
    <2>4. PICK a \in Nat, b \in Nat, c \in Nat : a = off[i] /\ b = off[w] /\ c = Len(d)
      BY <2>2, <2>3
    <2>5. a <= b /\ Len(t) = b + 1 + c
      BY <2>2, <2>4
    <2>6. b + 1 + c \in Nat /\ a + 1 <= b + 1 + c
      BY <2>5
    <2>7. QED
      BY <2>4, <2>5, <2>6
  <1>8. off[i] = o + Len(l) /\ \A j \in 1 .. Len(l) : t[o + j] = l[j]
    BY <1>1, <1>3, <1>6 DEF LaidOut
  <1>9. off[i] = o + m + n + 2 /\ \A j \in 1 .. m + n + 2 : t[o + j] = l[j]
    <2>1. PICK b \in Nat : b = m + n + 2 /\ b = Len(l) /\ o + b = o + m + n + 2
      BY <1>4
    <2>2. off[i] = o + b /\ \A j \in 1 .. b : t[o + j] = l[j]
      BY <1>8, <2>1
    <2>3. QED
      BY <2>1, <2>2
  <1>10. \A j \in 1 .. m + n + 1 : l[j] # "NL"
    <2>1. (\A j \in 1 .. m : k[j] # "NL") /\ (\A j \in 1 .. n : v[j] # "NL")
      BY <1>1, <1>2 DEF Contains
    <2>2. SUFFICES ASSUME NEW j \in 1 .. m + n + 1 PROVE l[j] # "NL"
      OBVIOUS
    <2>3. CASE j <= m
      <3>1. j \in 1 .. m
        BY <2>3
      <3>2. QED
        BY <1>4, <2>1, <3>1
    <2>4. CASE j = m + 1
      BY <1>4, <2>4
    <2>5. CASE j > m + 1
      <3>1. PICK g \in 1 .. n : j = m + 1 + g
        <4>1. j - m - 1 \in 1 .. n /\ j = m + 1 + (j - m - 1)
          BY <2>5
        <4>2. QED
          BY <4>1
      <3>2. QED
        BY <1>4, <2>1, <3>1
    <2>6. j <= m \/ j = m + 1 \/ j > m + 1
      OBVIOUS
    <2>7. QED
      BY <2>3, <2>4, <2>5, <2>6, Zenon
  <1>11. PICK p \in Nat, e \in Nat :
           p = o + 1 /\ e = o + m + n + 2 /\ 1 <= p /\ p < e /\ e <= z
    BY <1>7, <1>9
  <1>12. First(t, p, "NL") = e
    <2>1. t[e] = "NL"
      <3>1. m + n + 2 \in 1 .. m + n + 2 /\ o + (m + n + 2) = e
        BY <1>11
      <3>2. t[o + (m + n + 2)] = l[m + n + 2]
        BY <1>9, <3>1
      <3>3. QED
        BY <1>4, <3>1, <3>2
    <2>2. ASSUME NEW j \in p .. e - 1 PROVE t[j] # "NL"
      <3>1. PICK g \in 1 .. m + n + 1 : j = o + g /\ g \in 1 .. m + n + 2
        <4>1. j - o \in 1 .. m + n + 1 /\ j = o + (j - o) /\ j - o \in 1 .. m + n + 2
          BY <1>11
        <4>2. QED
          BY <4>1
      <3>2. QED
        BY <1>9, <1>10, <3>1
    <2>3. p <= e /\ e <= Len(t)
      BY <1>7, <1>11
    <2>4. QED
      BY <1>11, <2>1, <2>2, <2>3, FirstPlace
  <1>13. PICK q \in Seq(Ascii) : q = SubSeq(t, p, e - 1) /\ Joins(q, k, m, v, n)
    <2>1. PICK b \in Nat : b = e - 1 /\ p <= b + 1 /\ b <= Len(t) /\ b + 1 - p = m + n + 1
      BY <1>7, <1>11
    <2>2. PICK q \in Seq(Ascii) : q = SubSeq(t, p, b)
      BY <1>11, <2>1, Part
    <2>3. Len(q) = b + 1 - p /\ \A j \in 1 .. b + 1 - p : q[j] = t[p + j - 1]
      BY <1>11, <2>1, <2>2, Part
    <2>4. \A j \in 1 .. m + n + 1 : p + j - 1 = o + j /\ j \in 1 .. m + n + 2
      BY <1>11
    <2>5. Len(q) = m + n + 1 /\ \A j \in 1 .. m + n + 1 : q[j] = l[j]
      BY <1>9, <2>1, <2>3, <2>4
    <2>6. \A j \in 1 .. m : j \in 1 .. m + n + 1
      OBVIOUS
    <2>7. \A j \in 1 .. n : m + 1 + j \in 1 .. m + n + 1
      OBVIOUS
    <2>8. m + 1 \in 1 .. m + n + 1 /\ m + n + 1 = m + 1 + n
      OBVIOUS
    <2>9. Joins(q, k, m, v, n)
      BY <1>2, <1>4, <2>5, <2>6, <2>7, <2>8 DEF Joins
    <2>10. QED
      BY <2>1, <2>2, <2>9
  <1>14. Split(q) = h[i]
    BY <1>1, <1>13, SplitLine
  <1>15. QED
    BY <1>6, <1>9, <1>11, <1>12, <1>13, <1>14

(* Behind the last header the reader finds an empty line and the data. *)
LEMMA ReadEnd ==
  ASSUME NEW t \in Seq(Ascii), NEW d \in Seq(Ascii), NEW h \in Seq(Seq(Ascii) \X Seq(Ascii)), NEW off,
         LaidOut(t, d, h, off)
  PROVE  /\ First(t, off[Len(h)] + 1, "NL") = off[Len(h)] + 1
         /\ SubSeq(t, off[Len(h)] + 1 + 1, Len(t)) = d
PROOF
  <1> HIDE DEF Ascii
  <1>1. PICK o \in Nat : o = off[Len(h)]
    <2>1. off \in [0 .. Len(h) -> Nat] /\ Len(h) \in 0 .. Len(h)
      BY LenProperties DEF LaidOut
    <2>2. QED
      BY <2>1
  <1>2. PICK z \in Nat : z = Len(d) /\ Len(t) = o + 1 + z /\ t[o + 1] = "NL"
                         /\ \A j \in 1 .. z : t[o + 1 + j] = d[j]
    BY <1>1 DEF LaidOut
  <1>3. PICK p \in Nat : p = o + 1 /\ 1 <= p /\ p <= p /\ p <= Len(t)
    BY <1>2
  <1>4. First(t, p, "NL") = p
    <2>1. t[p] = "NL" /\ \A j \in p .. p - 1 : t[j] # "NL"
      BY <1>2, <1>3
    <2>2. QED
      BY <1>3, <2>1, FirstPlace
  <1>5. PICK a \in Nat, b \in Nat :
          /\ a = p + 1 /\ a = o + 1 + 1 /\ b = Len(t) /\ b = o + 1 + z
          /\ 1 <= a /\ a <= b + 1 /\ b <= Len(t) /\ b + 1 - a = z
    <2>1. PICK a \in Nat, b \in Nat : a = o + 1 + 1 /\ b = o + 1 + z
      OBVIOUS
    <2>2. 1 <= a /\ a <= b + 1 /\ b <= b /\ b + 1 - a = z /\ a = p + 1
      BY <1>3, <2>1
    <2>3. b = Len(t)
      BY <1>2, <2>1
    <2>4. QED
      BY <2>1, <2>2, <2>3
  <1>6. PICK q \in Seq(Ascii) : q = SubSeq(t, a, b)
    BY <1>5, Part
  <1>7. Len(q) = b + 1 - a /\ \A i \in 1 .. b + 1 - a : q[i] = t[a + i - 1]
    BY <1>5, <1>6, Part
  <1>8. \A i \in 1 .. z : a + i - 1 = o + 1 + i
    BY <1>5
  <1>9. Len(q) = z /\ \A i \in 1 .. z : q[i] = d[i]
    BY <1>2, <1>5, <1>7, <1>8
  <1>10. q = d
    BY <1>2, <1>9, SeqEqual
  <1>11. QED
    BY <1>1, <1>3, <1>4, <1>5, <1>6, <1>10

-------------------------------------------------------------------------------
(* The headers of fitting arrays are pairs of ASCII texts, the n-th of them *)
(* the n-th elements.                                                       *)
LEMMA FittingHeaders ==
  ASSUME NEW k, NEW v, Fitting(k, v)
  PROVE  /\ Headers(k, v) \in Seq(Seq(Ascii) \X Seq(Ascii))
         /\ Len(Headers(k, v)) = Len(k.elems)
         /\ \A i \in 1 .. Len(k.elems) :
              /\ Headers(k, v)[i] = <<k.elems[i], v.elems[i]>>
              /\ ~Contains(Headers(k, v)[i][1], "colon")
              /\ ~Contains(Headers(k, v)[i][1], "NL") /\ ~Contains(Headers(k, v)[i][2], "NL")
PROOF
  <1> HIDE DEF Ascii
  <1>1. PICK n \in Nat : n = Len(k.elems)
    BY DEF Fitting
  <1>2. /\ Headers(k, v) = [i \in 1 .. n |-> <<k.elems[i], v.elems[i]>>]
        /\ \A i \in 1 .. n : k.elems[i] \in Seq(Ascii) /\ v.elems[i] \in Seq(Ascii)
    BY <1>1 DEF Headers, Fitting
  <1>3. /\ Headers(k, v) \in [1 .. n -> Seq(Ascii) \X Seq(Ascii)]
        /\ \A i \in 1 .. n : Headers(k, v)[i] = <<k.elems[i], v.elems[i]>>
    BY <1>2
  <1>4. Headers(k, v) \in Seq(Seq(Ascii) \X Seq(Ascii)) /\ Len(Headers(k, v)) = n
    BY <1>3
  <1>5. \A i \in 1 .. n : /\ ~Contains(k.elems[i], "colon") /\ ~Contains(k.elems[i], "NL")
                          /\ ~Contains(v.elems[i], "NL")
    BY <1>1 DEF Fitting
  <1>6. QED
    BY <1>1, <1>3, <1>4, <1>5

(* An armor is not the empty text. *)
LEMMA NotEmpty ==
  ASSUME Armored
  PROVE  text # << >>
PROOF
  <1> DEFINE h == Headers(from.keys, from.values)
  <1>1. PICK off : LaidOut(text, from.data, h, off)
    BY DEF Armored
  <1>2. Len(h) \in Nat
    BY FittingHeaders, LenProperties DEF Armored
  <1> HIDE DEF h
  <1>3. off[Len(h)] \in Nat
    BY <1>1, <1>2 DEF LaidOut
  <1>4. Len(from.data) \in Nat /\ Len(text) = off[Len(h)] + 1 + Len(from.data)
    BY <1>1 DEF LaidOut
  <1>5. Len(text) # 0
    BY <1>3, <1>4
  <1>6. QED
    BY <1>5

(* Data is ASCII in its base64. *)
LEMMA DataAscii ==
  ASSUME NEW d \in Data
  PROVE  d \in Seq(Ascii)
  BY ArmorConstants DEF Ascii

(* What is made of something is not nothing. *)
LEMMA MadeOf ==
  ASSUME NEW d, NEW k, NEW v
  PROVE  [data |-> d, keys |-> k, values |-> v] # None
PROOF
  <1> DEFINE r == [data |-> d, keys |-> k, values |-> v]
  <1>1. "data" \in DOMAIN r
    OBVIOUS
  <1>2. DOMAIN None = {"pc"}
    BY DEF None
  <1>3. "data" \notin {"pc"}
    OBVIOUS
  <1> HIDE DEF r
  <1>4. r # None
    BY <1>1, <1>2, <1>3
  <1>5. QED
    BY <1>4 DEF r

(* A new armor, of fitting arrays, with no reader. *)
LEMMA Written ==
  ASSUME NEW d \in Data, NEW k, NEW v, Fitting(k, v), read = None, read' = read,
         text' = encode_armor(d, Headers(k, v)),
         from' = [data |-> d, keys |-> k, values |-> v]
  PROVE  IInv'
PROOF
  <1>1. d \in Seq(Ascii)
    BY DataAscii
  <1> DEFINE h == Headers(k, v)
  <1>2. h \in Seq(Seq(Ascii) \X Seq(Ascii))
    BY FittingHeaders
  <1>3. from'.data = d /\ from'.keys = k /\ from'.values = v /\ from' # None
    <2>1. from' # None
      BY MadeOf
    <2>2. QED
      BY <2>1
  <1> HIDE DEF h, Ascii
  <1>4. text' = encode_armor(d, h)
    BY DEF h
  <1>5. CASE d = << >>
    <2>1. text' = << >>
      BY <1>4, <1>5 DEF encode_armor
    <2>2. read' = None
      OBVIOUS
    <2>3. QED
      BY <1>3, <1>5, <2>1, <2>2 DEF IInv, EmptyArmor
  <1>6. CASE d # << >>
    <2>1. encode_armor(d, h) \in Seq(Ascii) /\ HasLayout(encode_armor(d, h), d, h)
      BY <1>1, <1>2, <1>6, Encoded
    <2>2. text' \in Seq(Ascii) /\ HasLayout(text', d, h)
      BY <1>4, <2>1
    <2>3. PICK off : LaidOut(text', d, h, off)
      BY <2>2 DEF HasLayout
    <2>4. Armored'
      BY <1>3, <1>6, <2>2, <2>3 DEF Armored, h
    <2>5. QED
      BY <2>4 DEF IInv
  <1>7. QED
    BY <1>5, <1>6

(* Armor without headers is that of empty arrays. *)
LEMMA ArmorInv ==
  ASSUME IInv, NEW d \in Data, armor(d)
  PROVE  IInv'
PROOF
  <1>1. read = None
    BY DEF IInv, Nothing, EmptyArmor, Armored, armor
  <1>2. Fitting(NoTexts, NoTexts) /\ Headers(NoTexts, NoTexts) = << >>
    BY DEF Fitting, NoTexts, Headers, ndim
  <1>3. QED
    BY <1>1, <1>2, Written DEF armor

(* What armor_with_headers does not refuse is fitting. *)
LEMMA ArmorWithHeadersInv ==
  ASSUME IInv, NEW d \in Data, NEW k \in Arrays, NEW v \in Arrays, armor_with_headers(d, k, v)
  PROVE  IInv'
PROOF
  <1>1. read = None
    BY DEF IInv, Nothing, EmptyArmor, Armored, armor_with_headers
  <1>2. PICK n \in Nat : n = Len(k.elems) /\ n = Len(v.elems)
    BY ArmorConstants DEF armor_with_headers, SameShape
  <1>3. ndim(k) = ndim(v) /\ (n # 0 => ndim(k) = 1)
    <2>1. ndim(k) \in Nat /\ ndim(k) <= 1 /\ ndim(k) = ndim(v)
      BY ArmorConstants DEF armor_with_headers, SameShape, ndim
    <2>2. ndim(k) = 0 => n = 0
      BY <1>2, ArmorConstants DEF ndim
    <2>3. QED
      BY <2>1, <2>2
  <1>4. ASSUME NEW s \in Seq(Char), is_ascii(s)
        PROVE  s \in Seq(Ascii)
    <2>1. s \in [1 .. Len(s) -> Char] /\ Len(s) \in Nat
      BY LenProperties
    <2>2. \A i \in 1 .. Len(s) : s[i] \in Ascii
      BY <1>4, <2>1 DEF is_ascii, Ascii
    <2>3. s \in [1 .. Len(s) -> Ascii]
      BY <2>1, <2>2
    <2>4. QED
      BY <2>1, <2>3
  <1>5. ASSUME NEW i \in 1 .. n
        PROVE  /\ k.elems[i] \in Seq(Ascii) /\ v.elems[i] \in Seq(Ascii)
               /\ ~Contains(k.elems[i], "colon") /\ ~Contains(k.elems[i], "NL")
               /\ ~Contains(v.elems[i], "NL")
    <2>1. k.elems[i] # NULL /\ v.elems[i] # NULL
      BY <1>2 DEF armor_with_headers, NoNull
    <2>2. k.elems[i] \in Seq(Char) /\ v.elems[i] \in Seq(Char)
      BY <1>2, <2>1, ArmorConstants
    <2>3. HeaderFits(k.elems[i], v.elems[i])
      BY <1>2 DEF armor_with_headers
    <2>4. QED
      BY <1>4, <2>2, <2>3 DEF HeaderFits
  <1>6. Fitting(k, v)
    BY <1>2, <1>3, <1>5 DEF Fitting
  <1>7. QED
    BY <1>1, <1>6, Written DEF armor_with_headers

(* A reader starts before the first line of an armor. *)
LEMMA OpenArmored ==
  ASSUME Armored, Open
  PROVE  IInv'
PROOF
  <1> DEFINE h == Headers(from.keys, from.values)
  <1>1. Armored /\ text' = text /\ from' = from /\ text # << >>
    BY NotEmpty DEF Open
  <1>2. PICK off : LaidOut(text, from.data, h, off)
    BY <1>1 DEF Armored
  <1>3. h \in Seq(Seq(Ascii) \X Seq(Ascii))
    BY <1>1, FittingHeaders DEF Armored
  <1>4. read' = [pc |-> "headers", at |-> 1, headers |-> << >>, data |-> << >>]
    BY <1>1 DEF Open
  <1> HIDE DEF h, Ascii
  <1>5. off[0] = 0 /\ Len(h) \in Nat
    BY <1>2, <1>3, LenProperties DEF LaidOut
  <1>6. /\ read' \in Reader /\ Len(read'.headers) = 0
        /\ read'.at = off[Len(read'.headers)] + 1
    <2>1. << >> \in Seq(Seq(Ascii) \X Seq(Ascii)) /\ << >> \in Seq(Ascii)
      BY EmptySeq
    <2>2. read' \in Reader
      BY <1>4, <2>1 DEF Reader
    <2>3. QED
      BY <1>4, <1>5, <2>2
  <1>7. ReaderAt(h, off)'
    BY <1>4, <1>5, <1>6 DEF ReaderAt
  <1>8. QED
    BY <1>1, <1>2, <1>7 DEF IInv, Armored, h

(* It fails on the armor of empty data. *)
LEMMA OpenInv ==
  ASSUME IInv, Open
  PROVE  IInv'
PROOF
  <1>1. CASE Armored
    BY <1>1, OpenArmored
  <1>2. CASE EmptyArmor
    <2>1. text' = text /\ from' = from /\ read'.pc = "error"
      BY <1>2 DEF Open, EmptyArmor
    <2>2. QED
      BY <1>2, <2>1 DEF IInv, EmptyArmor
  <1>3. QED
    BY <1>1, <1>2 DEF IInv, Nothing, Open

(* The line behind the headers read so far is the next header, or the empty *)
(* one if there is none.                                                    *)
LEMMA ReadLineInv ==
  ASSUME IInv, ReadLine
  PROVE  IInv'
PROOF
  <1> DEFINE h == Headers(from.keys, from.values)
             Pairs == Seq(Ascii) \X Seq(Ascii)
             e == LineEnd(read.at)
             n == Len(read.headers)
  <1>1. Armored /\ read # None /\ text' = text /\ from' = from /\ h' = h
    BY DEF IInv, Nothing, EmptyArmor, ReadLine, None
  <1>2. PICK off : LaidOut(text, from.data, h, off) /\ ReaderAt(h, off)
    BY <1>1 DEF Armored
  <1>3. /\ h \in Seq(Pairs)
        /\ \A i \in 1 .. Len(h) :
             /\ ~Contains(h[i][1], "colon") /\ ~Contains(h[i][1], "NL") /\ ~Contains(h[i][2], "NL")
    BY <1>1, FittingHeaders DEF Armored
  <1>4. /\ read \in Reader /\ read.headers \in Seq(Pairs)
        /\ n <= Len(h) /\ n \in Nat /\ Len(h) \in Nat
        /\ read.at = off[n] + 1 /\ \A i \in 1 .. n : read.headers[i] = h[i]
    <2>1. read \in Reader /\ n <= Len(h) /\ \A i \in 1 .. n : read.headers[i] = h[i]
      BY <1>2 DEF ReaderAt
    <2>2. read.headers \in Seq(Pairs)
      BY <2>1 DEF Reader
    <2>3. read.at = off[n] + 1
      BY <1>2 DEF ReaderAt, ReadLine
    <2>4. QED
      BY <1>3, <2>1, <2>2, <2>3, LenProperties
  <1>5. read' = IF e = read.at
                  THEN [read EXCEPT !.pc = "done", !.data = SubSeq(text, e + 1, Len(text))]
                  ELSE [read EXCEPT !.at = e + 1,
                                    !.headers = Append(@, Split(SubSeq(text, read.at, e - 1)))]
    BY DEF ReadLine
  <1>6. text \in Seq(Ascii) /\ from.data \in Data /\ from.data \in Seq(Ascii)
    BY <1>1, DataAscii DEF Armored
  <1>7. e = First(text, read.at, "NL")
    BY DEF LineEnd, First
  <1> HIDE DEF h, e, Ascii
  <1>8. CASE n = Len(h)
    <2>1. PICK o \in Nat : o = off[n]
      <3>1. off \in [0 .. Len(h) -> Nat]
        BY <1>2 DEF LaidOut
      <3>2. QED
        BY <1>4, <1>8, <3>1
    <2>2. e = o + 1 /\ SubSeq(text, o + 1 + 1, Len(text)) = from.data
      <3>1. /\ First(text, off[Len(h)] + 1, "NL") = off[Len(h)] + 1
            /\ SubSeq(text, off[Len(h)] + 1 + 1, Len(text)) = from.data
        BY <1>2, <1>3, <1>6, ReadEnd
      <3>2. QED
        BY <1>4, <1>7, <1>8, <2>1, <3>1
    <2>3. read' = [read EXCEPT !.pc = "done", !.data = from.data]
      BY <1>4, <1>5, <2>1, <2>2
    <2>4. /\ read' \in Reader /\ read'.pc = "done" /\ read'.headers = read.headers
          /\ read'.data = from.data
      BY <1>4, <1>6, <2>3 DEF Reader
    <2>5. ReaderAt(h, off)'
      BY <1>1, <1>4, <1>8, <2>4 DEF ReaderAt
    <2>6. QED
      BY <1>1, <1>2, <2>5 DEF IInv, Armored, h
  <1>9. CASE n < Len(h)
    <2>1. PICK i \in 1 .. Len(h) : i = n + 1 /\ i - 1 = n
      BY <1>4, <1>9
    <2>2. /\ off[i - 1] + 1 \in Nat /\ off[i] \in Nat /\ off[i] # off[i - 1] + 1
          /\ First(text, off[i - 1] + 1, "NL") = off[i]
          /\ Split(SubSeq(text, off[i - 1] + 1, off[i] - 1)) = h[i]
      <3>1. /\ ~Contains(h[i][1], "colon") /\ ~Contains(h[i][1], "NL")
            /\ ~Contains(h[i][2], "NL")
        BY <1>3
      <3>2. LaidOut(text, from.data, h, off)
        BY <1>2
      <3>3. QED
        BY <1>3, <1>6, <3>1, <3>2, ReadHeader
    <2>3. e = off[i] /\ e # read.at /\ e \in Nat /\ Split(SubSeq(text, read.at, e - 1)) = h[i]
      BY <1>4, <1>7, <2>1, <2>2
    <2>4. read' = [read EXCEPT !.at = off[i] + 1, !.headers = Append(@, h[i])]
      BY <1>5, <2>3
    <2>5. h[i] \in Pairs /\ off[i] + 1 \in Nat
      BY <1>3, <2>2, ElementOfSeq
    <2> HIDE DEF Pairs
    <2>6. Append(read.headers, h[i]) \in Seq(Pairs)
      BY <1>4, <2>5
    <2>7. /\ read' \in Reader /\ read'.pc = read.pc /\ read'.at = off[i] + 1
          /\ read'.headers = Append(read.headers, h[i])
      BY <1>4, <2>4, <2>5, <2>6 DEF Reader, Pairs
    <2>8. /\ Len(read'.headers) = i
          /\ \A j \in 1 .. i : read'.headers[j] = h[j]
      <3>1. PICK r \in Seq(Pairs) : r = read.headers /\ Len(r) = n
        BY <1>4
      <3>2. Len(Append(r, h[i])) = n + 1 /\ Append(r, h[i])[n + 1] = h[i]
            /\ \A j \in 1 .. n : Append(r, h[i])[j] = r[j]
        BY <2>5, <3>1, AppendProperties
      <3>3. \A j \in 1 .. n + 1 : j \in 1 .. n \/ j = n + 1
        BY <1>4
      <3>4. \A j \in 1 .. n + 1 : Append(r, h[i])[j] = h[j]
        BY <1>4, <2>1, <3>1, <3>2, <3>3
      <3>5. QED
        BY <2>1, <2>7, <3>1, <3>2, <3>4
    <2>9. read.pc = "headers" /\ i <= Len(h)
      BY <1>4 DEF ReadLine
    <2>10. ReaderAt(h, off)'
      BY <1>1, <2>7, <2>8, <2>9 DEF ReaderAt
    <2>11. QED
      BY <1>1, <1>2, <2>10 DEF IInv, Armored, h
  <1>10. QED
    BY <1>4, <1>8, <1>9

(* The invariant holds at first and in every step. *)
LEMMA Inductive ==
  /\ Init => IInv
  /\ IInv /\ [Next]_vars => IInv'
PROOF
  <1>1. Init => IInv
    BY DEF Init, IInv, Nothing
  <1>2. ASSUME IInv, [Next]_vars PROVE IInv'
    <2>1. CASE \E d \in Data : armor(d)
      BY <1>2, <2>1, ArmorInv
    <2>2. CASE \E d \in Data, k, v \in Arrays : armor_with_headers(d, k, v)
      BY <1>2, <2>2, ArmorWithHeadersInv
    <2>3. CASE Open
      BY <1>2, <2>3, OpenInv
    <2>4. CASE ReadLine
      BY <1>2, <2>4, ReadLineInv
    <2>5. CASE Forget
      BY <2>5 DEF Forget, IInv, Nothing
    <2>6. CASE UNCHANGED vars
      BY <1>2, <2>6 DEF vars, IInv, Nothing, EmptyArmor, Armored, ReaderAt
    <2>7. QED
      BY <1>2, <2>1, <2>2, <2>3, <2>4, <2>5, <2>6 DEF Next
  <1>3. QED
    BY <1>1, <1>2

(* The kept armor is laid out as armor wrote it, and the reader is where    *)
(* its headers say, in every state.                                         *)
THEOREM Invariance == Spec => []IInv
  BY Inductive, PTL DEF Spec

(* What pgp_armor_headers and dearmor read is what armor was given, for     *)
(* arrays of every length and texts of every kind of character.             *)
THEOREM ArmorReadsBack == Spec => []HeadersReadBack
PROOF
  <1>1. ASSUME IInv PROVE HeadersReadBack
    <2> DEFINE k == from.keys
               v == from.values
    <2>7. read.pc = "error" => from.data = << >>
      BY <1>1 DEF IInv, Nothing, EmptyArmor, Armored, ReaderAt, Reader, None
    <2> SUFFICES ASSUME read.pc = "done"
                 PROVE  /\ from.data # << >> /\ read.data = from.data /\ Len(read.headers) = Len(k.elems)
                        /\ \A n \in 1 .. Len(read.headers) :
                             read.headers[n] = <<At(k, n), At(v, n)>>
      BY <2>7 DEF HeadersReadBack
    <2>1. Armored /\ read # None /\ from.data # << >>
      BY <1>1 DEF IInv, Nothing, EmptyArmor, Armored, None
    <2>2. /\ Len(read.headers) = Len(Headers(k, v)) /\ read.data = from.data
          /\ \A n \in 1 .. Len(read.headers) : read.headers[n] = Headers(k, v)[n]
      BY <2>1 DEF Armored, ReaderAt
    <2>3. /\ Len(Headers(k, v)) = Len(k.elems)
          /\ \A i \in 1 .. Len(k.elems) : Headers(k, v)[i] = <<k.elems[i], v.elems[i]>>
      BY <2>1, FittingHeaders DEF Armored
    <2>4. /\ Len(k.elems) \in Nat /\ ndim(k) = ndim(v) /\ (Len(k.elems) # 0 => ndim(k) = 1)
      BY <2>1 DEF Armored, Fitting
    <2>5. ASSUME NEW i \in 1 .. Len(k.elems) PROVE At(k, i) = k.elems[i] /\ At(v, i) = v.elems[i]
      BY <2>4 DEF At
    <2>6. QED
      BY <2>1, <2>2, <2>3, <2>5
  <1>2. QED
    BY <1>1, Invariance, PTL

(* No character that is not ASCII gets into an armor. *)
THEOREM ArmorAscii == Spec => []ArmorIsAscii
PROOF
  <1>1. ASSUME IInv PROVE ArmorIsAscii
    <2>1. text \in Seq(Ascii)
      BY <1>1, EmptySeq DEF IInv, Nothing, EmptyArmor, Armored
    <2>2. \A i \in 1 .. Len(text) : text[i] \in Ascii
      BY <2>1, ElementOfSeq
    <2>3. QED
      BY <2>2 DEF ArmorIsAscii, is_ascii, Ascii
  <1>2. QED
    BY <1>1, Invariance, PTL
===============================================================================
