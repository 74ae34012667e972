--------------------------- MODULE CrlfCodecProofs ----------------------------
(* The conversion of src/src/pgp.rs is lossless for every text, and its     *)
(* decoder exact on every packet body, whatever their length.               *)
EXTENDS CrlfCodec, TLAPS

(* Where the code of the first k bytes of text ends, if a tells where each  *)
(* byte is.                                                                 *)
End(a, k) == IF k = 0 THEN 0 ELSE a[k]

(* The encoder has put byte k of text at at[k], with a CR in front of it if *)
(* it is a LF, and nothing else anywhere.                                   *)
PlacedAt(k) ==
  /\ at[k] <= Len(body) /\ body[at[k]] = text[k]
  /\ text[k] # LF => at[k] = End(at, k - 1) + 1
  /\ text[k] = LF => at[k] = End(at, k - 1) + 2 /\ body[at[k] - 1] = CR

Placed ==
  maker = "us" =>
    /\ Len(at) = count
    /\ Len(body) = End(at, count)
    /\ \A k \in 1 .. count : PlacedAt(k)

(* The decoder is between the codes of two bytes of text, and has pushed    *)
(* the bytes before that place.                                             *)
Mirrored ==
  maker = "us" =>
    /\ Len(output) <= count
    /\ index = End(at, Len(output)) + 1
    /\ \A k \in 1 .. Len(output) : output[k] = text[k]

(* The pushed bytes are those before index that no LF follows a CR at.      *)
KeptSoFar ==
  /\ Len(kept) = Len(output)
  /\ \A k \in 1 .. Len(output) : kept[k] \in 1 .. index - 1 /\ output[k] = body[kept[k]]
  /\ \A j, k \in 1 .. Len(kept) : j < k => kept[j] < kept[k]
  /\ \A i \in 1 .. index - 1 :
       (\E k \in 1 .. Len(kept) : kept[k] = i)
         <=> ~(body[i] = CR /\ i < Len(body) /\ body[i + 1] = LF)

LinesEnd ==
  maker = "us" => \A i \in 1 .. Len(body) : body[i] = LF => i > 1 /\ body[i - 1] = CR

Phases ==
  /\ pc = "encode" => maker = "us" /\ index = 1 /\ output = << >> /\ kept = << >>
  /\ maker = "us" /\ pc # "encode" => count = Len(text)
  /\ pc = "done" => index = Len(body) + 1

IInv == TypeOK /\ Placed /\ Mirrored /\ KeptSoFar /\ LinesEnd /\ Phases

(* Before the first iteration, of either loop, nothing has been moved. *)
LEMMA IInvInit == Init => IInv
PROOF
  <1> SUFFICES ASSUME Init PROVE IInv
    OBVIOUS
  <1>1. text \in Seq(Byte) /\ body \in Seq(Byte)
    <2>1. CASE text \in Texts /\ body = << >>
      BY <2>1, TextsType
    <2>2. CASE text = << >> /\ body \in Texts
      BY <2>2, TextsType
    <2>3. QED
      BY <2>1, <2>2 DEF Init
  <1>2. TypeOK
    BY <1>1 DEF Init, TypeOK
  <1>3. Placed /\ Mirrored /\ KeptSoFar
    BY <1>1 DEF Init, Placed, Mirrored, KeptSoFar, End
  <1>4. LinesEnd /\ Phases
    BY <1>1 DEF Init, LinesEnd, Phases
  <1>5. QED
    BY <1>2, <1>3, <1>4 DEF IInv

(* The lookahead of the decoder never leaves the body. *)
LEMMA PushedInside ==
  ASSUME NEW w \in Seq(Byte), NEW i \in 1 .. Len(w)
  PROVE  /\ Pushed(w, i) \in i .. Len(w)
         /\ Advance(w, i) \in i + 1 .. Len(w) + 1
  BY DEF Pushed, Advance, Skips

(* An iteration of crlf_encode puts one more byte of text in its place. *)
LEMMA EncodeByteInv ==
  ASSUME IInv, EncodeByte
  PROVE  IInv'
PROOF
  <1> DEFINE b == text[count + 1]
             n == Len(body)
             added == IF b = LF THEN 2 ELSE 1
  <1>1. /\ maker = "us" /\ pc = "encode" /\ index = 1 /\ output = << >> /\ kept = << >>
        /\ UNCHANGED <<pc, maker, text, index, output, kept>>
    BY DEF IInv, EncodeByte, Phases
  <1>2. /\ count \in Nat /\ count + 1 <= Len(text) /\ count' = count + 1
        /\ text \in Seq(Byte) /\ body \in Seq(Byte) /\ at \in Seq(Nat)
        /\ b \in Byte /\ n \in Nat /\ added \in Nat
    BY DEF IInv, EncodeByte, TypeOK
  <1>3. Len(at) = count /\ n = End(at, count)
    BY <1>1 DEF IInv, Placed
  <1>4. body' = body \o Encoded(b)
    BY DEF EncodeByte
  <1>5. body' \in Seq(Byte) /\ Len(body') = n + added
    BY <1>2, <1>4, BytesDiffer DEF Encoded
  <1>6. \A i \in 1 .. n : body'[i] = body[i]
    BY <1>2, <1>4 DEF Encoded
  <1>7. body'[n + added] = b /\ (b = LF => body'[n + 1] = CR)
    BY <1>2, <1>4, BytesDiffer DEF Encoded
  <1>8. /\ at' \in Seq(Nat) /\ Len(at') = count + 1 /\ at'[count + 1] = n + added
        /\ \A k \in 1 .. count : at'[k] = at[k]
    <2>1. at' = Append(at, n + added)
      BY <1>5 DEF EncodeByte
    <2>2. QED
      BY <1>2, <1>3, <2>1
  <1> HIDE DEF b, n, added
  <1>9. TypeOK'
    BY <1>1, <1>2, <1>5, <1>8 DEF TypeOK, IInv
  <1>10. Placed'
    <2>1. \A k \in 0 .. count : End(at', k) = End(at, k) /\ End(at, k) \in Nat
      BY <1>2, <1>3, <1>8 DEF End
    <2>2. End(at', count + 1) = n + added
      BY <1>2, <1>8 DEF End
    <2>3. ASSUME NEW k \in 1 .. count
          PROVE  PlacedAt(k)'
      <3>1. PlacedAt(k)
        BY <1>1 DEF IInv, Placed
      <3>2. k - 1 \in 0 .. count /\ at'[k] = at[k] /\ at[k] \in Nat
        BY <1>2, <1>3, <1>8
      <3>3. End(at', k - 1) = End(at, k - 1) /\ End(at, k - 1) \in Nat
        BY <2>1, <3>2
      <3>4. at[k] \in 1 .. n /\ at[k] <= Len(body')
        <4>1. at[k] <= n
          BY <3>1 DEF PlacedAt, n
        <4>2. at[k] = End(at, k - 1) + 1 \/ at[k] = End(at, k - 1) + 2
          BY <3>1 DEF PlacedAt
        <4>3. at[k] \in 1 .. n
          BY <1>2, <3>2, <3>3, <4>1, <4>2
        <4>4. at[k] <= n + added
          BY <1>2, <3>2, <4>1
        <4>5. QED
          BY <1>5, <4>3, <4>4
      <3>5. body'[at[k]] = body[at[k]]
        BY <1>6, <3>4
      <3>6. ASSUME text[k] = LF
            PROVE  body'[at[k] - 1] = body[at[k] - 1]
        <4>1. at[k] = End(at, k - 1) + 2
          BY <3>1, <3>6 DEF PlacedAt
        <4>2. at[k] - 1 \in 1 .. n
          BY <1>2, <3>3, <3>4, <4>1
        <4>3. QED
          BY <1>6, <4>2
      <3>7. QED
        BY <1>1, <3>1, <3>2, <3>3, <3>4, <3>5, <3>6 DEF PlacedAt
    <2>4. ASSUME NEW k \in {count + 1}
          PROVE  PlacedAt(k)'
      <3>1. k - 1 = count /\ k - 1 \in 0 .. count
        BY <1>2, <2>4
      <3>2. End(at', k - 1) = n
        BY <1>3, <2>1, <3>1
      <3>3. at'[k] = n + added /\ Len(body') = n + added /\ text[k] = b
        BY <1>5, <1>8, <2>4 DEF b
      <3>4. CASE b = LF
        <4>1. added = 2
          BY <3>4 DEF added
        <4>2. n + 2 - 1 = n + 1 /\ n + 2 <= n + 2
          BY <1>2
        <4>3. QED
          BY <1>1, <1>2, <1>7, <3>2, <3>3, <3>4, <4>1, <4>2 DEF PlacedAt
      <3>5. CASE b # LF
        <4>1. added = 1 /\ n + added <= n + added
          BY <1>2, <3>5 DEF added
        <4>2. QED
          BY <1>1, <1>7, <3>2, <3>3, <3>5, <4>1 DEF PlacedAt
      <3>6. QED
        BY <3>4, <3>5
    <2>5. ASSUME NEW k \in 1 .. count + 1
          PROVE  PlacedAt(k)'
      BY <1>2, <2>3, <2>4
    <2>6. QED
      BY <1>1, <1>2, <1>5, <1>8, <2>2, <2>5 DEF Placed
  <1>11. Mirrored' /\ KeptSoFar'
    BY <1>1, <1>2 DEF Mirrored, KeptSoFar, End
  <1>12. LinesEnd'
    <2> SUFFICES ASSUME NEW i \in 1 .. n + added, body'[i] = LF
                 PROVE  i > 1 /\ body'[i - 1] = CR
      BY <1>5 DEF LinesEnd
    <2>1. CASE i \in 1 .. n
      <3>1. body[i] = LF
        BY <1>6, <2>1
      <3>2. i > 1 /\ body[i - 1] = CR
        BY <1>1, <2>1, <3>1 DEF IInv, LinesEnd, n
      <3>3. QED
        BY <1>2, <1>6, <2>1, <3>2
    <2>2. CASE i = n + 1
      BY <1>2, <1>7, <2>2, BytesDiffer DEF added
    <2>3. CASE i = n + 2
      BY <1>2, <1>7, <2>3 DEF added
    <2>4. QED
      BY <1>2, <2>1, <2>2, <2>3 DEF added
  <1>13. Phases'
    BY <1>1 DEF Phases
  <1>14. QED
    BY <1>9, <1>10, <1>11, <1>12, <1>13 DEF IInv

(* An iteration of crlf_decode takes one more byte, with the CR before it if *)
(* that CR is in front of a LF.                                             *)
LEMMA DecodeByteInv ==
  ASSUME IInv, DecodeByte
  PROVE  IInv'
PROOF
  <1> DEFINE p == Pushed(body, index)
             m == Len(output)
  <1>1. /\ pc = "decode"
        /\ UNCHANGED <<pc, maker, text, body, count, at>>
    BY DEF DecodeByte
  <1>2. /\ text \in Seq(Byte) /\ body \in Seq(Byte) /\ output \in Seq(Byte)
        /\ at \in Seq(Nat) /\ kept \in Seq(Nat) /\ count \in 0 .. Len(text)
        /\ index \in 1 .. Len(body) /\ m \in Nat
    BY DEF IInv, TypeOK, DecodeByte
  <1>3. p \in index .. Len(body) /\ index' = p + 1 /\ body[p] \in Byte
    BY <1>2, PushedInside DEF DecodeByte, Advance
  <1>4. /\ p = index + 1 => Skips(body, index)
        /\ p = index => ~Skips(body, index)
        /\ p = index \/ p = index + 1
    BY <1>2 DEF Pushed
  <1>5. output' = Append(output, body[p]) /\ kept' = Append(kept, p)
    BY DEF DecodeByte
  <1> HIDE DEF p
  <1>6. /\ output' \in Seq(Byte) /\ Len(output') = m + 1 /\ output'[m + 1] = body[p]
        /\ \A k \in 1 .. m : output'[k] = output[k]
    BY <1>2, <1>3, <1>5
  <1>7. /\ kept' \in Seq(Nat) /\ Len(kept') = m + 1 /\ kept'[m + 1] = p
        /\ \A k \in 1 .. m : kept'[k] = kept[k]
    <2>1. Len(kept) = m
      BY DEF IInv, KeptSoFar
    <2>2. QED
      BY <1>2, <1>3, <1>5, <2>1
  <1> HIDE DEF m
  <1>8. TypeOK'
    BY <1>1, <1>2, <1>3, <1>6, <1>7 DEF IInv, TypeOK
  <1>9. Placed' /\ LinesEnd' /\ Phases'
    BY <1>1 DEF IInv, Placed, PlacedAt, LinesEnd, Phases
  <1>10. KeptSoFar'
    <2>1. /\ \A k \in 1 .. m : kept[k] \in 1 .. index - 1 /\ output[k] = body[kept[k]]
          /\ \A j, k \in 1 .. m : j < k => kept[j] < kept[k]
      BY DEF IInv, KeptSoFar, m
    <2>2. \A k \in 1 .. m + 1 : kept'[k] \in 1 .. p /\ output'[k] = body[kept'[k]]
      <3> TAKE k \in 1 .. m + 1
      <3>1. CASE k \in 1 .. m
        <4>1. kept'[k] = kept[k] /\ output'[k] = output[k] /\ kept[k] \in 1 .. index - 1
          BY <1>6, <1>7, <2>1, <3>1
        <4>2. kept'[k] \in 1 .. p
          BY <1>2, <1>3, <4>1
        <4>3. QED
          BY <2>1, <3>1, <4>1, <4>2
      <3>2. CASE k = m + 1
        BY <1>2, <1>3, <1>6, <1>7, <3>2
      <3>3. QED
        BY <1>2, <3>1, <3>2
    <2>3. \A j, k \in 1 .. m + 1 : j < k => kept'[j] < kept'[k]
      <3> SUFFICES ASSUME NEW j \in 1 .. m + 1, NEW k \in 1 .. m + 1, j < k
                   PROVE  kept'[j] < kept'[k]
        OBVIOUS
      <3>1. j \in 1 .. m /\ kept'[j] = kept[j] /\ kept[j] \in 1 .. index - 1
        BY <1>2, <1>7, <2>1
      <3>2. CASE k = m + 1
        BY <1>2, <1>3, <1>7, <3>1, <3>2
      <3>3. CASE k \in 1 .. m
        BY <1>7, <2>1, <3>1, <3>3
      <3>4. QED
        BY <1>2, <3>2, <3>3
    <2>4. ASSUME NEW i \in 1 .. p
          PROVE  (\E k \in 1 .. m + 1 : kept'[k] = i)
                   <=> ~(body[i] = CR /\ i < Len(body) /\ body[i + 1] = LF)
      <3>1. CASE i \in 1 .. index - 1
        <4>1. (\E k \in 1 .. m : kept[k] = i)
                <=> ~(body[i] = CR /\ i < Len(body) /\ body[i + 1] = LF)
          BY <3>1 DEF IInv, KeptSoFar, m
        <4>2. kept'[m + 1] # i
          BY <1>2, <1>3, <1>7, <3>1
        <4>3. (\E k \in 1 .. m + 1 : kept'[k] = i) <=> (\E k \in 1 .. m : kept[k] = i)
          <5>1. \A k : k \in 1 .. m + 1 <=> k \in 1 .. m \/ k = m + 1
            BY <1>2
          <5>2. QED
            BY <1>7, <4>2, <5>1
        <4>4. QED
          BY <4>1, <4>3
      <3>2. CASE i = p
        <4>1. m + 1 \in 1 .. m + 1 /\ kept'[m + 1] = i
          BY <1>2, <1>7, <3>2
        <4>2. ~(body[p] = CR /\ p < Len(body) /\ body[p + 1] = LF)
          BY <1>4, BytesDiffer DEF Skips
        <4>3. QED
          BY <3>2, <4>1, <4>2
      <3>3. CASE i = index /\ p = index + 1
        <4>1. body[i] = CR /\ i < Len(body) /\ body[i + 1] = LF
          BY <1>4, <3>3 DEF Skips
        <4>2. \A k \in 1 .. m + 1 : kept'[k] # i
          BY <1>2, <1>7, <2>1, <3>3
        <4>3. QED
          BY <4>1, <4>2
      <3>4. QED
        BY <1>2, <1>3, <1>4, <3>1, <3>2, <3>3
    <2>5. index' - 1 = p
      BY <1>2, <1>3
    <2>6. QED
      BY <1>1, <1>6, <1>7, <2>2, <2>3, <2>4, <2>5 DEF KeptSoFar
  <1>11. Mirrored'
    <2> SUFFICES ASSUME maker = "us"
                 PROVE  /\ m + 1 <= count
                        /\ index' = End(at, m + 1) + 1
                        /\ \A k \in 1 .. m + 1 : output'[k] = text[k]
      BY <1>1, <1>6 DEF Mirrored
    <2>1. /\ m <= count /\ index = End(at, m) + 1
          /\ \A k \in 1 .. m : output[k] = text[k]
      BY DEF IInv, Mirrored, m
    <2>2. Len(at) = count /\ Len(body) = End(at, count) /\ count = Len(text)
      BY <1>1 DEF IInv, Placed, Phases
    <2>3. m < count
      BY <1>2, <2>1, <2>2 DEF m
    <2>4. /\ m + 1 \in 1 .. count /\ m + 1 - 1 = m
          /\ PlacedAt(m + 1) /\ at[m + 1] \in Nat /\ End(at, m) \in Nat
      BY <1>2, <2>2, <2>3 DEF IInv, Placed, End
    <2>5. p = at[m + 1]
      <3>1. CASE text[m + 1] = LF
        <4>1. at[m + 1] = End(at, m) + 2
          BY <1>2, <2>4, <3>1 DEF PlacedAt
        <4>2. at[m + 1] = index + 1 /\ at[m + 1] - 1 = index
          <5>1. PICK e \in Nat : e = End(at, m)
            BY <2>4
          <5>2. at[m + 1] = e + 2 /\ index = e + 1
            BY <2>1, <4>1, <5>1
          <5>3. QED
            BY <5>1, <5>2
        <4>3. Skips(body, index)
          BY <1>2, <2>4, <3>1, <4>2 DEF PlacedAt, Skips
        <4>4. QED
          BY <1>4, <4>2, <4>3
      <3>2. CASE text[m + 1] # LF
        <4>1. at[m + 1] = index
          BY <1>2, <2>1, <2>4, <3>2 DEF PlacedAt
        <4>2. ASSUME Skips(body, index)
              PROVE  FALSE
          <5>1. index < Len(body) /\ body[index + 1] = LF
            BY <4>2 DEF Skips
          <5>2. m + 1 < count
            BY <1>2, <2>2, <2>3, <4>1, <5>1 DEF End
          <5>3. m + 2 \in 1 .. count /\ m + 2 - 1 = m + 1 /\ m + 1 # 0
            BY <1>2, <5>2
          <5>4. PlacedAt(m + 2) /\ End(at, m + 1) = index
            BY <4>1, <5>3 DEF IInv, Placed, End
          <5>5. CASE text[m + 2] = LF
            <6>1. at[m + 2] = index + 2 /\ body[at[m + 2] - 1] = CR
              BY <1>2, <5>3, <5>4, <5>5 DEF PlacedAt
            <6>2. at[m + 2] - 1 = index + 1
              BY <1>2, <6>1
            <6>3. QED
              BY <5>1, <6>1, <6>2, BytesDiffer
          <5>6. CASE text[m + 2] # LF
            BY <1>2, <5>1, <5>3, <5>4, <5>6 DEF PlacedAt
          <5>7. QED
            BY <5>5, <5>6
        <4>3. QED
          BY <1>4, <4>1, <4>2
      <3>3. QED
        BY <3>1, <3>2
    <2>6. index' = End(at, m + 1) + 1
      BY <1>2, <1>3, <2>5 DEF End
    <2>7. output'[m + 1] = text[m + 1]
      BY <1>6, <2>4, <2>5 DEF PlacedAt
    <2>8. QED
      BY <1>2, <1>6, <2>1, <2>3, <2>6, <2>7
  <1>12. QED
    BY <1>8, <1>9, <1>10, <1>11 DEF IInv

(* Every step of the two functions keeps the strengthening. *)
LEMMA IInvNext == IInv /\ [Next]_vars => IInv'
PROOF
  <1> SUFFICES ASSUME IInv, [Next]_vars
               PROVE  IInv'
    OBVIOUS
  <1>1. CASE EncodeByte
    BY <1>1, EncodeByteInv
  <1>2. CASE DecodeByte
    BY <1>2, DecodeByteInv
  <1>3. ASSUME EncodeReturn \/ DecodeReturn
        PROVE  IInv'
    <2>1. UNCHANGED <<maker, text, body, count, index, output, at, kept>>
      BY <1>3 DEF EncodeReturn, DecodeReturn
    <2>2. TypeOK'
      BY <1>3, <2>1 DEF IInv, TypeOK, EncodeReturn, DecodeReturn
    <2>3. Placed' /\ Mirrored' /\ KeptSoFar' /\ LinesEnd'
      BY <2>1 DEF IInv, Placed, PlacedAt, Mirrored, KeptSoFar, LinesEnd
    <2>4. Phases'
      <3>1. CASE EncodeReturn
        BY <2>1, <3>1 DEF Phases, EncodeReturn
      <3>2. CASE DecodeReturn
        <4>1. index' = Len(body') + 1
          <5>1. body \in Seq(Byte) /\ index \in 1 .. Len(body) + 1
            BY DEF IInv, TypeOK
          <5>2. Len(body) \in Nat
            BY <5>1
          <5>3. index > Len(body)
            BY <3>2 DEF DecodeReturn
          <5>4. index = Len(body) + 1
            BY <5>1, <5>2, <5>3
          <5>5. QED
            BY <2>1, <5>4
        <4>2. QED
          BY <2>1, <3>2, <4>1 DEF IInv, Phases, DecodeReturn
      <3>3. QED
        BY <1>3, <3>1, <3>2
    <2>5. QED
      BY <2>2, <2>3, <2>4 DEF IInv
  <1>4. CASE Done \/ UNCHANGED vars
    <2>1. UNCHANGED vars
      BY <1>4 DEF Done
    <2>2. QED
      BY <2>1 DEF vars, IInv, TypeOK, Placed, PlacedAt, Mirrored, KeptSoFar, LinesEnd, Phases
  <1>5. QED
    BY <1>1, <1>2, <1>3, <1>4 DEF Next

(* The strengthening holds at every iteration of both loops. *)
THEOREM Inductive == Spec => []IInv
  BY IInvInit, IInvNext, PTL DEF Spec

(* The cursors of crlf_encode and crlf_decode stay inside their arguments,  *)
(* the lookahead of crlf_decode included.                                   *)
THEOREM TypeCorrect == Spec => []TypeOK
  BY Inductive, PTL DEF IInv

(* crlf_decode undoes crlf_encode on every text.                            *)
THEOREM Lossless == Spec => []RoundTrip
PROOF
  <1>1. IInv => RoundTrip
    <2> SUFFICES ASSUME IInv, pc = "done", maker = "us"
                 PROVE  output = text
      BY DEF RoundTrip
    <2> DEFINE m == Len(output)
    <2>1. /\ m \in Nat /\ Len(text) \in Nat /\ at \in Seq(Nat)
          /\ text \in Seq(Byte) /\ output \in Seq(Byte)
      BY DEF IInv, TypeOK
    <2>2. count = Len(text) /\ Len(at) = count /\ index = Len(body) + 1
      BY DEF IInv, Phases, Placed
    <2>3. m <= count /\ index = End(at, m) + 1 /\ \A k \in 1 .. m : output[k] = text[k]
      BY DEF IInv, Mirrored
    <2>4. m = count
      <3> SUFFICES ASSUME m < count PROVE FALSE
        BY <2>1, <2>2, <2>3
      <3>1. m + 1 \in 1 .. count /\ m + 1 - 1 = m /\ End(at, m) \in Nat
        BY <2>1, <2>2 DEF End
      <3>2. PlacedAt(m + 1) /\ at[m + 1] \in Nat
        BY <2>1, <2>2, <3>1 DEF IInv, Placed
      <3>3. at[m + 1] > End(at, m)
        BY <2>1, <3>1, <3>2 DEF PlacedAt
      <3>4. Len(body) \in Nat
        BY DEF IInv, TypeOK
      <3>5. QED
        BY <2>2, <2>3, <3>1, <3>2, <3>3, <3>4 DEF PlacedAt
    <2>5. QED
      BY <2>1, <2>2, <2>3, <2>4
  <1>2. QED
    BY <1>1, Inductive, PTL

(* crlf_encode leaves no bare LF in the body of the literal packet.         *)
THEOREM LineEndings == Spec => []NoBareLF
PROOF
  <1>1. IInv => NoBareLF
    BY DEF IInv, LinesEnd, NoBareLF
  <1>2. QED
    BY <1>1, Inductive, PTL

(* crlf_decode drops the CRs directly before a LF and nothing else, on any  *)
(* body, one it did not encode itself included.                             *)
THEOREM Exact == Spec => []DecodeExact
PROOF
  <1>1. IInv => DecodeExact
    <2> SUFFICES ASSUME IInv, pc = "done" PROVE DecodeExact
      BY DEF DecodeExact
    <2>1. index - 1 = Len(body)
      BY DEF IInv, Phases, TypeOK
    <2>2. QED
      BY <2>1 DEF IInv, KeptSoFar, DecodeExact
  <1>2. QED
    BY <1>1, Inductive, PTL
===============================================================================
