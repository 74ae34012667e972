--------------------------- MODULE PgpOptionsProofs ---------------------------
(* What the option parsers of src/src/pgp.rs guarantee for every options    *)
(* text, whatever its length and its pieces.                                *)
EXTENDS PgpOptions, TLAPS

(* A value an accepted piece stores has the type of the field it is stored  *)
(* in: parse_options never leaves PgpOptions with an out-of-range field.    *)
LEMMA StoreType ==
  ASSUME NEW o \in PgpOptions, NEW n \in STRING, NEW v \in Text,
         EncryptAccepts(n, v)
  PROVE  Store(o, n, v) \in PgpOptions
PROOF
  <1> DEFINE r == Store(o, n, v)
  <1>1. \A c \in S2kCountRange : c \in Nat
    BY SMT DEF S2kCountRange
  <1>2. /\ r.cipher \in Cipher
        /\ r.s2k_cipher \in {NoCipher} \cup Cipher
    BY DEF PgpOptions, Store, EncryptAccepts, Switch, parse_cipher, CipherText,
       S2kCipherText, Cipher
  <1>3. /\ r.compression \in {"0", "1", "2"}
        /\ r.s2k_digest \in {"md5", "sha1"}
    BY DEF PgpOptions, Store, EncryptAccepts, Switch
  <1>4. /\ r.compression_level \in 0 .. 9
        /\ r.s2k_mode \in {0, 1, 3}
    BY DEF PgpOptions, Store, EncryptAccepts, Switch, LevelRange
  <1>5. r.s2k_count \in {c \in Nat : c = NoCount \/ c \in S2kCountRange}
    BY <1>1 DEF PgpOptions, Store, EncryptAccepts, Switch
  <1>6. /\ r.unicode_mode \in BOOLEAN
        /\ r.convert_crlf \in BOOLEAN
        /\ r.use_session_key \in BOOLEAN
    BY DEF PgpOptions, Store
  <1>7. QED
    BY <1>2, <1>3, <1>4, <1>5, <1>6 DEF PgpOptions, Store

(* The defaults are in the types of their fields. *)
LEMMA TypeInit == Init => TypeOK
PROOF
  <1>1. DefaultOptions \in PgpOptions
    BY DEF DefaultOptions, PgpOptions, Cipher, NoCount, NoCipher
  <1>2. \A s \in Inputs : Len(s) \in Nat
    BY InputsType
  <1>3. QED
    BY <1>1, <1>2 DEF Init, TypeOK, Parser

(* The pieces are records, and the cursor of a parser that looks at one is  *)
(* inside the text.                                                         *)
LEMMA InputFacts ==
  ASSUME TypeOK
  PROVE  /\ input \in Seq(Item)
         /\ Len(input) \in Nat
         /\ \A p \in Parser : pos[p] <= Len(input) => input[pos[p]] \in Item
  BY InputsType DEF TypeOK, Parser

(* Every step of the two parsers keeps the types. *)
LEMMA TypeNext == TypeOK /\ [Next]_vars => TypeOK'
PROOF
  <1> SUFFICES ASSUME TypeOK, [Next]_vars
               PROVE  TypeOK'
    OBVIOUS
  <1>1. ASSUME NEW p \in Parser, Reject(p)
        PROVE  TypeOK'
    BY <1>1 DEF Reject, TypeOK
  <1>2. CASE EncryptItem
    <2>1. parsed' \in PgpOptions
      BY <1>2, InputFacts, StoreType DEF EncryptItem, Looking, TypeOK, Item, Parser
    <2>2. QED
      BY <1>2, <2>1, InputFacts DEF EncryptItem, Looking, TypeOK, Parser
  <1>3. CASE DecryptItem
    <2>1. dparsed' \in [convert_crlf : BOOLEAN]
      BY <1>3 DEF DecryptItem, TypeOK
    <2>2. QED
      BY <1>3, <2>1, InputFacts DEF DecryptItem, Looking, TypeOK, Parser
  <1>4. CASE EncryptReturn
    BY <1>4 DEF EncryptReturn, TypeOK, Parser
  <1>5. CASE DecryptReturn
    BY <1>5 DEF DecryptReturn, TypeOK, Parser
  <1>6. CASE Done \/ UNCHANGED vars
    BY <1>6 DEF Done, TypeOK, vars
  <1>7. QED
    BY <1>1, <1>2, <1>3, <1>4, <1>5, <1>6 DEF Next

(* The fields of the options stay in their types whatever the loop of       *)
(* parse_options reads, and so do the cursors of both parsers.              *)
THEOREM TypeCorrect == Spec => []TypeOK
  BY TypeInit, TypeNext, PTL DEF Spec

-------------------------------------------------------------------------------
(* The safety invariants below are not inductive: they speak of a parser    *)
(* that has returned.  IInv says what the loops have established so far.    *)

(* Every piece a parser has passed is one it accepts. *)
PassedAccepted ==
  /\ \A k \in 1 .. pos["encrypt"] - 1 : EncryptAccepts(input[k].name, input[k].value)
  /\ \A k \in 1 .. pos["decrypt"] - 1 : DecryptAccepts(input[k].name, input[k].value)

(* A parser returns behind the last piece, and parse_decrypt_options raises *)
(* an error only in front of a piece it refuses.                            *)
EndedWhere ==
  /\ status["encrypt"] = "ok" => pos["encrypt"] = Len(input) + 1 /\ CountFits(parsed)
  /\ status["decrypt"] = "ok" => pos["decrypt"] = Len(input) + 1
  /\ status["decrypt"] = "error" =>
       /\ pos["decrypt"] <= Len(input)
       /\ ~DecryptAccepts(input[pos["decrypt"]].name, input[pos["decrypt"]].value)

(* LastSettingWins for the one field of DecryptOptions. *)
DecryptLastWins ==
  SetByLast(input, pos["decrypt"] - 1, "convert-crlf", dparsed.convert_crlf, FALSE, AsSwitch)

IInv == TypeOK /\ PassedAccepted /\ EndedWhere /\ LastSettingWins /\ DecryptLastWins

(* One more piece either becomes the last of its name or leaves the last    *)
(* piece of every other name where it was.                                  *)
LEMMA LastOfStep ==
  ASSUME NEW s \in Seq(Item), NEW m \in Nat, m + 1 <= Len(s), NEW n
  PROVE  /\ s[m + 1].name = n => m + 1 \in LastOf(s, m + 1, n)
         /\ s[m + 1].name # n => LastOf(s, m, n) \subseteq LastOf(s, m + 1, n)
  BY SMT DEF LastOf

(* A text has one last piece of a name at most. *)
LEMMA LastOfUnique ==
  ASSUME NEW s, NEW m \in Nat, NEW n, NEW j \in LastOf(s, m, n), NEW k \in LastOf(s, m, n)
  PROVE  j = k
  BY SMT DEF LastOf

(* An iteration that writes a field exactly when its piece has the name of  *)
(* the option keeps the field set by the last such piece.                   *)
LEMMA SetByLastStep ==
  ASSUME NEW s \in Seq(Item), NEW m \in Nat, m + 1 <= Len(s), NEW n, NEW d, NEW f,
         NEW x, NEW y, SetByLast(s, m, n, x, d, f),
         s[m + 1].name = n => y = f[s[m + 1].value],
         s[m + 1].name # n => y = x
  PROVE  SetByLast(s, m + 1, n, y, d, f)
PROOF
  <1>1. CASE s[m + 1].name = n
    <2>1. m + 1 \in LastOf(s, m + 1, n)
      BY <1>1, LastOfStep
    <2>2. m + 1 # 0
      OBVIOUS
    <2>3. QED
      BY <1>1, <2>1, <2>2, Zenon DEF SetByLast
  <1>2. CASE s[m + 1].name # n
    <2>1. LastOf(s, m, n) \subseteq LastOf(s, m + 1, n)
      BY <1>2, LastOfStep
    <2>2. QED
      BY <1>2, <2>1, Zenon DEF SetByLast
  <1>3. QED
    BY <1>1, <1>2

(* Every option parse_options knows is known to parse_decrypt_options, and  *)
(* the switches both read take the same values.                             *)
LEMMA AcceptedByBoth ==
  ASSUME NEW n, NEW v, EncryptAccepts(n, v)
  PROVE  DecryptAccepts(n, v)
  BY SMT DEF EncryptAccepts, DecryptAccepts, EncryptionOnly, Switch

(* Before the first piece every field has its default. *)
LEMMA IInvInit == Init => IInv
PROOF
  <1> SUFFICES ASSUME Init PROVE IInv
    OBVIOUS
  <1>1. TypeOK
    BY TypeInit
  <1>2. /\ pos["encrypt"] = 1 /\ pos["decrypt"] = 1
        /\ status["encrypt"] = "loop" /\ status["decrypt"] = "loop"
    BY DEF Init, Parser
  <1>3. \A n : 0 \in LastOf(input, 0, n)
    BY SMT DEF LastOf
  <1>4. \A n, d, f : SetByLast(input, 0, n, d, d, f)
    BY <1>3, Zenon DEF SetByLast
  <1>5. PassedAccepted /\ EndedWhere
    BY <1>2 DEF PassedAccepted, EndedWhere
  <1>6. pos["encrypt"] - 1 = 0 /\ pos["decrypt"] - 1 = 0
    BY <1>2
  <1>7. LastSettingWins
    BY <1>4, <1>6, Zenon DEF LastSettingWins, Init
  <1>8. DecryptLastWins
    <2>1. dparsed.convert_crlf = FALSE
      BY DEF Init
    <2>2. QED
      BY <1>4, <1>6, <2>1, Zenon DEF DecryptLastWins
  <1>9. QED
    BY <1>1, <1>5, <1>7, <1>8 DEF IInv

(* One accepted iteration of parse_options keeps every field set by the     *)
(* last piece for it.                                                       *)
LEMMA EncryptItemSets ==
  ASSUME TypeOK, LastSettingWins, EncryptItem
  PROVE  LastSettingWins'
PROOF
  <1> DEFINE m  == pos["encrypt"] - 1
             it == input[m + 1]
  <1>1. /\ input \in Seq(Item) /\ m \in Nat /\ m + 1 <= Len(input)
        /\ it = input[pos["encrypt"]] /\ it \in Item
        /\ pos'["encrypt"] - 1 = m + 1
        /\ input' = input
    BY InputFacts DEF EncryptItem, Looking, TypeOK, Parser
  <1>2. /\ it.name \in STRING /\ it.value \in Text
        /\ parsed' = Store(parsed, it.name, it.value)
    BY <1>1 DEF EncryptItem, Item
  <1>3. AsCipher[it.value] = parse_cipher(it.value) /\ AsText[it.value] = it.value
    BY <1>2 DEF AsCipher, AsText
  <1>4. AsSwitch[it.value] = (it.value = "1")
    BY <1>2, Zenon DEF AsSwitch
  <1> DEFINE Old(n, x, d, f) == SetByLast(input, m, n, x, d, f)
             New(n, x, d, f) == SetByLast(input, m + 1, n, x, d, f)
  <1>5. \A n, x, y, d, f : /\ Old(n, x, d, f)
                           /\ it.name = n => y = f[it.value]
                           /\ it.name # n => y = x
                           => New(n, y, d, f)
    BY <1>1, SetByLastStep
  <1> DEFINE q == parsed'
             d == DefaultOptions
  <1> HIDE DEF m, it
  <1>6. New("cipher-algo", q.cipher, d.cipher, AsCipher)
    <2>1. /\ it.name = "cipher-algo" => q.cipher = AsCipher[it.value]
          /\ it.name # "cipher-algo" => q.cipher = parsed.cipher
      BY <1>2, <1>3, <1>4 DEF Store
    <2>2. Old("cipher-algo", parsed.cipher, d.cipher, AsCipher)
      BY Zenon DEF LastSettingWins, m
    <2>3. QED
      BY <1>5, <2>1, <2>2, Zenon
  <1>7. New("compress-algo", q.compression, d.compression, AsText)
    <2>1. /\ it.name = "compress-algo" => q.compression = AsText[it.value]
          /\ it.name # "compress-algo" => q.compression = parsed.compression
      BY <1>2, <1>3, <1>4 DEF Store
    <2>2. Old("compress-algo", parsed.compression, d.compression, AsText)
      BY Zenon DEF LastSettingWins, m
    <2>3. QED
      BY <1>5, <2>1, <2>2, Zenon
  <1>8. New("compress-level", q.compression_level, d.compression_level, IntOf)
    <2>1. /\ it.name = "compress-level" => q.compression_level = IntOf[it.value]
          /\ it.name # "compress-level" => q.compression_level = parsed.compression_level
      BY <1>2, <1>3, <1>4 DEF Store
    <2>2. Old("compress-level", parsed.compression_level, d.compression_level, IntOf)
      BY Zenon DEF LastSettingWins, m
    <2>3. QED
      BY <1>5, <2>1, <2>2, Zenon
  <1>9. New("unicode-mode", q.unicode_mode, d.unicode_mode, AsSwitch)
    <2>1. /\ it.name = "unicode-mode" => q.unicode_mode = AsSwitch[it.value]
          /\ it.name # "unicode-mode" => q.unicode_mode = parsed.unicode_mode
      BY <1>2, <1>3, <1>4 DEF Store
    <2>2. Old("unicode-mode", parsed.unicode_mode, d.unicode_mode, AsSwitch)
      BY Zenon DEF LastSettingWins, m
    <2>3. QED
      BY <1>5, <2>1, <2>2, Zenon
  <1>10. New("convert-crlf", q.convert_crlf, d.convert_crlf, AsSwitch)
    <2>1. /\ it.name = "convert-crlf" => q.convert_crlf = AsSwitch[it.value]
          /\ it.name # "convert-crlf" => q.convert_crlf = parsed.convert_crlf
      BY <1>2, <1>3, <1>4 DEF Store
    <2>2. Old("convert-crlf", parsed.convert_crlf, d.convert_crlf, AsSwitch)
      BY Zenon DEF LastSettingWins, m
    <2>3. QED
      BY <1>5, <2>1, <2>2, Zenon
  <1>11. New("s2k-mode", q.s2k_mode, d.s2k_mode, IntOf)
    <2>1. /\ it.name = "s2k-mode" => q.s2k_mode = IntOf[it.value]
          /\ it.name # "s2k-mode" => q.s2k_mode = parsed.s2k_mode
      BY <1>2, <1>3, <1>4 DEF Store
    <2>2. Old("s2k-mode", parsed.s2k_mode, d.s2k_mode, IntOf)
      BY Zenon DEF LastSettingWins, m
    <2>3. QED
      BY <1>5, <2>1, <2>2, Zenon
  <1>12. New("s2k-count", q.s2k_count, d.s2k_count, IntOf)
    <2>1. /\ it.name = "s2k-count" => q.s2k_count = IntOf[it.value]
          /\ it.name # "s2k-count" => q.s2k_count = parsed.s2k_count
      BY <1>2, <1>3, <1>4 DEF Store
    <2>2. Old("s2k-count", parsed.s2k_count, d.s2k_count, IntOf)
      BY Zenon DEF LastSettingWins, m
    <2>3. QED
      BY <1>5, <2>1, <2>2, Zenon
  <1>13. New("s2k-digest-algo", q.s2k_digest, d.s2k_digest, AsText)
    <2>1. /\ it.name = "s2k-digest-algo" => q.s2k_digest = AsText[it.value]
          /\ it.name # "s2k-digest-algo" => q.s2k_digest = parsed.s2k_digest
      BY <1>2, <1>3, <1>4 DEF Store
    <2>2. Old("s2k-digest-algo", parsed.s2k_digest, d.s2k_digest, AsText)
      BY Zenon DEF LastSettingWins, m
    <2>3. QED
      BY <1>5, <2>1, <2>2, Zenon
  <1>14. New("s2k-cipher-algo", q.s2k_cipher, d.s2k_cipher, AsCipher)
    <2>1. /\ it.name = "s2k-cipher-algo" => q.s2k_cipher = AsCipher[it.value]
          /\ it.name # "s2k-cipher-algo" => q.s2k_cipher = parsed.s2k_cipher
      BY <1>2, <1>3, <1>4 DEF Store
    <2>2. Old("s2k-cipher-algo", parsed.s2k_cipher, d.s2k_cipher, AsCipher)
      BY Zenon DEF LastSettingWins, m
    <2>3. QED
      BY <1>5, <2>1, <2>2, Zenon
  <1>15. New("sess-key", q.use_session_key, d.use_session_key, AsSwitch)
    <2>1. /\ it.name = "sess-key" => q.use_session_key = AsSwitch[it.value]
          /\ it.name # "sess-key" => q.use_session_key = parsed.use_session_key
      BY <1>2, <1>3, <1>4 DEF Store
    <2>2. Old("sess-key", parsed.use_session_key, d.use_session_key, AsSwitch)
      BY Zenon DEF LastSettingWins, m
    <2>3. QED
      BY <1>5, <2>1, <2>2, Zenon
  <1>16. QED
    BY <1>1, <1>6, <1>7, <1>8, <1>9, <1>10, <1>11, <1>12, <1>13, <1>14, <1>15, Zenon
       DEF LastSettingWins

(* The same for the one field parse_decrypt_options keeps. *)
LEMMA DecryptItemSets ==
  ASSUME TypeOK, DecryptLastWins, DecryptItem
  PROVE  DecryptLastWins'
PROOF
  <1> DEFINE m  == pos["decrypt"] - 1
             it == input[m + 1]
  <1>1. /\ input \in Seq(Item) /\ m \in Nat /\ m + 1 <= Len(input)
        /\ it = input[pos["decrypt"]] /\ it \in Item
        /\ pos'["decrypt"] - 1 = m + 1
        /\ input' = input
    BY InputFacts DEF DecryptItem, Looking, TypeOK, Parser
  <1>2. it.value \in Text
    BY <1>1 DEF Item
  <1>3. AsSwitch[it.value] = (it.value = "1")
    BY <1>2, Zenon DEF AsSwitch
  <1>4. /\ it.name = "convert-crlf" => dparsed'.convert_crlf = AsSwitch[it.value]
        /\ it.name # "convert-crlf" => dparsed'.convert_crlf = dparsed.convert_crlf
    BY <1>1, <1>3 DEF DecryptItem
  <1>5. QED
    BY <1>1, <1>4, SetByLastStep DEF DecryptLastWins

(* Every step of the two parsers keeps the strengthening. *)
LEMMA IInvNext == IInv /\ [Next]_vars => IInv'
PROOF
  <1> SUFFICES ASSUME IInv, [Next]_vars
               PROVE  IInv'
    OBVIOUS
  <1>0. TypeOK /\ TypeOK'
    BY TypeNext DEF IInv
  <1>1. ASSUME NEW p \in Parser, Reject(p)
        PROVE  IInv'
    <2>1. p = "encrypt" \/ p = "decrypt"
      BY DEF Parser
    <2>2. PassedAccepted' /\ LastSettingWins' /\ DecryptLastWins'
      BY <1>1, Zenon DEF Reject, IInv, PassedAccepted, LastSettingWins, DecryptLastWins
    <2>3. EndedWhere'
      BY <1>0, <1>1, <2>1 DEF Reject, Looking, IInv, EndedWhere, TypeOK, Parser
    <2>4. QED
      BY <1>0, <2>2, <2>3 DEF IInv
  <1>2. CASE EncryptItem
    <2>1. PassedAccepted'
      BY <1>0, <1>2, InputFacts
         DEF EncryptItem, Looking, IInv, PassedAccepted, TypeOK, Parser
    <2>2. EndedWhere'
      BY <1>0, <1>2 DEF EncryptItem, Looking, IInv, EndedWhere, TypeOK, Parser
    <2>3. LastSettingWins'
      BY <1>2, EncryptItemSets DEF IInv
    <2>4. DecryptLastWins'
      BY <1>0, <1>2 DEF EncryptItem, IInv, DecryptLastWins, TypeOK, Parser
    <2>5. QED
      BY <1>0, <2>1, <2>2, <2>3, <2>4 DEF IInv
  <1>3. CASE DecryptItem
    <2>1. PassedAccepted'
      BY <1>0, <1>3, InputFacts
         DEF DecryptItem, Looking, IInv, PassedAccepted, TypeOK, Parser
    <2>2. EndedWhere'
      BY <1>0, <1>3 DEF DecryptItem, Looking, IInv, EndedWhere, TypeOK, Parser
    <2>3. LastSettingWins'
      <3>1. pos'["encrypt"] = pos["encrypt"] /\ input' = input /\ parsed' = parsed
        BY <1>0, <1>3 DEF DecryptItem, TypeOK, Parser
      <3>2. QED
        BY <3>1, Zenon DEF IInv, LastSettingWins
    <2>4. DecryptLastWins'
      BY <1>3, DecryptItemSets DEF IInv
    <2>5. QED
      BY <1>0, <2>1, <2>2, <2>3, <2>4 DEF IInv
  <1>4. ASSUME EncryptReturn \/ DecryptReturn
        PROVE  IInv'
    <2>1. PassedAccepted' /\ LastSettingWins' /\ DecryptLastWins'
      BY <1>4, Zenon
         DEF EncryptReturn, DecryptReturn, IInv, PassedAccepted, LastSettingWins, DecryptLastWins
    <2>2. EndedWhere'
      BY <1>0, <1>4, InputFacts
         DEF EncryptReturn, DecryptReturn, Finishing, IInv, EndedWhere, TypeOK, Parser
    <2>3. QED
      BY <1>0, <2>1, <2>2 DEF IInv
  <1>5. CASE Done \/ UNCHANGED vars
    <2>1. UNCHANGED vars
      BY <1>5 DEF Done
    <2>2. QED
      BY <1>0, <2>1, Zenon
         DEF vars, IInv, PassedAccepted, EndedWhere, LastSettingWins, DecryptLastWins
  <1>6. QED
    BY <1>1, <1>2, <1>3, <1>4, <1>5 DEF Next

(* The strengthening holds at every iteration of both loops. *)
THEOREM Inductive == Spec => []IInv
  BY IInvInit, IInvNext, PTL DEF Spec

(* The invariant makes both parsers agree about a text that was accepted.   *)
LEMMA IInvAgrees == IInv => ParsersAgree
PROOF
  <1> SUFFICES ASSUME IInv, status["encrypt"] = "ok", status["decrypt"] # "loop"
               PROVE  /\ status["decrypt"] = "ok"
                      /\ dparsed.convert_crlf = parsed.convert_crlf
    BY DEF ParsersAgree
  <1> DEFINE n == Len(input)
  <1>1. TypeOK /\ n \in Nat
    BY InputFacts DEF IInv
  <1>2. pos["encrypt"] = n + 1
    BY DEF IInv, EndedWhere
  <1>3. \A k \in 1 .. n : DecryptAccepts(input[k].name, input[k].value)
    <2>1. \A k \in 1 .. n : EncryptAccepts(input[k].name, input[k].value)
      BY <1>1, <1>2 DEF IInv, PassedAccepted
    <2>2. QED
      BY <2>1, AcceptedByBoth
  <1>4. status["decrypt"] = "ok"
    BY <1>1, <1>3 DEF IInv, EndedWhere, TypeOK, Parser
  <1>5. pos["encrypt"] - 1 = n /\ pos["decrypt"] - 1 = n
    BY <1>1, <1>2, <1>4 DEF IInv, EndedWhere
  <1>6. SetByLast(input, n, "convert-crlf", parsed.convert_crlf, FALSE, AsSwitch)
    <2>1. DefaultOptions.convert_crlf = FALSE
      BY DEF DefaultOptions
    <2>2. QED
      BY <1>5, <2>1, Zenon DEF IInv, LastSettingWins
  <1>7. SetByLast(input, n, "convert-crlf", dparsed.convert_crlf, FALSE, AsSwitch)
    BY <1>5, Zenon DEF IInv, DecryptLastWins
  <1>8. dparsed.convert_crlf = parsed.convert_crlf
    <2>1. PICK j \in LastOf(input, n, "convert-crlf") :
            parsed.convert_crlf = IF j = 0 THEN FALSE ELSE AsSwitch[input[j].value]
      BY <1>6, Zenon DEF SetByLast
    <2>2. PICK k \in LastOf(input, n, "convert-crlf") :
            dparsed.convert_crlf = IF k = 0 THEN FALSE ELSE AsSwitch[input[k].value]
      BY <1>7, Zenon DEF SetByLast
    <2>3. j = k
      BY <1>1, LastOfUnique
    <2>4. QED
      BY <2>1, <2>2, <2>3, Zenon
  <1>9. QED
    BY <1>4, <1>8

(* Every options text parse_options accepts, of any length, is accepted by  *)
(* parse_decrypt_options, with the same answer about CRLF conversion.       *)
THEOREM Agreement == Spec => []ParsersAgree
  BY IInvAgrees, Inductive, PTL

(* An accepted text that names s2k-count selects the iterated S2K.          *)
THEOREM CountNeedsIteration == Spec => []CountImpliesIterated
PROOF
  <1>1. IInv => CountImpliesIterated
    <2> SUFFICES ASSUME IInv, status["encrypt"] = "ok",
                        NEW k \in 1 .. Len(input), input[k].name = "s2k-count"
                 PROVE  parsed.s2k_mode = 3
      BY DEF CountImpliesIterated
    <2> DEFINE n == Len(input)
    <2>1. n \in Nat /\ pos["encrypt"] - 1 = n /\ CountFits(parsed)
      BY InputFacts DEF IInv, EndedWhere
    <2>2. \A i \in 1 .. n : input[i].name = "s2k-count" => IntOf[input[i].value] # NoCount
      BY <2>1 DEF IInv, PassedAccepted, EncryptAccepts, Switch, S2kCountRange, NoCount
    <2>3. PICK j \in LastOf(input, n, "s2k-count") :
            parsed.s2k_count = IF j = 0 THEN DefaultOptions.s2k_count ELSE IntOf[input[j].value]
      BY <2>1, Zenon DEF IInv, LastSettingWins, SetByLast
    <2>4. j \in 1 .. n /\ input[j].name = "s2k-count"
      BY <2>1, <2>3 DEF LastOf
    <2>5. parsed.s2k_count # NoCount
      BY <2>2, <2>3, <2>4
    <2>6. QED
      BY <2>1, <2>5 DEF CountFits
  <1>2. QED
    BY <1>1, Inductive, PTL

(* No accepted text asks for a message without integrity protection.        *)
THEOREM IntegrityKept == Spec => []MdcNeverDisabled
PROOF
  <1>1. IInv => MdcNeverDisabled
    BY InputFacts
       DEF IInv, PassedAccepted, EndedWhere, MdcNeverDisabled, EncryptAccepts, MdcText, Switch
  <1>2. QED
    BY <1>1, Inductive, PTL

(* Each field of PgpOptions is always what the last piece for it says.      *)
THEOREM LastWins == Spec => []LastSettingWins
  BY Inductive, PTL DEF IInv
===============================================================================
