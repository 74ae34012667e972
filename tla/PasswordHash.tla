----------------------------- MODULE PasswordHash -----------------------------
(***************************************************************************)
(* Password hashing: gen_salt and crypt of src/src/password.rs and         *)
(* argon2id_hash and argon2id_verify of src/src/modern.rs.                 *)
(*                                                                         *)
(* gen_salt hashes an empty password with the library and cuts the salt    *)
(* off the result by position (salt_prefix).  A hash is therefore the      *)
(* sequence of its characters, each a triple of its kind, what it is part  *)
(* of and its place there; the lengths are the real ones.  The library,    *)
(* external, encodes a cost and a salt into a hash and reads them from one *)
(* by position too, so that a wrong cut shows up as another cost or salt.  *)
(***************************************************************************)
EXTENDS Integers, Sequences

CONSTANTS
  Password,   \* passwords, as bytes; a text has no NUL
  Rounds,     \* the iteration counts asked for, 0 for none
  MaxRows     \* bound: hashes ever stored

ASSUME HashConstants ==
  Password \subseteq Seq(1 .. 255) /\ Rounds \subseteq Int /\ MaxRows \in Nat

Algorithm == {"bf", "des", "xdes", "md5", "sha256crypt", "sha512crypt"}
Sha == {"sha256crypt", "sha512crypt"}
-------------------------------------------------------------------------------
(* The characters of a part of length n. *)
Chars(kind, of, n) == [i \in 1 .. n |-> <<kind, of, i>>]
Sep == <<"dollar", 0, 0>>
Tag(alg) == IF alg = "des" THEN << >>
            ELSE IF alg = "xdes" THEN <<<<"underscore", 0, 0>>>>
            ELSE <<Sep>> \o Chars("id", alg, IF alg = "bf" THEN 2 ELSE 1) \o <<Sep>>

SaltLen(alg) == CASE alg = "bf" -> 22 [] alg = "des" -> 2 [] alg = "xdes" -> 4
                  [] alg = "md5" -> 8 [] OTHER -> 16
DigestLen(alg) == CASE alg = "bf" -> 31 [] alg \in {"des", "xdes"} -> 11 [] alg = "md5" -> 22
                    [] alg = "sha256crypt" -> 43 [] OTHER -> 86

TwoTo24 == 16777216
MaxSha == 999999999

(* How many digits a cost of sha-crypt has: it is clamped to 1000 .. 999999999. *)
Digits(n) ==
  IF n < 10000 THEN 4 ELSE IF n < 100000 THEN 5 ELSE IF n < 1000000 THEN 6
  ELSE IF n < 10000000 THEN 7 ELSE IF n < 100000000 THEN 8 ELSE 9

(* How a cost is written: two digits, 24 bits, or a field of its own that   *)
(* is left out of brief hashes with the default.                            *)
CostChars(alg, cost, brief) ==
  IF alg = "bf" THEN Chars("cost", cost, 2) \o <<Sep>>
  ELSE IF alg = "xdes" THEN Chars("cost", cost % TwoTo24, 4)
  ELSE IF alg \in Sha /\ ~(brief /\ cost = 5000) THEN
    Chars("rounds", 0, 7) \o Chars("cost", cost, Digits(cost)) \o <<Sep>>
  ELSE << >>

(* The hash functions of the library: sha-crypt moves a cost into range.    *)
(* Whether it writes the default out is its choice for a new hash, and the  *)
(* setting's for one made from a setting.                                   *)
Clamped(alg, cost) ==
  IF alg \notin Sha THEN cost
  ELSE IF cost < 1000 THEN 1000 ELSE IF cost > MaxSha THEN MaxSha ELSE cost

(* What the library reads of a password.  DES keys have seven bits a byte,  *)
(* and zeros behind a short password; des takes one key, xdes as many as    *)
(* the password fills.  bcrypt takes 72 bytes, the others all of it.        *)
Keys(n) == IF n = 0 THEN 1 ELSE (n + 7) \div 8
DesKeys(pw, n) == [i \in 1 .. 8 * n |-> IF i <= Len(pw) THEN pw[i] % 128 ELSE 0]
ReadOf(alg, pw) ==
  IF alg = "des" THEN DesKeys(pw, 1)
  ELSE IF alg = "xdes" THEN DesKeys(pw, Keys(Len(pw)))
  ELSE IF alg = "bf" THEN SubSeq(pw, 1, IF Len(pw) <= 72 THEN Len(pw) ELSE 72)
  ELSE pw

(* The digest tells apart whatever the library reads. *)
Hash(alg, cost, salt, pw, brief) ==
  LET c == Clamped(alg, cost) IN
  Tag(alg) \o CostChars(alg, c, brief) \o salt
    \o (IF alg \in Sha \cup {"md5"} THEN <<Sep>> ELSE << >>)
    \o Chars("digest", <<ReadOf(alg, pw), alg, c, salt>>, DigestLen(alg))

(* The place of the first separator in s from place n on, or behind s. *)
NextSep(s, n) ==
  CHOOSE k \in n .. Len(s) + 1 :
    /\ k <= Len(s) => s[k] = Sep
    /\ \A j \in n .. k - 1 : s[j] # Sep

(* How the library reads a setting: the algorithm, the cost and the salt,   *)
(* which is shorter than SaltLen if md5 and sha-crypt find less.            *)
Invalid == [alg |-> "none", cost |-> 0, salt |-> << >>]
AlgorithmOf(s) ==
  IF s = << >> THEN "none"
  ELSE IF s[1] = Sep THEN (IF Len(s) > 1 /\ s[2][1] = "id" THEN s[2][2] ELSE "none")
  ELSE IF s[1][1] = "underscore" THEN "xdes" ELSE "des"

HasRounds(s) == Len(s) >= 10 /\ SubSeq(s, 4, 10) = Chars("rounds", 0, 7)

(* The characters from place n up to the next separator, but max at most. *)
UpTo(s, n, max) ==
  SubSeq(s, n, IF NextSep(s, n) <= n + max THEN NextSep(s, n) - 1 ELSE n + max - 1)

Setting(s) ==
  LET alg == AlgorithmOf(s)
      Read(cost, salt) == [alg |-> alg, cost |-> cost, salt |-> salt]
  IN IF alg = "bf" /\ Len(s) >= 29 THEN Read(s[5][2], SubSeq(s, 8, 29))
     ELSE IF alg = "des" /\ Len(s) >= 2 THEN Read(25, SubSeq(s, 1, 2))
     ELSE IF alg = "xdes" /\ Len(s) >= 9 THEN Read(s[2][2], SubSeq(s, 6, 9))
     ELSE IF alg = "md5" THEN Read(1000, UpTo(s, 4, 8))
     ELSE IF alg \in Sha THEN (IF HasRounds(s) THEN Read(s[11][2], UpTo(s, NextSep(s, 11) + 1, 16))
                                              ELSE Read(5000, UpTo(s, 4, 16)))
     ELSE Invalid
-------------------------------------------------------------------------------
ShaEndThird(s) == NextSep(s, NextSep(s, 2) + 1)

(* The separator behind the salt: the third, or the fourth after rounds=. *)
ShaEnd(s) ==
  LET third == NextSep(s, NextSep(s, 2) + 1) IN
  IF HasRounds(s) THEN NextSep(s, third + 1) ELSE third

FixedEnd(alg) == CASE alg = "bf" -> 29 [] alg = "des" -> 2 [] alg = "xdes" -> 9

salt_prefix(hash, alg) ==
  SubSeq(hash, 1, IF alg \in Sha THEN ShaEnd(hash)
                  ELSE IF alg = "md5" THEN NextSep(hash, 4)
                  ELSE FixedEnd(alg))

(* The iteration count of a call; rounds_or_default and its like. *)
Cost(alg, rounds) ==
  IF rounds # 0 THEN rounds
  ELSE CASE alg = "bf" -> 6 [] alg = "des" -> 25 [] alg = "xdes" -> 725
         [] alg = "md5" -> 1000 [] OTHER -> 5000

CostFitsLoose(alg, c) == c >= 0

CostFits(alg, c) ==
  /\ alg = "bf" => c \in 4 .. 31
  /\ alg = "des" => c = 25
  /\ alg = "xdes" => c > 0 /\ c < TwoTo24 /\ c % 2 = 1
  /\ alg = "md5" => c = 1000
  /\ alg \in Sha => c >= 1000 /\ c <= MaxSha
-------------------------------------------------------------------------------
VARIABLES
  drawn,     \* the number of salts drawn so far
  salt,      \* the text gen_salt returned, on its way to crypt
  table,     \* the stored hashes
  answer     \* the last check of a password

vars == <<drawn, salt, table, answer>>

None == [pc |-> "none"]

Init == drawn = 0 /\ salt = None /\ table = << >> /\ answer = None

Ready == salt = None /\ drawn < MaxRows

(* The salt is cut from a hash of the empty password. *)
gen_salt(alg, rounds, brief) ==
  LET c == Cost(alg, rounds)
      hash == Hash(alg, c, Chars("salt", drawn + 1, SaltLen(alg)), << >>, brief)
  IN
  /\ Ready
  /\ alg \in Algorithm /\ CostFits(alg, c)
  /\ drawn' = drawn + 1
  /\ salt' = [text |-> salt_prefix(hash, alg), alg |-> alg, rounds |-> rounds]
  /\ UNCHANGED <<table, answer>>

(* crypt, << >> for an error: the algorithm is the setting's. *)
Crypt(pw, s) ==
  LET p == Setting(s) IN
  IF p = Invalid THEN << >> ELSE Hash(p.alg, p.cost, p.salt, pw, ~HasRounds(s))

(* crypt(password, gen_salt(...)) goes into the table; it fails on a text   *)
(* the library does not take for a salt.                                    *)
Store(pw) ==
  /\ salt # None
  /\ table' = IF Crypt(pw, salt.text) = << >> THEN table
              ELSE Append(table, [hash |-> Crypt(pw, salt.text), pw |-> pw,
                                  kind |-> "crypt", from |-> salt])
  /\ salt' = None
  /\ UNCHANGED <<drawn, answer>>

argon2id_hash(pw) ==
  /\ Ready
  /\ drawn' = drawn + 1
  /\ table' = Append(table, [hash |-> <<Sep>> \o Chars("argon2", <<pw, drawn + 1>>, 1), pw |-> pw,
                             kind |-> "argon2", from |-> None])
  /\ UNCHANGED <<salt, answer>>

(* crypt(password, hash) = hash. *)
CheckCrypt(pw, r) ==
  LET got == Crypt(pw, table[r].hash) IN
  /\ salt = None
  /\ answer' = [fn |-> "crypt", pw |-> pw, row |-> r,
                says |-> IF got = << >> THEN "error"
                         ELSE IF got = table[r].hash THEN "yes" ELSE "no"]
  /\ UNCHANGED <<drawn, salt, table>>

VerdictParsed(pw, hash) == IF hash[2][1] = "argon2" THEN "yes" ELSE "no"

(* Whatever does not parse as an Argon2 hash is not verified. *)
Verdict(pw, hash) ==
  IF hash[2][1] = "argon2" /\ hash[2][2][1] = pw THEN "yes" ELSE "no"

argon2id_verify(pw, r) ==
  /\ salt = None
  /\ answer' = [fn |-> "argon2", pw |-> pw, row |-> r, says |-> Verdict(pw, table[r].hash)]
  /\ UNCHANGED <<drawn, salt, table>>

Next ==
  \/ \E alg \in Algorithm \cup {"none"}, r \in Rounds, brief \in BOOLEAN : gen_salt(alg, r, brief)
  \/ \E pw \in Password : Store(pw)
  \/ \E pw \in Password : argon2id_hash(pw)
  \/ \E pw \in Password, r \in 1 .. Len(table) : CheckCrypt(pw, r) \/ argon2id_verify(pw, r)

Spec == Init /\ [][Next]_vars
-------------------------------------------------------------------------------
(* Two passwords an algorithm does not tell apart: a zero stands for every  *)
(* byte a password does not have.                                           *)
Byte(pw, i) == IF i <= Len(pw) THEN pw[i] ELSE 0
SamePassword(alg, p, q) ==
  /\ alg = "des" => \A i \in 1 .. 8 : Byte(p, i) % 128 = Byte(q, i) % 128
  /\ alg = "xdes" =>
       /\ Keys(Len(p)) = Keys(Len(q))
       /\ \A i \in 1 .. 8 * Keys(Len(p)) : Byte(p, i) % 128 = Byte(q, i) % 128
  /\ alg = "bf" => \A i \in 1 .. 72 : Byte(p, i) = Byte(q, i)
  /\ alg \in Sha \cup {"md5"} => p = q

Right(row, pw) ==
  IF row.kind = "crypt" THEN SamePassword(row.from.alg, pw, row.pw) ELSE pw = row.pw

(* The password of a stored hash is accepted by the function that made it,  *)
(* and no other is that the algorithm tells from it; the functions of the   *)
(* other kind never accept, and argon2id_verify answers for the hashes of   *)
(* every function, where crypt raises an error for an Argon2 hash.          *)
Verifies ==
  answer # None =>
    LET row == table[answer.row] IN
    /\ answer.says = "yes" <=> answer.fn = row.kind /\ Right(row, answer.pw)
    /\ answer.says = "error" <=> answer.fn = "crypt" /\ row.kind = "argon2"

(* A stored hash has the iteration count that was asked of gen_salt, the    *)
(* default if none was, and a salt of full length with nothing of the       *)
(* digest of the empty password in it.                                      *)
CostKept ==
  \A r \in 1 .. Len(table) :
    table[r].kind = "crypt" =>
      LET p == Setting(table[r].hash)
          f == table[r].from
      IN /\ p.alg = f.alg
         /\ p.cost = Cost(f.alg, f.rounds)
         /\ \E n \in 1 .. drawn : p.salt = Chars("salt", n, SaltLen(p.alg))

(* Every salt gen_salt returns is one crypt takes, and rows with salts of   *)
(* different draws never have the same hash, even for the same password:    *)
(* the salt drawn gets into it.                                             *)
RowsDiffer ==
  /\ salt # None => Setting(salt.text) # Invalid
  /\ \A i, j \in 1 .. Len(table) : i # j => table[i].hash # table[j].hash
===============================================================================
