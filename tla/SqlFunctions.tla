----------------------------- MODULE SqlFunctions -----------------------------
(***************************************************************************)
(* The functions as PostgreSQL runs them: digests and HMAC of              *)
(* src/src/hash.rs, random values of src/src/random.rs, and how every      *)
(* function that draws random values is declared.                          *)
(*                                                                         *)
(* A query calls a function once per row.  The server may answer a call of *)
(* a function declared IMMUTABLE with the answer of an earlier call that   *)
(* had the same arguments, from a plan or an index; a VOLATILE function it *)
(* calls every time.                                                       *)
(***************************************************************************)
EXTENDS Integers, Sequences

CONSTANTS
  Plain,      \* Plain[name]: the name in lower case and without dashes
  Data,
  Lengths,    \* the lengths asked of gen_random_bytes
  MaxRows     \* bound: rows answered

Names == DOMAIN Plain

ASSUME FunctionConstants ==
  /\ Plain \in [Names -> STRING] /\ {"blake2b", "sha3-256", "sha3-512"} \subseteq Names
  /\ Plain["blake2b"] = "blake2b"
  /\ Plain["sha3-256"] = "sha3256" /\ Plain["sha3-512"] = "sha3512"
  /\ Lengths \subseteq Int /\ MaxRows \in Nat

Unknown == "unknown"

(* The digest a plain name selects. *)
digest_bytes(n) ==
  IF n = "blake2b512" THEN "blake2b"
  ELSE IF n \in {"md5", "sha1", "sha224", "sha256", "sha384", "sha512", "sha3256", "sha3512",
                 "blake2b"} THEN n
  ELSE Unknown

hmac_bytes_mixed(n) ==
  IF n = "sha3512" THEN "sha512"
  ELSE IF n \in {"md5", "sha1", "sha224", "sha256", "sha384", "sha512", "sha3256"} THEN n
  ELSE Unknown

(* The same table a second time, without BLAKE2b. *)
hmac_bytes(n) ==
  IF n \in {"md5", "sha1", "sha224", "sha256", "sha384", "sha512", "sha3256", "sha3512"} THEN n
  ELSE Unknown

(* The names blake2b, sha3_256 and sha3_512 pass to digest_bytes. *)
OwnName(f) ==
  IF f = "blake2b" THEN "blake2b" ELSE IF f = "sha3_256" THEN "sha3-256" ELSE "sha3-512"

RandomRange(n) == 1 <= n /\ n <= 1024
-------------------------------------------------------------------------------
(* The functions of each file that are declared volatile. *)
RandomVolatile == {"gen_random_bytes", "random_bytes", "gen_random_uuid"}
ModernVolatileFew == {"argon2id_hash", "box_seal"}
ModernVolatile == {"argon2id_hash", "xchacha20poly1305_encrypt", "secretbox", "box_seal"}
PasswordVolatile == {"gen_salt"}
SymVolatile == {"pgp_sym_encrypt", "pgp_sym_encrypt_bytea"}
PubVolatile == {"pgp_pub_encrypt", "pgp_pub_encrypt_bytea"}

Volatile ==
  RandomVolatile \cup ModernVolatile \cup PasswordVolatile \cup SymVolatile \cup PubVolatile

(* The functions whose bodies draw from the random source, whatever their   *)
(* declaration says.                                                        *)
ModernDraws == {"argon2id_hash", "xchacha20poly1305_encrypt", "secretbox", "box_seal"}
SaltDraws == {"gen_salt"}
SymDraws == {"pgp_sym_encrypt", "pgp_sym_encrypt_bytea"}
PubDraws == {"pgp_pub_encrypt", "pgp_pub_encrypt_bytea"}
UuidDraws == {"gen_random_uuid"}
Sealing == ModernDraws \cup SaltDraws \cup SymDraws \cup PubDraws \cup UuidDraws
RandomBytes == {"gen_random_bytes", "random_bytes"}
Draws == Sealing \cup RandomBytes

VARIABLES
  drawn,    \* the number of random values drawn so far
  rows      \* the calls of all queries, with their answers

sqlVars == <<drawn, rows>>

SqlInit == drawn = 0 /\ rows = << >>

Row(f, a, r) == Append(rows, [fn |-> f, arg |-> a, result |-> r])

(* digest, hmac and the functions named after one digest. *)
HashCall(f, name, d) ==
  LET h == IF f = "hmac" THEN hmac_bytes(Plain[name])
           ELSE IF f = "digest" THEN digest_bytes(Plain[name])
           ELSE digest_bytes(Plain[OwnName(f)])
  IN
  /\ Len(rows) < MaxRows
  /\ rows' = Row(f, <<name, d>>, <<h, d>>)
  /\ UNCHANGED drawn

(* gen_random_bytes and random_bytes, which calls it. *)
RandomCall(f, n) ==
  /\ Len(rows) < MaxRows
  /\ drawn' = IF RandomRange(n) THEN drawn + 1 ELSE drawn
  /\ rows' = Row(f, <<"length", n>>,
                 IF RandomRange(n) THEN <<"random", drawn + 1, n>> ELSE <<"error", 0, 0>>)

(* Every other function that draws, from whichever library, on data d. *)
DrawingCall(f, d) ==
  /\ Len(rows) < MaxRows
  /\ drawn' = drawn + 1
  /\ rows' = Row(f, <<"data", d>>, <<"drawn", drawn + 1, 0>>)

(* The server keeps the answer of an earlier call. *)
Reuse(i) ==
  /\ Len(rows) < MaxRows /\ rows[i].fn \notin Volatile
  /\ rows' = Append(rows, rows[i])
  /\ UNCHANGED drawn

Done == Len(rows) = MaxRows /\ UNCHANGED sqlVars

Hashing == {"digest", "hmac", "blake2b", "sha3_256", "sha3_512"}

SqlNext ==
  \/ \E f \in Hashing, name \in Names, d \in Data : HashCall(f, name, d)
  \/ \E f \in RandomBytes, n \in Lengths : RandomCall(f, n)
  \/ \E f \in Sealing, d \in Data : DrawingCall(f, d)
  \/ \E i \in 1 .. Len(rows) : Reuse(i)
  \/ Done

SqlSpec == SqlInit /\ [][SqlNext]_sqlVars
-------------------------------------------------------------------------------
(* No two rows are given the same draw, so no two envelopes the same nonce  *)
(* and no two passwords the same salt, however the server plans a query.    *)
FreshEveryRow ==
  \A i, j \in 1 .. Len(rows) :
    i # j /\ {rows[i].fn, rows[j].fn} \subseteq Draws /\ rows[i].result[1] # "error" =>
      rows[i].result # rows[j].result

(* What a hashing call is about. *)
Means(r) ==
  IF r.fn = "sha3_256" THEN "sha3256" ELSE IF r.fn = "sha3_512" THEN "sha3512"
  ELSE IF r.fn = "blake2b" THEN "blake2b" ELSE Plain[r.arg[1]]

(* A name means one digest, however it is spelled, in the tables of both    *)
(* digest and hmac and in the functions named after a digest.               *)
NamesAgree ==
  \A i, j \in 1 .. Len(rows) :
    (/\ {rows[i].fn, rows[j].fn} \subseteq Hashing /\ Means(rows[i]) = Means(rows[j])
     /\ Unknown \notin {rows[i].result[1], rows[j].result[1]})
      => rows[i].result[1] = rows[j].result[1]
===============================================================================
