# A verification project for pg_crypto

pg_crypto is a PostgreSQL extension in Rust (pgrx): pgcrypto's SQL functions on
top of Rust cryptography crates, and a modern authenticated API beside them.
This directory holds TLA+ models of its own logic, the TLC runs that check them
on small instances, and proofs by TLAPS of what matters for inputs of any size.
Paths below are relative to the directory above this one.

## The system

Every SQL function is a stateless call of one backend process. An error
(`pgrx::error!`) aborts the call and the statement around it. There are no
threads, no messages and no files; what makes the code hard to test is the
distance between two calls: data is encrypted under one setting at one time and
decrypted under another, perhaps by another program, years later.

| Component | Source | State it keeps | Operations | What makes it correct |
|---|---|---|---|---|
| Option parsers | `src/src/pgp.rs` 27-174, 230-262 | the options read so far | `parse_options`, `parse_decrypt_options` | one text works for both directions; order and repetition of pieces are resolved alike; no text turns integrity protection off |
| CRLF codec | `pgp.rs` 206-228 | output buffer, index | `crlf_encode`, `crlf_decode` | lossless; the decoder drops only what it should, from foreign data too |
| Literal payload | `pgp.rs` 264-324 | literal format seen by the parser | `write_payload`, `inspect_literal_format`, `decrypted_text` | a text comes back as it was; no invalid SQL text comes out |
| Password encryption | `pgp.rs` 176-204, 326-455 | list of session key packets, loop position | `pgp_sym_encrypt[_bytea]`, `pgp_sym_decrypt[_bytea]` | the right password reads the message whatever the options; a wrong one never does; keys are fresh |
| Public-key encryption | `pgp.rs` 457-599 | unlocked pairs, packets, loop positions | `pgp_pub_encrypt[_bytea]`, `pgp_pub_decrypt[_bytea]` | holders of any recipient key read the message, at any later time; nobody else does |
| Key identification | `pgp.rs` 601-632 | none (asks the clock) | `pgp_key_id` | names the key a message is for; has one answer per argument, as declared |
| Raw ciphers | `src/src/raw.rs` | none | `encrypt[_iv]`, `decrypt[_iv]` | decrypting undoes encrypting under every name for the same cipher; keys that differ stay different |
| Password hashing | `src/src/password.rs`, `src/src/modern.rs` 30-43 | none | `crypt`, `gen_salt`, `argon2id_hash`, `argon2id_verify` | the right password verifies, and no other the algorithm tells from it; a hash carries the iteration count asked for and a salt of its own |
| Modern API | `src/src/modern.rs` 45-192 | none | AEAD, secretbox, sealed box, Ed25519, X25519, HKDF | what was sealed opens, and nothing else does, at every length |
| ASCII armor | `src/src/armor.rs` | none | `armor`, `dearmor`, `pgp_armor_headers` | headers written are headers read, and the data comes back; the armor of empty data is refused and not misread |
| Digests, random | `src/src/hash.rs`, `src/src/random.rs` | none | `digest`, `hmac`, `gen_random_bytes`, ... | names mean one digest; random values are fresh in every row |
| Packaging, CI | `src/ci`, `src/docker`, `src/install.sh` | | | |

How they interact: the `pgp_*` functions call the parsers first, then
`sym_encrypt`, `pub_encrypt` and so on, which call `make_s2k`, the sequoia
library and `write_payload`; sequoia calls back into `PasswordHelper` and
`KeyHelper` with the session key packets of a message, and the helpers call its
closure `decrypt` with every key they find. The other components do not call
each other.

The hard behaviours are: two parsers that must agree; checks made after a loop
against checks made inside it; loops with lookahead and nested loops over lists
that other programs wrote; a quick check that a wrong key passes by chance, and
an integrity check that comes only at the end of the data; keys that expire
between encryption and decryption; a function that is declared `IMMUTABLE`
and asks the clock; and strings and envelopes that are cut by position, where a
cut in the wrong place still yields something the library accepts. `PROJECT.json` lists them as hazards, each with its line.

## Modules

| Module | Models |
|---|---|
| `PgpTypes` | `PgpOptions` and its defaults, shared by the others |
| `PgpOptions` | the two parsers, an action per loop iteration, both on one text |
| `PgpOptionsProofs` | theorems about the parsers |
| `CrlfCodec` | the two conversion loops, an action per byte |
| `CrlfCodecProofs` | theorems about the conversion |
| `PgpPayload` | what goes into the literal packet and what is made of it |
| `PgpMessages` | the store of messages, the decrypt call in progress and how it ends; extends `PgpPayload`, extended by the next two |
| `PgpSym` | the `pgp_sym_*` functions over a store of messages |
| `PgpSymProofs` | theorems about them, the refinement of `SealedStore` included, and about `PgpSetting` |
| `PgpPub` | the `pgp_pub_*` functions and `pgp_key_id` over a store of messages and a clock |
| `PgpPubProofs` | theorems about them, the refinement of `SealedStore` included |
| `SealedStore` | the abstract promise of the `pgp_*` functions, which `PgpSym` and `PgpPub` implement |
| `PgpSetting` | one options text for both directions: `PgpOptions` composed with `PgpSym` |
| `RawCipher` | the four raw cipher functions over one stored ciphertext |
| `PasswordHash` | `gen_salt`, `crypt` and Argon2id over a table of hashes |
| `PasswordHashProofs` | theorems about them: what a cut salt and a stored hash say |
| `ModernApi` | sealing, opening, signing, verifying, key agreement and HKDF |
| `ModernApiProofs` | theorems about envelopes, signatures and HKDF |
| `ArmorHeaders` | armor with headers, and its reader line by line |
| `ArmorHeadersProofs` | theorems about what the reader returns and about ASCII |
| `SqlFunctions` | digests, HMAC and random values, row by row under PostgreSQL's volatility classes |
| `RawSqlProofs` | theorems about `RawCipher` (decrypting, keys) and `SqlFunctions` (fresh rows, names) |
| `MC*` | the values of the constants for TLC |

Definitions keep the names of the code where they model a function.
`PROJECT.json` maps each to its lines. An operator whose name extends that of the
one below it (`SkipsAnyCR` before `Skips`, `NextPairNoReset` before `NextPair`) is a
plausible mistake in that code, used to show that a property notices it; the
specification does not use it.

### PgpOptions

The state is the list of pieces, a cursor and a status per parser, and the two
option records. A piece is a pair of trimmed, lower-case texts; `IntOf` says
what `str::parse` makes of a text (`+1` is 1, as in Rust). `Reject` is every
error inside a loop, `EncryptItem` and `DecryptItem` are the accepting
iterations, `EncryptReturn` and `DecryptReturn` the code behind the loops, with
the `s2k-count` check. `text_input` is an argument of the call, not an option,
and is an argument of `write_payload`.

### CrlfCodec

The state is the text, the body of the packet, the position in each, and the
output. A behaviour encodes a text and decodes the result, or decodes a body
another program made. `at` and `kept` are history variables: they record where
each byte was put and found, so that "nothing else is lost" is a state
predicate, and no action reads them.

### PgpPayload, PgpMessages, PgpSym, PgpPub

An encrypt call is one action, as nothing of it shows before it returns. A
decrypt call is a sequence of actions: open the message, one step per session
key packet (`TrySkesk`) or per pair of packet and key (`TryPair`), read to the
end, answer. In `PgpPub` the loop that unlocks the secret keys comes first, one
step per key. `Return` is every way out, with a value or with the error.

The sequoia library is symbolic and marked external in the map: a key is a term
that says where it comes from, and two keys are equal if their terms are. Three
of its behaviours matter and are kept. A `SKESK` packet without an encrypted
session key yields the derived key and the packet's cipher, one with an
encrypted session key yields what is in it, or garbage. The quick check that
the `decrypt` closure makes is certain for the right key on an intact message
and a free choice otherwise. The integrity code is checked at the end of the data and
fails for a wrong key or a damaged body.

Other programs store messages with several packets, with packets for passwords
and keys mixed, with anonymous recipients and with any literal format. Stored
messages may be damaged, in their framing or inside the encrypted packet.

In `PgpPub` a certificate is the sequence of its keys; a key has the facts the
filters `supported`, `alive`, `revoked` and `for_transport_encryption` ask for,
and a secret that is absent, plain, locked with a password, or a placeholder.
`Kept` is the filtering of the key and packet iterators: the elements at the places
that pass, in order. It is a recursive function rather than a library operator so
that the proofs can reach it. The code has the filter chain of encryption twice,
in `pub_encrypt` and in `pgp_key_id`, and so has the model: `Usable` and `Named`.

### SealedStore

A store of values, each with the set of its readers. A value is sealed once; it
may be spoilt; a call asks for it holding some secrets, and either fails or, if
the value is intact and one of the secrets is a reader's, is shown the value as
the SQL type and `convert-crlf` of the call present it. There are no keys,
packets or checks in it. `PgpSym` implements it with passwords for readers, and
`PgpPub` with the keys named by the session key packets, by the mapping
`Sealed` and `Request` of `PgpMessages`: every step of a decrypt call before the
last is a stuttering step. The abstract specification is a safety property.

### PgpSetting

The variables of `PgpOptions` and of `PgpSym` side by side. Encryption waits for
`parse_options` to return and uses its record; decryption waits for
`parse_decrypt_options` and uses its `convert_crlf`.

### RawCipher

Keys, IVs and data are sequences of bytes at their real lengths, since the code
is about lengths: `fixed`, `AesTier`, `FoldedLen` and `blowfish_key` are the
functions of the code. Below them a block is the set of terms whose exclusive or
it is, so that CBC, CFB and ECB are the equations of their definitions and a
block decrypted under a wrong key, IV or mode is what the algebra says:
sometimes known bytes (CFB with a wrong IV has its second block right), mostly
noise. A noise byte at the end may look like any padding, so `Unpad` of it is a
free choice. `NoPadding` panics on data that does not fill its last block, and
pgrx turns the panic into an error: the call stores nothing (`Aligned`).

### PasswordHash

A hash is a sequence of characters at their real places, each tagged with what
it is part of, and both `salt_prefix` and the library read it by position; a cut
at a wrong place yields a salt with another cost, or an empty one, as in the
code. Of the library (`pwhash`) is assumed: the formats and lengths of the six
schemes; that extended DES keeps 24 bits of a count and sha-crypt clamps one; that
a new sha-crypt hash may or may not spell out the default count, and a hash made
from a setting spells it out if the setting does.

A password is a sequence of bytes, none of them zero, as in a text. `ReadOf` is what the
library reads of it, assumed from the definitions of the schemes, as its source is not in
the repository: `des` the low seven bits of eight bytes, `xdes` the low seven bits of every
byte, in keys of eight bytes filled up with zeros, `bf` 72 bytes, the others all. So `crypt`
accepts, for a hash of `des`, every password that begins with the same eight characters;
`Verifies` does not say otherwise. `SamePassword` states which passwords are the same to an
algorithm, byte by byte and apart from `ReadOf`. A digest is assumed to tell apart
everything that is read, with the algorithm, the cost and the salt: collisions of the hash
functions, and of the way `xdes` folds its keys into one, are not modelled. Likewise two draws
are two salts: `RowsDiffer` speaks of different draws, and a `des` salt has only 12 bits.

Rewriting `$2b$` to `$2a$`
changes nothing, as the variant asked for is `V2a`.

### ModernApi

An envelope is a sequence of bytes tagged with field, call and place. Open
functions get it whole, cut, with a byte too many, with a byte changed, or joined
from two envelopes, under any construction, key and associated data; they slice it
as the code does, and a slice out of range is a panic. `dryoc` accepts the fields
of one sealing call under its key and associated data. The two halves of a key pair
have one name; `box_seal_open` gets them as one key with one length, since a wrong length or
a wrong half of either fails the call alike. `crypto_scalarmult` may refuse the public key
of `x25519`.

### ArmorHeaders

A text is a sequence of characters, with `": "` (`"colon"`) as one of them. Arrays have
dimensions and flattened elements, as pgrx presents them; `armor` without headers is
armor with two empty arrays. The reader takes a line per step until the empty one.

Data may be empty. `encode_armor` then calls `write_all` with an empty slice, which never
calls the writer, and the writer of the library puts out nothing that was not begun: the
armor is the empty text, the headers are gone, and both readers raise an error. That is how
the model has it, the writer's part from what the library does, as its source is not in the
repository. `HeadersReadBack` says that this is the only case in which reading fails. No
document or test of the repository promises anything for empty data.

### SqlFunctions

A row is a call with its answer. `Reuse` is the server, which may answer a call of
an `IMMUTABLE` function with an earlier answer for the same arguments. `Draws`
lists the functions whose bodies draw random values; the `*Volatile` sets are the
declarations. The two meet in `FreshEveryRow`. The specification is `SqlSpec`, named apart
from `Spec` of `RawCipher` as one module holds the proofs about both.

## Runs

| Run | Question | Bounds | Distinct states |
|---|---|---|---|
| `options` | do the parsers agree, do later pieces win, do the checks hold in any order? | texts of up to 3 pieces out of 26, with accepted, edge and refused values for every option | 243 thousand |
| `crlf` | is the conversion lossless and the decoder exact? | texts and bodies of up to 6 bytes over CR, LF and one other | 23 thousand |
| `sym` | who reads a password message, and what comes out? | 1 message, 2 passwords, 8 option records, foreign messages of up to 2 packets | 75 thousand |
| `sym_keys` | when do two messages share a key? | 2 messages, 7 option records | 2.8 million |
| `pub` | who reads a public-key message, at any time, and whose does `pgp_key_id` say it is? | 1 message, 6 certificates, 2 passwords, 2 moments, 1 question to `pgp_key_id`, foreign messages of up to 3 packets | 391 thousand |
| `setting` | does one options text always read what it wrote? | texts of up to 3 pieces out of 11, 1 message, 2 passwords, texts with LF and with CR LF | 208 thousand |
| `raw` | does decrypting undo encrypting at every edge of a block, and which keys mean the same cipher? | two applications: 13 texts of 0 to 17 bytes, 14 types, 3 IVs, 2 keys; and 23 keys at the edges of the tiers and of the folding, 5 types | 246 thousand |
| `password` | which passwords does a hash accept, and has it the count asked for and a salt of its own? | 19 iteration counts; 1 row and 7 passwords on both sides of what each algorithm reads, or 2 rows and 2 passwords (the constraint `Explored`) | 63 thousand |
| `modern` | does exactly what was sealed or signed open or verify? | 2 envelopes or signatures, data of 0 and 1 byte, 3 keys, 11 cuts | 137 thousand |
| `armor` | are headers read as written? | arrays of up to 2 texts, 6 texts with every special character, data of 0 to 2 characters | 1.9 thousand |
| `sql` | is every row's random value fresh, and every name one digest? | 3 rows, 9 spellings | 254 thousand |
| `key_id_immutable` | is `pgp_key_id` immutable, as declared? | 2 certificates, 2 moments, 2 questions | violated |

Why the bounds are enough. Two pieces show every interaction of options that the
code has (a repetition; a count and a mode); the third is for a piece around or
behind them. Six bytes hold every pattern of the two-byte lookahead three times
over. A decrypt call reads one message, so one message shows everything about
decryption, and two about equal keys. Two packets in front of each other show
every order of a packet that fits and one that does not; two moments show a key
that expires and one that goes live. The raw ciphers look at one ciphertext, and
two blocks show chaining; keys and lengths are on both sides of every limit in the
code, as are iteration counts, cuts of envelopes and HKDF lengths. Two rows or
envelopes show a value that is reused or spliced, and the third row of `sql` a
reuse of a reuse. A check of a password looks at one row, so one is enough to tell
passwords apart. The proofs lift the bounds of all passing runs.

The names of the bounds are `MaxMessages`, `MaxDraws`, `MaxTime`, `MaxAnswers`,
`MaxRows` and `MaxMade`; `Inputs`, `Texts` and the other constant sets are the inputs TLC enumerates.

Fairness. None is assumed, as no property needs it: the loops of the helpers are `for`
loops over finite lists with no retry and no wait, so that a call that has begun ends.
`DecryptStep` may stop at any time, as a backend that is interrupted does.

What the properties say, in short:

* `ParsersAgree`, `CountImpliesIterated`, `MdcNeverDisabled`, `LastSettingWins`:
  see the comments in `PgpOptions`.
* `RoundTrip`, `NoBareLF`, `DecodeExact`: see `CrlfCodec`.
* `Authentic`: a decrypt call that succeeds had a right password or key and an
  undamaged message, and returns what was encrypted.
* `HolderReads`: the other direction, whatever the options and the time. In
  `PgpPub` it excludes two cases the code has: a certificate with a secret that
  does not unlock aborts the call even if another key would do, and a wrong key
  that passes the quick check ends the search.
* `BlamesPasswordRightly`, `BlamesKeyRightly`: the error message that blames the
  password or the key tells the truth about an intact message.
* `TextIsValid`: no message of any program makes `pgp_sym_decrypt` return an
  invalid SQL text.
* `KeysFresh`: two messages share a key only under `s2k-mode=0` without
  `sess-key=1`, for one password.
* `KeyIdNamesRecipient`, `KeyIdImmutable`: see `PgpPub`.
* `AllOrNothing`: a certificate with a secret that does not open ends the call,
  whatever the order of its keys; that error never means anything else.
* `SymImplementsSealedStore`, `PubImplementsSealedStore`: the refinements above.
* `SettingReadsBack`: what an options text encrypted, the same text decrypts to
  the value itself.
* `RoundTrip` and `KeyMatters` of `RawCipher` are the two directions of one
  statement: `SameKey` and `SameIv` say, without the code's tiers and folding, when
  two keys or IVs mean the same; then decrypting works, and otherwise it does
  not return the data. `KeyMatters` says nothing of empty data or of another
  mode's IV.
* `Verifies`, `CostKept`, `RowsDiffer`: see `PasswordHash`, and above for what counts as
  another password.
* `OpensOnlyGenuine`, `GenuineOpens`, `SignatureBinds`, `HkdfLength`: see
  `ModernApi`.
* `HeadersReadBack`, `ArmorIsAscii`: see `ArmorHeaders`.
* `FreshEveryRow`, `NamesAgree`: see `SqlFunctions`.

### What the violated run shows

`pgp_key_id` is declared `#[pg_extern(immutable, parallel_safe)]`
(`src/src/pgp.rs:601`), which promises PostgreSQL one answer per argument for
ever: it may be folded into a plan or kept in an index. The function takes the
first key that is `alive()` under a policy at time `None`, that is now
(`src/src/pgp.rs:607-609`). The run finds a certificate whose answer changes when
time passes. `STABLE` is what the code does.

## Proofs

All theorems are checked by TLAPS for every value of the constants: texts and
packet bodies of any length, any number of messages, keys, packets, rows and
envelopes. Each module states an inductive invariant, shows that the initial states
have it and that every action keeps it, one lemma per action, and draws the
properties from it.

`PgpOptionsProofs`, from `IntOfType` and `InputsType` (`str::parse` yields
integers; inputs are finite sequences of pieces): `TypeCorrect`, `Agreement`,
`CountNeedsIteration`, `IntegrityKept` and `LastWins`. None of the properties but
the types is inductive: they speak of a status "ok" or of the final options, and
the loop must be known to have accepted every piece it has passed. The
strengthening `IInv` adds to the types that every piece before a cursor was
accepted by that parser (`PassedAccepted`), that a parser ends with "ok" only
behind the last piece and with the final check passed (`EndedWhere`), and that
the fields of both parsers hold what the last piece for them says
(`LastSettingWins`, `DecryptLastWins`). `Agreement` then follows: every piece was
accepted by `parse_options`, `AcceptedByBoth` says that `parse_decrypt_options`
does not refuse it, and the last `convert-crlf` is the same for both.

`CrlfCodecProofs`, from `BytesDiffer` and `TextsType`: `TypeCorrect`, `Lossless`,
`LineEndings` and `Exact`. The strengthening says where the encoder has put
each byte (`Placed`), that the decoder is always between the codes of two bytes
and has pushed the bytes before (`Mirrored`), which bytes it has kept
(`KeptSoFar`), that lines end in CR LF (`LinesEnd`), and how the positions and
the phases go together (`Phases`). Without `Placed` the decoder's step cannot be
shown to land between two codes: a CR in the text in front of a LF must not
be taken for the one the encoder added.

`PgpSymProofs`, from the assumptions on the constants in `PgpPayload`, `PgpMessages`
and `PgpSym`: `TypeCorrect`, `OnlyAuthentic`, `HoldersRead`, `BlamedRightly`,
`ValidText`, `FreshKeys` and `Refinement`. The properties speak of the end of a call, so the
invariant says two things about what comes before it. `MessageInv` keeps what an
encrypt call established: exactly the passwords it was made with unseal a message
(`PasswordsUnseal`), its literal packet reads back as the value (`ReadsBack`), and its
key is a session key, or derived from the password with a salt, numbered at most
`fresh` (`KeyOrigin`); without the number a new message could not be shown to
have a key of its own. `CallInv` keeps what a decrypt call has found out: the
packets it has passed do not fit (`PassedUnfit`), the key it reads with comes from
the packet at hand, and each way to return says something true of message and
password. `Refinement` maps every encrypt call to `Seal`, damage to `Spoil`, the
beginning of a call to the abstract request, and only its last step to an answer.

About `PgpSetting`, from `SettingConstants` and in the same module: `ReadsBackWithOneText`.
It joins the invariants of the parsers and of the messages and adds that a stored message was
made under the options `parse_options` returned for the text at hand; the
agreement of the parsers about `convert-crlf` then makes the literal packet read
back as the value.

`PgpPubProofs`, from `PubConstants` and the assumptions of the modules it extends:
`TypeCorrect`, `OnlyAuthentic`, `HoldersRead`, `BlamedRightly`, `UnlocksAll`,
`KeyIdsMatch` and `Refinement`. `CallInv` has a part per loop: the pairs are the
keys of the secrets passed so far, all of which open (`Collected`), and the nested
loops have tried every packet before `i` with every pair, and packet `i` with every
pair before `j` (`PassedUnfit`); `ReturnInv` says what each of the six ways out means.
`AnswersInv` keeps an answer of `pgp_key_id` about a message true of that
message, since messages never change their packets. The filter `Kept` is recursive;
`KeptElements` says that it keeps exactly the elements at the given places. It is
proved by induction over the length, in the form that a set of naturals with 0 and
with every successor is all of them (`Induction`), from the least element of its
complement.

`ModernApiProofs`, from `ModernConstants` (data are finite sequences, keys have
lengths, cuts are places): `TypeCorrect`, `OnlyGenuine`, `UntouchedOpens`,
`SignaturesBind` and `HkdfLengths`. The invariant says that entry n of `made` holds
envelope n or signature n (`MadeInv`) and that the answer at hand is right for what
has been made, which no step changes until the answer is forgotten. The argument
is about positions: `CutParts` (the slices of three parts put together are the
parts) and `JoinSlices` (three adjacent slices put together are the whole) give
`EnvelopeCuts` and `FieldsTell`, by which the fields cut from an input are those of
envelope n exactly when the input is envelope n. A wrong offset in one of the
two layouts breaks one of the two.

`RawSqlProofs` about `RawCipher`, from `RawConstants` (keys, IVs and data are finite
sequences of bytes): `RoundTrips` and `KeysMatter`. The invariant is small: the stored
row is the encryption of the arguments it is recorded with, and an answer is one of
the results decryption allows for its own arguments. The work is in the lemmas under it.
`ChainExists` and `EncryptedBlocks` say by induction over the blocks (`Induction`, from the
least number that fails) that each block of a ciphertext is made from its block of data and
the block before; `BlockBack` undoes one block in each mode, and `DecryptsBack` with
`UnpadsBack` all of them and the padding. For keys, `AesKeys`, `Folded` and `BlowfishStream`
relate the tiers, the folding to four bytes and the repeated key to `SameKey`, in both
directions. `KeysMatter` looks at the first block: `WrongKey`, `WrongCbcIv` and `WrongCfbIv`
say that under another key or IV it is not the block that was encrypted, and
`FirstMatches` that with any cut of the padding the data cannot be equal all the same;
this is where data shorter than a block needs its padding bytes compared.

`PasswordHashProofs`, from `HashConstants` (counts are integers, passwords are
bytes other than zero): `PasswordsVerify`,
`CostsKept` and `RowsAllDiffer`. `Starts` says where a text of each of the six formats has
its identifier, cost and salt, whatever follows; `SettingRead` is that the library
reads these from it, and `FrontStarts` that a cost that fits is written so, with the
number of digits the cost has. A hash is such a text and a digest (`HashParts`), so
`PrefixIsSalt`: what `salt_prefix` cuts off is the text in front of the digest, no more and no
less, for the fixed places as for the separators that are searched. `CryptMakes` then gives
the same hash from the cut salt and from the whole hash. `HashesTell` and `HashesAgree` say
that two passwords have one hash exactly if the algorithm reads the same of them, and
`ReadsSame` that this is what `SamePassword` says, key by key for DES (`SameKeys`,
`SameKeyCount`) and byte by byte for bcrypt (`SameFirst`, which needs that no byte is
zero). None of the properties is inductive: the invariant says that a pending
salt is the text in front of some hash made with the last draw (`SaltInv`), that row n
was made with draw n under the options recorded with it (`RowsInv`, `CountInv`), and that
the answer at hand is right for its row (`AnswerInv`). That two rows differ follows since
the number of the draw can be read back from a hash (`DrawRead`).

`RawSqlProofs` about `SqlFunctions`, from `FunctionConstants` (the plain spellings of the
three names the code itself passes): `FreshRows` and `OneDigestPerName`. That rows
differ is not inductive: the next draw differs from all before it because the
counter is ahead of every row (`CounterAhead`), and a repeated row holds no draw because
`Draws` is a subset of `Volatile` (`DrawsAreVolatile`).

`ArmorHeadersProofs`, from `ArmorConstants` (data are sequences, base64 is ASCII, an array without dimensions
is empty, elements that are not NULL are texts): `ArmorReadsBack` and `ArmorAscii`, for
arrays of any length. The invariant (`Armored`) says where the kept text has the line of
which header (`LaidOut`) and that a reader that has returned n headers, the first n, stands
behind the n-th line (`ReaderAt`). `Encoded` shows by induction over the headers that the
writer lays the lines out so. `ReadHeader` is where the refusals of `armor_with_headers` are
needed: with no line feed in key or value the first line feed is the end of the line,
and with no `": "` in the key the first one is where the key ends. That the elements
come back under the subscripts they were passed with needs the check of dimensions.

`PgpPayload` assumes `CrlfLossless` of its two conversion parameters; `Lossless`
is the proof of it for the code's conversions.

Every property of the passing runs is stated by a theorem. `KeyIdImmutable` fails, as the
run `key_id_immutable` shows. Liveness and ENABLED are beyond the prover; no property is of
that kind.

No module has a RECURSIVE operator; recursion is by recursive functions.

## Not modelled

* Compression: the reader undoes it before anything looks at the packet.
* The rounding of an S2K count to a representable one, inside sequoia; `make_s2k`
  keeps the count the code asks for.
* Failures of the random source, of memory and of the serializer: the call
  aborts and nothing has changed.
* The refusals of `pub_encrypt` (a secret certificate, no usable key) are the
  guards of `PubEncrypt`; a refused call changes nothing.
* Splitting, trimming and lower-casing the options text.
* Splitting and lower-casing the type names of the raw ciphers and the names of
  digests; white space at the ends of armor headers, which the library trims.
* The primitives: block ciphers, hashes, key agreement, signatures, base64. They
  are symbolic, as described above, and no statement is made about their strength.
* The text and the bytea version of `digest` and `hmac` differ in a conversion of
  their argument only; `fips_mode` is the constant false.
* `lib.rs` (a list of modules), packaging and CI scripts: no logic of their own.

## State of the project

Every SQL function of the extension is an action or an operator of a module. Checked and
proved are the parsers, the codec, both families of `pgp_*` functions with their
refinements, their composition with the parsers, the raw ciphers, password hashing, the
modern API, ASCII armor and the rows of SQL functions. What could follow is in the list of
what is not modelled, above.
