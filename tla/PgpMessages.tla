------------------------------ MODULE PgpMessages -----------------------------
(***************************************************************************)
(* What the pgp_sym_* and the pgp_pub_* functions of src/src/pgp.rs have   *)
(* in common: the store of messages an application keeps in its tables,    *)
(* the decrypt call in progress, and the end of every decrypt call.        *)
(*                                                                         *)
(* An encrypt call is one action: nothing it does is visible before it     *)
(* returns.  A decrypt call is a sequence of steps, one per session key    *)
(* packet it tries and one per stage around them.                          *)
(*                                                                         *)
(* Cryptography is symbolic.  A key is a term that tells where it comes    *)
(* from; equal terms are equal keys.  A wrong key passes the two-octet     *)
(* check at the head of an encrypted packet by chance, so that check is a  *)
(* nondeterministic choice; the integrity code at its end catches it.      *)
(***************************************************************************)
EXTENDS PgpPayload, Sequences

CONSTANTS
  Password,
  Options,       \* the parsed encryption options in use
  OtherLiterals, \* the literal packets in the messages of other programs
  MaxMessages    \* bound: messages ever stored

ASSUME MessageConstants ==
  /\ Options \subseteq PgpOptions /\ OtherLiterals \subseteq Literal
  /\ MaxMessages \in Nat

VARIABLES
  store,    \* the messages, in the order they were stored
  fresh,    \* the number of random values drawn so far
  call      \* the decrypt call in progress or just returned
-------------------------------------------------------------------------------
(* SessionKey::new, and what a wrong secret makes of an encrypted one. *)
Session(n) == <<"session", n>>
Garbage == <<"garbage">>

(* from: what the message was made of, which no decrypt step reads. *)
Message(maker, esks, cipher, key, literal, from) ==
  [maker |-> maker, esks |-> esks, cipher |-> cipher, key |-> key,
   literal |-> literal, from |-> from, damage |-> "none"]

Idle == [pc |-> "idle"]

CanStore == call = Idle /\ Len(store) < MaxMessages

(* A stored message is damaged: so that it does not parse any more, or      *)
(* inside the encrypted packet.                                             *)
Damage(m, where) ==
  /\ call = Idle /\ store[m].damage = "none"
  /\ store' = [store EXCEPT ![m].damage = where]
  /\ UNCHANGED <<fresh, call>>

Msg == store[call.m]

Return(res) == call' = [call EXCEPT !.pc = "returned", !.result = res]

RightKey(got) == got = <<Msg.cipher, Msg.key>>

(* The closure `decrypt' that sequoia passes to the helpers: does the head  *)
(* of the encrypted packet look right under this key?                       *)
QuickCheck(got) == IF RightKey(got) /\ Msg.damage = "none" THEN {TRUE} ELSE BOOLEAN

(* A helper offers a key to the closure: it returns if the key looks right, *)
(* and goes on otherwise.                                                   *)
Offer(got, goOn) ==
  \E looksRight \in QuickCheck(got) :
    call' = IF looksRight THEN [call EXCEPT !.pc = "read", !.got = got] ELSE goOn

ReadsUnchecked(got) == RightKey(got)

(* The integrity code, checked when the packet has been read to its end. *)
ReadsThrough(got) == RightKey(got) /\ Msg.damage = "none"

(* read_to_end, and what the SQL function makes of the packet. *)
ReadToEnd ==
  /\ call.pc = "read"
  /\ Return(IF ReadsThrough(call.got)
              THEN Returned(Msg.literal, call.type, call.crlf)
              ELSE Fail("decryption failed"))
  /\ UNCHANGED <<store, fresh>>

Answer ==
  /\ call.pc = "returned"
  /\ call' = Idle
  /\ UNCHANGED <<store, fresh>>
-------------------------------------------------------------------------------
MessagesOK ==
  /\ fresh \in Nat /\ Len(store) <= MaxMessages
  /\ \A m \in 1 .. Len(store) :
       /\ store[m].cipher \in Cipher /\ store[m].literal \in Literal
       /\ store[m].damage \in {"none", "framing", "body"}
  /\ call # Idle =>
       call.m \in 1 .. Len(store) /\ call.result.value \in Bodies \cup {NoValue}

Returns(o) == call.pc = "returned" /\ call.result.outcome = o

(* The caller reads the message the way it was written. *)
ReadsAsWritten ==
  call.type = Msg.from.type /\ (call.type = "text" => call.crlf = Msg.from.crlf)

(* The state an application sees, in the terms of SealedStore: Readers(m)   *)
(* are the secrets that open message m, Holds those of the caller.          *)
Sealed(Readers(_)) ==
  [m \in 1 .. Len(store) |-> [literal |-> store[m].literal, readers |-> Readers(store[m]),
                              intact |-> store[m].damage = "none"]]
Request(Holds) ==
  IF call = Idle THEN Idle
  ELSE [pc |-> IF call.pc = "returned" THEN "answered" ELSE "asked",
        m |-> call.m, holds |-> Holds, type |-> call.type, crlf |-> call.crlf,
        result |-> call.result]
===============================================================================
