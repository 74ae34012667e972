------------------------------ MODULE SealedStore -----------------------------
(***************************************************************************)
(* What the pgp_* functions promise an application: a store of sealed      *)
(* values.  A value put into it never changes; it may be spoilt, and is    *)
(* lost then.  Whoever asks for a value gets it only with a secret of one  *)
(* of its readers, as the SQL type and the CRLF setting of the call        *)
(* present it.  Nothing is said about keys, session key packets and        *)
(* checks: PgpSym and PgpPub implement this.                               *)
(***************************************************************************)
EXTENDS PgpPayload, Sequences

CONSTANTS
  Reader,    \* the secrets a value may be sealed for
  Errors     \* the ways a call may fail

VARIABLES
  sealed,    \* the values with their readers, in the order they were sealed
  request    \* the call in progress or just answered

svars == <<sealed, request>>

NoRequest == [pc |-> "idle"]

SInit == sealed = << >> /\ request = NoRequest

Seal ==
  /\ request = NoRequest
  /\ \E l \in Literal, r \in SUBSET Reader :
       sealed' = Append(sealed, [literal |-> l, readers |-> r, intact |-> TRUE])
  /\ UNCHANGED request

Spoil ==
  /\ request = NoRequest
  /\ \E m \in 1 .. Len(sealed) :
       sealed[m].intact /\ sealed' = [sealed EXCEPT ![m].intact = FALSE]
  /\ UNCHANGED request

Ask ==
  /\ request = NoRequest
  /\ \E m \in 1 .. Len(sealed), h \in SUBSET Reader, t \in SqlType, crlf \in BOOLEAN :
       request' = [pc |-> "asked", m |-> m, holds |-> h, type |-> t, crlf |-> crlf,
                   result |-> Fail("none")]
  /\ UNCHANGED sealed

Asked == sealed[request.m]

(* The call may fail, for many reasons; if it does not, it shows the value  *)
(* to one of its readers.                                                   *)
Open ==
  /\ request.pc = "asked"
  /\ \E r \in {Fail(e) : e \in Errors}
             \cup {Returned(Asked.literal, request.type, request.crlf)} :
       /\ r.outcome = "ok" => Asked.intact /\ request.holds \cap Asked.readers # {}
       /\ request' = [request EXCEPT !.pc = "answered", !.result = r]
  /\ UNCHANGED sealed

Close ==
  /\ request.pc = "answered"
  /\ request' = NoRequest
  /\ UNCHANGED sealed

SNext == Seal \/ Spoil \/ Ask \/ Open \/ Close

SSpec == SInit /\ [][SNext]_svars
===============================================================================
