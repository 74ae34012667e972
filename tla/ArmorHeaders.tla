----------------------------- MODULE ArmorHeaders -----------------------------
(***************************************************************************)
(* ASCII armor: armor, armor with headers, dearmor and pgp_armor_headers   *)
(* of src/src/armor.rs.                                                    *)
(*                                                                         *)
(* A text is a sequence of characters, of which ": " is taken for one. The *)
(* writer and the reader of the library, external, put headers into lines  *)
(* and take lines apart; base64 and checksum leave the data what it is.    *)
(* White space at the ends of keys and values is the library's matter and  *)
(* left out.                                                               *)
(***************************************************************************)
EXTENDS Sequences, Integers

CONSTANTS
  Data,      \* binary data, as the characters of its base64
  Char,
  Arrays,    \* [dims, elems]: SQL arrays of texts, flattened, with their sizes
  NULL

Colon == <<"colon">>
NewLine == <<"NL">>
NonAscii == {"e-acute"}

(* Base64 is ASCII, and an array without dimensions has no elements. *)
ASSUME ArmorConstants ==
  /\ {"colon", "NL"} \subseteq Char \ NonAscii
  /\ Data \subseteq Seq(Char \ NonAscii)
  /\ \A a \in Arrays :
       /\ Len(a.dims) \in Nat /\ Len(a.elems) \in Nat
       /\ Len(a.dims) = 0 => Len(a.elems) = 0
       /\ \A i \in 1 .. Len(a.elems) : a.elems[i] # NULL => a.elems[i] \in Seq(Char)

Contains(s, c) == \E i \in 1 .. Len(s) : s[i] = c
is_ascii(s) == \A i \in 1 .. Len(s) : s[i] \notin NonAscii

VARIABLES
  text,    \* the armor an application keeps
  from,    \* the data and the arrays it was made of
  read     \* what pgp_armor_headers and dearmor made of it

vars == <<text, from, read>>

None == [pc |-> "none"]

Init == text = << >> /\ from = None /\ read = None

Line(k, v) == k \o Colon \o v \o NewLine

(* Writer::with_headers: a line for each header, an empty line, the data.   *)
(* The library writes the headers with the first byte of data: write_all of *)
(* an empty slice never calls it, and finalize then adds nothing.           *)
encode_armor(d, h) ==
  LET lines[i \in 0 .. Len(h)] ==
        IF i = 0 THEN << >> ELSE lines[i - 1] \o Line(h[i][1], h[i][2])
  IN IF d = << >> THEN << >> ELSE lines[Len(h)] \o NewLine \o d

NoTexts == [dims |-> << >>, elems |-> << >>]

armor(d) ==
  /\ from = None
  /\ text' = encode_armor(d, << >>)
  /\ from' = [data |-> d, keys |-> NoTexts, values |-> NoTexts]
  /\ UNCHANGED read

NoNull(a) == \A i \in 1 .. Len(a.elems) : a.elems[i] # NULL

ndim(a) == Len(a.dims)

SameShapeByLength(k, v) == Len(k.elems) = Len(v.elems)

(* Both are lists, or both are empty, which has no dimension. *)
SameShape(k, v) == ndim(k) <= 1 /\ ndim(k) = ndim(v) /\ Len(k.elems) = Len(v.elems)

HeaderFitsAnyValue(k, v) == is_ascii(k) /\ ~Contains(k, "colon") /\ ~Contains(k, "NL")

HeaderFits(k, v) ==
  /\ is_ascii(k) /\ ~Contains(k, "colon") /\ ~Contains(k, "NL")
  /\ is_ascii(v) /\ ~Contains(v, "NL")

Headers(k, v) == [i \in 1 .. Len(k.elems) |-> <<k.elems[i], v.elems[i]>>]

(* The refusals change nothing. *)
armor_with_headers(d, k, v) ==
  /\ from = None
  /\ NoNull(k) /\ NoNull(v)
  /\ SameShape(k, v)
  /\ \A i \in 1 .. Len(k.elems) : HeaderFits(k.elems[i], v.elems[i])
  /\ text' = encode_armor(d, Headers(k, v))
  /\ from' = [data |-> d, keys |-> k, values |-> v]
  /\ UNCHANGED read

(* The reader of pgp_armor_headers and of dearmor, one line at a time: a    *)
(* header is split at the first ": ", an empty line ends the headers.       *)
LineEnd(p) ==
  CHOOSE e \in p .. Len(text) : text[e] = "NL" /\ ~Contains(SubSeq(text, p, e - 1), "NL")

Split(l) ==
  LET c == CHOOSE i \in 1 .. Len(l) : l[i] = "colon" /\ ~Contains(SubSeq(l, 1, i - 1), "colon")
  IN IF Contains(l, "colon") THEN <<SubSeq(l, 1, c - 1), SubSeq(l, c + 1, Len(l))>>
     ELSE <<"error">>

(* The reader looks for the start of an armor; both functions turn an error *)
(* into one of their own.                                                   *)
Open ==
  /\ from # None /\ read = None
  /\ read' = [pc |-> IF text = << >> THEN "error" ELSE "headers",
              at |-> 1, headers |-> << >>, data |-> << >>]
  /\ UNCHANGED <<text, from>>

ReadLine ==
  /\ read.pc = "headers"
  /\ LET e == LineEnd(read.at) IN
     read' = IF e = read.at
               THEN [read EXCEPT !.pc = "done", !.data = SubSeq(text, e + 1, Len(text))]
               ELSE [read EXCEPT !.at = e + 1,
                                 !.headers = Append(@, Split(SubSeq(text, read.at, e - 1)))]
  /\ UNCHANGED <<text, from>>

Forget == read.pc \in {"done", "error"} /\ text' = << >> /\ from' = None /\ read' = None

Next ==
  \/ \E d \in Data : armor(d)
  \/ \E d \in Data, k, v \in Arrays : armor_with_headers(d, k, v)
  \/ Open
  \/ ReadLine
  \/ Forget

Spec == Init /\ [][Next]_vars
-------------------------------------------------------------------------------
(* An element of an SQL array by one subscript: NULL unless it is a list. *)
At(a, i) == IF ndim(a) = 1 THEN a.elems[i] ELSE NULL

(* Where armor was given any data at all, the headers pgp_armor_headers     *)
(* returns are, in order, the elements of the two arrays with the same      *)
(* subscript, all of them and no more, and dearmor returns the data: no key *)
(* or value an application passes gets into another header or into the      *)
(* body.  The armor of empty data, and no other, is refused by both.        *)
HeadersReadBack ==
  /\ read.pc = "error" => from.data = << >>
  /\ read.pc = "done" =>
       /\ from.data # << >> /\ read.data = from.data
       /\ Len(read.headers) = Len(from.keys.elems)
       /\ \A n \in 1 .. Len(read.headers) :
            read.headers[n] = <<At(from.keys, n), At(from.values, n)>>

(* Armor is ASCII, whatever texts an application passes. *)
ArmorIsAscii == is_ascii(text)
===============================================================================
