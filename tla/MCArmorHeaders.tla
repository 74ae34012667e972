---------------------------- MODULE MCArmorHeaders ----------------------------
(* Lists of up to two texts, NULL among them, and arrays of two dimensions. *)
EXTENDS ArmorHeaders

(* No data, and some. *)
MCData == {<< >>, <<"body">>, <<"body", "more">>}

Strings == {<<"a">>, <<"b">>, <<"b", "a">>} \cup {<<"a", c, "b">> : c \in {"colon", "NL", "e-acute"}}

MCArrays ==
  {[dims |-> << >>, elems |-> << >>]}
  \cup {[dims |-> <<1>>, elems |-> <<s>>] : s \in Strings \cup {NULL}}
  \cup {[dims |-> <<2>>, elems |-> <<s, t>>] : s, t \in Strings}
  \cup {[dims |-> d, elems |-> <<<<"a">>, <<"b">>>>] : d \in {<<1, 2>>, <<2, 1>>}}
===============================================================================
