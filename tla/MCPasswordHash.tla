---------------------------- MODULE MCPasswordHash ----------------------------
EXTENDS PasswordHash

(* Iteration counts on both sides of every edge of generate_salt. *)
MCRounds == {-1, 0, 1, 3, 4, 31, 32, 24, 25, 724, 725, 999, 1000, 5000, 16777215,
             16777216, 16777217, 999999999, 1000000000}

(* Passwords on both sides of what each algorithm reads: of a byte (C and A *)
(* with a grave accent, which has a second byte of 128), of eight bytes and *)
(* of 72.                                                                   *)
As(n) == [i \in 1 .. n |-> 97]
MCPasswords ==
  {<<67>>, <<195, 128>>, As(8), As(8) \o <<98>>, As(71), As(72), As(72) \o <<98>>}

(* One row with any of them, or two rows with two short ones. *)
MCTwo == {<<67>>, <<195, 128>>}
Explored ==
  drawn > 1 =>
    /\ \A r \in 1 .. Len(table) : table[r].pw \in MCTwo
    /\ answer # None => answer.pw \in MCTwo
===============================================================================
