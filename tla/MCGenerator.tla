----------------------------- MODULE MCGenerator -----------------------------
(* Starts of three digits and targets of two. The match lasts just long     *)
(* enough to pay for seven times the dearest operations in turn.            *)
EXTENDS Generator
MCStartNumbers == {100, 997}
MCOperands == {3, 10}
=============================================================================
