------------------------------ MODULE MCEapol ------------------------------
(* Model-checking instance of Eapol; the bounds are given in the .cfg      *)
(* files as values of Eapol's constants.  The frames in flight are bounded *)
(* by those constants: the AP sends one message at a time and retransmits  *)
(* it at most MaxRetries times, and the attacker injects MaxForged frames. *)
EXTENDS Eapol
====
