------------------------------ MODULE MCUploads ------------------------------
(* Instances of Uploads for TLC.                                            *)
EXTENDS Uploads, TLC

CONSTANTS u1, u2, u3, t1, t2

ThreeUploads == {u1, u2, u3}
TwoTurns == {t1, t2}
PhoneSymmetry == Permutations({u1, u2, u3}) \cup Permutations({t1, t2})
=============================================================================
