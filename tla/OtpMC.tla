--------------------------------- MODULE OtpMC ---------------------------------
(* Instances of Otp for TLC.                                                   *)
EXTENDS Otp, TLC

WorkerSymmetry == Permutations(Workers)
=============================================================================
