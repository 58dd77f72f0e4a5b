---------------------------- MODULE MCA2ABridge ----------------------------
(* Small instances of A2ABridge. *)
EXTENDS A2ABridge, TLC

(* The instances of the daemon differ in nothing but their name; used for  *)
(* safety only.                                                            *)
InstancesAlike == Permutations(Workers)
=============================================================================
