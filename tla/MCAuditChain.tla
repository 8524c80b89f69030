---------------------------- MODULE MCAuditChain ----------------------------
(***************************************************************************)
(* Instances of AuditChain for TLC.  Calls are interchangeable among those *)
(* that hash and among those that do not.                                  *)
(***************************************************************************)
EXTENDS AuditChain, TLC

MCSymmetry == Permutations(Chained) \cup Permutations(Calls \ Chained)
=============================================================================
