------------------------------- MODULE MCAddRun -------------------------------
(* Instances of the add engine for TLC. *)
EXTENDS AddRunProps, TLC

(* Accounts are interchangeable, and so are calls of the engine. *)
RunSymmetry == Permutations(Runs)
PhoneSymmetry == Permutations(Phones)
=============================================================================
