---------------------------- MODULE MCAddressBook ----------------------------
(* Instances of AddressBook for TLC. *)
EXTENDS AddressBook, TLC

Symmetry == Permutations(Pages)
=============================================================================
