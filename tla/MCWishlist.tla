------------------------------ MODULE MCWishlist ------------------------------
(* Instances of Wishlist for TLC. *)
EXTENDS Wishlist, TLC

Symmetry == Permutations(Products) \cup Permutations(Colors) \cup Permutations(Tabs)
            \cup Permutations(Pages) \cup Permutations(Requests)
===============================================================================
