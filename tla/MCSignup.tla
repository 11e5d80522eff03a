------------------------------ MODULE MCSignup ------------------------------
(* Small instances of Signup. twin is a separate account that a provider   *)
(* sign-in with the address of ann would create; requests are alike.       *)
EXTENDS Signup, TLC

CONSTANTS ann, bob, twin

AddressOf == [u \in Users |-> IF u = bob THEN "bob" ELSE "ann"]

Alike == Permutations(Handlers)
=============================================================================
