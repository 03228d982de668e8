---------------------------- MODULE MCSecureSync ----------------------------
(* Instances of SecureSync for TLC: one or two entities, local links or     *)
(* relayed ones, and two texts an entity can change between.                *)
EXTENDS SecureSync

CONSTANTS i1, i2, x, y

TextSymmetry == Permutations({x, y})
=============================================================================
