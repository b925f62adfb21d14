-------------------------- MODULE MCOmniTransformer --------------------------
(***************************************************************************)
(* Two contracts, one of them written with two capitalisations, each with  *)
(* its first block in the header repository.  The ABI and the starting     *)
(* blocks callers ask for are given in the configuration.                  *)
(***************************************************************************)
EXTENDS OmniTransformer

MCAddresses == {"0xAB", "0xab", "0xcd"}

MCLower == [a \in MCAddresses |-> IF a = "0xAB" THEN "0xab" ELSE a]

MCFirstBlock == [a \in MCAddresses |-> IF MCLower[a] = "0xab" THEN 5 ELSE 1]

=============================================================================
