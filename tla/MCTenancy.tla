----------------------------- MODULE MCTenancy -----------------------------
(***************************************************************************)
(* An instance of Tenancy for TLC: one tenant of the files, whose key the  *)
(* seed gives to a tenant of the database as well.                         *)
(***************************************************************************)
EXTENDS Tenancy, TLC

CONSTANTS acme, usd, euro

MCFileConfig == [t \in FileTenants |-> euro]
MCFixtureOwner == [k \in Keys |-> acme]
Symmetry == Permutations(Scripts) \cup Permutations(Requests)
=============================================================================
