---------------------------- MODULE MCFarmers ----------------------------
(***************************************************************************)
(* Instances of Farmers for TLC: one address, one identity contract whose  *)
(* markers may or may not be readable, profiles one of which has a blank   *)
(* name.                                                                   *)
(***************************************************************************)
EXTENDS Farmers, TLC

CONSTANTS ci, m0

IdentityOnly == [c \in Contracts |-> "identity"]

BlankProfile == {m0}

NoAmount == {0}

\* Handlers, and profiles with a name, are alike.
Symmetry == Permutations(Handlers) \cup Permutations(Metadata \ Blank)

Identity(name, shape) ==
    [event_name : {name}, key : Keys, amount : NoAmount, defaulted : {FALSE},
     shape : {shape}]

EmitsOf ==
    Identity("FarmerRegistered", "good")
        \cup Identity("FarmerMetadataUpdated", "bad")
        \cup Identity("VerificationMarkerSet", "good")
        \cup Identity("VerificationMarkerSet", "odd")
=============================================================================
