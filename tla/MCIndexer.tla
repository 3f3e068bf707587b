----------------------------- MODULE MCIndexer -----------------------------
(***************************************************************************)
(* Instances of Indexer for TLC.  Each configuration picks its contracts,  *)
(* what they emit and the bounds from the definitions below.               *)
(***************************************************************************)
EXTENDS IndexerReplay, IndexerLog

\* One contract id per contract name.
CONSTANTS cv, ce, cf, ci

CONSTANTS k1

NameOf ==
    [c \in Contracts |->
        CASE c = cv -> "verification"
          [] c = ce -> "escrow"
          [] c = cf -> "financing"
          [] c = ci -> "identity"]

\* contract_ids in the order of the configuration: cv, ce, cf, ci.
After(c) == CASE c = cv -> ce [] c = ce -> cf [] c = cf -> ci [] c = ci -> cv

InOrder ==
    [c \in Contracts |->
        CASE After(c) \in Contracts -> After(c)
          [] After(After(c)) \in Contracts -> After(After(c))
          [] After(After(After(c))) \in Contracts -> After(After(After(c)))
          [] OTHER -> c]

OneKey == {k1}

OneSlot == {[operation_index |-> 0, event_index |-> 0]}

TwoSlots == {[operation_index |-> 0, event_index |-> i] : i \in {0, 1}}

Emit(name, amount, defaulted) ==
    [event_name |-> name, key |-> k1, amount |-> amount, defaulted |-> defaulted,
     shape |-> "good"]

\* What each contract emits.  Amounts are at most 2, so that with
\* MaxBigint = 4 two deposits of a financing overflow and with MaxBigint = 1
\* the larger amount cannot be decoded at all.
EmitsOf ==
    [c \in Contracts |->
        CASE c = cv -> {Emit("VerificationCreated", 0, FALSE),
                        Emit("VerificationRevoked", 0, FALSE),
                        Emit("Unknown", 0, FALSE)}
          [] c = ce -> {Emit("EscrowCreated", 2, FALSE),
                        Emit("EscrowDeposited", 1, FALSE),
                        Emit("EscrowReleased", 1, FALSE),
                        Emit("EscrowRefunded", 0, FALSE)}
          [] c = cf -> {Emit("FinancingCreated", 1, FALSE),
                        Emit("FinancingDeposited", 2, FALSE),
                        Emit("FinancingReleased", 2, FALSE),
                        Emit("FinancingRefunded", 1, TRUE),
                        Emit("FinancingRefunded", 1, FALSE)}
          [] c = ci -> {Emit("FarmerRegistered", 0, FALSE),
                        Emit("FarmerMetadataUpdated", 0, FALSE),
                        Emit("VerificationMarkerSet", 0, FALSE)}]

Malformed(name) ==
    [event_name |-> name, key |-> k1, amount |-> 0, defaulted |-> FALSE,
     shape |-> "bad"]

\* Contracts whose events may not be decodable: an amount that is too large
\* (MaxBigint = 1), a payload of another form.
EmitsPoison ==
    [EmitsOf EXCEPT ![ce] = {Emit("EscrowCreated", 2, FALSE),
                             Emit("EscrowRefunded", 0, FALSE)},
                    ![cv] = {Emit("VerificationCreated", 0, FALSE),
                             Malformed("VerificationRevoked")}]
=============================================================================
