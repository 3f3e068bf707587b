----------------------------- MODULE MCReadApi -----------------------------
(***************************************************************************)
(* The instance of ReadApi for TLC: every resource, three rows, one of     *)
(* them with a counter wider than the padding.                             *)
(***************************************************************************)
EXTENDS ReadApi

CONSTANTS cv, ce, cf, ci

NameOf ==
    [c \in Contracts |->
        CASE c = cv -> "verification"
          [] c = ce -> "escrow"
          [] c = cf -> "financing"
          [] c = ci -> "identity"]

AllResources == {"verification", "escrow", "financing", "identity"}

Counters == {1, 2, 10}

Bodies(names) ==
    [event_name : names, key : Keys, amount : {1}, defaulted : {FALSE},
     shape : {"good"}]

EmitsOf ==
    [verification |-> Bodies({"VerificationCreated", "VerificationRevoked"}),
     escrow |-> Bodies({"EscrowCreated", "EscrowReleased"}),
     financing |-> Bodies({"FinancingCreated", "FinancingReleased"}),
     identity |-> Bodies({"FarmerRegistered"})]

FiltersOf ==
    [verification |-> {"none", "revoked", "valid"}, escrow |-> {"none", "open"},
     financing |-> {"none", "active"}, identity |-> {"none"}]

\* Two verifications may be revoked.
MaxFeedOf == [verification |-> 4, escrow |-> 3, financing |-> 3, identity |-> 3]

\* search_farmers counts first: its clients read on until a page is short.
StopRuleOf ==
    [verification |-> "total_pages", escrow |-> "total_pages",
     financing |-> "total_pages", identity |-> "short_page"]

\* Page 0, and the largest i64, whose offset overflows for two rows a page.
Pages == {0, 3}
=============================================================================
