------------------------- MODULE MCProviderSwitch -------------------------
EXTENDS ProviderSwitch, TLC

CONSTANTS r1, r2, r3

MCProvider == {Pinpoint, Sns}

\* AWS Pinpoint comes before AWS SNS.
MCRank == (Pinpoint :> 1) @@ (Sns :> 2)

\* Taking a provider out, and putting it back behind the other.
MCChange == {[priority |-> Keep, active |-> FALSE], [priority |-> 30, active |-> TRUE]}

Symmetry == Permutations({r1, r2, r3})

=============================================================================
