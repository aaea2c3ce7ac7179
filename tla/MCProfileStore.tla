--------------------------- MODULE MCProfileStore ---------------------------
EXTENDS ProfileStore, TLC

CONSTANTS kA1, kA2, kB, planeB

\* kB is a key of another control plane, the others are of Tailscale SaaS.
MCIssuer == [k \in Keys |-> IF k = kB THEN planeB ELSE SaaS]

Symmetry ==
    Permutations(Procs) \cup Permutations(Profiles) \cup Permutations(Creds)
        \cup Permutations(Keys \ {kB})
=============================================================================
