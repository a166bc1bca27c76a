------------------------------ MODULE MCIsqrt ------------------------------
(* isqrt_u64 on an initial range and around large squares and pronics.     *)
EXTENDS IsqrtLoop

CONSTANTS SmallBound, LargeRoots

MCDeltas ==
    (0 .. SmallBound) \cup
    UNION {{k * k - 1, k * k, k * k + 1,
            k * (k + 1) - 1, k * (k + 1), k * (k + 1) + 1} : k \in LargeRoots}
=============================================================================
