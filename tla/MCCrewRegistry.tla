--------------------------- MODULE MCCrewRegistry ---------------------------
(* Model values and symmetry for the runs of CrewRegistry.                 *)
EXTENDS CrewRegistry, TLC

\* Crews that differ in nothing may be swapped, and runs always may.
Symmetric ==
    Permutations(Runs) \cup Permutations(ArenaCrews)
        \cup Permutations(Crews \ ArenaCrews)
=============================================================================
