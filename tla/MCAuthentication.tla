-------------------------- MODULE MCAuthentication --------------------------
(* Instances of Authentication for TLC.                                    *)
EXTENDS Authentication, TLC

CONSTANTS r1, r2, r3, s1, s2, s3, t1, t2, t3, t4

\* Requests, and the sessions and tokens they may add, are interchangeable.
Symmetry == Permutations({r1, r2, r3}) \cup Permutations({s2, s3})
            \cup Permutations({t2, t3, t4})
=============================================================================
