------------------------------ MODULE MCPaging ------------------------------
(* Instances of Paging for TLC.                                            *)
EXTENDS Paging

CONSTANTS o1, e1, e2

OneOrganization == {o1}
BothEnvironments == {e1, e2}
=============================================================================
