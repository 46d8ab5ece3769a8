------------------------------ MODULE MCAccess ------------------------------
(***************************************************************************)
(* The instance of Access for TLC: two keys, of which the first is admin   *)
(* and the second holds the other roles.                                   *)
(***************************************************************************)
EXTENDS Access

CONSTANTS k1, k2

MCInitialConfigs ==
    {[admin |-> k1, pending_admin |-> None, role |-> [r \in Roles |-> k2]]}
=============================================================================
