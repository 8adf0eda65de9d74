---------------------------- MODULE MCStorageOps ----------------------------
(* One service connection, one command, and the storage operator.          *)
EXTENDS StorageOps

MCDuties ==
    [svc |-> {"write", "reject", "resolve"},
     cli |-> {"rotate", "revoke", "composite"}]
MCOwner == [k \in KeyIds |-> "agent"]
=============================================================================
