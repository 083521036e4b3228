-------------------------------- MODULE MCPool --------------------------------
(***************************************************************************)
(* One instance for TLC of what a sql.DB meets in the driver: one of its   *)
(* connections over its leases (Conn), the connector that opens them       *)
(* (Connector), and the locks that several of them take (Busy).  They      *)
(* share no state; a behaviour is one of one of them.                      *)
(***************************************************************************)
EXTENDS MCConn, Connector, Busy, TLC

PoolInit == Init /\ ConnectorInit /\ BusyInit
PoolNext ==
    \/ ConnectorInit /\ BusyInit /\ Next /\ UNCHANGED <<connectorVars, busyVars>>
    \/ Init /\ BusyInit /\ ConnectorNext /\ UNCHANGED <<vars, busyVars>>
    \/ Init /\ ConnectorInit /\ BusyNext /\ UNCHANGED <<vars, connectorVars>>
PoolSpec == PoolInit /\ [][PoolNext]_<<vars, connectorVars, busyVars>> /\ ConnectorFairness

(* The type invariants of the three.                                       *)
PoolTypeOK == TypeOK /\ ConnectorTypeOK /\ BusyTypeOK

(* DSNs: files, memory in its three spellings, memdb databases that are    *)
(* named, and what is refused.                                             *)
File(name, query) == [uri |-> TRUE, name |-> name, query |-> query]
Plain(name, query) == [uri |-> FALSE, name |-> name, query |-> query]
MCDSNs ==
    {Plain("app", "mode" :> "memory"), File("app", <<>>), Plain("", <<>>),
     Plain(":memory:", "_fk" :> "0"),
     File(":memory:", "_txlock" :> "deferred" @@ "_loc" :> "UTC"),
     File("app", "mode" :> "memory" @@ "_fk" :> "1" @@ "_foreign_keys" :> "false"),
     File("/shared", "vfs" :> "memdb" @@ "_txlock" :> "exclusive"),
     File("app", "vfs" :> "memdb" @@ "mode" :> "memory"),
     File("app", "vfs" :> "opfs"),
     Plain(":memory:", "cache" :> "shared"), File("app", "_busy_timeout" :> "5")}

(* A script whose second statement may find the lock taken.                *)
MCScripts == {<<"temp", "write">>}
=============================================================================
