--------------------------- MODULE MCWebsocketHub ---------------------------
(* One connection of each route that is opened, one by a user whom the     *)
(* document does not name for it, and one that is refused.                 *)
EXTENDS WebsocketHub

MCClients == {[role |-> "admin", talent |-> "", route |-> "admin_live", cycle |-> ""],
              [role |-> "talent", talent |-> "t1", route |-> "admin_live", cycle |-> ""],
              [role |-> "talent", talent |-> "t2", route |-> "admin", cycle |-> "c1"],
              [role |-> "talent", talent |-> "t1", route |-> "talent", cycle |-> "c1"]}

\* Of this talent in this cycle, of another in the same cycle, of this one in
\* no cycle in particular, and of none.
MCEvents == {[type |-> "conversion", talent |-> "t1", cycle |-> "c1"],
             [type |-> "anomaly", talent |-> "t1", cycle |-> "c1"],
             [type |-> "talent_update", talent |-> "t2", cycle |-> "c1"],
             [type |-> "talent_update", talent |-> "t1", cycle |-> ""],
             [type |-> "audit", talent |-> "", cycle |-> ""]}

\* Two events of a type can wait, of the others only one.
MCEventCap == [t \in Types |-> IF t \in {"conversion", "talent_update"} THEN 2 ELSE 1]
=============================================================================
