--------------------------- MODULE MCShardedQueue ---------------------------
(* The sharded queue for TLC: one busy producer and one quiet one, both      *)
(* served by one consumer.                                                   *)
EXTENDS ShardedQueue

MCPushes == [r \in 0..(P - 1) |-> IF r = 0 THEN 5 ELSE 1]

\* Of a key only its equality with the epoch is ever tested, and only until the
\* wait it is for.
View ==
  <<rings, next, history, waiters, pending, sleepers, buffer, stack,
    [t \in Sleepers |-> /\ ~At(t, "key")
                        /\ \E i \in DOMAIN stack[t] :
                             \/ stack[t][i][1] \in {"announce", "recheck", "wait"}
                             \/ stack[t][i][1] = "scan" /\ stack[t][i][3] = "recheck"
                             \/ stack[t][i][1] = "any_closed" /\ stack[t][i][3] = "recheck"
                        /\ key[t] = epoch[t]]>>
=============================================================================
