--------------------------- MODULE MCReplication ---------------------------
EXTENDS Replication

CONSTANTS c1, c2

Config(hosts, coords, clients, updates, env, resolutions, faults) ==
    [hosts |-> hosts, coords |-> coords, clients |-> clients, updates |-> updates,
     env |-> env, resolutions |-> resolutions, faults |-> faults]

\* Three updates of two replicas; two clients at once; three replicas; faults.
Long == Config({0, 1}, {0}, {c1}, {1, 2, 3}, {"cop2"}, 1, 0)
Race == Config({0, 1}, {0}, {c1, c2}, {1, 2}, {"cop2"}, 1, 0)
Three == Config({0, 1, 2}, {0}, {c1}, {1, 2}, {}, 1, 0)
Faulty == Config({0, 1}, {0}, {c1}, {1, 2},
                 {"cop2", "reply", "cut", "crash", "expire", "overrun"}, 1, 1)
Duel == Config({0, 1}, {0, 1}, {c1}, {1}, {"cop2", "cut", "crash"}, 2, 1)

MCConfigs == {Long, Race, Three, Faulty, Duel}

\* A COP2 of the first update arrives after a resolution and a second update.
LateConfigs == {Config({0, 1}, {0}, {c1}, {1, 2, 3}, {"cop2", "late"}, 1, 0)}

=============================================================================
