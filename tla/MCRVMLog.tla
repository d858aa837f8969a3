------------------------------ MODULE MCRVMLog ------------------------------
(* Small instances of RVMLog. *)
EXTENDS RVMLog

\* Venus: no_flush commits that coalesce, truncation by rvm_truncate only.
venus(dev, size, past) == [coalesce |-> TRUE, daemon |-> FALSE, modes |-> {"no_flush"},
                     abort |-> FALSE, size |-> size, past |-> past, dev |-> dev]

\* The file server: flush and no_flush commits, a truncation daemon.
vice(dev, size, past) == [coalesce |-> FALSE, daemon |-> TRUE, modes |-> {"flush", "no_flush"},
                    abort |-> TRUE, size |-> size, past |-> past, dev |-> dev]

\* Logs that earlier runs have filled up to a few records before the end, so that
\* two transactions wrap, split and wait for space; torn writes in a log that has
\* room for everything.
MCConfigs == {vice("proc", 14, 2), venus("proc", 20, 3), vice("power", 20, 0)}

\* A Venus log that three transactions fill; a server's log file; a partition.
MCSmall == {venus("proc", 14, 0)}
MCFile == {vice("proc", 14, 0)}
MCPartition == {vice("raw", 14, 2)}
=============================================================================
