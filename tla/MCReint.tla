------------------------------- MODULE MCReint -------------------------------
(* Instances of Reint: file x exists at the start, file y may be created.          *)
EXTENDS Reint
CONSTANTS x, y

Once(s) == {<<o[1], o[2], 1>> : o \in s}
Twice(op, f) == {<<op, f, 1>>, <<op, f, 2>>}

\* The default of venus.conf: no backfetch.
Base == [ops |-> {}, replicated |-> TRUE, backfetch |-> FALSE, fat |-> FALSE, open |-> FALSE,
         late |-> FALSE, max |-> [b \in Faults |-> 0]]
Backfetch == [Base EXCEPT !.backfetch = TRUE]
Unreplicated == [Backfetch EXCEPT !.replicated = FALSE]

MCConfigs ==
  { \* no fault
    [Base EXCEPT !.open = TRUE,
       !.ops = Once({<<"chmod", x>>, <<"chown", x>>}) \cup Twice("store", x)],
    \* a lost call or reply
    [Unreplicated EXCEPT !.max.loss = 1,
       !.ops = Once({<<"create", y>>, <<"remove", y>>, <<"chmod", x>>}) \cup Twice("store", x)],
    [Backfetch EXCEPT !.max.loss = 1,
       !.ops = Once({<<"chmod", x>>, <<"chown", x>>, <<"store", x>>})],
    [Base EXCEPT !.max.loss = 1,
       !.ops = Once({<<"create", y>>, <<"chmod", x>>}) \cup Twice("store", x)],
    \* and the server executes the call later
    [Unreplicated EXCEPT !.max.loss = 1, !.late = TRUE,
       !.ops = Once({<<"create", y>>, <<"remove", y>>, <<"chmod", x>>, <<"chown", x>>})],
    [Backfetch EXCEPT !.max.loss = 1, !.late = TRUE, !.open = TRUE,
       !.ops = Once({<<"chmod", x>>}) \cup Twice("store", x)],
    \* somebody else's exclusive lock
    [Base EXCEPT !.max.busy = 2,
       !.ops = Once({<<"create", y>>, <<"remove", y>>, <<"chmod", x>>, <<"store", x>>})],
    [Backfetch EXCEPT !.max.busy = 1, !.open = TRUE,
       !.ops = Once({<<"chmod", x>>, <<"utimes", x>>}) \cup Twice("store", x)],
    [Backfetch EXCEPT !.max.busy = 1, !.fat = TRUE,
       !.ops = Once({<<"chmod", x>>, <<"create", y>>}) \cup Twice("store", x)],
    \* another client
    [Base EXCEPT !.max.partner = 1,
       !.ops = Once({<<"chmod", x>>, <<"store", x>>, <<"rename", x>>, <<"remove", x>>})],
    [Base EXCEPT !.max.partner = 1,
       !.ops = Once({<<"chmod", x>>, <<"create", y>>, <<"store", y>>, <<"remove", y>>})],
    \* a restart of the server, and of Venus
    [Base EXCEPT !.max.restart = 1,
       !.ops = Once({<<"chmod", x>>, <<"create", y>>, <<"store", y>>, <<"remove", y>>})],
    [Unreplicated EXCEPT !.max.crash = 1,
       !.ops = Once({<<"chmod", x>>, <<"create", y>>}) \cup Twice("store", x)],
    [Base EXCEPT !.max.crash = 1, !.open = TRUE,
       !.ops = Once({<<"chmod", x>>}) \cup Twice("store", x)] }

\* Every kind of volume with every single fault, for five sets of operations.
MCProduct ==
  LET volumes == {Base, [Base EXCEPT !.replicated = FALSE], Backfetch, Unreplicated,
                  [Backfetch EXCEPT !.fat = TRUE]}
      operations == {Once({<<"create", y>>, <<"remove", y>>, <<"store", y>>, <<"chmod", x>>}),
                     Once({<<"create", y>>, <<"remove", y>>, <<"chmod", x>>, <<"remove", x>>}),
                     Once({<<"create", y>>, <<"chmod", x>>, <<"rename", x>>, <<"store", x>>}),
                     Once({<<"chmod", x>>, <<"chown", x>>}) \cup Twice("store", x),
                     Once({<<"chmod", x>>, <<"remove", x>>}) \cup Twice("store", x)}
  IN  UNION {{[v EXCEPT !.max[b] = 1, !.ops = o, !.open = p, !.late = l] :
                p \in BOOLEAN, l \in (IF b = "loss" THEN BOOLEAN ELSE {FALSE})} :
             v \in volumes, b \in Faults, o \in operations}

\* A store is replaced while its data is on the way to the server, and the reply to
\* CloseReintHandle is lost.
MCTimeout == {[Base EXCEPT !.max.loss = 1, !.ops = Twice("store", x)]}
=============================================================================
