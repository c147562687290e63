------------------------------ MODULE MCMaintainer ------------------------------
(* A small instance of Maintainer for TLC. *)
EXTENDS Maintainer, TLC

CONSTANTS laptop, grok1, grok2, cloud,      \* workers
          home, grok, vms,                  \* pools
          mine, account, other,                   \* quota domains
          t1, t2, t3,
          gpu

Amount(ram, cpu, disk) ==
    [r \in Resource |-> IF r = "ram" THEN ram ELSE IF r = "cpu" THEN cpu ELSE disk]

Row(pool, quota, shared, local, max, cap, room) ==
    [pool |-> pool, quota |-> quota, shared |-> shared, local |-> local,
     max_concurrency |-> max, cap |-> cap, room |-> room, rank |-> 0, ready |-> TRUE,
     offers |-> IF local THEN {gpu} ELSE {}, active |-> TRUE]

\* The laptop with plenty of free memory and with little; two accounts on one
\* shared computer, one job at a time; fresh machines, two at a time, that
\* belong to the first of these accounts.
MCConfigs ==
    [w \in Worker |->
        CASE w = laptop -> {Row(home, mine, TRUE, TRUE, 3, Amount(4, 3, NoLimit), room) :
                              room \in {4, 1}}
          [] w = grok1 -> {Row(grok, account, TRUE, FALSE, 1, Amount(3, NoLimit, 2), NoLimit)}
          [] w = grok2 -> {Row(grok, other, TRUE, FALSE, 1, Amount(2, NoLimit, 2), NoLimit)}
          [] w = cloud -> {[Row(vms, account, FALSE, FALSE, 2, Amount(2, 2, 2), NoLimit)
                              EXCEPT !.rank = 2, !.ready = FALSE]}]

Asks(ram, requires, only, prefers, automated) ==
    [need |-> Amount(ram, 1, 1), requires |-> requires, only |-> only,
     prefers |-> prefers, automated |-> automated]

MCSpecsOf ==
    [t \in Task |->
        CASE t = t1 -> {Asks(2, {}, {}, "LOCAL_PREFERRED", TRUE),
                        Asks(2, {}, {grok1}, "LOCAL_PREFERRED", FALSE)}
          [] t = t2 -> {Asks(2, {gpu}, {}, "LOCAL_REQUIRED", TRUE),
                        Asks(1, {}, {cloud}, "CLOUD_OK", FALSE)}
          [] t = t3 -> {Asks(1, {}, {}, "CLOUD_PREFERRED", FALSE)}]

MCCommandNeed == [c \in Command |-> Amount(1, 1, 0)]
=================================================================================
