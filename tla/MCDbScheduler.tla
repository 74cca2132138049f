--------------------------- MODULE MCDbScheduler ---------------------------
(***************************************************************************)
(* Instances of DbScheduler.                                               *)
(***************************************************************************)
EXTENDS DbScheduler

CONSTANTS b1, b2, hourly, cron, once

Kinds == [s \in Schedules |-> CASE s = hourly -> "interval"
                                [] s = cron -> "crontab"
                                [] s = once -> "oneoff"]
=============================================================================
