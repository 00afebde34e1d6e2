----------------------------- MODULE MCMonitors -----------------------------
(***************************************************************************)
(* Monitors on both stores: check-ins of two jobs that overlap, where a    *)
(* batch is one transaction; the messages of one job, where it is many     *)
(* steps; and an uptime monitor.                                           *)
(***************************************************************************)
EXTENDS Monitors

Cron(postgres, checkIns, definitions) ==
    [transactional : {postgres}, kind : {"cron"}, checkIns : {checkIns},
     defining : definitions]

Uptime ==
    [transactional : BOOLEAN, kind : {"uptime"}, checkIns : {{}}, defining : {{}}]

MCInstances ==
    Cron(TRUE, {1, 2}, {{}, {"in_progress"}, {"in_progress", "success"}})
        \cup Cron(FALSE, {1}, {{"in_progress"}, {"in_progress", "success"}})
        \cup Uptime

=============================================================================
