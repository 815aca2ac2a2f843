------------------------------ MODULE MCCronJobs ------------------------------
(* Instances of CronJobs for TLC: a coding job and a maintenance job. *)
EXTENDS CronJobs
CONSTANTS c, m
=============================================================================
