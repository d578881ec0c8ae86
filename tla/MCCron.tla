------------------------------- MODULE MCCron -------------------------------
(* Two crons of one agent and two ticks that overlap, for TLC. *)
EXTENDS CronScheduler

CONSTANTS t1, t2
TwoCrons == {1, 2}
TwoTicks == {t1, t2}
=============================================================================
