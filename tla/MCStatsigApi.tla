---------------------------- MODULE MCStatsigApi ----------------------------
(* Instances of StatsigApi for TLC.                                        *)
EXTENDS StatsigApi

=============================================================================
