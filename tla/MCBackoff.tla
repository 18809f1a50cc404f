------------------------------ MODULE MCBackoff ------------------------------
(* Instances of Backoff for TLC.                                             *)
EXTENDS Backoff

\* Configurations that grow, that stand still (base 1, init_backoff 0), that
\* shrink (base 0), and that start above max_backoff.
MCConfigs ==
    [init_backoff : {0, 1, 2}, max_backoff : {0, 1, 5}, base : {0, 1, 2, 3},
     deadline : {NoDeadline, 0, 14}]
=============================================================================
