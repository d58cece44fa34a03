------------------------------ MODULE MCLazyInit ------------------------------
(* LazyInit with three threads: one that runs the producer, one that waits  *)
(* for it and one that comes late.                                          *)
EXTENDS LazyInit

CONSTANTS t1, t2, t3
MCThreads == {t1, t2, t3}
=============================================================================
