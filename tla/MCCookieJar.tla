---------------------------- MODULE MCCookieJar ----------------------------
(* Instances of CookieJar for TLC.                                          *)
EXTENDS CookieJar

CONSTANT Threads  \* goroutines in each process

AllCallers == Procs \X Threads

=============================================================================
