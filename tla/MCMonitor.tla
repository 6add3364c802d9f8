------------------------------ MODULE MCMonitor ------------------------------
(* A small instance of the monitor for TLC: a channel of two results (the *)
(* code buffers 100, but the channel only matters once it is full), a     *)
(* deadline three ticks away with a one-tick check period, so that a run  *)
(* polls several times, sleeps, re-authenticates and times out.           *)
EXTENDS Monitor

MCBufCap == 2
MCTimeout == 3
MCCheckPeriod == 1
MCPercents == {0, 50}
=============================================================================
