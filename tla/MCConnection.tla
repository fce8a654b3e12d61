---------------------------- MODULE MCConnection ----------------------------
(* Connection to a device with two data points.                              *)
EXTENDS Connection

MCDataPoint == {"p", "q"}
MCValue == {"0", "1"}
=============================================================================
