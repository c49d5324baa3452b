----------------------------- MODULE MCDataLock -----------------------------
(* An instance of DataLock for TLC: two starts whose processes this machine    *)
(* can judge and one it cannot; every bound is a number of the configuration.  *)
EXTENDS DataLock
=============================================================================
