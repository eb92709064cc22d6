----------------------------- MODULE MCEventLoop ------------------------------
(* The instance of EventLoop for TLC: the smallest pool, either database.   *)
EXTENDS EventLoop

SqliteOrOracle == {"sqlite", "oracle"}
===============================================================================
