---- MODULE MCSockTest ----
(* An instance of SockTest for TLC: every program of every tool.             *)
EXTENDS SockTestProperties

EveryProgram == DOMAIN AllPrograms
====
