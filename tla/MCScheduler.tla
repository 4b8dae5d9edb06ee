---------------------------- MODULE MCScheduler ----------------------------
(* Small instances of Scheduler for TLC. *)
EXTENDS Scheduler

CONSTANTS main, probe

MCCallers == {main, probe}

(* cmd/server/main.go, with the readiness probe. *)
Server == [c \in MCCallers |->
  IF c = main THEN <<"Start", "Cancel", "Stop">> ELSE <<"IsRunning">>]

(* The service is stopped and started again before it is shut down. *)
Restart == [c \in MCCallers |->
  IF c = main THEN <<"Start", "Stop", "Start", "Cancel", "Stop">> ELSE <<"IsRunning">>]

(* Start and Stop are called from different goroutines. *)
Racing == [c \in MCCallers |->
  IF c = main THEN <<"Start", "Start", "Cancel">> ELSE <<"Stop">>]

AllPrograms == {Server, Restart, Racing}
OnlyRacing == {Racing}
=============================================================================
