---------------------------- MODULE MCScheduler ----------------------------
(* The boot plan of the model-checking run of Scheduler.                    *)
EXTENDS SchedulerRoundRobin

\* gui_server and gui_user, as kernel_main creates them, another user process,
\* a fourth creation that runs out of frames half-way, a fifth that finds none at
\* all and a sixth that finds no thread slot
MainPlan == <<"kernel", "user", "user", "user", "user", "kernel">>
=============================================================================
