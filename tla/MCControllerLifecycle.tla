------------------------ MODULE MCControllerLifecycle ------------------------
(* Instances of ControllerLifecycle for TLC. *)
EXTENDS ControllerLifecycle

CONSTANTS task_controller, controller, worker

MCNames == {can_daemon, task_controller, dashboard}
MCThreads == {controller, worker}
MCSupervisorOf == [t \in Threads |-> t]

\* processes.yaml: start_order 0, 30, 99 and stop_order 70, 99, 100.
MCStartOrder == <<can_daemon, task_controller, dashboard>>
MCStopOrder == <<task_controller, dashboard, can_daemon>>

\* The segment mit_command.
MCOpeners == {task_controller}

MCFragile == {task_controller}
=============================================================================
