----------------------------- MODULE MCSysMode -----------------------------
(* Instances of SysMode for TLC. *)
EXTENDS SysMode

LongPress == 2
Debounce  == 1
ResetInputs == {"start", "reset_req", "seb_status", "seb_errinfo",
                "can_estop", "seb_comms", "hmi_pwr"}
StopInputs  == {"mushroom", "heartbeat", "hmi_mode", "lever", "task_deadline"}
ButtonInputs == {"start", "seb_status", "can_estop"}
RaceInputs  == {"hmi_mode", "can_estop", "task_deadline"}
=============================================================================
