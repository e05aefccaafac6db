------------------------------ MODULE MCKernel ------------------------------
(* Three applications of two tasks beside the idle task: tasks that are       *)
(* created, suspended, delayed and given priorities while they run; tasks     *)
(* that wait for notifications and may be suspended meanwhile; notifications  *)
(* across priorities.                                                         *)
EXTENDS Kernel, TLC

CONSTANTS a, b, idle

MCTask == {a, b, idle}
MCEventLists == {}

Calls(ofA, ofB) == (a :> ofA) @@ (b :> ofB) @@ (idle :> {})
Waits == [t \in MCTask |-> {0, 2, 3}]
Both == <<<<a, 1>>, <<b, 1>>>>

Scheduling ==
  [boot |-> <<<<a, 1>>>>, delays |-> Waits, isr |-> {"xTaskResumeFromISR"},
   calls |-> Calls({"xTaskCreate", "vTaskDelay", "vTaskSuspendAll", "vTaskSuspend", "vTaskResume",
                    "vTaskPrioritySet", "xTaskCatchUpTicks"},
                   {"vTaskDelay", "xTaskDelayUntil", "vTaskSuspend", "taskYIELD"})]

Notifications ==
  [boot |-> Both, delays |-> Waits, isr |-> {"xTaskResumeFromISR", "xTaskGenericNotifyFromISR"},
   calls |-> Calls({"xTaskGenericNotify", "xTaskGenericNotifyStateClear", "vTaskSuspendAll",
                    "ulTaskGenericNotifyValueClear", "vTaskSuspend", "vTaskResume"},
                   {"ulTaskGenericNotifyTake", "xTaskGenericNotifyWait", "vTaskDelay"})]

Priority ==
  [boot |-> Both, delays |-> Waits, isr |-> {"xTaskGenericNotifyFromISR", "vTaskGenericNotifyGiveFromISR"},
   calls |-> Calls({"vTaskPrioritySet", "xTaskGenericNotify", "vTaskDelay"},
                   {"ulTaskGenericNotifyTake", "vTaskPrioritySet", "vTaskSuspendAll"})]

MCApps == {Scheduling, Notifications, Priority}
=============================================================================
