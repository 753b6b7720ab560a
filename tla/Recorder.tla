------------------------------ MODULE Recorder ------------------------------
(***************************************************************************)
(* Logging and its failures: src/src/logging.c, src/src/hooks.c and        *)
(* src/src/led.c, with the trace command of src/src/shell_cmds.c that      *)
(* stops the recorder under the tasks that log to it.                      *)
(*                                                                         *)
(* A logger asks whether the recorder is enabled, prints, and asserts that *)
(* the print succeeded.  A failed assertion enters vAssertCalled, which    *)
(* logs again before it disables interrupts for ever.                      *)
(*                                                                         *)
(* One core with fixed priorities, preemption and time slicing: a task     *)
(* runs only while no task of a higher priority is ready.                  *)
(***************************************************************************)
EXTENDS Integers, FiniteSets

CONSTANTS Tasks,     \* the tasks
          Prio,      \* their priorities
          Loggers,   \* those that log
          Shell,     \* the task "CLI"
          TzCtrl,    \* the control task of the recorder
          Timer,     \* the timer service task
          MaxStops   \* bound of the model: how often the recorder is stopped

ASSUME TasksAssumption == /\ Loggers \subseteq Tasks
                          /\ {Shell, TzCtrl, Timer} \subseteq Tasks
                          /\ Shell \notin Loggers
ASSUME PrioAssumption == Prio \in [Tasks -> Nat] /\ Prio[TzCtrl] = Prio[Shell]
ASSUME MaxStopsAssumption == MaxStops \in Nat

LoggerStages == {"check", "print", "hook", "mask"}
CommandStages == {"start", "restart", "enable", "stop"}
Lights == {"green", "blue", "red"}

VARIABLES
  enabled,  \* the recorder is enabled
  pc,       \* where each task is; "away" is anywhere but in this code
  depth,    \* how many calls of a hook the task is in
  leds,     \* the lights that are on
  odr,      \* what the timer callback read of the lights, in led_toggle
  halted,   \* interrupts are disabled for ever
  stops     \* history: how often the recorder was stopped

log_vars == <<pc, depth>>
led_vars == <<leds, odr>>
vars == <<enabled, log_vars, led_vars, halted, stops>>

NotToggling == {"not toggling"}

Init == /\ enabled = TRUE
        /\ pc = [t \in Tasks |-> "away"]
        /\ depth = [t \in Tasks |-> 0]
        /\ leds = {}
        /\ odr = NotToggling
        /\ halted = FALSE
        /\ stops = 0

-----------------------------------------------------------------------------
(* The scheduler                                                           *)

Ready(t) == pc[t] # "away" \/ (t = Timer /\ odr # NotToggling)

\* Mutation: the ready tasks take turns whatever their priorities.
RunsInTurn(t) == ~halted
Runs(t) == ~halted /\ \A u \in Tasks : Prio[u] > Prio[t] => ~Ready(u)

-----------------------------------------------------------------------------
(* logging_info, logging_warn, logging_error and log_task_stats            *)

Goes(t, stage) == pc' = [pc EXCEPT ![t] = stage]

\* Where a task goes on after it logged: its own business, or the end of the
\* hook that logged.
AfterLoggingReturns(t) == "away"  \* mutation
AfterLogging(t) == IF depth[t] = 0 THEN "away" ELSE "mask"

\* A task wakes up, at any time, and comes to a line that logs.
Log(t) == /\ ~halted
          /\ pc[t] = "away"
          /\ Goes(t, "check")
          /\ UNCHANGED <<enabled, depth, led_vars, halted, stops>>

\* xTraceIsRecorderEnabled() != 0
CheckedStageUnchecked(t) == "print"  \* mutation
CheckedStage(t) == IF enabled THEN "print" ELSE AfterLogging(t)

Check(t) == /\ Runs(t)
            /\ pc[t] = "check"
            /\ Goes(t, CheckedStage(t))
            /\ UNCHANGED <<enabled, depth, led_vars, halted, stops>>

\* xTraceVPrintF: TRC_SUCCESS is certain only of an enabled recorder.
PrintSucceeds(t) == /\ Runs(t)
                    /\ pc[t] = "print"
                    /\ Goes(t, AfterLogging(t))
                    /\ UNCHANGED <<enabled, depth, led_vars, halted, stops>>

\* configASSERT(tr == TRC_SUCCESS) fails.  A recorder that is enabled takes every
\* print: an assumption about TraceRecorder.
PrintFails(t) == /\ Runs(t)
                 /\ pc[t] = "print"
                 /\ ~enabled
                 /\ Goes(t, "hook")
                 /\ UNCHANGED <<enabled, depth, led_vars, halted, stops>>

-----------------------------------------------------------------------------
(* vAssertCalled and the hook of a failed allocation                       *)

\* Any other assertion, or an allocation, fails.
Fails(t) == /\ Runs(t)
            /\ pc[t] = "away"
            /\ ~(t = Timer /\ odr # NotToggling)
            /\ Goes(t, "hook")
            /\ UNCHANGED <<enabled, depth, led_vars, halted, stops>>

\* led_on(LED_ALL), and on to ERR whether the file name could be registered
\* or not
Hook(t) == /\ Runs(t)
           /\ pc[t] = "hook"
           /\ leds' = Lights
           /\ depth' = [depth EXCEPT ![t] = @ + 1]
           /\ Goes(t, "check")
           /\ UNCHANGED <<enabled, odr, halted, stops>>

\* taskDISABLE_INTERRUPTS(): nothing else runs, this task spins.
Mask(t) == /\ Runs(t)
           /\ pc[t] = "mask"
           /\ halted' = TRUE
           /\ UNCHANGED <<enabled, log_vars, led_vars, stops>>

\* The kernel calls this hook while it switches tasks: nothing comes between
\* its steps.
StackOverflowHook == /\ ~halted
                     /\ leds' = Lights
                     /\ halted' = TRUE
                     /\ UNCHANGED <<enabled, log_vars, odr, stops>>

-----------------------------------------------------------------------------
(* trace_cmd, and the commands of the host                                 *)

Command(stage) == /\ ~halted
                  /\ pc[Shell] = "away"
                  /\ Goes(Shell, stage)
                  /\ UNCHANGED <<enabled, depth, led_vars, halted, stops>>

\* "start" asks whether the recorder is enabled already.
Start == /\ Runs(Shell)
         /\ pc[Shell] = "start"
         /\ Goes(Shell, IF enabled THEN "restart" ELSE "enable")
         /\ UNCHANGED <<enabled, depth, led_vars, halted, stops>>

Disable == /\ Runs(Shell)
           /\ pc[Shell] \in {"restart", "stop"}
           /\ stops < MaxStops
           /\ enabled' = FALSE
           /\ stops' = stops + 1
           /\ Goes(Shell, IF pc[Shell] = "restart" THEN "enable" ELSE "away")
           /\ UNCHANGED <<depth, led_vars, halted>>

Enable == /\ Runs(Shell)
          /\ pc[Shell] = "enable"
          /\ enabled' = TRUE
          /\ Goes(Shell, "away")
          /\ UNCHANGED <<depth, led_vars, halted, stops>>

\* The control task obeys the host.
HostStops == /\ Runs(TzCtrl)
             /\ pc[TzCtrl] = "away"
             /\ stops < MaxStops
             /\ enabled' = FALSE
             /\ stops' = stops + 1
             /\ UNCHANGED <<log_vars, led_vars, halted>>

HostStarts == /\ Runs(TzCtrl)
              /\ pc[TzCtrl] = "away"
              /\ enabled' = TRUE
              /\ UNCHANGED <<log_vars, led_vars, halted, stops>>

-----------------------------------------------------------------------------
(* The lights                                                              *)

\* HAL_GPIO_TogglePin with what it read of the port writes the one pin.
TogglePinWhole(light) == IF light \in odr THEN odr \ {light}  \* mutation
                                          ELSE odr \union {light}
TogglePin(light) == IF light \in odr THEN leds \ {light}
                                     ELSE leds \union {light}

\* led_heartbeat_timer_cb: led_toggle reads the port,
ReadPort == /\ Runs(Timer)
            /\ pc[Timer] = "away"
            /\ odr = NotToggling
            /\ odr' = leds
            /\ UNCHANGED <<enabled, log_vars, leds, halted, stops>>

\* and writes the pin.
WritePin == /\ Runs(Timer)
            /\ odr # NotToggling
            /\ leds' = TogglePin("green")
            /\ odr' = NotToggling
            /\ UNCHANGED <<enabled, log_vars, halted, stops>>

\* can1_pending_cb: the interrupt toggles blue, and lights red for an error.
Can1Interrupt ==
  /\ ~halted
  /\ \E toggled \in {leds \union {"blue"}, leds \ {"blue"}} :
       /\ toggled # leds
       /\ leds' \in {toggled, toggled \union {"red"}}
  /\ UNCHANGED <<enabled, log_vars, odr, halted, stops>>

-----------------------------------------------------------------------------
ShellStep == Start \/ Disable \/ Enable

TimerStep == ReadPort \/ WritePin

Step(t) == \/ Check(t) \/ PrintSucceeds(t) \/ PrintFails(t)
           \/ Hook(t) \/ Mask(t)
           \/ t = Shell /\ ShellStep
           \/ t = Timer /\ WritePin

Environment == \/ \E t \in Loggers : Log(t)
               \/ \E t \in Tasks : Fails(t)
               \/ \E stage \in {"start", "stop"} : Command(stage)
               \/ StackOverflowHook
               \/ HostStops \/ HostStarts
               \/ ReadPort
               \/ Can1Interrupt

Next == Environment \/ \E t \in Tasks : Step(t)

Spec == Init /\ [][Next]_vars

\* A task that is ready runs in the end: those of higher priority are never
\* busy for ever.
FairSpec == Spec /\ \A t \in Tasks : SF_vars(Step(t))

-----------------------------------------------------------------------------
(* Properties                                                              *)

\* Every variable keeps its type, only the shell runs commands, and a task
\* that entered a hook never gets out of it again (hooks.c:75).
TypeOK == /\ enabled \in BOOLEAN
          /\ halted \in BOOLEAN
          /\ stops \in 0..MaxStops
          /\ pc \in [Tasks -> {"away"} \union LoggerStages \union CommandStages]
          /\ depth \in [Tasks -> Nat]
          /\ leds \subseteq Lights
          /\ odr \in (SUBSET Lights) \union {NotToggling}
          /\ \A t \in Tasks : /\ pc[t] \in CommandStages => t = Shell
                              /\ depth[t] > 0 => pc[t] \in LoggerStages

\* A task of a higher priority than the shell's is not interrupted by a stop
\* between the check and the print, so that its print succeeds
\* (logging.c:30-36, :44-50, :58-64).
CheckedPrintsSucceed ==
  \A t \in Tasks : Prio[t] > Prio[Shell] /\ pc[t] = "print" => enabled

\* A hook that logs does not fail in its own logging in these tasks, and in
\* any task each further call of the hook inside the hook takes another stop
\* of the recorder (hooks.c:60): the recursion of vAssertCalled through its
\* own logging is not unbounded.
NestingIsBounded ==
  \A t \in Tasks : depth[t] <= IF Prio[t] > Prio[Shell] THEN 1 ELSE 1 + stops

\* The red light that reports an error is never put out again, although the
\* timer and an interrupt write other pins of its port.
RedStaysLit == [][("red" \in leds) => ("red" \in leds')]_vars

\* A task that calls a hook brings the system to its halt.
HookReachesHalt == (\E t \in Tasks : depth[t] > 0) ~> halted
=============================================================================
