--------------------------- MODULE RecorderProofs ---------------------------
(***************************************************************************)
(* What holds of Recorder for every set of tasks and all priorities.       *)
(***************************************************************************)
EXTENDS Recorder, TLAPS

-----------------------------------------------------------------------------
(* Type correctness                                                        *)

\* Every variable keeps its type, and a task that entered a hook stays there.
THEOREM TypeCorrect == Spec => []TypeOK
<1>1. Init => TypeOK
  <2> SUFFICES ASSUME Init PROVE TypeOK
    OBVIOUS
  <2>1. 0 \in 0..MaxStops
    BY MaxStopsAssumption
  <2>2. odr \in (SUBSET Lights) \union {NotToggling}
    BY DEF Init
  <2>3. \A t \in Tasks : pc[t] = "away" /\ depth[t] = 0
    BY DEF Init
  <2>4. pc \in [Tasks -> {"away"} \union LoggerStages \union CommandStages]
    BY DEF Init
  <2>5. depth \in [Tasks -> Nat]
    BY DEF Init
  <2>6. enabled \in BOOLEAN /\ halted \in BOOLEAN /\ stops \in 0..MaxStops
    BY <2>1 DEF Init
  <2>7. leds \subseteq Lights
    BY DEF Init
  <2>8. \A t \in Tasks : /\ pc[t] \in CommandStages => t = Shell
                         /\ depth[t] > 0 => pc[t] \in LoggerStages
    BY <2>3 DEF CommandStages
  <2> QED
    BY <2>2, <2>4, <2>5, <2>6, <2>7, <2>8 DEF TypeOK
<1>2. TypeOK /\ [Next]_vars => TypeOK'
  <2> SUFFICES ASSUME TypeOK, [Next]_vars PROVE TypeOK'
    OBVIOUS
  <2> USE TasksAssumption, MaxStopsAssumption DEF TypeOK, Goes, Lights,
        LoggerStages, CommandStages
  <2>1. ASSUME NEW t \in Tasks, Log(t) PROVE TypeOK'
    BY <2>1 DEF Log, led_vars
  <2>2. ASSUME NEW t \in Tasks, Check(t) PROVE TypeOK'
    BY <2>2 DEF Check, CheckedStage, AfterLogging, led_vars
  <2>3. ASSUME NEW t \in Tasks, PrintSucceeds(t) \/ PrintFails(t) PROVE TypeOK'
    <3>1. CASE PrintSucceeds(t)
      BY <3>1 DEF PrintSucceeds, AfterLogging, led_vars
    <3>2. CASE PrintFails(t)
      BY <3>2 DEF PrintFails, led_vars
    <3> QED
      BY <2>3, <3>1, <3>2
  <2>4. ASSUME NEW t \in Tasks, Fails(t) PROVE TypeOK'
    BY <2>4 DEF Fails, led_vars
  <2>5. ASSUME NEW t \in Tasks, Hook(t) PROVE TypeOK'
    BY <2>5 DEF Hook
  <2>6. ASSUME NEW t \in Tasks, Mask(t) PROVE TypeOK'
    BY <2>6 DEF Mask, log_vars, led_vars
  <2>7. CASE StackOverflowHook
    BY <2>7 DEF StackOverflowHook, log_vars
  <2>8. CASE \E stage \in {"start", "stop"} : Command(stage)
    BY <2>8 DEF Command, led_vars
  <2>9. CASE ShellStep
    <3>1. Shell \in Tasks
      OBVIOUS
    <3>2. CASE Start
      BY <3>1, <3>2 DEF Start, led_vars
    <3>3. CASE Disable
      <4>1. stops' \in 0..MaxStops
        BY <3>3 DEF Disable
      <4>2. PICK stage \in {"enable", "away"} : pc' = [pc EXCEPT ![Shell] = stage]
        BY <3>3 DEF Disable
      <4>3. depth[Shell] = 0
        BY <3>1, <3>3 DEF Disable
      <4>4. UNCHANGED <<depth, leds, odr, halted>> /\ enabled' = FALSE
        BY <3>3 DEF Disable, led_vars
      <4>5. pc' \in [Tasks -> {"away"} \union LoggerStages \union CommandStages]
        BY <3>1, <4>2
      <4>6. \A t \in Tasks : /\ pc'[t] \in CommandStages => t = Shell
                             /\ depth'[t] > 0 => pc'[t] \in LoggerStages
        BY <3>1, <4>2, <4>3, <4>4
      <4> QED
        BY <4>1, <4>4, <4>5, <4>6
    <3>4. CASE Enable
      BY <3>1, <3>4 DEF Enable, led_vars
    <3> QED
      BY <2>9, <3>2, <3>3, <3>4 DEF ShellStep
  <2>10. CASE HostStops \/ HostStarts
    <3>1. CASE HostStops
      <4>1. stops' \in 0..MaxStops
        BY <3>1 DEF HostStops
      <4>2. UNCHANGED <<pc, depth, leds, odr, halted>> /\ enabled' = FALSE
        BY <3>1 DEF HostStops, log_vars, led_vars
      <4> QED
        BY <4>1, <4>2
    <3>2. CASE HostStarts
      BY <3>2 DEF HostStarts, log_vars, led_vars
    <3> QED
      BY <2>10, <3>1, <3>2
  <2>11. CASE ReadPort \/ WritePin
    <3>1. CASE ReadPort
      BY <3>1 DEF ReadPort, log_vars
    <3>2. CASE WritePin
      <4>1. leds' \subseteq Lights
        BY <3>2 DEF WritePin, TogglePin
      <4>2. odr' = NotToggling /\ UNCHANGED <<enabled, pc, depth, halted, stops>>
        BY <3>2 DEF WritePin, log_vars
      <4> QED
        BY <4>1, <4>2
    <3> QED
      BY <2>11, <3>1, <3>2
  <2>12. CASE Can1Interrupt
    BY <2>12 DEF Can1Interrupt, log_vars
  <2>13. CASE UNCHANGED vars
    BY <2>13 DEF vars, log_vars, led_vars
  <2> QED
    BY <2>1, <2>2, <2>3, <2>4, <2>5, <2>6, <2>7, <2>8, <2>9, <2>10, <2>11,
       <2>12, <2>13 DEF Next, Environment, Step
<1> QED
  BY <1>1, <1>2, PTL DEF Spec

-----------------------------------------------------------------------------
(* Tasks of a higher priority than the shell                               *)

\* Their prints succeed: whoever stops the recorder runs only while they are
\* away.
THEOREM PrintsAboveTheShell == Spec => []CheckedPrintsSucceed
<1>1. Init => CheckedPrintsSucceed
  BY DEF Init, CheckedPrintsSucceed
<1>2. TypeOK /\ CheckedPrintsSucceed /\ [Next]_vars => CheckedPrintsSucceed'
  <2> SUFFICES ASSUME TypeOK, CheckedPrintsSucceed, [Next]_vars,
                      NEW u \in Tasks, Prio[u] > Prio[Shell], pc'[u] = "print"
               PROVE  enabled'
    BY DEF CheckedPrintsSucceed
  <2> USE TasksAssumption DEF TypeOK, Goes
  <2>1. enabled \/ pc[u] # "print"
    BY DEF CheckedPrintsSucceed
  <2>2. ASSUME NEW t \in Tasks, Log(t) \/ Fails(t) \/ Hook(t) PROVE enabled'
    BY <2>1, <2>2 DEF Log, Fails, Hook
  <2>3. ASSUME NEW t \in Tasks, Check(t) PROVE enabled'
    BY <2>1, <2>3 DEF Check, CheckedStage, AfterLogging
  <2>4. ASSUME NEW t \in Tasks, PrintSucceeds(t) \/ PrintFails(t) PROVE enabled'
    BY <2>1, <2>4 DEF PrintSucceeds, PrintFails, AfterLogging
  <2>5. CASE \E stage \in {"start", "stop"} : Command(stage)
    BY <2>1, <2>5 DEF Command
  <2>6. CASE Start
    BY <2>1, <2>6 DEF Start
  <2>7. CASE Disable
    <3>1. pc[u] = "away"
      BY <2>7 DEF Disable, Runs, Ready
    <3>2. pc[Shell] # "away"
      BY <2>7 DEF Disable
    <3> QED
      BY <2>7, <3>1, <3>2 DEF Disable
  <2>8. CASE HostStops
    <3>1. pc[u] = "away"
      BY <2>8, PrioAssumption DEF HostStops, Runs, Ready
    <3> QED
      BY <2>8, <3>1 DEF HostStops, log_vars
  <2>9. CASE Enable \/ HostStarts
    BY <2>9 DEF Enable, HostStarts
  <2>10. CASE \/ \E t \in Tasks : Mask(t)
              \/ StackOverflowHook \/ ReadPort \/ WritePin \/ Can1Interrupt
              \/ UNCHANGED vars
    <3>1. UNCHANGED <<enabled, pc>>
      BY <2>10 DEF Mask, StackOverflowHook, ReadPort, WritePin, Can1Interrupt,
                   vars, log_vars
    <3> QED
      BY <2>1, <3>1
  <2> QED
    BY <2>2, <2>3, <2>4, <2>5, <2>6, <2>7, <2>8, <2>9, <2>10
       DEF Next, Environment, Step, ShellStep
<1> QED
  BY <1>1, <1>2, TypeCorrect, PTL DEF Spec

\* When one of them enters a hook, it is the first time.
FirstHook == \A t \in Tasks : Prio[t] > Prio[Shell] =>
               /\ depth[t] <= 1
               /\ pc[t] = "hook" => depth[t] = 0

\* A hook that logs does not fail in its own logging.
LEMMA HooksDoNotNest == Spec => []FirstHook
<1>1. Init => FirstHook
  BY DEF Init, FirstHook
<1>2. TypeOK /\ CheckedPrintsSucceed /\ FirstHook /\ [Next]_vars => FirstHook'
  <2> SUFFICES ASSUME TypeOK, CheckedPrintsSucceed, FirstHook, [Next]_vars,
                      NEW u \in Tasks, Prio[u] > Prio[Shell]
               PROVE  depth'[u] <= 1 /\ (pc'[u] = "hook" => depth'[u] = 0)
    BY DEF FirstHook
  <2> USE TasksAssumption DEF TypeOK, Goes
  <2>1. depth[u] \in Nat /\ depth[u] <= 1 /\ (pc[u] = "hook" => depth[u] = 0)
    BY DEF FirstHook
  <2>2. ASSUME NEW t \in Tasks, Log(t) \/ Check(t) \/ PrintSucceeds(t)
        PROVE  UNCHANGED depth /\ (pc'[u] = "hook" => pc[u] = "hook")
    BY <2>2 DEF Log, Check, CheckedStage, PrintSucceeds, AfterLogging
  <2>3. ASSUME NEW t \in Tasks, PrintFails(t)
        PROVE  UNCHANGED depth /\ (pc'[u] = "hook" => pc[u] = "hook")
    BY <2>3 DEF PrintFails, CheckedPrintsSucceed
  <2>4. ASSUME NEW t \in Tasks, Fails(t)
        PROVE  UNCHANGED depth /\ (pc'[u] = "hook" => depth[u] = 0)
    <3>1. depth[t] = 0
      BY <2>4 DEF Fails, LoggerStages
    <3> QED
      BY <2>1, <2>4, <3>1 DEF Fails
  <2>5. ASSUME NEW t \in Tasks, Hook(t)
        PROVE  depth'[u] <= 1 /\ (pc'[u] = "hook" => depth'[u] = 0)
    <3>1. CASE u = t
      BY <2>1, <2>5, <3>1 DEF Hook
    <3>2. CASE u # t
      BY <2>1, <2>5, <3>2 DEF Hook
    <3> QED
      BY <3>1, <3>2
  <2>6. CASE (\E stage \in {"start", "stop"} : Command(stage)) \/ ShellStep
    <3>1. UNCHANGED depth /\ (pc'[u] = "hook" => pc[u] = "hook")
      BY <2>6 DEF Command, ShellStep, Start, Disable, Enable
    <3> QED
      BY <2>1, <3>1
  <2>7. CASE \/ \E t \in Tasks : Mask(t)
             \/ StackOverflowHook \/ HostStops \/ HostStarts \/ ReadPort
             \/ WritePin \/ Can1Interrupt \/ UNCHANGED vars
    <3>1. UNCHANGED <<pc, depth>>
      BY <2>7 DEF Mask, StackOverflowHook, HostStops, HostStarts, ReadPort,
                  WritePin, Can1Interrupt, vars, log_vars
    <3> QED
      BY <2>1, <3>1
  <2> QED
    BY <2>1, <2>2, <2>3, <2>4, <2>5, <2>6, <2>7 DEF Next, Environment, Step
<1> QED
  BY <1>1, <1>2, TypeCorrect, PrintsAboveTheShell, PTL DEF Spec

-----------------------------------------------------------------------------
(* Every task                                                              *)

\* A task is about to enter a hook once more only for a further stop.
FurtherHook == \A t \in Tasks :
                 /\ depth[t] <= 1 + stops
                 /\ pc[t] = "hook" => depth[t] <= stops
                 /\ pc[t] = "print" /\ ~enabled => depth[t] <= stops

\* No hook is called inside a hook above the shell, and elsewhere each such
\* call takes another stop.
THEOREM NestingBounded == Spec => []NestingIsBounded
<1>1. Init => FurtherHook
  BY DEF Init, FurtherHook
<1>2. TypeOK /\ FurtherHook /\ [Next]_vars => FurtherHook'
  <2> SUFFICES ASSUME TypeOK, FurtherHook, [Next]_vars, NEW u \in Tasks
               PROVE  /\ depth'[u] <= 1 + stops'
                      /\ pc'[u] = "hook" => depth'[u] <= stops'
                      /\ pc'[u] = "print" /\ ~enabled' => depth'[u] <= stops'
    BY DEF FurtherHook
  <2> DEFINE Goal == /\ depth'[u] <= 1 + stops'
                     /\ pc'[u] = "hook" => depth'[u] <= stops'
                     /\ pc'[u] = "print" /\ ~enabled' => depth'[u] <= stops'
  <2> USE TasksAssumption DEF TypeOK, Goes
  <2>1. /\ depth[u] \in Nat /\ stops \in Nat
        /\ depth[u] <= 1 + stops
        /\ pc[u] = "hook" => depth[u] <= stops
        /\ pc[u] = "print" /\ ~enabled => depth[u] <= stops
    BY MaxStopsAssumption DEF FurtherHook
  <2>2. ASSUME UNCHANGED <<depth, stops>>, enabled' \/ ~enabled,
               pc'[u] \in {"hook", "print"} => pc'[u] = pc[u]
        PROVE  Goal
    BY <2>1, <2>2
  <2>3. ASSUME NEW t \in Tasks, Log(t) \/ PrintSucceeds(t) PROVE Goal
    BY <2>2, <2>3 DEF Log, PrintSucceeds, AfterLogging
  <2>4. ASSUME NEW t \in Tasks, Check(t) PROVE Goal
    <3>1. UNCHANGED <<depth, stops, enabled>>
      BY <2>4 DEF Check
    <3>2. pc'[u] = "hook" => pc[u] = "hook"
      BY <2>4 DEF Check, CheckedStage, AfterLogging
    <3>3. pc'[u] = "print" /\ ~enabled => pc[u] = "print"
      BY <2>4 DEF Check, CheckedStage, AfterLogging
    <3> QED
      BY <2>1, <3>1, <3>2, <3>3
  <2>5. ASSUME NEW t \in Tasks, PrintFails(t) PROVE Goal
    <3>1. UNCHANGED <<depth, stops, enabled>> /\ ~enabled
      BY <2>5 DEF PrintFails
    <3>2. u = t => pc[u] = "print"
      BY <2>5 DEF PrintFails
    <3>3. u # t => pc'[u] = pc[u]
      BY <2>5 DEF PrintFails
    <3> QED
      BY <2>1, <3>1, <3>2, <3>3
  <2>6. ASSUME NEW t \in Tasks, Fails(t) PROVE Goal
    <3>1. UNCHANGED <<depth, stops, enabled>>
      BY <2>6 DEF Fails
    <3>2. u = t => depth[u] = 0
      BY <2>1, <2>6 DEF Fails, LoggerStages
    <3>3. u # t => pc'[u] = pc[u]
      BY <2>6 DEF Fails
    <3>4. u = t => pc'[u] = "hook"
      BY <2>6 DEF Fails
    <3> QED
      BY <2>1, <3>1, <3>2, <3>3, <3>4
  <2>7. ASSUME NEW t \in Tasks, Hook(t) PROVE Goal
    <3>1. UNCHANGED <<stops, enabled>>
      BY <2>7 DEF Hook
    <3>2. u = t => pc[u] = "hook" /\ pc'[u] = "check" /\ depth'[u] = depth[u] + 1
      BY <2>7 DEF Hook
    <3>3. u # t => pc'[u] = pc[u] /\ depth'[u] = depth[u]
      BY <2>7 DEF Hook
    <3> QED
      BY <2>1, <3>1, <3>2, <3>3
  <2>8. CASE (\E stage \in {"start", "stop"} : Command(stage)) \/ Start \/ Enable
    BY <2>2, <2>8 DEF Command, Start, Enable
  <2>9. CASE Disable \/ HostStops
    <3>1. stops' = stops + 1 /\ UNCHANGED depth
      BY <2>9 DEF Disable, HostStops, log_vars
    <3>2. pc'[u] \in {"hook", "print"} => pc'[u] = pc[u]
      BY <2>9 DEF Disable, HostStops, log_vars
    <3> QED
      BY <2>1, <3>1, <3>2
  <2>10. CASE \/ \E t \in Tasks : Mask(t)
              \/ StackOverflowHook \/ HostStarts \/ ReadPort
              \/ WritePin \/ Can1Interrupt \/ UNCHANGED vars
    <3>1. UNCHANGED <<pc, depth, stops>> /\ (enabled' \/ ~enabled)
      BY <2>10 DEF Mask, StackOverflowHook, HostStarts, ReadPort, WritePin,
                   Can1Interrupt, vars, log_vars
    <3> QED
      BY <2>2, <3>1
  <2> QED
    BY <2>3, <2>4, <2>5, <2>6, <2>7, <2>8, <2>9, <2>10
       DEF Next, Environment, Step, ShellStep
<1>3. FirstHook /\ FurtherHook => NestingIsBounded
  BY DEF FirstHook, FurtherHook, NestingIsBounded
<1> QED
  BY <1>1, <1>2, <1>3, TypeCorrect, HooksDoNotNest, PTL DEF Spec

-----------------------------------------------------------------------------
(* The lights                                                              *)

\* No step of anyone puts the red light out.
THEOREM RedNeverGoesOut == Spec => RedStaysLit
<1>1. [Next]_vars => [("red" \in leds) => ("red" \in leds')]_vars
  <2> SUFFICES ASSUME Next, "red" \in leds PROVE "red" \in leds'
    OBVIOUS
  <2>1. ASSUME NEW t \in Tasks,
               \/ Log(t) \/ Check(t) \/ PrintSucceeds(t) \/ PrintFails(t)
               \/ Fails(t) \/ Mask(t)
        PROVE  "red" \in leds'
    BY <2>1 DEF Log, Check, PrintSucceeds, PrintFails, Fails, Mask, led_vars
  <2>2. ASSUME NEW t \in Tasks, Hook(t) PROVE "red" \in leds'
    BY <2>2 DEF Hook, Lights
  <2>3. CASE StackOverflowHook
    BY <2>3 DEF StackOverflowHook, Lights
  <2>4. CASE \/ \E stage \in {"start", "stop"} : Command(stage)
             \/ ShellStep \/ HostStops \/ HostStarts \/ ReadPort
    BY <2>4 DEF Command, ShellStep, Start, Disable, Enable, HostStops,
                HostStarts, ReadPort, led_vars
  <2>5. CASE WritePin
    BY <2>5 DEF WritePin, TogglePin
  <2>6. CASE Can1Interrupt
    <3>1. PICK toggled \in {leds \union {"blue"}, leds \ {"blue"}} :
               leds' \in {toggled, toggled \union {"red"}}
      BY <2>6 DEF Can1Interrupt
    <3>2. "red" \in toggled
      BY <3>1
    <3> QED
      BY <3>1, <3>2
  <2> QED
    BY <2>1, <2>2, <2>3, <2>4, <2>5, <2>6, TasksAssumption
       DEF Next, Environment, Step
<1> QED
  BY <1>1, PTL DEF Spec, RedStaysLit
=============================================================================
