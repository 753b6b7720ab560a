------------------------------ MODULE Startup ------------------------------
(***************************************************************************)
(* The start of the system, main() of src/src/main.c with the start        *)
(* functions of every task: what is created in which order, when           *)
(* interrupts are enabled, and what their handlers and the tasks need.     *)
(*                                                                         *)
(* A start function is the sequence of its steps.  A kernel object and the *)
(* task, timer, handle or peripheral a step provides go by one name.       *)
(***************************************************************************)
EXTENDS Naturals, Sequences, FiniteSets

CONSTANT TimerQueueLength  \* configTIMER_QUEUE_LENGTH

ASSUME TimerQueueAssumption == TimerQueueLength \in Nat

-----------------------------------------------------------------------------
(* Steps                                                                   *)

\* A step that nothing checks
Does(object) == <<[kind |-> "does", object |-> object]>>

\* A step whose result is asserted
Sets(object) == <<[kind |-> "sets", object |-> object]>>

\* A kernel object whose creation is asserted
Creates(object) == <<[kind |-> "creates", object |-> object]>>

\* xTimerStart without a wait, whose result nobody looks at
StartsTimer(timer) == <<[kind |-> "starts", object |-> timer]>>

\* NVIC_EnableIRQ
Arms(irq) == <<[kind |-> "arms", object |-> irq]>>

\* The peripheral may raise its interrupt from here on.
Listens(irq) == <<[kind |-> "listens", object |-> irq]>>

\* Lighting a LED, or logging to a channel
Uses(object) == <<[kind |-> "uses", object |-> object]>>

-----------------------------------------------------------------------------
(* The start functions                                                     *)

hw_init == Does("priority grouping")

configure_system_clock == Sets("oscillator") \o Sets("overdrive") \o Sets("clocks")

led_init == Does("leds")

StartLights == Uses("leds")

stats_timer_init == Sets("TIM2") \o Sets("TIM2 counting")

logging_init == Sets("info channel") \o Sets("warn channel")
                \o Sets("error channel")

init_uart == Arms("USART3") \o Does("USART3") \o Listens("USART3")

shell_cmds_register == Sets("trace command") \o Sets("ip command")

task_shell_start == init_uart \o shell_cmds_register
                    \o Creates("shell msgbuf") \o Creates("CLI")

task_worker0_start == Creates("worker0 queue") \o Creates("Worker0")

task_worker1_start == Creates("worker1 queue") \o Creates("Worker1")

ip_init == Uses("info channel") \o Sets("RNG") \o Creates("IP-task")

CanEthStartWithoutTimerStart ==  \* mutation
  Creates("frame queue") \o Creates("CAN_ETH") \o Creates("flush timer")
task_caneth_start ==
  Creates("frame queue") \o Creates("CAN_ETH")
  \o Creates("flush timer") \o StartsTimer("flush timer")

init_gpio == Does("trace pin")

CanInit(controller, callbacks) == Sets(controller) \o callbacks
                                  \o Sets("filter") \o Sets(controller)

InitCan1WithoutIrq ==  \* mutation
  CanInit("CAN1", Sets("pending callback") \o Sets("error callback"))
  \o Listens("CAN1_RX0")
\* The activation of the notification is asserted.
init_can1 ==
  Arms("CAN1_RX0")
  \o CanInit("CAN1", Sets("pending callback") \o Sets("error callback"))
  \o Listens("CAN1_RX0")

task_can1_start == Sets("trace ISR") \o init_gpio \o init_can1
                   \o Creates("can1 msgbuf") \o Creates("CAN1")

init_can2 == CanInit("CAN2", Sets("error callback"))

task_can2_start == init_can2 \o Creates("CAN2 task")

task_stats_start == Creates("Stats")

HeartbeatLight == Creates("heartbeat timer") \o StartsTimer("heartbeat timer")

\* xTraceEnable creates the control task of the recorder.
xTraceEnable == Creates("TzCtrl")

\* ERR, which is called only if there is a trace error, comes before its assertion.
DiagnosticsCheck == Sets("no diagnostics") \o Uses("error channel")
                    \o Sets("no trace error")

main == hw_init \o configure_system_clock
        \o led_init \o StartLights \o stats_timer_init
        \o xTraceEnable \o logging_init \o HeartbeatLight
        \o task_shell_start \o task_worker0_start \o task_worker1_start
        \o ip_init \o task_caneth_start \o task_can1_start
        \o task_can2_start \o task_stats_start
        \o DiagnosticsCheck \o Uses("info channel") \o StartLights

Irqs == {"USART3", "CAN1_RX0"}
Timers == {"heartbeat timer", "flush timer"}
Tasks == {"CLI", "Worker0", "Worker1", "CAN_ETH", "CAN1", "CAN2 task", "Stats"}

\* What the handlers, the tasks and the timer callbacks use
Needs(user) ==
  CASE user = "USART3"      -> {"shell msgbuf"}
    [] user = "CAN1_RX0"    -> {"trace ISR", "pending callback", "can1 msgbuf"}
    [] user = "CLI"         -> {"USART3", "shell msgbuf", "trace command",
                                "ip command"}
    [] user = "Worker0"     -> {"worker0 queue"}
    [] user = "Worker1"     -> {"worker1 queue"}
    [] user = "CAN_ETH"     -> {"IP-task", "frame queue"}
    [] user = "CAN1"        -> {"can1 msgbuf", "frame queue", "CAN_ETH",
                                "worker0 queue", "worker1 queue"}
    [] user = "CAN2 task"   -> {"CAN2"}
    [] user = "Stats"       -> {"TIM2 counting"}
    [] user = "flush timer" -> {"CAN_ETH"}
    [] user = "heartbeat timer" -> {"leds"}

-----------------------------------------------------------------------------
(* Interrupt priorities: a larger number is less urgent.                   *)

MaxSyscallPriority == 5  \* configLIBRARY_MAX_SYSCALL_INTERRUPT_PRIORITY

PriorityUrgent(irq) == IF irq = "CAN1_RX0" THEN 4 ELSE 15  \* mutation
Priority(irq) == 15

-----------------------------------------------------------------------------
VARIABLES
  pc,           \* the step main is at
  provided,     \* what the steps so far have provided
  armed,        \* interrupts enabled in the NVIC
  listening,    \* interrupts whose peripheral may raise them
  pending,      \* interrupts raised and not served
  masked,       \* the kernel masks interrupts up to its syscall priority
  timer_queue,  \* commands for the timer service task
  active,       \* timers that tick
  running,      \* the scheduler runs
  hook          \* where vAssertCalled is, "none" while no assertion failed

irq_vars == <<armed, listening, pending>>
timer_vars == <<timer_queue, active>>
vars == <<pc, provided, irq_vars, masked, timer_vars, running, hook>>

Init == /\ pc = 1
        /\ provided = {}
        /\ armed = {} /\ listening = {} /\ pending = {}
        /\ masked = FALSE
        /\ timer_queue = <<>> /\ active = {}
        /\ running = FALSE
        /\ hook = "none"

\* vAssertCalled does not return.
halted == hook # "none"

\* main is at a step of this kind.
At(kind) == /\ ~halted
            /\ pc \in DOMAIN main
            /\ main[pc].kind = kind

Object == main[pc].object

Goes == pc' = pc + 1 /\ UNCHANGED <<running, hook>>

Provide == /\ At("does") \/ At("sets")
           /\ provided' = provided \union {Object}
           /\ Goes
           /\ UNCHANGED <<irq_vars, masked, timer_vars>>

Use == At("uses") /\ Goes /\ UNCHANGED <<provided, irq_vars, masked, timer_vars>>

\* The first critical section masks interrupts, and no end of one unmasks
\* them before the scheduler starts: the nesting count starts high.
KernelCall == masked' = TRUE

Create == /\ At("creates")
          /\ provided' = provided \union {Object}
          /\ KernelCall
          /\ Goes
          /\ UNCHANGED <<irq_vars, timer_vars>>

StartTimer == /\ At("starts")
              /\ timer_queue' = IF Len(timer_queue) < TimerQueueLength
                                  THEN Append(timer_queue, Object)
                                  ELSE timer_queue
              /\ KernelCall
              /\ Goes
              /\ UNCHANGED <<provided, irq_vars, active>>

Arm == /\ At("arms")
       /\ armed' = armed \union {Object}
       /\ Goes
       /\ UNCHANGED <<provided, listening, pending, masked, timer_vars>>

Listen == /\ At("listens")
          /\ listening' = listening \union {Object}
          /\ Goes
          /\ UNCHANGED <<provided, armed, pending, masked, timer_vars>>

-----------------------------------------------------------------------------
(* vAssertCalled, which main calls on its own stack; pc stays at the step  *)
(* that failed.                                                            *)

Hooks(stage) == /\ hook' = stage
                /\ UNCHANGED <<pc, provided, irq_vars, timer_vars, running>>

Asserted == \/ At("sets") \/ At("creates")
            \/ At("listens") /\ Object = "CAN1_RX0"

\* configASSERT fails; or the allocation before it, whose hook takes the same
\* steps as vAssertCalled.
Fail == Asserted /\ Hooks("lights") /\ UNCHANGED masked

\* The step that failed is one of these.
FailsIn(steps) == \E i \in DOMAIN steps : steps[i] = main[pc]

\* xTraceEnable turns the recorder on; it may have done so if it fails.
RecorderMayBeOn == "TzCtrl" \in provided \/ FailsIn(xTraceEnable)

\* led_on(LED_ALL), and the file name registered or not
HookLights == hook = "lights" /\ Hooks("log") /\ UNCHANGED masked

\* ERR.  A print to a channel that is not registered may fail, and then calls
\* vAssertCalled in turn.
HookLogs == /\ hook = "log"
            /\ \/ Hooks("mask")
               \/ /\ RecorderMayBeOn
                  /\ "error channel" \notin provided
                  /\ Hooks("lights")
            /\ UNCHANGED masked

\* taskDISABLE_INTERRUPTS
HookMasks == hook = "mask" /\ Hooks("print") /\ masked' = TRUE

\* task_shell_unsafe_printf, then a loop without end
HookPrints == hook = "print" /\ Hooks("spin") /\ UNCHANGED masked

HookStep == HookLights \/ HookLogs \/ HookMasks \/ HookPrints

-----------------------------------------------------------------------------
(* The scheduler, the interrupts and the timer service task                *)

\* The first task is started with interrupts enabled.
vTaskStartScheduler == /\ ~halted
                       /\ ~running
                       /\ pc = Len(main) + 1
                       /\ running' = TRUE
                       /\ masked' = FALSE
                       /\ UNCHANGED <<pc, provided, irq_vars, timer_vars, hook>>

\* A character or a frame arrives.
Raise(irq) == /\ irq \in listening
              /\ pending' = pending \union {irq}
              /\ UNCHANGED <<pc, provided, armed, listening, masked, timer_vars,
                             running, hook>>

Servable(irq) == /\ irq \in armed \intersect pending
                 /\ ~(masked /\ Priority(irq) >= MaxSyscallPriority)

Serve(irq) == /\ Servable(irq)
              /\ pending' = pending \ {irq}
              /\ UNCHANGED <<pc, provided, armed, listening, masked, timer_vars,
                             running, hook>>

\* The timer service task takes its commands.
ProcessTimerCommand == /\ running
                       /\ timer_queue # <<>>
                       /\ active' = active \union {Head(timer_queue)}
                       /\ timer_queue' = Tail(timer_queue)
                       /\ UNCHANGED <<pc, provided, irq_vars, masked, running,
                                      hook>>

MainStep == Provide \/ Use \/ Create \/ StartTimer \/ Arm \/ Listen

Next == \/ MainStep \/ Fail \/ HookStep \/ vTaskStartScheduler
        \/ \E irq \in Irqs : Raise(irq) \/ Serve(irq)
        \/ ProcessTimerCommand

Spec == Init /\ [][Next]_vars

\* The processor goes on, serves interrupts, and runs its highest task.
Fairness == /\ WF_vars(MainStep \/ Fail \/ HookStep)
            /\ WF_vars(vTaskStartScheduler)
            /\ \A irq \in Irqs : WF_vars(Serve(irq))
            /\ WF_vars(ProcessTimerCommand)

FairSpec == Spec /\ Fairness

-----------------------------------------------------------------------------
(* Properties                                                              *)

\* No interrupt is served before what its handler uses is created, although
\* both are enabled before.
HandlersFindTheirs ==
  \A irq \in Irqs : Servable(irq) => Needs(irq) \subseteq provided

\* When the scheduler starts, every task and every timer is there with all that
\* it or its callback uses.
TasksFindTheirs ==
  running => \A user \in Tasks \union Timers :
               user \in provided /\ Needs(user) \subseteq provided

\* main itself lights LEDs that are set up and logs to registered channels.
MainFindsItsOwn == At("uses") => Object \in provided

\* vAssertCalled finds the LEDs, the error channel if the recorder is on, and
\* the UART, but for what the order of main makes impossible: the clocks fail
\* before led_init, the recorder and the channels before the error channel is
\* registered, and these, the timers' clock and the first timer before
\* init_uart.
StepsBeforeUart == configure_system_clock \o stats_timer_init \o xTraceEnable
                   \o logging_init \o HeartbeatLight
HookFindsItsMeans ==
  /\ hook = "lights" => "leds" \in provided \/ FailsIn(configure_system_clock)
  /\ hook = "log" /\ RecorderMayBeOn =>
       "error channel" \in provided \/ FailsIn(xTraceEnable \o logging_init)
  /\ hook = "print" => "USART3" \in provided \/ FailsIn(StepsBeforeUart)

\* Nobody uses what is not there yet, although the order of creation is
\* spread over ten files (task_can1.c:45-47, task_shell.c:53-57): no interrupt,
\* no task, no timer callback, not main, and not the assertion hook, whose
\* exceptions HookFindsItsMeans names.
ObjectsExistWhenUsed ==
  HandlersFindTheirs /\ TasksFindTheirs /\ MainFindsItsOwn /\ HookFindsItsMeans

\* Both timers tick in the end, although nobody looks at the result of
\* starting them (main.c:51, task_caneth.c:62).
TimersTick == <>(halted \/ active = Timers)

\* An interrupt raised during the start is served in the end, unless an
\* assertion fails.
InterruptsAreServed ==
  \A irq \in Irqs : irq \in pending ~> (halted \/ irq \notin pending)
=============================================================================
