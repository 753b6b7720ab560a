------------------------------- MODULE Stats -------------------------------
(***************************************************************************)
(* The task that logs run times, src/src/task_stats.c, with the timer that *)
(* measures them, src/src/stats_timer.c.                                   *)
(*                                                                         *)
(* Twice a second it asks the kernel how many tasks there are, then for    *)
(* the state of that many, finds or allocates the slot of each task in a   *)
(* table, and logs how much its counter and the clock went on since the    *)
(* sample before.  The counters have a fixed width and wrap.               *)
(*                                                                         *)
(* Times are kept unwrapped; Wrapped is what the code sees of them.        *)
(***************************************************************************)
EXTENDS Integers, FiniteSets

CONSTANTS Tasks,         \* the tasks there will be
          LateTasks,     \* those that are created while the system runs
          NoTask,        \* NULL
          MaxTasks,      \* MAX_TASKS
          W,             \* values of an unsigned long
          ClockFloor,    \* the 100 of total_runtime / 100
          MaxClock       \* bound of the model: time

ASSUME TasksAssumption == /\ LateTasks \subseteq Tasks
                          /\ NoTask \notin Tasks
                          /\ IsFiniteSet(Tasks)
                          /\ Cardinality(Tasks) <= MaxTasks
ASSUME SizesAssumption == /\ W \in Nat \ {0, 1}
                          /\ {MaxTasks, ClockFloor} \subseteq Nat \ {0}
                          /\ MaxClock \in Nat

VARIABLES
  created,      \* the tasks that exist
  clock,        \* the count of TIM2
  run_time,     \* the time each task has run
  stats_pc,     \* "delay", "count" taken, "loop", or "assert" failed
  num_tasks,    \* the local of stats_task
  pending,      \* entries of g_task_stats the loop has not come to
  g_task_state, \* the table of slots
  g_last_total_runtime,
  sample,       \* g_task_stats: the run times of the last sample
  total,        \* total_runtime: the clock of the last sample
  before,       \* history: the run times of the sample before,
  total_before, \* history: and the clock
  logged        \* history: what the last sample logged of each task

kernel_vars == <<created, clock, run_time>>
slot_vars == <<g_task_state, g_last_total_runtime>>
sample_vars == <<sample, total>>
history_vars == <<before, total_before, logged>>
vars == <<kernel_vars, stats_pc, num_tasks, pending, slot_vars, sample_vars,
          history_vars>>

Slots == 1..MaxTasks
Nothing == [t \in Tasks |-> 0]
NotLogged == [t \in Tasks |-> <<>>]

Init == /\ created = Tasks \ LateTasks
        /\ clock = 0
        /\ run_time = Nothing
        /\ stats_pc = "delay"
        /\ num_tasks = 0
        /\ pending = {}
        /\ g_task_state = [i \in Slots |->
                             [task |-> NoTask, last_runtime_counter |-> 0]]
        /\ g_last_total_runtime = 0
        /\ sample = Nothing /\ total = 0
        /\ before = Nothing /\ total_before = 0
        /\ logged = NotLogged

-----------------------------------------------------------------------------
(* The kernel                                                              *)

Wrapped(time) == time % W

\* Subtraction of unsigned longs
Difference(a, b) == IF a >= b THEN a - b ELSE a - b + W

\* stats_timer_init lets TIM2 count freely; a sample is taken long before it
\* comes round.
ClockCounts == /\ stats_pc # "assert"
               /\ clock < MaxClock
               /\ clock + 1 - total < W
               /\ clock' = clock + 1
               /\ UNCHANGED <<created, run_time, stats_pc, num_tasks, pending,
                              slot_vars, sample_vars, history_vars>>

\* A task is switched out: the kernel adds the time it had the processor.
TaskRuns(t) == /\ stats_pc # "assert"
               /\ t \in created
               /\ run_time[t] < clock
               /\ run_time[t] + 1 - sample[t] < W
               /\ run_time' = [run_time EXCEPT ![t] = @ + 1]
               /\ UNCHANGED <<created, clock, stats_pc, num_tasks, pending,
                              slot_vars, sample_vars, history_vars>>

\* The IP task, of higher priority, creates the task of the Ethernet driver.
TaskIsCreated(t) == /\ stats_pc # "assert"
                    /\ t \notin created
                    /\ created' = created \union {t}
                    /\ UNCHANGED <<clock, run_time, stats_pc, num_tasks, pending,
                                   slot_vars, sample_vars, history_vars>>

-----------------------------------------------------------------------------
(* stats_task                                                              *)

\* uxTaskGetNumberOfTasks
GetNumberOfTasks == /\ stats_pc = "delay"
                    /\ num_tasks' = Cardinality(created)
                    /\ num_tasks' <= MaxTasks
                    /\ stats_pc' = "count"
                    /\ UNCHANGED <<kernel_vars, pending, slot_vars, sample_vars,
                                   history_vars>>

\* uxTaskGetSystemState fills the array if it has room for every task.
GetSystemState == /\ stats_pc = "count"
                  /\ Cardinality(created) <= num_tasks
                  /\ num_tasks' = Cardinality(created)
                  /\ pending' = created
                  /\ sample' = run_time /\ before' = sample
                  /\ total' = clock /\ total_before' = total
                  /\ logged' = NotLogged
                  /\ stats_pc' = "loop"
                  /\ UNCHANGED <<kernel_vars, slot_vars>>

\* It returns 0: configASSERT(num_tasks != 0) halts the system.
SystemStateHasNoRoom == /\ stats_pc = "count"
                        /\ Cardinality(created) > num_tasks
                        /\ num_tasks' = 0
                        /\ stats_pc' = "assert"
                        /\ UNCHANGED <<kernel_vars, pending, slot_vars,
                                       sample_vars, history_vars>>

\* task_state: the slot of the task, or else the first free one
SlotsOf(t) == {i \in Slots : g_task_state[i].task = t}

First(slots) == CHOOSE i \in slots : \A j \in slots : i <= j

\* Mutation: a slot is allocated without a look for the one there is.
CandidatesFresh(t) == SlotsOf(NoTask)
Candidates(t) == IF SlotsOf(t) # {} THEN SlotsOf(t) ELSE SlotsOf(NoTask)

\* log_task_stats, if the clock is not near zero and the recorder is enabled
Logs(t) ==
  /\ Wrapped(total) \div ClockFloor # 0
  /\ LET slot == First(Candidates(t))
         last == g_task_state[slot].last_runtime_counter
     IN  logged' = [logged EXCEPT ![t] =
           <<Difference(Wrapped(sample[t]), last),
             Difference(Wrapped(total), g_last_total_runtime)>>]

\* What the slot keeps of this sample
LastCounterIfLogged(t, slot) ==  \* mutation
  IF logged'[t] # <<>> THEN Wrapped(sample[t])
                       ELSE g_task_state[slot].last_runtime_counter
LastCounter(t, slot) == Wrapped(sample[t])

\* The loop body.  configASSERT(state != NULL): without a slot it halts.
SampleTask(t) ==
  /\ stats_pc = "loop"
  /\ t \in pending
  /\ Candidates(t) # {}
  /\ Logs(t) \/ UNCHANGED logged
  /\ LET slot == First(Candidates(t))
     IN  g_task_state' = [g_task_state EXCEPT ![slot] =
           [task |-> t, last_runtime_counter |-> LastCounter(t, slot)]]
  /\ pending' = pending \ {t}
  /\ UNCHANGED <<kernel_vars, stats_pc, num_tasks, g_last_total_runtime,
                 sample_vars, before, total_before>>

EndOfSample == /\ stats_pc = "loop"
               /\ pending = {}
               /\ g_last_total_runtime' = Wrapped(total)
               /\ stats_pc' = "delay"
               /\ UNCHANGED <<kernel_vars, num_tasks, pending, g_task_state,
                              sample_vars, history_vars>>

-----------------------------------------------------------------------------
stats_task == \/ GetNumberOfTasks \/ GetSystemState \/ SystemStateHasNoRoom
              \/ \E t \in Tasks : SampleTask(t)
              \/ EndOfSample

Next == \/ ClockCounts
        \/ \E t \in Tasks : TaskRuns(t) \/ TaskIsCreated(t)
        \/ stats_task

Spec == Init /\ [][Next]_vars

-----------------------------------------------------------------------------
(* Properties                                                              *)

\* Every variable keeps its type; times do not run backwards from one sample
\* to the next, and less than one round of the counters lies between two.
TypeOK == /\ created \subseteq Tasks
          /\ {clock, total, total_before, num_tasks} \subseteq Nat
          /\ run_time \in [Tasks -> Nat]
          /\ sample \in [Tasks -> Nat]
          /\ before \in [Tasks -> Nat]
          /\ stats_pc \in {"delay", "count", "loop", "assert"}
          /\ pending \subseteq created
          /\ g_task_state \in [Slots -> [task : Tasks \union {NoTask},
                                         last_runtime_counter : 0..(W - 1)]]
          /\ g_last_total_runtime \in 0..(W - 1)
          /\ total - total_before \in 0..(W - 1)
          /\ clock - total \in 0..(W - 1)
          /\ \A t \in Tasks : /\ sample[t] - before[t] \in 0..(W - 1)
                              /\ run_time[t] - sample[t] \in 0..(W - 1)

\* What is logged of a task is how long it ran, and how much time went by,
\* since the sample before: whether that one was logged or not, whether the
\* counters wrapped, and whichever slot the task has (task_stats.c:94-100).
LoggedDeltasAreTrue ==
  \A t \in Tasks :
    logged[t] # <<>> =>
      logged[t] = <<sample[t] - before[t], total - total_before>>

\* No task has two slots, so that none meets a stale counter of its own.
OneSlotPerTask ==
  \A i, j \in Slots :
    /\ g_task_state[i].task = g_task_state[j].task
    /\ g_task_state[i].task # NoTask
    => i = j

\* The assertion that a slot is found for each task holds (task_stats.c:138).
SlotIsFound == stats_pc = "loop" => \A t \in pending : Candidates(t) # {}
=============================================================================
