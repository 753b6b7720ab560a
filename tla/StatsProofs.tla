---------------------------- MODULE StatsProofs ----------------------------
(***************************************************************************)
(* What holds of Stats for every set of tasks, table of slots and width of *)
(* the counters.                                                           *)
(***************************************************************************)
EXTENDS Stats, SharedLemmas, FiniteSetTheorems, TLAPS

-----------------------------------------------------------------------------
(* Operators                                                               *)

\* First takes a slot of those it is given.
LEMMA FirstIsOne ==
  ASSUME NEW slots, slots \subseteq Slots, slots # {}
  PROVE  First(slots) \in slots
<1>1. slots \subseteq Nat
  BY SizesAssumption DEF Slots
<1>2. \E i \in slots : \A j \in slots : i <= j
  BY <1>1, SmallestExists
<1> QED
  BY <1>2 DEF First

\* A number is a multiple of W and its remainder.
LEMMA Division ==
  ASSUME NEW a \in Nat, NEW q \in Nat, NEW r \in Nat, q = a \div W, r = a % W
  PROVE  a = q * W + r
BY SizesAssumption

LEMMA Remainder ==
  ASSUME NEW a \in Nat
  PROVE  \E q \in Nat : a = q * W + Wrapped(a) /\ Wrapped(a) \in 0..(W - 1)
<1>1. W \in Nat /\ W > 0
  BY SizesAssumption
<1>2. PICK q \in Nat : q = a \div W
  BY <1>1
<1>3. a % W \in 0..(W - 1)
  BY <1>1
<1>4. PICK r \in Nat : r = a % W
  BY <1>1, <1>3
<1>5. a = q * W + r
  BY <1>2, <1>4, Division
<1> QED
  BY <1>3, <1>4, <1>5 DEF Wrapped

\* The difference of two wrapped times less than one round apart is that of
\* the times.
LEMMA DifferenceIsTrue ==
  ASSUME NEW a \in Nat, NEW b \in Nat, a - b \in 0..(W - 1)
  PROVE  Difference(Wrapped(a), Wrapped(b)) = a - b
<1>1. PICK q \in Nat : a = q * W + Wrapped(a) /\ Wrapped(a) \in 0..(W - 1)
  BY Remainder
<1>2. PICK r \in Nat : b = r * W + Wrapped(b) /\ Wrapped(b) \in 0..(W - 1)
  BY Remainder
<1>3. W \in Nat /\ W > 0
  BY SizesAssumption
<1> DEFINE k == q - r
<1>4. k \in Int /\ k * W = q * W - r * W
  BY <1>3
<1>5. k * W < 2 * W /\ k * W > -W
  BY <1>1, <1>2, <1>3, <1>4
<1>6. k = 0 \/ k = 1
  <2> HIDE DEF k
  <2>1. k >= 2 => k * W >= 2 * W
    BY <1>3, <1>4
  <2>2. k <= -1 => k * W <= -W
    BY <1>3, <1>4
  <2> QED
    BY <1>3, <1>4, <1>5, <2>1, <2>2
<1>7. CASE k = 0
  BY <1>1, <1>2, <1>3, <1>4, <1>7 DEF Difference
<1>8. CASE k = 1
  BY <1>1, <1>2, <1>3, <1>4, <1>8 DEF Difference
<1> QED
  BY <1>6, <1>7, <1>8

LEMMA WrappedType ==
  ASSUME NEW a \in Nat
  PROVE  Wrapped(a) \in 0..(W - 1)
BY Remainder

\* The slot a task is given is a slot: its own, or a free one.
LEMMA CandidateSlot ==
  ASSUME NEW t \in Tasks, Candidates(t) # {}
  PROVE  /\ First(Candidates(t)) \in Slots
         /\ IF SlotsOf(t) # {}
              THEN g_task_state[First(Candidates(t))].task = t
              ELSE g_task_state[First(Candidates(t))].task = NoTask
<1>1. Candidates(t) \subseteq Slots
  BY DEF Candidates, SlotsOf
<1>2. First(Candidates(t)) \in Candidates(t)
  BY <1>1, FirstIsOne
<1> QED
  BY <1>1, <1>2 DEF Candidates, SlotsOf

-----------------------------------------------------------------------------
(* Type correctness                                                        *)

\* Every variable keeps its type, and less than one round of the counters
\* lies between two samples.
THEOREM TypeCorrect == Spec => []TypeOK
<1> DEFINE SlotType == [task : Tasks \union {NoTask},
                        last_runtime_counter : 0..(W - 1)]
<1>0. W \in Nat /\ W > 1 /\ 0 \in 0..(W - 1)
  BY SizesAssumption
<1>1. Init => TypeOK
  BY <1>0 DEF Init, TypeOK, Nothing
<1>2. TypeOK /\ [Next]_vars => TypeOK'
  <2> SUFFICES ASSUME TypeOK, [Next]_vars PROVE TypeOK'
    OBVIOUS
  <2> USE <1>0 DEF TypeOK
  <2>1. CASE ClockCounts
    <3>1. clock' \in Nat /\ clock' - total \in 0..(W - 1)
      BY <2>1 DEF ClockCounts
    <3> QED
      BY <2>1, <3>1 DEF ClockCounts, slot_vars, sample_vars, history_vars
  <2>2. ASSUME NEW t \in Tasks, TaskRuns(t) PROVE TypeOK'
    <3>1. run_time[t] + 1 - sample[t] \in 0..(W - 1)
      BY <2>2 DEF TaskRuns
    <3>2. run_time' \in [Tasks -> Nat]
      BY <2>2 DEF TaskRuns
    <3>3. \A u \in Tasks : run_time'[u] - sample[u] \in 0..(W - 1)
      BY <2>2, <3>1 DEF TaskRuns
    <3> QED
      BY <2>2, <3>2, <3>3 DEF TaskRuns, slot_vars, sample_vars, history_vars
  <2>3. ASSUME NEW t \in Tasks, TaskIsCreated(t) PROVE TypeOK'
    BY <2>3 DEF TaskIsCreated, slot_vars, sample_vars, history_vars
  <2>4. Cardinality(created) \in Nat
    BY TasksAssumption, FS_Subset, FS_CardinalityType
  <2>5. CASE GetNumberOfTasks
    BY <2>4, <2>5 DEF GetNumberOfTasks, kernel_vars, slot_vars, sample_vars,
                      history_vars
  <2>6. CASE GetSystemState
    <3>1. /\ \A t \in Tasks : /\ sample'[t] - before'[t] \in 0..(W - 1)
                              /\ run_time'[t] - sample'[t] \in 0..(W - 1)
          /\ total' - total_before' \in 0..(W - 1)
          /\ clock' - total' \in 0..(W - 1)
      BY <2>6 DEF GetSystemState, kernel_vars
    <3> QED
      BY <2>4, <2>6, <3>1 DEF GetSystemState, kernel_vars, slot_vars
  <2>7. CASE SystemStateHasNoRoom
    BY <2>7 DEF SystemStateHasNoRoom, kernel_vars, slot_vars, sample_vars,
                history_vars
  <2>8. ASSUME NEW t \in Tasks, SampleTask(t) PROVE TypeOK'
    <3>1. First(Candidates(t)) \in Slots
      BY <2>8, CandidateSlot DEF SampleTask
    <3>2. Wrapped(sample[t]) \in 0..(W - 1)
      BY WrappedType
    <3>3. g_task_state' \in [Slots -> SlotType]
      BY <2>8, <3>1, <3>2 DEF SampleTask, LastCounter
    <3>4. pending' \subseteq created'
      BY <2>8 DEF SampleTask, kernel_vars
    <3> QED
      BY <2>8, <3>3, <3>4 DEF SampleTask, kernel_vars, sample_vars
  <2>9. CASE EndOfSample
    BY <2>9, WrappedType DEF EndOfSample, kernel_vars, sample_vars, history_vars
  <2>10. CASE UNCHANGED vars
    BY <2>10 DEF vars, kernel_vars, slot_vars, sample_vars, history_vars
  <2> QED
    BY <2>1, <2>2, <2>3, <2>5, <2>6, <2>7, <2>8, <2>9, <2>10
       DEF Next, stats_task
<1> QED
  BY <1>1, <1>2, PTL DEF Spec

-----------------------------------------------------------------------------
(* The table of slots                                                      *)

\* A step that leaves the table alone, or gives a task the slot of its own or
\* a free one when it has none, gives no task a second slot.
LEMMA OneSlotStep == TypeOK /\ OneSlotPerTask /\ [Next]_vars => OneSlotPerTask'
<1> SUFFICES ASSUME TypeOK, OneSlotPerTask, [Next]_vars PROVE OneSlotPerTask'
  OBVIOUS
<1>1. ASSUME NEW t \in Tasks, SampleTask(t) PROVE OneSlotPerTask'
  <2> DEFINE slot == First(Candidates(t))
  <2>1. /\ slot \in Slots
        /\ IF SlotsOf(t) # {} THEN g_task_state[slot].task = t
                              ELSE g_task_state[slot].task = NoTask
    BY <1>1, CandidateSlot DEF SampleTask
  <2>2. \A i \in Slots : g_task_state'[i].task =
                           IF i = slot THEN t ELSE g_task_state[i].task
    BY <1>1, <2>1 DEF SampleTask, TypeOK
  <2>3. \A i \in Slots : g_task_state[i].task = t => i = slot
    <3>1. CASE SlotsOf(t) = {}
      BY <3>1 DEF SlotsOf
    <3>2. CASE SlotsOf(t) # {}
      BY <2>1, <3>2, TasksAssumption DEF OneSlotPerTask
    <3> QED
      BY <3>1, <3>2
  <2> HIDE DEF slot
  <2> QED
    BY <2>1, <2>2, <2>3 DEF OneSlotPerTask
<1>2. CASE UNCHANGED g_task_state
  BY <1>2 DEF OneSlotPerTask
<1> QED
  BY <1>1, <1>2 DEF Next, stats_task, ClockCounts, TaskRuns, TaskIsCreated,
     GetNumberOfTasks, GetSystemState, SystemStateHasNoRoom, EndOfSample,
     slot_vars, vars

\* No task ever has two slots.
THEOREM OneSlot == Spec => []OneSlotPerTask
<1>1. Init => OneSlotPerTask
  BY DEF Init, OneSlotPerTask
<1> QED
  BY <1>1, OneSlotStep, TypeCorrect, PTL DEF Spec

\* There are as many slots as tasks at least: a task without one finds one
\* that is free.
LEMMA EnoughSlots == TypeOK /\ OneSlotPerTask => SlotIsFound
<1> SUFFICES ASSUME TypeOK, OneSlotPerTask, NEW t \in Tasks, Candidates(t) = {}
             PROVE  FALSE
  BY DEF SlotIsFound, TypeOK
<1>1. SlotsOf(t) = {} /\ SlotsOf(NoTask) = {}
  BY DEF Candidates
<1> DEFINE owner == [i \in Slots |-> g_task_state[i].task]
<1>2. owner \in [Slots -> Tasks \ {t}]
  BY <1>1 DEF SlotsOf, TypeOK
<1>3. IsFiniteSet(Slots) /\ Cardinality(Slots) = MaxTasks
  BY FS_Interval, SizesAssumption DEF Slots
<1>4. IsFiniteSet(Tasks \ {t}) /\ Cardinality(Tasks \ {t}) < MaxTasks
  <2>1. Cardinality(Tasks) \in Nat /\ Cardinality(Tasks) <= MaxTasks
    BY FS_CardinalityType, TasksAssumption
  <2>2. /\ IsFiniteSet(Tasks \ {t})
        /\ Cardinality(Tasks \ {t}) = Cardinality(Tasks) - 1
    BY FS_RemoveElement, TasksAssumption
  <2>3. MaxTasks \in Nat
    BY SizesAssumption
  <2> QED
    BY <2>1, <2>2, <2>3
<1>5. \E i, j \in Slots : i # j /\ owner[i] = owner[j]
  <2> HIDE DEF owner
  <2> QED
    BY <1>2, <1>3, <1>4, FS_PigeonHole
<1> QED
  BY <1>1, <1>5 DEF OneSlotPerTask, SlotsOf

\* The assertions that there is a slot for each task hold.
THEOREM SlotsSuffice == Spec => []SlotIsFound
BY EnoughSlots, OneSlot, TypeCorrect, PTL

-----------------------------------------------------------------------------
(* What is logged                                                          *)

\* The last sample the table knows of a task: the one before, until the loop
\* comes to the task
LastSample(t) == IF t \in pending THEN before[t] ELSE sample[t]

LastTotal == IF stats_pc = "loop" THEN total_before ELSE total

\* The table keeps the last sample of every task, 0 of those it does not have.
TableInv ==
  /\ stats_pc # "loop" => pending = {}
  /\ g_last_total_runtime = Wrapped(LastTotal)
  /\ \A t \in Tasks : t \notin created => run_time[t] = 0
  /\ \A t \in Tasks : \A i \in Slots :
       g_task_state[i].task = t =>
         g_task_state[i].last_runtime_counter = Wrapped(LastSample(t))
  /\ \A t \in Tasks : SlotsOf(t) = {} => LastSample(t) = 0
  /\ \A i \in Slots : g_task_state[i].task = NoTask =>
                        g_task_state[i].last_runtime_counter = 0

LEMMA WrappedZero == Wrapped(0) = 0
BY SizesAssumption DEF Wrapped

\* A step that samples no task leaves the last samples as they are.
LEMMA TableKept ==
  ASSUME TypeOK, TableInv, UNCHANGED g_task_state,
         \A t \in Tasks : LastSample(t)' = LastSample(t),
         g_last_total_runtime' = Wrapped(LastTotal)',
         stats_pc' # "loop" => pending' = {},
         \A t \in Tasks : t \notin created' => run_time'[t] = 0
  PROVE  TableInv'
<1>1. \A t \in Tasks : SlotsOf(t)' = SlotsOf(t)
  BY DEF SlotsOf
<1>2. \A t \in Tasks : Wrapped(LastSample(t))' = Wrapped(LastSample(t))
  BY DEF Wrapped
<1> QED
  BY <1>1, <1>2 DEF TableInv

LEMMA TableStep == TypeOK /\ OneSlotPerTask /\ TableInv /\ [Next]_vars => TableInv'
<1> SUFFICES ASSUME TypeOK, OneSlotPerTask, TableInv, [Next]_vars PROVE TableInv'
  OBVIOUS
<1> USE DEF LastSample, LastTotal, Wrapped
<1>1. CASE ClockCounts
  BY <1>1, TableKept DEF ClockCounts, TableInv, slot_vars, sample_vars, history_vars
<1>2. ASSUME NEW t \in Tasks, TaskRuns(t) PROVE TableInv'
  BY <1>2, TableKept DEF TaskRuns, TableInv, slot_vars, sample_vars,
                         history_vars
<1>3. ASSUME NEW t \in Tasks, TaskIsCreated(t) PROVE TableInv'
  BY <1>3, TableKept DEF TaskIsCreated, TableInv, slot_vars, sample_vars,
                         history_vars
<1>4. CASE GetNumberOfTasks \/ SystemStateHasNoRoom
  BY <1>4, TableKept DEF GetNumberOfTasks, SystemStateHasNoRoom, TableInv,
                         kernel_vars, slot_vars, sample_vars, history_vars
<1>5. CASE GetSystemState
  <2>1. \A t \in Tasks : t \notin created => run_time[t] = 0 /\ sample[t] = 0
    BY DEF TypeOK, TableInv
  <2>2. \A t \in Tasks : LastSample(t)' = LastSample(t)
    BY <1>5, <2>1 DEF GetSystemState, TableInv
  <2> QED
    BY <1>5, <2>2, TableKept DEF GetSystemState, TableInv, kernel_vars, slot_vars
<1>6. ASSUME NEW t \in Tasks, SampleTask(t) PROVE TableInv'
  <2> DEFINE slot == First(Candidates(t))
  <2>1. /\ slot \in Slots
        /\ IF SlotsOf(t) # {} THEN g_task_state[slot].task = t
                              ELSE g_task_state[slot].task = NoTask
    BY <1>6, CandidateSlot DEF SampleTask
  <2>2. g_task_state' = [g_task_state EXCEPT ![slot] =
                           [task |-> t, last_runtime_counter |-> Wrapped(sample[t])]]
    BY <1>6 DEF SampleTask, LastCounter
  <2>3. /\ pending' = pending \ {t}
        /\ UNCHANGED <<created, run_time, stats_pc, g_last_total_runtime, sample,
                       total, before, total_before>>
    BY <1>6 DEF SampleTask, kernel_vars, sample_vars
  <2>4. \A u \in Tasks : LastSample(u)' = IF u = t THEN sample[t] ELSE LastSample(u)
    BY <2>3
  <2>5. \A i \in Slots : /\ g_task_state[i].task = t => i = slot
                         /\ i # slot => g_task_state'[i] = g_task_state[i]
    <3>1. CASE SlotsOf(t) = {}
      BY <2>2, <3>1 DEF SlotsOf, TypeOK
    <3>2. CASE SlotsOf(t) # {}
      BY <2>1, <2>2, <3>2, TasksAssumption DEF OneSlotPerTask, TypeOK
    <3> QED
      BY <3>1, <3>2
  <2>6. /\ g_task_state'[slot].task = t
        /\ g_task_state'[slot].last_runtime_counter = Wrapped(sample[t])
    BY <2>1, <2>2 DEF TypeOK
  <2> HIDE DEF slot, Wrapped, LastSample
  <2>7. \A u \in Tasks : \A i \in Slots :
          g_task_state'[i].task = u =>
            g_task_state'[i].last_runtime_counter = Wrapped(LastSample(u)')
    BY <2>1, <2>4, <2>5, <2>6 DEF TableInv
  <2>8. \A u \in Tasks : SlotsOf(u)' = {} => LastSample(u)' = 0
    <3> SUFFICES ASSUME NEW u \in Tasks, SlotsOf(u)' = {} PROVE LastSample(u)' = 0
      OBVIOUS
    <3>1. u # t
      BY <2>1, <2>6 DEF SlotsOf
    <3>2. SlotsOf(u) = {}
      BY <2>1, <2>5, <3>1, TasksAssumption DEF SlotsOf
    <3> QED
      BY <2>4, <3>1, <3>2 DEF TableInv
  <2>9. \A i \in Slots : g_task_state'[i].task = NoTask =>
                           g_task_state'[i].last_runtime_counter = 0
    BY <2>5, <2>6, TasksAssumption DEF TableInv
  <2>10. stats_pc = "loop"
    BY <1>6 DEF SampleTask
  <2>11. g_last_total_runtime' = Wrapped(LastTotal)'
    BY <2>3 DEF TableInv, Wrapped
  <2> QED
    BY <2>3, <2>7, <2>8, <2>9, <2>10, <2>11 DEF TableInv, Wrapped
<1>7. CASE EndOfSample
  BY <1>7, TableKept DEF EndOfSample, TableInv, kernel_vars, sample_vars,
                         history_vars
<1>8. CASE UNCHANGED vars
  BY <1>8, TableKept DEF TableInv, vars, kernel_vars, slot_vars, sample_vars,
                         history_vars
<1> QED
  BY <1>1, <1>2, <1>3, <1>4, <1>5, <1>6, <1>7, <1>8 DEF Next, stats_task

LEMMA TableInit == Init => TableInv
<1> SUFFICES ASSUME Init PROVE TableInv
  OBVIOUS
<1>1. \A t \in Tasks : LastSample(t) = 0
  BY DEF Init, LastSample, Nothing
<1>2. \A i \in Slots : g_task_state[i].task = NoTask
                       /\ g_task_state[i].last_runtime_counter = 0
  BY DEF Init
<1>3. g_last_total_runtime = Wrapped(LastTotal)
  BY WrappedZero DEF Init, LastTotal
<1> QED
  BY <1>1, <1>2, <1>3, TasksAssumption DEF Init, TableInv, Nothing

\* What is logged of each task is true, and logged is a function.
LoggedInv == /\ LoggedDeltasAreTrue
             /\ logged = [t \in Tasks |-> logged[t]]

\* The counters a task is compared with are those of the sample before.
LEMMA LoggedStep ==
  TypeOK /\ TableInv /\ LoggedInv /\ [Next]_vars => LoggedInv'
<1> SUFFICES ASSUME TypeOK, TableInv, LoggedInv, [Next]_vars PROVE LoggedInv'
  OBVIOUS
<1>1. ASSUME NEW t \in Tasks, SampleTask(t) PROVE LoggedInv'
  <2>1. UNCHANGED <<sample, before, total, total_before>>
    BY <1>1 DEF SampleTask, sample_vars
  <2>2. CASE UNCHANGED logged
    BY <2>1, <2>2 DEF LoggedInv, LoggedDeltasAreTrue
  <2>3. CASE Logs(t)
    <3> DEFINE slot == First(Candidates(t))
               last == g_task_state[slot].last_runtime_counter
    <3>1. /\ slot \in Slots
          /\ IF SlotsOf(t) # {} THEN g_task_state[slot].task = t
                                ELSE g_task_state[slot].task = NoTask
      BY <1>1, CandidateSlot DEF SampleTask
    <3>2. t \in pending /\ stats_pc = "loop"
      BY <1>1 DEF SampleTask
    <3>3. last = Wrapped(before[t])
      <4>1. LastSample(t) = before[t]
        BY <3>2 DEF LastSample
      <4>2. CASE SlotsOf(t) # {}
        BY <3>1, <4>1, <4>2 DEF TableInv
      <4>3. CASE SlotsOf(t) = {}
        BY <3>1, <4>1, <4>3, WrappedZero DEF TableInv
      <4> QED
        BY <4>2, <4>3
    <3>4. g_last_total_runtime = Wrapped(total_before)
      BY <3>2 DEF TableInv, LastTotal
    <3>5. Difference(Wrapped(sample[t]), last) = sample[t] - before[t]
      BY <3>3, DifferenceIsTrue DEF TypeOK
    <3>6. Difference(Wrapped(total), g_last_total_runtime) = total - total_before
      BY <3>4, DifferenceIsTrue DEF TypeOK
    <3>7. logged' = [logged EXCEPT ![t] =
                       <<Difference(Wrapped(sample[t]), last),
                         Difference(Wrapped(total), g_last_total_runtime)>>]
      BY <2>3 DEF Logs
    <3>8. logged' = [logged EXCEPT ![t] =
                       <<sample[t] - before[t], total - total_before>>]
      BY <3>5, <3>6, <3>7
    <3> QED
      BY <2>1, <3>8 DEF LoggedInv, LoggedDeltasAreTrue
  <2> QED
    BY <1>1, <2>2, <2>3 DEF SampleTask
<1>2. CASE GetSystemState
  BY <1>2 DEF GetSystemState, NotLogged, LoggedInv, LoggedDeltasAreTrue
<1>3. CASE UNCHANGED <<sample, before, total, total_before, logged>>
  BY <1>3 DEF LoggedInv, LoggedDeltasAreTrue
<1> QED
  BY <1>1, <1>2, <1>3 DEF Next, stats_task, ClockCounts, TaskRuns,
     TaskIsCreated, GetNumberOfTasks, SystemStateHasNoRoom, EndOfSample,
     sample_vars, history_vars, vars

\* What is logged of a task is how long it ran, and how much time went by,
\* since the sample before, for counters of any width.
THEOREM LoggedIsTrue == Spec => []LoggedDeltasAreTrue
<1>1. Init => LoggedInv
  BY DEF Init, NotLogged, LoggedInv, LoggedDeltasAreTrue
<1>2. LoggedInv => LoggedDeltasAreTrue
  BY DEF LoggedInv
<1> QED
  BY <1>1, <1>2, TableInit, TableStep, LoggedStep, TypeCorrect, OneSlot, PTL
     DEF Spec
=============================================================================
