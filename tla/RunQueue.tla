------------------------------ MODULE RunQueue ------------------------------
(***************************************************************************)
(* The RUN_QUEUE lock hand-off of src/run_queue/run_queue/src/lib.rs, on   *)
(* one CPU.  yield_now takes the SpinNoIrq lock (saving the interrupt      *)
(* state in its guard and disabling interrupts) and calls resched, which   *)
(* may switch to another task with the lock still held.  The lock is then  *)
(* released on the other side of the switch: by the guard of a task that  *)
(* resumes inside its own yield_now, or, for a freshly spawned task, by    *)
(* task_entry's force_unlock ("schedule_tail"), which releases the lock    *)
(* and nothing else.  on_timer_tick takes the same lock from interrupt     *)
(* context.                                                                *)
(*                                                                         *)
(* AxRunQueue::resched is in the crate's run_queue module, which is not    *)
(* in the repository: it is modelled only as "switch to any runnable task, *)
(* or to none", which is what lib.rs relies on.                            *)
(***************************************************************************)
EXTENDS Naturals

CONSTANTS
  Tasks,     \* tasks that may be spawned
  Idle,      \* the idle task AxRunQueue::new is given at init
  MaxTicks   \* bound: timer interrupts handled

All == Tasks \cup {Idle}

VARIABLES
  pc,         \* where each task is (see Pcs)
  current,    \* the task on the CPU
  locked,     \* RUN_QUEUE's spin flag
  irq,        \* the CPU's interrupt-enable flag
  saved,      \* the interrupt state saved in a switched-out task's guard
  ticks       \* timer interrupts handled

vars == <<pc, current, locked, irq, saved, ticks>>

\* "none": not spawned; "fresh": spawned, its context starts at task_entry;
\* "switched": switched out inside resched, with its lock guard live;
\* "entry": in task_entry before force_unlock; "resume": back from the
\* switch inside resched; "run": running its own code.
Pcs == {"none", "fresh", "switched", "entry", "resume", "run"}

\* Tasks resched may switch to.
Runnable == {t \in All : pc[t] \in {"fresh", "switched"}}

\* init(): the idle thread runs, the queue and its lock are fresh.
Init ==
  /\ pc = [t \in All |-> IF t = Idle THEN "run" ELSE "none"]
  /\ current = Idle
  /\ locked = FALSE
  /\ irq = TRUE
  /\ saved = [t \in All |-> TRUE]
  /\ ticks = 0

\* spawn_task_raw(tid, f) and spawn_task: a SchedInfo whose context starts
\* at task_entry; the caller queues it.
Spawn(t) ==
  /\ pc[current] = "run"
  /\ pc[t] = "none"
  /\ pc' = [pc EXCEPT ![t] = "fresh"]
  /\ UNCHANGED <<current, locked, irq, saved, ticks>>

\* Mutant: a lock that saves the interrupt state but does not disable them.
YieldNowKeepsIrq(next) ==
  /\ pc[current] = "run"
  /\ ~locked
  /\ next \in Runnable
  /\ locked' = TRUE
  /\ saved' = [saved EXCEPT ![current] = irq]
  /\ current' = next
  /\ pc' = [pc EXCEPT ![current] = "switched",
                      ![next] = IF pc[next] = "fresh" THEN "entry" ELSE "resume"]
  /\ UNCHANGED <<irq, ticks>>

\* yield_now: RUN_QUEUE.lock() saves irq in the guard and disables
\* interrupts; resched switches to next with the lock held.  (resched
\* choosing the current task again is a step that changes nothing.)
YieldNow(next) ==
  /\ pc[current] = "run"
  /\ ~locked
  /\ next \in Runnable
  /\ locked' = TRUE
  /\ irq' = FALSE
  /\ saved' = [saved EXCEPT ![current] = irq]
  /\ current' = next
  /\ pc' = [pc EXCEPT ![current] = "switched",
                      ![next] = IF pc[next] = "fresh" THEN "entry" ELSE "resume"]
  /\ UNCHANGED ticks

\* The switch returns inside resched; the guard of this task's yield_now is
\* dropped: unlock, and restore the interrupt state it saved.
Resume ==
  /\ pc[current] = "resume"
  /\ locked' = FALSE
  /\ irq' = saved[current]
  /\ pc' = [pc EXCEPT ![current] = "run"]
  /\ UNCHANGED <<current, saved, ticks>>

\* Mutant: task_entry without the force_unlock of schedule_tail.
TaskEntryNoUnlock ==
  /\ pc[current] = "entry"
  /\ pc' = [pc EXCEPT ![current] = "run"]
  /\ UNCHANGED <<current, locked, irq, saved, ticks>>

\* force_unlock: RUN_QUEUE.force_unlock() clears the spin flag only.
ForceUnlock == locked' = FALSE

\* task_entry: force_unlock, then Box::from_raw(entry)() if ctx.entry is
\* Some, then ret_from_fork; the task then runs its own code.
TaskEntry ==
  /\ pc[current] = "entry"
  /\ ForceUnlock
  /\ pc' = [pc EXCEPT ![current] = "run"]
  /\ UNCHANGED <<current, irq, saved, ticks>>

\* on_timer_tick, taken when interrupts are enabled: RUN_QUEUE.lock(), the
\* scheduler's tick, unlock, all in the handler.
OnTimerTick ==
  /\ irq
  /\ ~locked
  /\ ticks < MaxTicks
  /\ ticks' = ticks + 1
  /\ UNCHANGED <<pc, current, locked, irq, saved>>

Next ==
  \/ \E t \in Tasks : Spawn(t)
  \/ \E next \in All : YieldNow(next)
  \/ Resume
  \/ TaskEntry
  \/ OnTimerTick

Spec == Init /\ [][Next]_vars

-----------------------------------------------------------------------------
(* Properties.                                                             *)

\* The lock taken in one task's yield_now is held exactly while the switch
\* it made is unfinished, i.e. until the task switched to has released it
\* (by its guard or by task_entry's force_unlock).
LockHeldOnlyAcrossSwitch ==
  locked <=> pc[current] \in {"entry", "resume"}

\* No interrupt can be taken while the run queue is locked, so on_timer_tick
\* never spins on a lock held by the task it interrupted (a hang on one
\* CPU); yield_now and on_timer_tick only run with the lock free.
IrqOffWhileLocked == locked => ~irq

\* SpinNoIrq's contract: interrupts are off only while a lock is held, so a
\* task running its own code with the run queue unlocked takes interrupts.
IrqsOnOutsideLock ==
  (pc[current] = "run" /\ ~locked) => irq

=============================================================================
