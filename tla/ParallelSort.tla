---------------------------- MODULE ParallelSort ----------------------------
(***************************************************************************)
(* The pool of sort threads (worker.c) and the quicksort that runs on it   *)
(* (sort_buffer_parallel): the main thread hands a window of records to a  *)
(* worker, every worker may hand half of what it is sorting to another     *)
(* one, nobody waits for the half it gave away, and the main thread learns *)
(* that the window is sorted from one counter, free_workers.               *)
(*                                                                         *)
(* Granularity.  A step is a critical section, or the part of one between  *)
(* two points where another thread can see the difference.  The mutexes    *)
(* are not variables: WP.lock stays held from one step to the next only by *)
(* a thread that has published a job and not yet signalled (pc "signal"),  *)
(* and the lock of a worker only by that worker, between testing its op    *)
(* and falling asleep (pc "test" and "wait").  schedule writes buffer, size*)
(* and op without the worker's lock; the build keeps those stores in       *)
(* program order, so a worker that sees op sees the job.                   *)
(***************************************************************************)
EXTENDS Records, FiniteSets

CONSTANTS NumThreads,  \* the num_threads argument of the program
          N,           \* records in a window
          Key,         \* the keys, a set of integers
          Content,     \* the windows of records that a file may hold
          MinLeaf,     \* MIN_LEAF_SIZE, in records
          MaxWindows   \* bound on the windows that are sorted in one run

ASSUME PoolAssumption == /\ NumThreads \in Nat
                         /\ N \in Nat \ {0}
                         /\ Key \subseteq Int
                         /\ Content \subseteq [1 .. N -> Key]
                         /\ MinLeaf \in Nat
                         /\ MaxWindows \in Nat

(* main gives half of its threads to the sort pool and half to the I/O pool. *)
NumWorkers == (NumThreads + 1) \div 2

Worker == 1 .. NumWorkers
Main   == 0
Thread == Worker \cup {Main}
Pos    == 1 .. N

(***************************************************************************)
(* A part of the window that still has to be sorted.  "try" is the state   *)
(* of a call of sort_buffer_parallel on it: TRUE before the attempt to give*)
(* it to another worker, FALSE when it is to be sorted by this thread.     *)
(***************************************************************************)
Part == [lo : 1 .. N + 1, hi : 0 .. N, try : BOOLEAN]

Region(part) == part.lo .. part.hi

VARIABLES
  buf,        \* the window in memory
  loaded,     \* the window as load_window left it (history)
  windows,    \* how many windows have been loaded (for the bound)
  op,         \* worker->op
  job,        \* worker->buffer and worker->size, as a part
  free,       \* WP.free_workers
  terminate,  \* the static flag terminate
  pc,         \* where each thread is
  target,     \* the worker to signal, for a thread at "signal"
  work        \* the parts on the call stack of each worker

vars == <<buf, loaded, windows, op, job, free, terminate, pc, target, work>>

WorkerPC == {"loop", "lock", "test", "wait", "asleep", "run", "signal", "returned"}
MainPC   == {"load", "schedule", "signal", "waitall", "asleep", "sorted",
             "return", "exited"}

Idle == { w \in Worker : op[w] = "NO_OP" }

(* WP.lock is free. *)
LockFree == \A t \in Thread : pc[t] # "signal"

(* Nothing runs after main has returned. *)
Alive == pc[Main] # "exited"

Init == /\ buf \in Content
        /\ loaded = buf
        /\ windows = 0
        /\ op = [w \in Worker |-> "NO_OP"]
        /\ job = [w \in Worker |-> [lo |-> 1, hi |-> 0, try |-> FALSE]]
        /\ free = NumWorkers
        /\ terminate = FALSE
        /\ pc = [t \in Thread |-> IF t = Main THEN "load" ELSE "loop"]
        /\ target = [t \in Thread |-> Main]
        /\ work = [w \in Worker |-> {}]

(* Thread t goes on from one point to another and changes nothing else. *)
GoOn(t, from, to) ==
  /\ pc[t] = from
  /\ pc' = [pc EXCEPT ![t] = to]
  /\ UNCHANGED <<buf, loaded, windows, op, job, free, terminate, target, work>>

-----------------------------------------------------------------------------
(***************************************************************************)
(* schedule(), called by thread t                                          *)
(***************************************************************************)

(* WP.lock is taken, the first idle worker found and given the job.  Its   *)
(* op is visible from here on; WP.lock is kept.                            *)
Publish(t, part) ==
  /\ LockFree
  /\ free # 0
  /\ \E w \in Idle :
       /\ \A v \in Idle : w <= v
       /\ job' = [job EXCEPT ![w] = [part EXCEPT !.try = FALSE]]
       /\ op' = [op EXCEPT ![w] = "SORT_WINDOW"]
       /\ target' = [target EXCEPT ![t] = w]
  /\ UNCHANGED <<buf, loaded, windows, free, terminate>>

(* No worker is free: schedule gives up and returns 0. *)
Refused == LockFree /\ free = 0

(* Fault: the worker that was given a job is not counted out. *)
NotTaken == free

(* free_workers--, once the worker has been signalled. *)
Taken == free - 1

(* The signal needs the worker's lock; then free_workers is updated and    *)
(* WP.lock released.  A worker that is not asleep misses the signal.       *)
Signal(t, next) ==
  /\ pc[t] = "signal"
  /\ pc[target[t]] \notin {"test", "wait"}
  /\ free' = Taken
  /\ pc' = [s \in Thread |-> IF s = t THEN next
                             ELSE IF s = target[t] /\ pc[s] = "asleep" THEN "lock"
                             ELSE pc[s]]
  /\ UNCHANGED <<buf, loaded, windows, op, job, terminate, target, work>>

-----------------------------------------------------------------------------
(***************************************************************************)
(* worker_thread()                                                         *)
(***************************************************************************)

(* while(!terminate) *)
LoopHead(w) == GoOn(w, "loop", IF terminate THEN "returned" ELSE "lock")

(* Take the worker's own lock, on entry or on the way out of a wait. *)
LockWorker(w) == GoOn(w, "lock", "test")

(* while(worker->op == NO_OP): go on to wait, lock still held ... *)
FindNoJob(w) == op[w] = "NO_OP" /\ GoOn(w, "test", "wait")

(* ... or release the lock and call sort_window on the job. *)
FindJob(w) ==
  /\ pc[w] = "test"
  /\ op[w] = "SORT_WINDOW"
  /\ pc' = [pc EXCEPT ![w] = "run"]
  /\ work' = [work EXCEPT ![w] = {job[w]}]
  /\ UNCHANGED <<buf, loaded, windows, op, job, free, terminate, target>>

(* pthread_cond_wait releases the lock and sleeps, atomically ... *)
FallAsleep(w) == GoOn(w, "wait", "asleep")

(* ... and may return without having been signalled. *)
SpuriousWakeup(w) == GoOn(w, "asleep", "lock")

-----------------------------------------------------------------------------
(***************************************************************************)
(* sort_buffer_parallel(), run by worker w                                 *)
(*                                                                         *)
(* The parts in work[w] are the current call and the right halves that the *)
(* enclosing calls have still to deal with.  Left halves come first, so the*)
(* part a thread is at is always its leftmost one.                         *)
(***************************************************************************)
Current(w, part) == /\ pc[w] = "run"
                    /\ part \in work[w]
                    /\ \A other \in work[w] : part.lo <= other.lo

(* Fault: the result of schedule is ignored and the part sorted here too. *)
RestAndSelf(w, part) == (work[w] \ {part}) \cup {[part EXCEPT !.try = FALSE]}

(* What is left on the stack when the call that sorts a part returns. *)
Rest(w, part) == work[w] \ {part}

(* schedule() took the part: it is another worker's now. *)
GiveAway(w, part) ==
  /\ Current(w, part)
  /\ part.try
  /\ Publish(w, part)
  /\ pc' = [pc EXCEPT ![w] = "signal"]
  /\ work' = [work EXCEPT ![w] = Rest(w, part)]

(* schedule() returned 0: the thread sorts the part itself. *)
KeepPart(w, part) ==
  /\ Current(w, part)
  /\ part.try
  /\ Refused
  /\ work' = [work EXCEPT ![w] = (@ \ {part}) \cup {[part EXCEPT !.try = FALSE]}]
  /\ UNCHANGED <<buf, loaded, windows, op, job, free, terminate, pc, target>>

(* buffer_is_sorted: the call returns at once. *)
PartSorted(w, part) ==
  /\ Current(w, part)
  /\ ~ part.try
  /\ IsSorted(buf, part.lo, part.hi)
  /\ work' = [work EXCEPT ![w] = Rest(w, part)]
  /\ UNCHANGED <<buf, loaded, windows, op, job, free, terminate, pc, target>>

(* Fault: the record after the pivot is left out as well. *)
AfterNext(q) == q + 2

(* buffer + q + 1, where the right half begins. *)
After(q) == q + 1

(* The halves around a pivot that ended at q.  The size of the left one    *)
(* decides for both whether another worker is to be asked.                 *)
Halves(part, q) ==
  LET ask == q - part.lo > MinLeaf
  IN  (IF q = part.lo THEN {} ELSE {[lo |-> part.lo, hi |-> q - 1, try |-> ask]})
      \cup {[lo |-> After(q), hi |-> part.hi, try |-> ask]}

(* Any record may be the pivot (prng is shared and unprotected), and the   *)
(* order inside the two halves is whatever the swaps leave.                *)
Partition(w, part) ==
  /\ Current(w, part)
  /\ ~ part.try
  /\ ~ IsSorted(buf, part.lo, part.hi)
  /\ \E f \in Perms(Region(part)), q \in Region(part) :
       /\ IsPartition(Shuffle(buf, Region(part), f), part.lo, part.hi, q)
       /\ buf' = Shuffle(buf, Region(part), f)
       /\ work' = [work EXCEPT ![w] = (@ \ {part}) \cup Halves(part, q)]
  /\ UNCHANGED <<loaded, windows, op, job, free, terminate, pc, target>>

(* Fault: main is not signalled. *)
StaysAsleep == pc[Main]

(* pthread_cond_signal finds main waiting, or nobody. *)
Woken == IF pc[Main] = "asleep" THEN "waitall" ELSE pc[Main]

(* finish(): everything on the stack is done; main is signalled. *)
Finish(w) ==
  /\ pc[w] = "run"
  /\ work[w] = {}
  /\ LockFree
  /\ op' = [op EXCEPT ![w] = "NO_OP"]
  /\ free' = free + 1
  /\ pc' = [pc EXCEPT ![w] = "loop",
                      ![Main] = Woken]
  /\ UNCHANGED <<buf, loaded, windows, job, terminate, target, work>>

WorkerSignals(w) == Signal(w, "run")

-----------------------------------------------------------------------------
(***************************************************************************)
(* The main thread: parallel_sort() as far as the sort threads see it      *)
(***************************************************************************)

(* load_window: the buffer holds other records. *)
LoadWindow ==
  /\ pc[Main] \in {"load", "sorted"}
  /\ windows < MaxWindows
  /\ buf' \in Content
  /\ loaded' = buf'
  /\ windows' = windows + 1
  /\ pc' = [pc EXCEPT ![Main] = "schedule"]
  /\ UNCHANGED <<op, job, free, terminate, target, work>>

(* schedule(window->slot->buffer, load_size, SORT_WINDOW).  Whether it took *)
(* the window is not looked at.                                            *)
ScheduleWindow ==
  /\ pc[Main] = "schedule"
  /\ UNCHANGED work
  /\ IF Refused
     THEN /\ pc' = [pc EXCEPT ![Main] = "waitall"]
          /\ UNCHANGED <<buf, loaded, windows, op, job, free, terminate, target>>
     ELSE /\ Publish(Main, [lo |-> 1, hi |-> N, try |-> FALSE])
          /\ pc' = [pc EXCEPT ![Main] = "signal"]

MainSignals == Signal(Main, "waitall")

(* Fault: main waits for one worker to be free, as schedule_io does. *)
OneFree == free # 0

(* free_workers == num_workers *)
AllFree == free = NumWorkers

(* wait_for_all_workers: test the counter, sleep, test it again. *)
WaitForAllWorkers ==
  LockFree /\ GoOn(Main, "waitall", IF AllFree THEN "sorted" ELSE "asleep")

MainSpuriousWakeup == GoOn(Main, "asleep", "waitall")

(* terminate_workers: nobody is woken. *)
TerminateWorkers ==
  /\ pc[Main] = "sorted"
  /\ terminate' = TRUE
  /\ pc' = [pc EXCEPT ![Main] = "return"]
  /\ UNCHANGED <<buf, loaded, windows, op, job, free, target, work>>

(* main returns, which ends the process with every thread in it. *)
ReturnFromMain == GoOn(Main, "return", "exited")

-----------------------------------------------------------------------------
WorkerStep(w) ==
  /\ Alive
  /\ \/ LoopHead(w) \/ LockWorker(w) \/ FindNoJob(w) \/ FindJob(w) \/ FallAsleep(w)
     \/ \E part \in work[w] : \/ GiveAway(w, part) \/ KeepPart(w, part)
                              \/ PartSorted(w, part) \/ Partition(w, part)
     \/ WorkerSignals(w) \/ Finish(w)

MainStep == \/ LoadWindow \/ ScheduleWindow \/ MainSignals
            \/ WaitForAllWorkers \/ TerminateWorkers \/ ReturnFromMain

Spurious == Alive /\ (MainSpuriousWakeup \/ \E w \in Worker : SpuriousWakeup(w))

(* The process is gone; nothing happens any more. *)
Exited == ~ Alive /\ UNCHANGED vars

Next == MainStep \/ (\E w \in Worker : WorkerStep(w)) \/ Spurious \/ Exited

Spec == Init /\ [][Next]_vars

(* Every thread that can run is run eventually.  Spurious wakeups may      *)
(* happen and need not.                                                    *)
FairSpec == Spec /\ WF_vars(MainStep) /\ \A w \in Worker : WF_vars(WorkerStep(w))

-----------------------------------------------------------------------------
(***************************************************************************)
(* Properties                                                              *)
(***************************************************************************)
TypeOK == /\ buf \in [Pos -> Key]
          /\ loaded \in [Pos -> Key]
          /\ windows \in Nat
          /\ op \in [Worker -> {"NO_OP", "SORT_WINDOW"}]
          /\ job \in [Worker -> Part]
          /\ free \in Int
          /\ terminate \in BOOLEAN
          /\ pc \in [Thread -> WorkerPC \cup MainPC]
          /\ pc[Main] \in MainPC
          /\ \A w \in Worker : pc[w] \in WorkerPC
          /\ target \in [Thread -> Thread]
          /\ work \in [Worker -> SUBSET Part]

(* The parts worker w is responsible for: those on its stack, and the job  *)
(* it has been given and not yet seen.                                     *)
Pending(w) == IF pc[w] \in {"run", "signal"} THEN work[w]
              ELSE IF op[w] = "SORT_WINDOW" THEN {job[w]}
              ELSE {}

(* The counter that schedule and wait_for_all_workers trust tells the      *)
(* truth: with WP.lock free it is the number of idle workers, so a         *)
(* schedule that finds it positive does find a worker (worker.c:76-94).    *)
FreeWorkersExact == LockFree => free = Cardinality(Idle)

(* No record is ever in two parts that are being sorted, on one stack or   *)
(* on two: the sort threads write disjoint memory (mysort.c:65-75).        *)
PartsDisjoint ==
  \A v, w \in Worker : \A a \in Pending(v), b \in Pending(w) :
     (v # w \/ a # b) => Region(a) \cap Region(b) = {}

(* When wait_for_all_workers returns, the window main goes on to read      *)
(* (update_metadata, write_window) is the loaded one, sorted: no half that *)
(* was handed on can have been forgotten (mysort.c:171-173 in the loop that*)
(* is to "Merge chunks until the file is sorted", mysort.c:162).           *)
SortedAtBarrier ==
  pc[Main] = "sorted" => IsSorted(buf, 1, N) /\ Rearranged(loaded, buf)

(* From the barrier to the next schedule, and when the process ends, the   *)
(* window is main's alone: no worker has a job or a part of it             *)
(* (worker.c:110-117, mysort.c:205-206).                                   *)
QuietOutsideSort ==
  pc[Main] \in {"load", "schedule", "sorted", "return", "exited"} =>
     \A w \in Worker : op[w] = "NO_OP" /\ Pending(w) = {}

(* A window that main is about to hand out does get sorted: no wakeup is   *)
(* lost between a worker's test of op and its sleep, nor between main's    *)
(* test of free_workers and its sleep (worker.c:28-31, 84-90, 101-116).    *)
WindowsGetSorted == pc[Main] = "schedule" ~> pc[Main] = "sorted"

(* The pool implements one-step sorting of windows.  Until the barrier the *)
(* abstract window is still the loaded one.                                *)
Sorting == pc[Main] \in {"schedule", "signal", "waitall", "asleep"}

Abstract == INSTANCE WindowSort WITH
  content <- IF Sorting THEN loaded ELSE buf,
  phase   <- IF Sorting THEN "sorting"
             ELSE IF terminate THEN "stopped" ELSE "ready"

SortsWindows == Abstract!Spec
=============================================================================
