------------------------------- MODULE IoPool -------------------------------
(***************************************************************************)
(* The pool of I/O threads (io.c) under the program that uses it: the main *)
(* thread reads a window of chunks into the slots of the cache, waits,     *)
(* sorts them, writes them back, waits (load_window and write_window in    *)
(* cache.c).  Every thread reads and writes through a stdio stream of its  *)
(* own, and a stream that has read ahead answers from what it holds.       *)
(*                                                                         *)
(* The file is divided into units; a unit holds the number of the round    *)
(* that last wrote it.  Only the main thread schedules, so WP.lock is kept *)
(* from step to step only by it (pc "signal").                             *)
(***************************************************************************)
EXTENDS Integers, FiniteSets, Sequences

CONSTANTS NumThreads,   \* the num_threads argument of the program
          Chunk,        \* CHUNK_SIZE, in units
          Block,        \* the buffer of a stdio stream, in units
          FileSize,     \* in units
          CacheSize,    \* slots of the cache
          MaxRounds     \* bound on the windows that are loaded

ASSUME IoAssumption == /\ NumThreads \in Nat
                       /\ {Chunk, Block, FileSize, CacheSize} \subseteq Nat \ {0}
                       /\ MaxRounds \in Nat

(* main gives the I/O pool what the sort pool leaves of num_threads + 1. *)
NumWorkers == (NumThreads + 1) - (NumThreads + 1) \div 2

Worker == 1 .. NumWorkers
Main   == 0
Thread == Worker \cup {Main}

Unit     == 0 .. FileSize - 1
Version  == 0 .. MaxRounds
ChunkId  == 0 .. (FileSize - 1) \div Chunk
Slot     == 1 .. CacheSize

(* divide_file: every chunk but the last one has CHUNK_SIZE. *)
Off(c) == c * Chunk
End(c) == IF Off(c) + Chunk > FileSize THEN FileSize ELSE Off(c) + Chunk

Units(c) == Off(c) .. End(c) - 1

(* A window: chunks in some order, the i-th of them in slot i. *)
Window == { s \in UNION { [1 .. n -> ChunkId] : n \in 1 .. CacheSize } :
              \A i, j \in DOMAIN s : i # j => s[i] # s[j] }

Job == [slot : Slot, chunk : ChunkId]

VARIABLES
  file,    \* the file
  mem,     \* the buffer of each slot, by the unit of the file it stands for
  ahead,   \* what the stream of each worker holds
  op,      \* worker->op
  job,     \* worker->buffer, and off and size, as a job
  free,    \* WP.free_workers
  pc,      \* where each thread is
  target,  \* the worker main is about to signal
  window,  \* the window main is working on
  phase,   \* what main does with it: READ_CHUNK or WRITE_CHUNK
  next,    \* the slot to be scheduled next
  round    \* windows loaded so far

vars == <<file, mem, ahead, op, job, free, pc, target, window, phase, next, round>>

WorkerPC == {"loop", "lock", "test", "wait", "asleep", "run", "finish"}
MainPC   == {"idle", "schedule", "full", "signal", "barrier", "asleep", "loaded", "exited"}

Idle     == { w \in Worker : op[w] = "NO_OP" }
LockFree == pc[Main] # "signal"
Alive    == pc[Main] # "exited"

Nothing == << >>

Init == /\ file = [u \in Unit |-> 0]
        /\ mem = [s \in Slot |-> Nothing]
        /\ ahead = [w \in Worker |-> Nothing]
        /\ op = [w \in Worker |-> "NO_OP"]
        /\ job = [w \in Worker |-> [slot |-> 1, chunk |-> 0]]
        /\ free = NumWorkers
        /\ pc = [t \in Thread |-> IF t = Main THEN "idle" ELSE "loop"]
        /\ target = Main
        /\ window = << >>
        /\ phase = "WRITE_CHUNK"
        /\ next = 1
        /\ round = 0

-----------------------------------------------------------------------------
(***************************************************************************)
(* A stdio stream, as io_thread uses it                                    *)
(***************************************************************************)
Loaded(lo, hi) == [u \in lo .. (IF hi > FileSize THEN FileSize ELSE hi) - 1 |-> file[u]]

(* fseek: inside what the stream holds it does not touch the file.  To a   *)
(* block boundary it drops what the stream holds; elsewhere the block is   *)
(* read, up to the wanted place only if the stream held nothing.           *)
Seek(s, at) ==
  LET base == at - (at % Block)
  IN  IF at \in DOMAIN s THEN s
      ELSE IF at = base THEN Nothing
      ELSE Loaded(base, IF DOMAIN s = {} THEN at ELSE base + Block)

(* fread of [at, end): first what the stream holds, then whole blocks from *)
(* the file, and for the rest a block of which the tail is kept.           *)
Fread(s, at, end) ==
  LET held   == { u \in DOMAIN s : at \in DOMAIN s /\ at <= u /\ u < end }
      rest   == at + Cardinality(held)
      direct == ((end - rest) \div Block) * Block
  IN  [data   |-> [u \in at .. end - 1 |-> IF u \in held THEN s[u] ELSE file[u]],
       stream |-> IF rest + direct < end THEN Loaded(rest + direct, rest + direct + Block)
                  ELSE IF direct > 0 THEN Nothing ELSE s]

-----------------------------------------------------------------------------
(***************************************************************************)
(* io_thread()                                                             *)
(***************************************************************************)
Goto(w, from, to) == pc[w] = from /\ pc' = [pc EXCEPT ![w] = to]

NoData == UNCHANGED <<file, mem, ahead>>
NoPool == UNCHANGED <<op, job, free, target>>
NoPlan == UNCHANGED <<window, phase, next, round>>

(* while(!terminate): the program never sets it for this pool. *)
LoopHead(w)   == Goto(w, "loop", "lock") /\ NoData /\ NoPool /\ NoPlan

(* The worker's own lock, on entry or on the way out of a wait. *)
LockWorker(w) == Goto(w, "lock", "test") /\ NoData /\ NoPool /\ NoPlan

FindNoJob(w) == op[w] = "NO_OP" /\ Goto(w, "test", "wait") /\ NoData /\ NoPool /\ NoPlan

FindJob(w)   == op[w] # "NO_OP" /\ Goto(w, "test", "run") /\ NoData /\ NoPool /\ NoPlan

FallAsleep(w) == Goto(w, "wait", "asleep") /\ NoData /\ NoPool /\ NoPlan

SpuriousWakeup(w) == Goto(w, "asleep", "lock") /\ NoData /\ NoPool /\ NoPlan

ReadChunk(w) ==
  LET r == Fread(Seek(ahead[w], Off(job[w].chunk)), Off(job[w].chunk), End(job[w].chunk))
  IN  /\ op[w] = "READ_CHUNK"
      /\ Goto(w, "run", "finish")
      /\ mem' = [mem EXCEPT ![job[w].slot] = r.data]
      /\ ahead' = [ahead EXCEPT ![w] = r.stream]
      /\ UNCHANGED file /\ NoPool /\ NoPlan

(* Fault: the last unit of the chunk is not written. *)
AllButLast(c) == Off(c) .. End(c) - 2

Written(c) == Units(c)

(* fwrite and fflush: the stream holds nothing afterwards. *)
WriteChunk(w) ==
  LET c == job[w].chunk
  IN  /\ op[w] = "WRITE_CHUNK"
      /\ Goto(w, "run", "finish")
      /\ file' = [u \in Unit |-> IF u \in Written(c) THEN mem[job[w].slot][u] ELSE file[u]]
      /\ ahead' = [ahead EXCEPT ![w] = Nothing]
      /\ UNCHANGED mem /\ NoPool /\ NoPlan

(* Fault: nobody is signalled. *)
StaysAsleep(at) == at

(* pthread_cond_signal: whatever main sleeps for, it looks again. *)
Woken(at) == CASE at = "full" -> "schedule"
               [] at = "asleep" -> "barrier"
               [] OTHER -> at

(* io_finish *)
Finish(w) ==
  /\ pc[w] = "finish"
  /\ LockFree
  /\ op' = [op EXCEPT ![w] = "NO_OP"]
  /\ free' = free + 1
  /\ pc' = [pc EXCEPT ![w] = "loop", ![Main] = Woken(@)]
  /\ UNCHANGED <<job, target>> /\ NoData /\ NoPlan

-----------------------------------------------------------------------------
(***************************************************************************)
(* The main thread                                                         *)
(***************************************************************************)

(* Fault: one free worker is enough. *)
OneFree == free # 0

AllFree == free = NumWorkers

(* load_window: wait_for_all_io, then a read for every chunk of the window.*)
LoadWindow ==
  /\ round < MaxRounds
  /\ AllFree
  /\ Goto(Main, "idle", "schedule")
  /\ window' \in Window
  /\ phase' = "READ_CHUNK"
  /\ next' = 1
  /\ round' = round + 1
  /\ NoData /\ NoPool

(* schedule_io: sleep until a worker is free ... *)
SleepUntilFree ==
  /\ free = 0
  /\ Goto(Main, "schedule", "full")
  /\ NoData /\ NoPool /\ NoPlan

MainSpuriousWakeup ==
  /\ Goto(Main, "full", "schedule") \/ Goto(Main, "asleep", "barrier")
  /\ NoData /\ NoPool /\ NoPlan

(* Fault: every chunk goes through the first slot. *)
FirstSlot == 1

NextSlot == next

(* ... and give the job to the first idle one. *)
ScheduleIo ==
  /\ free # 0
  /\ Goto(Main, "schedule", "signal")
  /\ \E w \in Idle :
       /\ \A v \in Idle : w <= v
       /\ op' = [op EXCEPT ![w] = phase]
       /\ job' = [job EXCEPT ![w] = [slot |-> NextSlot, chunk |-> window[next]]]
       /\ target' = w
  /\ UNCHANGED free /\ NoData /\ NoPlan

(* Fault: the counter is not updated. *)
NotTaken == free

Taken == free - 1

(* The worker's lock is needed for the signal; after the last chunk main   *)
(* goes on to wait_for_all_io.                                             *)
SignalWorker ==
  /\ pc[Main] = "signal"
  /\ pc[target] \notin {"test", "wait"}
  /\ free' = Taken
  /\ next' = next + 1
  /\ pc' = [pc EXCEPT ![Main] = IF next = Len(window) THEN "barrier" ELSE "schedule",
                      ![target] = IF @ = "asleep" THEN "lock" ELSE @]
  /\ UNCHANGED <<op, job, target, window, phase, round>> /\ NoData

(* wait_for_all_io *)
WaitForAllIo ==
  /\ Goto(Main, "barrier", IF ~ AllFree THEN "asleep"
                           ELSE IF phase = "READ_CHUNK" THEN "loaded" ELSE "idle")
  /\ NoData /\ NoPool /\ NoPlan

(* The window is sorted - every unit of it is written anew - and           *)
(* write_window schedules a write for every chunk.                         *)
SortAndWriteWindow ==
  /\ AllFree
  /\ Goto(Main, "loaded", "schedule")
  /\ mem' = [s \in Slot |-> IF s \in DOMAIN window THEN [u \in DOMAIN mem[s] |-> round]
                          ELSE mem[s]]
  /\ phase' = "WRITE_CHUNK"
  /\ next' = 1
  /\ UNCHANGED <<file, ahead, window, round>> /\ NoPool

(* main returns. *)
ReturnFromMain == Goto(Main, "idle", "exited") /\ NoData /\ NoPool /\ NoPlan

-----------------------------------------------------------------------------
WorkerStep(w) ==
  /\ Alive
  /\ \/ LoopHead(w) \/ LockWorker(w) \/ FindNoJob(w) \/ FindJob(w) \/ FallAsleep(w)
     \/ ReadChunk(w) \/ WriteChunk(w) \/ Finish(w)

MainStep == \/ LoadWindow \/ SleepUntilFree \/ ScheduleIo \/ SignalWorker
            \/ WaitForAllIo \/ SortAndWriteWindow \/ ReturnFromMain

Spurious == Alive /\ (MainSpuriousWakeup \/ \E w \in Worker : SpuriousWakeup(w))

Exited == ~ Alive /\ UNCHANGED vars

Next == MainStep \/ (\E w \in Worker : WorkerStep(w)) \/ Spurious \/ Exited

Spec == Init /\ [][Next]_vars

(* Threads that can run do; spurious wakeups need not happen. *)
FairSpec == Spec /\ WF_vars(MainStep) /\ \A w \in Worker : WF_vars(WorkerStep(w))

-----------------------------------------------------------------------------
(***************************************************************************)
(* Properties                                                              *)
(***************************************************************************)
UnitsOf(f) == DOMAIN f \subseteq Unit /\ \A u \in DOMAIN f : f[u] \in Version

TypeOK == /\ file \in [Unit -> Version]
          /\ DOMAIN mem = Slot /\ \A s \in Slot : UnitsOf(mem[s])
          /\ DOMAIN ahead = Worker /\ \A w \in Worker : UnitsOf(ahead[w])
          /\ op \in [Worker -> {"NO_OP", "READ_CHUNK", "WRITE_CHUNK"}]
          /\ job \in [Worker -> Job]
          /\ free \in 0 .. NumWorkers
          /\ DOMAIN pc = Thread
          /\ pc[Main] \in MainPC
          /\ \A w \in Worker : pc[w] \in WorkerPC
          /\ target \in Thread
          /\ window \in Window \cup {<< >>}
          /\ phase \in {"READ_CHUNK", "WRITE_CHUNK"}
          /\ next \in 1 .. CacheSize + 1
          /\ round \in Version

(* What load_window leaves in the cache is what the file holds, whichever  *)
(* threads have read and written the chunks before (cache.c:202 "Load a    *)
(* contiguous window into cache").                                         *)
ReadsAreFresh ==
  pc[Main] = "loaded" =>
    \A i \in DOMAIN window : /\ DOMAIN mem[i] = Units(window[i])
                              /\ \A u \in Units(window[i]) : mem[i][u] = file[u]

(* When write_window returns, the window is in the file, all of it         *)
(* (cache.c:226 "Commit cache to file").                                   *)
WindowCommitted ==
  pc[Main] = "idle" =>
    \A i \in DOMAIN window : \A u \in Units(window[i]) : file[u] = round

(* Two jobs in flight never use the same slot or the same chunk, and a     *)
(* read is never in flight with a write: which of two jobs comes first     *)
(* cannot matter (io.c:86-112 with the barriers of cache.c:212-236).       *)
JobsIndependent ==
  \A v, w \in Worker :
    v # w /\ op[v] # "NO_OP" /\ op[w] # "NO_OP" =>
      /\ job[v].slot # job[w].slot
      /\ job[v].chunk # job[w].chunk
      /\ op[v] = op[w]

(* With WP.lock free the counter is the number of idle workers: schedule_io*)
(* that stops waiting does find a worker for its job (io.c:91-109).        *)
FreeWorkersExact == LockFree => free = Cardinality(Idle)

(* Whatever window is begun gets committed: main is woken whether it waits *)
(* for one worker or for all, and no job is slept on (io.c:86-143).        *)
WindowsGetCommitted == pc[Main] = "schedule" ~> pc[Main] = "idle"
=============================================================================
