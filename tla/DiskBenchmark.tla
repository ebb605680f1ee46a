--------------------------- MODULE DiskBenchmark ---------------------------
(***************************************************************************)
(* The disk benchmark of hw3 (MyDiskBenchmark.c): a process that opens one *)
(* file for each of its threads, starts the threads one after the other,   *)
(* waits for each with a busy loop on a plain int, joins them all, and     *)
(* prints how much was read or written.  A test runs it several times on   *)
(* the same directory, with one workload after another.                    *)
(*                                                                         *)
(* Granularity.  A step of a thread is one access to something another     *)
(* thread can see: its flag, the static flag of prand, the state of rand,  *)
(* its file.  Of a file only the length matters; sizes are in bytes, of    *)
(* which a Block (4096) is the unit of alignment.                          *)
(***************************************************************************)
EXTENDS Integers

CONSTANTS NumFiles,   \* [num_files]
          RecordArg,  \* [record_size] times its unit, before get_size rounds it
          FileArg,    \* [file_size] times its unit
          Block,      \* 4096
          Sector,     \* what a file opened with O_DIRECT is read and written by
          MaxRuns     \* bound on the runs of the program in one directory

(* A record size below one block is rounded to 0, which ends the process   *)
(* with a division by zero before any thread is started.                   *)
ASSUME DiskAssumption == /\ NumFiles \in Nat
                         /\ Block \in Nat \ {0}
                         /\ Sector \in Nat \ {0} /\ Block % Sector = 0
                         /\ RecordArg \in Nat /\ Block <= RecordArg
                         /\ FileArg \in Nat
                         /\ MaxRuns \in Nat

get_size(bytes) == (bytes \div Block) * Block

record_size == get_size(RecordArg)
file_size   == get_size(FileArg)

(* task_vector[i].file_size: whole records only. *)
total_io  == file_size \div record_size
task_size == total_io * record_size

Thread   == 0 .. NumFiles - 1
Write    == {"write_seq", "write_rand"}
Read     == {"read_seq", "read_rand"}
Workload == Write \cup Read
Absent   == -1

VARIABLES
  runs,      \* how many times the program has been started (for the bound)
  workload,  \* of this run
  main,      \* where the main thread is
  next,      \* its loop variable i
  init,      \* threads[i].init
  seeded,    \* the static variable init of prand
  pc,        \* where each thread is
  at,        \* its loop variable i
  offset,    \* where it has put its file descriptor
  calls,     \* how many records it has transferred (history)
  moved,     \* how many bytes that were (history)
  cut,       \* one of them was cut short by the system (history)
  length,    \* of each file, or Absent
  written    \* the workload the files were written by (history)

vars == <<runs, workload, main, next, init, seeded, pc, at, offset, calls, moved, cut,
          length, written>>

mainVars   == <<runs, workload, main, next, written>>
threadVars == <<pc, at, offset, calls, moved, cut>>

MainPC   == {"idle", "open", "create", "spin", "join", "printed", "failed"}
ThreadPC == {"none", "start", "loop", "prand", "seed", "mark", "draw", "io", "done"}

Init == /\ runs = 0 /\ workload \in Workload /\ main = "idle" /\ next = 0
        /\ init = [t \in Thread |-> FALSE]
        /\ seeded = FALSE
        /\ pc = [t \in Thread |-> "none"]
        /\ at = [t \in Thread |-> 0]
        /\ offset = [t \in Thread |-> 0]
        /\ calls = [t \in Thread |-> 0]
        /\ moved = [t \in Thread |-> 0]
        /\ cut = [t \in Thread |-> FALSE]
        /\ length = [t \in Thread |-> Absent]
        /\ written = "none"

(* exit(1) in any thread ends them all. *)
Alive == main # "failed"

-----------------------------------------------------------------------------
(***************************************************************************)
(* worker_thread()                                                         *)
(***************************************************************************)
GoOn(t, from, to) == pc[t] = from /\ pc' = [pc EXCEPT ![t] = to]

(* Fault: every thread takes itself for the first. *)
FirstId(t) == 0

(* What the argument of the thread points to: worker_id in its task. *)
worker_id(t) == t

(* threads[worker_id].init = 1 *)
Begin(t) ==
  /\ GoOn(t, "start", "loop")
  /\ init' = [init EXCEPT ![worker_id(t)] = TRUE]
  /\ UNCHANGED <<mainVars, seeded, at, offset, calls, moved, cut, length>>

(* for(i = 0; i < file_size; i += record_size), up to the lseek. *)
LoopHead(t) ==
  /\ IF at[t] >= task_size
     THEN GoOn(t, "loop", "done") /\ UNCHANGED offset
     ELSE IF workload \in {"write_seq", "read_seq"}
     THEN GoOn(t, "loop", "io") /\ offset' = [offset EXCEPT ![t] = at[t]]
     ELSE GoOn(t, "loop", "prand") /\ UNCHANGED offset
  /\ UNCHANGED <<mainVars, init, seeded, at, calls, moved, cut, length>>

(* if(!init) ... *)
TestSeeded(t) ==
  /\ GoOn(t, "prand", IF seeded THEN "draw" ELSE "seed")
  /\ UNCHANGED <<mainVars, init, seeded, at, offset, calls, moved, cut, length>>

(* ... { srand(238592); ... *)
Seed(t) ==
  /\ GoOn(t, "seed", "mark")
  /\ UNCHANGED <<mainVars, init, seeded, at, offset, calls, moved, cut, length>>

(* Fault: init = 1 is left out. *)
NotMarked == FALSE

Marked == TRUE

(* ... init = 1; } *)
Mark(t) ==
  /\ GoOn(t, "mark", "draw")
  /\ seeded' = Marked
  /\ UNCHANGED <<mainVars, init, at, offset, calls, moved, cut, length>>

(* Fault: the modulus is that of the file. *)
WholeSpan == task_size \div Block

(* The number of offsets prand chooses from. *)
Span == (task_size - record_size) \div Block

(* rand()%Span blocks.  What rand returns depends on how often it has been *)
(* seeded and called, by all threads: any number.                          *)
Draw(t) ==
  /\ GoOn(t, "draw", "io")
  /\ \E block \in IF Span = 0 THEN {0} ELSE 0 .. Span - 1 :
        offset' = [offset EXCEPT ![t] = block * Block]
  /\ UNCHANGED <<mainVars, init, seeded, at, calls, moved, cut, length>>

(* How many bytes one call moves, of the n that it could: fewer are no     *)
(* error.  Linux moves no more than 0x7ffff000 at once; a disk gets full.  *)
Counts(n) == IF n = 0 THEN {0} ELSE { m \in 1 .. n : m % Sector = 0 }

(* What the file has for a read at the offset: less than a record at its   *)
(* end, and nothing behind it.  Neither is an error.                       *)
Available(t) == IF offset[t] + record_size <= length[t] THEN record_size
                ELSE IF offset[t] < length[t] THEN length[t] - offset[t]
                ELSE 0

(* The length of the file after a write of n bytes at the offset. *)
Extended(t, n) == IF length[t] > offset[t] + n THEN length[t] ELSE offset[t] + n

(* Any count but -1 will do: it is not looked at again, and the loop goes  *)
(* on by a whole record.  n is the count, of what could have been moved.   *)
TransferRecord(t, n, most) ==
  /\ GoOn(t, "io", "loop")
  /\ calls' = [calls EXCEPT ![t] = @ + 1]
  /\ moved' = [moved EXCEPT ![t] = @ + n]
  /\ cut' = [cut EXCEPT ![t] = @ \/ n < most]
  /\ at' = [at EXCEPT ![t] = @ + record_size]
  /\ UNCHANGED <<mainVars, init, seeded, offset>>

ReadRecord(t) ==
  /\ workload \in Read
  /\ \E n \in Counts(Available(t)) : TransferRecord(t, n, Available(t))
  /\ UNCHANGED length

WriteRecord(t) ==
  /\ workload \in Write
  /\ \E n \in Counts(record_size) : /\ TransferRecord(t, n, record_size)
                                   /\ length' = [length EXCEPT ![t] = Extended(t, n)]

(* read() or write() returns -1, and the program ends. *)
TransferFails(t) ==
  /\ pc[t] = "io"
  /\ main' = "failed"
  /\ UNCHANGED <<runs, workload, next, written, init, seeded, threadVars, length>>

-----------------------------------------------------------------------------
(***************************************************************************)
(* main() and test()                                                       *)
(***************************************************************************)

(* The program is started: a new process, the files of the last one.       *)
StartRun ==
  /\ main \in {"idle", "printed"}
  /\ runs < MaxRuns
  /\ runs' = runs + 1
  /\ main' = "open"
  /\ workload' \in Workload
  /\ next' = 0
  /\ init' = [t \in Thread |-> FALSE]
  /\ seeded' = FALSE
  /\ pc' = [t \in Thread |-> "none"]
  /\ at' = [t \in Thread |-> 0]
  /\ offset' = [t \in Thread |-> 0]
  /\ calls' = [t \in Thread |-> 0]
  /\ moved' = [t \in Thread |-> 0]
  /\ cut' = [t \in Thread |-> FALSE]
  /\ UNCHANGED <<length, written>>

(* A file to write is removed and created, one to read must be there.      *)
OpenFiles ==
  /\ main = "open"
  /\ IF workload \in Write
     THEN /\ main' = "create"
          /\ length' = [t \in Thread |-> 0]
          /\ written' = workload
     ELSE /\ main' = IF \E t \in Thread : length[t] = Absent THEN "failed" ELSE "create"
          /\ UNCHANGED <<length, written>>
  /\ UNCHANGED <<runs, workload, next, init, seeded, threadVars>>

(* pthread_create(), with the flag of the thread cleared before. *)
CreateThread ==
  /\ main = "create" /\ next < NumFiles
  /\ init' = [init EXCEPT ![next] = FALSE]
  /\ pc' = [pc EXCEPT ![next] = "start"]
  /\ main' = "spin"
  /\ UNCHANGED <<runs, workload, next, written, seeded, at, offset, calls, moved, cut, length>>

(* while(!threads[i].init);  The build does not optimise: every turn reads *)
(* the flag.                                                               *)
Spin ==
  /\ main = "spin"
  /\ IF init[next] THEN main' = "create" /\ next' = next + 1
                   ELSE UNCHANGED <<main, next>>
  /\ UNCHANGED <<runs, workload, written, init, seeded, threadVars, length>>

(* Fault: the loop goes on with i where the last one left it, and one more. *)
Continued == next + 1

(* Fault: only the last thread is joined. *)
LastToJoin == IF NumFiles = 0 THEN 0 ELSE NumFiles - 1

FirstToJoin == 0

AllStarted ==
  /\ main = "create" /\ next = NumFiles
  /\ main' = "join"
  /\ next' = FirstToJoin
  /\ UNCHANGED <<runs, workload, written, init, seeded, threadVars, length>>

(* pthread_join(threads[i].tid) *)
Join ==
  /\ main = "join" /\ next < NumFiles
  /\ pc[next] = "done"
  /\ next' = next + 1
  /\ UNCHANGED <<runs, workload, main, written, init, seeded, threadVars, length>>

PrintResults ==
  /\ main = "join" /\ next = NumFiles
  /\ main' = "printed"
  /\ UNCHANGED <<runs, workload, next, written, init, seeded, threadVars, length>>

-----------------------------------------------------------------------------
MainStep == StartRun \/ OpenFiles \/ CreateThread \/ Spin \/ AllStarted \/ Join
            \/ PrintResults

ThreadStep(t) ==
  /\ Alive
  /\ \/ Begin(t) \/ LoopHead(t) \/ TestSeeded(t) \/ Seed(t) \/ Mark(t) \/ Draw(t)
     \/ ReadRecord(t) \/ WriteRecord(t)

(* The last run has ended. *)
Over == /\ main = "failed" \/ (main = "printed" /\ runs = MaxRuns)
        /\ UNCHANGED vars

Next == \/ MainStep
        \/ \E t \in Thread : ThreadStep(t) \/ (Alive /\ TransferFails(t))
        \/ Over

Spec == Init /\ [][Next]_vars

(* Every thread that can run is run eventually; a disk need not fail.      *)
FairSpec == Spec /\ WF_vars(MainStep) /\ \A t \in Thread : WF_vars(ThreadStep(t))

-----------------------------------------------------------------------------
(***************************************************************************)
(* Properties                                                              *)
(***************************************************************************)
TypeOK == /\ runs \in Nat
          /\ workload \in Workload
          /\ main \in MainPC
          /\ next \in 0 .. NumFiles
          /\ init \in [Thread -> BOOLEAN]
          /\ seeded \in BOOLEAN
          /\ pc \in [Thread -> ThreadPC]
          /\ at \in [Thread -> Nat]
          /\ offset \in [Thread -> Nat]
          /\ calls \in [Thread -> Nat]
          /\ moved \in [Thread -> Nat]
          /\ cut \in [Thread -> BOOLEAN]
          /\ length \in [Thread -> Nat \cup {Absent}]
          /\ written \in Write \cup {"none"}

(* No workload reads or writes past the records of the file, wherever the  *)
(* random offsets fall (MyDiskBenchmark.c:62-67).                          *)
AccessInFile ==
  \A t \in Thread : pc[t] = "io" => offset[t] + record_size <= task_size

(* The flag of prand is unprotected, and several threads may seed rand at  *)
(* once, each undoing what others have drawn; but a thread does so before  *)
(* its first transfer or never (MyDiskBenchmark.c:56-60).                  *)
SeedsEarly == \A t \in Thread : pc[t] \in {"seed", "mark"} => calls[t] = 0

(* What is printed is file_size and total_io for each file.  By then every *)
(* thread has done so many calls.  The bytes are those moved, but for less *)
(* than a record of each file, if no call was cut short and a file that is *)
(* read is whole; and are not if a call was cut short, which nothing makes *)
(* good and nothing reports (MyDiskBenchmark.c:71-119, 189, 197-217).      *)
ResultsTrue ==
  main = "printed" =>
    \A t \in Thread :
       /\ calls[t] = total_io
       /\ moved[t] <= task_size
       /\ cut[t] => moved[t] < task_size
       /\ ~ cut[t] /\ (workload \in Write \/ length[t] = task_size)
            => moved[t] = task_size /\ file_size - moved[t] < record_size

(* A file that was written sequentially ends within its last record, also  *)
(* for the runs that read it later, and at its end if no write of that run *)
(* was cut short (MyDiskBenchmark.c:96-107).                               *)
SequentialWhole ==
  main = "printed" /\ written = "write_seq" =>
    \A t \in Thread : /\ length[t] <= task_size /\ task_size - length[t] < record_size
                      /\ workload = "write_seq" /\ ~ cut[t] => length[t] = task_size

(* "[file_size]: The total size of the file." (MyDiskBenchmark.c:228): a   *)
(* run that writes, with no write cut short, leaves files of that size.    *)
FilesComplete ==
  main = "printed" /\ workload \in Write =>
    \A t \in Thread : ~ cut[t] => length[t] = task_size

(* A test that was started ends: main misses no thread's flag, and no      *)
(* thread is left running (MyDiskBenchmark.c:191-200).                     *)
TestEnds == main = "open" ~> main \in {"printed", "failed"}
=============================================================================
