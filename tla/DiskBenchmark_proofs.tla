------------------------ MODULE DiskBenchmark_proofs ------------------------
(***************************************************************************)
(* Theorems about DiskBenchmark, for every number of files and all sizes.  *)
(***************************************************************************)
EXTENDS DiskBenchmark, TLAPS

LEMMA Division ==
  ASSUME NEW x \in Nat, NEW b \in Nat \ {0}
  PROVE  /\ x \div b \in Nat
         /\ (x \div b) * b <= x
         /\ x < (x \div b) * b + b
  OBVIOUS

LEMMA Product ==
  ASSUME NEW a \in Nat, NEW b \in Nat, NEW r \in Nat, a < b
  PROVE  a * r + r <= b * r
  OBVIOUS

LEMMA AtLeast ==
  ASSUME NEW b \in Nat, NEW r \in Nat, 0 < b
  PROVE  r <= b * r
  OBVIOUS
(* What rounding leaves of the sizes. *)
LEMMA Sizes ==
  /\ record_size \in Nat \ {0} /\ file_size \in Nat
  /\ total_io \in Nat /\ task_size \in Nat
  /\ task_size <= file_size /\ file_size - task_size < record_size
<1>1. record_size \in Nat \ {0}
  <2>1. RecordArg \div Block \in Nat /\ RecordArg < (RecordArg \div Block) * Block + Block
    BY Division, DiskAssumption
  <2>2. RecordArg \div Block # 0
    BY <2>1, DiskAssumption
  <2> QED BY <2>1, <2>2, AtLeast, DiskAssumption DEF record_size, get_size
<1>2. file_size \in Nat
  <2>1. FileArg \div Block \in Nat
    BY Division, DiskAssumption
  <2> QED BY <2>1, DiskAssumption DEF file_size, get_size
<1>3. /\ total_io \in Nat
      /\ total_io * record_size <= file_size
      /\ file_size < total_io * record_size + record_size
  BY <1>1, <1>2, Division DEF total_io
<1>4. total_io * record_size \in Nat
  BY <1>1, <1>3
<1> QED BY <1>1, <1>2, <1>3, <1>4 DEF task_size

LEMMA SpanType == 0 < total_io => Span \in Nat
<1> SUFFICES ASSUME 0 < total_io PROVE Span \in Nat
  OBVIOUS
<1>1. record_size <= task_size
  BY Sizes, AtLeast DEF task_size
<1> QED BY <1>1, Sizes, Division, DiskAssumption DEF Span

(* Every offset that prand can return leaves room for a record. *)
LEMMA SpanFits ==
  ASSUME 0 < total_io, NEW k \in Nat, k = 0 \/ k < Span
  PROVE  /\ k * Block \in Nat
         /\ k * Block + record_size <= task_size
<1>1. record_size <= task_size
  BY Sizes, AtLeast DEF task_size
<1>2. Span \in Nat /\ Span * Block <= task_size - record_size
  BY <1>1, Sizes, Division, DiskAssumption DEF Span
<1>3. CASE k = 0
  BY <1>1, <1>3, Sizes, DiskAssumption
<1>4. CASE k < Span
  <2>1. k * Block + Block <= Span * Block
    BY <1>2, <1>4, Product, DiskAssumption
  <2>2. k * Block \in Nat /\ Span * Block \in Nat
    BY <1>2, DiskAssumption
  <2> QED BY <1>2, <2>1, <2>2, Sizes, DiskAssumption
<1> QED BY <1>3, <1>4

(* A call moves something if there is something, and no more than that. *)
LEMMA CountIsShort ==
  ASSUME NEW most \in Nat, NEW n \in Counts(most)
  PROVE  n \in Nat /\ n <= most /\ (0 < most => 0 < n)
BY DEF Counts

LEMMA AvailableType ==
  ASSUME TypeOK, NEW t \in Thread
  PROVE  /\ Available(t) \in Nat /\ Available(t) <= record_size
         /\ offset[t] + record_size <= length[t] => Available(t) = record_size
BY Sizes DEF TypeOK, Available, Absent

-----------------------------------------------------------------------------
(***************************************************************************)
(* The inductive invariant                                                 *)
(***************************************************************************)
Sequential == workload \in {"write_seq", "read_seq"}

(* Where a thread is in its loop. *)
Progress(t) ==
  /\ at[t] = calls[t] * record_size
  /\ calls[t] <= total_io
  /\ pc[t] \in {"none", "start"} => calls[t] = 0 /\ moved[t] = 0 /\ ~ cut[t]
  /\ pc[t] \in {"prand", "seed", "mark", "draw", "io"} => calls[t] < total_io
  /\ pc[t] = "done" => calls[t] = total_io
  /\ pc[t] = "io" => /\ offset[t] + record_size <= task_size
                     /\ Sequential => offset[t] = at[t]

(* Who has been through prand knows that rand is seeded. *)
Seeding(t) ==
  /\ pc[t] \in {"prand", "seed", "mark", "draw"} => ~ Sequential
  /\ pc[t] \in {"seed", "mark"} => calls[t] = 0
  /\ pc[t] = "draw" => seeded
  /\ ~ Sequential /\ (calls[t] > 0 \/ pc[t] = "io") => seeded

(* What has been moved, with nothing cut short and a whole file: all of it. *)
Moved(t) ==
  /\ moved[t] <= at[t]
  /\ cut[t] => moved[t] < at[t]
  /\ ~ cut[t] /\ (workload \in Write \/ length[t] = task_size) => moved[t] = at[t]

(* The file ends within the record before the place. *)
EndsWithin(t, place) == length[t] <= place /\ place - length[t] < record_size

Files(t) ==
  /\ main \in {"create", "spin", "join", "printed"} =>
       /\ Moved(t)
       /\ workload \in Write => written = workload
       /\ workload = "write_seq" => /\ EndsWithin(t, at[t])
                                    /\ ~ cut[t] => length[t] = at[t]
       /\ workload \in Read /\ written = "write_seq" => EndsWithin(t, task_size)
  /\ main \in {"idle", "open"} /\ written = "write_seq" => EndsWithin(t, task_size)

(* How far main has got with the threads. *)
Started(t) ==
  /\ main \in {"idle", "open"} => pc[t] = "none"
  /\ main = "create" => (next <= t => pc[t] = "none")
  /\ main = "spin" => (next < t => pc[t] = "none")
  /\ main = "join" => (t < next => pc[t] = "done")
  /\ main = "printed" => pc[t] = "done"

ThreadInv(t) == Progress(t) /\ Seeding(t) /\ Files(t) /\ Started(t)

DiskInv == TypeOK /\ (main = "spin" => next < NumFiles) /\ \A t \in Thread : ThreadInv(t)

LEMMA InitDisk == Init => DiskInv
<1> SUFFICES ASSUME Init PROVE DiskInv
  OBVIOUS
<1>1. TypeOK
  <2>1. next \in 0 .. NumFiles /\ main \in MainPC /\ written \in Write \cup {"none"}
    BY DiskAssumption DEF Init, MainPC
  <2>2. pc \in [Thread -> ThreadPC] /\ length \in [Thread -> Nat \cup {Absent}]
    BY DEF Init, ThreadPC
  <2> QED BY <2>1, <2>2 DEF Init, TypeOK
<1>2. ASSUME NEW t \in Thread PROVE ThreadInv(t)
  <2>1. 0 = 0 * record_size
    BY Sizes
  <2> QED BY <2>1, Sizes DEF Init, ThreadInv, Progress, Seeding, Files, Moved,
          EndsWithin, Started
<1> QED BY <1>1, <1>2 DEF DiskInv, Init

LEMMA TypeStep == TypeOK /\ (main = "spin" => next < NumFiles) /\ [Next]_vars => TypeOK'
<1> SUFFICES ASSUME TypeOK, main = "spin" => next < NumFiles, [Next]_vars PROVE TypeOK'
  OBVIOUS
<1> USE DiskAssumption DEF TypeOK
<1>1. CASE UNCHANGED vars
  BY <1>1 DEF vars
<1>2. CASE StartRun
  <2>1. main' \in MainPC /\ next' \in 0 .. NumFiles
    BY <1>2 DEF StartRun, MainPC
  <2>2. pc' \in [Thread -> ThreadPC]
    BY <1>2 DEF StartRun, ThreadPC
  <2>3. /\ init' \in [Thread -> BOOLEAN] /\ seeded' \in BOOLEAN
        /\ at' \in [Thread -> Nat] /\ offset' \in [Thread -> Nat]
        /\ calls' \in [Thread -> Nat] /\ moved' \in [Thread -> Nat] /\ cut' \in [Thread -> BOOLEAN]
    BY <1>2 DEF StartRun
  <2>4. runs' \in Nat /\ workload' \in Workload /\ UNCHANGED <<length, written>>
    BY <1>2 DEF StartRun
  <2> QED BY <2>1, <2>2, <2>3, <2>4
<1>9. CASE OpenFiles
  <2>1. main' \in MainPC /\ written' \in Write \cup {"none"}
    BY <1>9 DEF OpenFiles, MainPC
  <2>2. length' \in [Thread -> Nat \cup {Absent}]
    BY <1>9 DEF OpenFiles
  <2> QED BY <1>9, <2>1, <2>2 DEF OpenFiles, threadVars
<1>7. CASE CreateThread
  BY <1>7 DEF CreateThread, MainPC, ThreadPC
<1>8. CASE Spin \/ AllStarted \/ Join \/ PrintResults
  BY <1>8 DEF Spin, AllStarted, FirstToJoin, Join, PrintResults, threadVars, MainPC
<1>3. ASSUME NEW t \in Thread, Begin(t) \/ TestSeeded(t) \/ Seed(t) \/ Mark(t)
      PROVE  TypeOK'
  <2>1. pc' \in [Thread -> ThreadPC]
    BY <1>3 DEF Begin, TestSeeded, Seed, Mark, GoOn, ThreadPC
  <2>2. init' \in [Thread -> BOOLEAN] /\ seeded' \in BOOLEAN
    BY <1>3 DEF Begin, TestSeeded, Seed, Mark, Marked
  <2>3. UNCHANGED <<mainVars, at, offset, calls, moved, cut, length>>
    BY <1>3 DEF Begin, TestSeeded, Seed, Mark
  <2> QED BY <2>1, <2>2, <2>3 DEF mainVars
<1>11. ASSUME NEW t \in Thread, LoopHead(t)
       PROVE  TypeOK'
  <2>1. pc' \in [Thread -> ThreadPC]
    BY <1>11 DEF LoopHead, GoOn, ThreadPC
  <2>2. offset' \in [Thread -> Nat]
    BY <1>11 DEF LoopHead
  <2>3. UNCHANGED <<mainVars, init, seeded, at, calls, moved, cut, length>>
    BY <1>11 DEF LoopHead
  <2> QED BY <2>1, <2>2, <2>3 DEF mainVars
<1>4. ASSUME NEW t \in Thread, Draw(t)
      PROVE  TypeOK'
  <2>1. PICK k \in (IF Span = 0 THEN {0} ELSE 0 .. Span - 1) :
           offset' = [offset EXCEPT ![t] = k * Block]
    BY <1>4 DEF Draw
  <2>2. k \in Nat
    BY <2>1
  <2>3. k * Block \in Nat
    BY <2>2
  <2> QED BY <1>4, <2>1, <2>3 DEF Draw, GoOn, mainVars, ThreadPC
<1>5. ASSUME NEW t \in Thread, NEW most \in Nat, NEW n \in Counts(most), TransferRecord(t, n, most),
             length' = length \/ length' = [length EXCEPT ![t] = Extended(t, n)]
      PROVE  TypeOK'
  <2>1. n \in Nat /\ Extended(t, n) \in Nat
    BY CountIsShort DEF Extended, Absent
  <2>2. pc' \in [Thread -> ThreadPC]
    BY <1>5 DEF TransferRecord, GoOn, ThreadPC
  <2>3. moved' \in [Thread -> Nat] /\ length' \in [Thread -> Nat \cup {Absent}]
    BY <1>5, <2>1 DEF TransferRecord
  <2>4. at' \in [Thread -> Nat] /\ calls' \in [Thread -> Nat]
    BY <1>5, Sizes DEF TransferRecord
  <2>5. cut' \in [Thread -> BOOLEAN]
    BY <1>5 DEF TransferRecord
  <2> QED BY <1>5, <2>2, <2>3, <2>4, <2>5 DEF TransferRecord, mainVars
<1>10. ASSUME NEW t \in Thread, ReadRecord(t) \/ WriteRecord(t)
       PROVE  TypeOK'
  <2>1. Available(t) \in Nat /\ record_size \in Nat
    BY AvailableType, Sizes
  <2> QED BY <1>5, <1>10, <2>1 DEF ReadRecord, WriteRecord
<1>6. ASSUME NEW t \in Thread, TransferFails(t)
      PROVE  TypeOK'
  BY <1>6 DEF TransferFails, threadVars, MainPC
<1> QED BY <1>1, <1>2, <1>3, <1>4, <1>6, <1>7, <1>8, <1>9, <1>10, <1>11
        DEF Next, MainStep, ThreadStep, Over

(* A step of a thread leaves the others what they are. *)
LEMMA OtherThreads ==
  ASSUME DiskInv, NEW t \in Thread, NEW u \in Thread, u # t,
         main # "failed", ThreadStep(t) \/ TransferFails(t)
  PROVE  ThreadInv(u)'
<1>1. /\ pc'[u] = pc[u] /\ at'[u] = at[u] /\ offset'[u] = offset[u]
      /\ calls'[u] = calls[u] /\ moved'[u] = moved[u] /\ length'[u] = length[u]
      /\ cut'[u] = cut[u]
      /\ UNCHANGED <<workload, next, written>> /\ (main' = main \/ main' = "failed")
      /\ seeded => seeded'
  BY DEF DiskInv, TypeOK, ThreadStep, Begin, LoopHead, TestSeeded, Seed, Mark, Draw, ReadRecord,
     WriteRecord, TransferRecord, TransferFails, GoOn, Marked, mainVars, threadVars
<1>2. ThreadInv(u)
  BY DEF DiskInv
<1> QED BY <1>1, <1>2 DEF ThreadInv, Progress, Seeding, Files, Moved,
          EndsWithin, Started, Sequential

LEMMA OwnThread ==
  ASSUME DiskInv, NEW t \in Thread, main # "failed", ThreadStep(t) \/ TransferFails(t)
  PROVE  ThreadInv(t)'
<1>1. TypeOK /\ ThreadInv(t)
  BY DEF DiskInv
<1> USE Sizes
<1>2. CASE Begin(t) \/ TestSeeded(t) \/ Seed(t) \/ Mark(t)
  <2>1. /\ pc[t] \in {"start", "prand", "seed", "mark"}
        /\ pc'[t] \in {"loop", "draw", "seed", "mark"}
        /\ pc[t] = "start" => pc'[t] = "loop"
        /\ pc[t] # "start" => pc'[t] # "loop"
        /\ pc[t] = "prand" => pc'[t] = IF seeded THEN "draw" ELSE "seed"
        /\ pc'[t] = "draw" => seeded'
        /\ pc'[t] = "mark" => pc[t] = "seed"
        /\ seeded => seeded'
        /\ UNCHANGED <<at, offset, calls, moved, cut, length, workload, written, main, next>>
    BY <1>1, <1>2 DEF Begin, TestSeeded, Seed, Mark, GoOn, Marked, mainVars, TypeOK
  <2>2. Progress(t)'
    BY <1>1, <2>1 DEF ThreadInv, Progress
  <2>3. Seeding(t)'
    <3>1. calls[t] = 0 \/ calls[t] > 0
      BY <1>1 DEF TypeOK
    <3>2. ~ seeded /\ pc[t] = "prand" => calls[t] = 0
      BY <1>1, <2>1, <3>1 DEF ThreadInv, Seeding
    <3> QED BY <1>1, <2>1, <3>2 DEF ThreadInv, Progress, Seeding, Sequential
  <2>4. Files(t)' /\ Started(t)'
    BY <1>1, <2>1 DEF ThreadInv, Files, Moved, EndsWithin, Started
  <2> QED BY <2>2, <2>3, <2>4 DEF ThreadInv
<1>3. CASE LoopHead(t)
  <2>1. calls[t] < total_io => at[t] + record_size <= task_size
    BY <1>1, Product DEF TypeOK, ThreadInv, Progress, task_size
  <2>2. calls[t] < total_io <=> at[t] < task_size
    BY <1>1, <2>1 DEF TypeOK, ThreadInv, Progress, task_size
  <2>3. CASE at[t] >= task_size
    BY <1>1, <1>3, <2>2, <2>3 DEF LoopHead, GoOn, mainVars, TypeOK,
       ThreadInv, Progress, Seeding, Files, Moved,
          EndsWithin, Started, Sequential
  <2>4. CASE ~ (at[t] >= task_size)
    <3>0. pc[t] = "loop" /\ calls[t] < total_io
      <4>1. pc[t] = "loop"
        BY <1>3 DEF LoopHead, GoOn
      <4>2. at[t] < task_size
        BY <1>1, <2>4 DEF TypeOK
      <4> QED BY <4>1, <4>2, <2>2
    <3>1. /\ pc[t] = "loop" /\ calls[t] < total_io
          /\ UNCHANGED <<at, calls, moved, cut, length, workload, written, main, next, seeded>>
      <4>1. UNCHANGED <<mainVars, init, seeded, at, calls, moved, cut, length>>
        BY <1>3 DEF LoopHead
      <4> QED BY <3>0, <4>1 DEF mainVars
    <3>2. IF Sequential THEN pc'[t] = "io" /\ offset'[t] = at[t] ELSE pc'[t] = "prand"
      BY <1>1, <1>3, <2>4 DEF LoopHead, GoOn, TypeOK, Sequential
    <3>3. Progress(t)'
      BY <1>1, <2>1, <3>1, <3>2 DEF ThreadInv, Progress, Sequential
    <3>4. Seeding(t)' /\ Files(t)' /\ Started(t)'
      BY <1>1, <3>1, <3>2 DEF ThreadInv, Seeding, Files, Moved,
          EndsWithin, Started, Sequential
    <3> QED BY <3>3, <3>4 DEF ThreadInv
  <2> QED BY <2>3, <2>4
<1>4. CASE Draw(t)
  <2>1. PICK k \in (IF Span = 0 THEN {0} ELSE 0 .. Span - 1) :
           offset' = [offset EXCEPT ![t] = k * Block]
    BY <1>4 DEF Draw
  <2>3. 0 < total_io
    BY <1>1, <1>4 DEF Draw, GoOn, TypeOK, ThreadInv, Progress
  <2>2. k \in Nat /\ (k = 0 \/ k < Span)
    BY <2>1, <2>3, SpanType
  <2>4. k * Block + record_size <= task_size
    BY <2>2, <2>3, SpanFits
  <2> QED BY <1>1, <1>4, <2>1, <2>4 DEF Draw, GoOn, mainVars, TypeOK,
          ThreadInv, Progress, Seeding, Files, Moved,
          EndsWithin, Started, Sequential
<1>5. CASE ReadRecord(t) \/ WriteRecord(t)
  <2> DEFINE most == IF workload \in Write THEN record_size ELSE Available(t)
  <2>0. PICK n \in Counts(most) :
          /\ TransferRecord(t, n, most)
          /\ workload \in Write => length' = [length EXCEPT ![t] = Extended(t, n)]
          /\ workload \in Read => length' = length
    <3>1. CASE ReadRecord(t)
      <4>1. PICK n \in Counts(Available(t)) : TransferRecord(t, n, Available(t))
        BY <3>1 DEF ReadRecord
      <4> QED BY <3>1, <4>1 DEF ReadRecord, Read, Write
    <3>2. CASE WriteRecord(t)
      <4>1. PICK n \in Counts(record_size) :
              TransferRecord(t, n, record_size) /\ length' = [length EXCEPT ![t] = Extended(t, n)]
        BY <3>2 DEF WriteRecord
      <4> QED BY <3>2, <4>1 DEF WriteRecord, Read, Write
    <3> QED BY <1>5, <3>1, <3>2
  <2>7. most = IF workload \in Write THEN record_size ELSE Available(t)
    OBVIOUS
  <2> HIDE DEF most
  <2>1. /\ pc[t] = "io" /\ pc'[t] = "loop" /\ calls[t] < total_io
        /\ calls'[t] = calls[t] + 1 /\ at'[t] = at[t] + record_size
        /\ moved'[t] = moved[t] + n /\ cut'[t] = (cut[t] \/ n < most)
        /\ UNCHANGED <<runs, workload, main, next, written, seeded>>
    BY <1>1, <2>0 DEF TransferRecord, GoOn, mainVars, TypeOK, ThreadInv, Progress
  <2>2. (calls[t] + 1) * record_size = calls[t] * record_size + record_size
    BY <1>1 DEF TypeOK
  <2>3. Progress(t)'
    BY <1>1, <2>1, <2>2 DEF TypeOK, ThreadInv, Progress
  <2>4. Seeding(t)'
    BY <1>1, <2>1 DEF ThreadInv, Seeding, Sequential
  <2>5. Files(t)'
    <3>0. most \in Nat /\ n \in Nat /\ n <= most /\ most <= record_size /\ (0 < most => 0 < n)
      BY <1>1, <2>0, <2>7, AvailableType, CountIsShort
    <3>1. /\ main \notin {"idle", "open"} /\ Files(t)
          /\ at[t] \in Nat /\ moved[t] \in Nat /\ length[t] \in Int /\ cut[t] \in BOOLEAN
          /\ offset[t] \in Nat
      BY <1>1, <2>1 DEF ThreadInv, Started, TypeOK, Absent
    <3>4. /\ cut'[t] => cut[t] \/ n < most
          /\ ~ cut'[t] => ~ cut[t] /\ n = most
      <4>1. cut'[t] = (cut[t] \/ n < most)
        BY <2>1
      <4>2. n < most \/ n = most
        BY <3>0
      <4> QED BY <4>1, <4>2
    <3>2. CASE workload \in Write
      <4>1. most = record_size /\ length'[t] = Extended(t, n)
        BY <1>1, <2>0, <2>7, <3>2 DEF TypeOK
      <4>2. main \in {"create", "spin", "join", "printed"} => Moved(t)'
        BY <2>1, <3>0, <3>1, <3>2, <3>4, <4>1 DEF Files, Moved
      <4>3. ASSUME main \in {"create", "spin", "join", "printed"}, workload = "write_seq"
            PROVE  /\ EndsWithin(t, at[t])'
                   /\ ~ cut'[t] => length'[t] = at'[t]
        <5>1. offset[t] = at[t] /\ length[t] <= at[t]
          BY <1>1, <2>1, <3>1, <4>3 DEF ThreadInv, Progress, Sequential, Files, EndsWithin
        <5>2. length'[t] = at[t] + n
          BY <3>0, <3>1, <4>1, <5>1 DEF Extended
        <5> QED BY <2>1, <3>0, <3>1, <3>4, <4>1, <5>2 DEF EndsWithin
      <4> QED BY <2>1, <3>1, <3>2, <4>2, <4>3 DEF Files, Write, Read
    <3>3. CASE workload \in Read
      <4>1. most = Available(t) /\ length' = length
        BY <2>0, <2>7, <3>3 DEF Read, Write
      <4>2. length[t] = task_size => most = record_size
        BY <1>1, <2>1, <4>1, AvailableType DEF ThreadInv, Progress
      <4>3. main \in {"create", "spin", "join", "printed"} => Moved(t)'
        BY <2>1, <3>0, <3>1, <3>3, <3>4, <4>1, <4>2 DEF Files, Moved, Write, Read
      <4> QED BY <2>1, <3>1, <3>3, <4>1, <4>3 DEF Files, EndsWithin, Write, Read
    <3> QED BY <1>1, <3>2, <3>3 DEF TypeOK, Workload
  <2>6. Started(t)'
    BY <1>1, <2>1 DEF ThreadInv, Started
  <2> QED BY <2>3, <2>4, <2>5, <2>6 DEF ThreadInv
<1>6. CASE TransferFails(t)
  BY <1>1, <1>6 DEF TransferFails, threadVars,
     ThreadInv, Progress, Seeding, Files, Moved,
          EndsWithin, Started, Sequential
<1> QED BY <1>2, <1>3, <1>4, <1>5, <1>6 DEF ThreadStep

LEMMA MainDisk ==
  ASSUME DiskInv, MainStep, NEW t \in Thread
  PROVE  ThreadInv(t)' /\ (main' = "spin" => next' < NumFiles)
<1>1. TypeOK /\ ThreadInv(t) /\ (main = "spin" => next < NumFiles) /\ 0 * record_size = 0
  BY Sizes DEF DiskInv
<1> USE Sizes
<1>2. CASE StartRun
  <2>1. main = "printed" /\ written = "write_seq" => EndsWithin(t, task_size)
    BY <1>1 DEF ThreadInv, Files, Started, Progress, task_size, TypeOK, Workload
  <2> QED BY <1>1, <1>2, <2>1
          DEF StartRun, TypeOK, ThreadInv, Progress, Seeding, Files, Moved,
          EndsWithin, Started, Sequential
<1>3. CASE OpenFiles
  <2>1. pc[t] = "none" /\ calls[t] = 0 /\ moved[t] = 0 /\ at[t] = 0
    BY <1>1, <1>3 DEF OpenFiles, ThreadInv, Progress, Started
  <2> QED BY <1>1, <1>3, <2>1
      DEF OpenFiles, threadVars, TypeOK, ThreadInv, Progress, Seeding, Files, Moved,
          EndsWithin, Started, Sequential, Write, Read
<1>4. CASE CreateThread
  BY <1>1, <1>4 DEF CreateThread, TypeOK, ThreadInv, Progress, Seeding, Files, Moved, EndsWithin,
     Started, Sequential, Thread
<1>5. CASE Spin \/ AllStarted \/ Join \/ PrintResults
  <2>1. /\ UNCHANGED <<pc, at, offset, calls, moved, cut, length, workload, written, seeded>>
        /\ main \in {"create", "spin", "join"} /\ main' \in {"create", "spin", "join", "printed"}
    BY <1>5 DEF Spin, AllStarted, Join, PrintResults, threadVars
  <2>2. Progress(t)' /\ Seeding(t)' /\ Files(t)'
    BY <1>1, <2>1 DEF ThreadInv, Progress, Seeding, Files, Moved, EndsWithin, Sequential
  <2>3. Started(t)'
    <3>0. pc' = pc /\ next \in 0 .. NumFiles /\ Started(t) /\ t \in 0 .. NumFiles - 1
      BY <1>1, <2>1 DEF TypeOK, ThreadInv, Thread
    <3>1. CASE Spin
      BY <3>0, <3>1 DEF Spin, Started
    <3>2. CASE AllStarted
      BY <3>0, <3>2, DiskAssumption DEF AllStarted, FirstToJoin, Started
    <3>3. CASE Join
      BY <3>0, <3>3, DiskAssumption DEF Join, Started
    <3>4. CASE PrintResults
      BY <3>0, <3>4, DiskAssumption DEF PrintResults, Started
    <3> QED BY <1>5, <3>1, <3>2, <3>3, <3>4
  <2>4. main' = "spin" => next' < NumFiles
    BY <1>1, <1>5 DEF Spin, AllStarted, Join, PrintResults
  <2> QED BY <2>2, <2>3, <2>4 DEF ThreadInv
<1> QED BY <1>2, <1>3, <1>4, <1>5 DEF MainStep

LEMMA DiskStep == DiskInv /\ [Next]_vars => DiskInv'
<1> SUFFICES ASSUME DiskInv, [Next]_vars PROVE DiskInv'
  OBVIOUS
<1>1. TypeOK'
  BY TypeStep DEF DiskInv
<1>2. CASE UNCHANGED vars
  BY <1>1, <1>2 DEF vars, DiskInv, ThreadInv, Progress, Seeding, Files, Moved,
          EndsWithin, Started, Sequential
<1>3. CASE MainStep
  <2>1. main' = "spin" => next' < NumFiles
    BY <1>3 DEF MainStep, StartRun, OpenFiles, CreateThread, Spin, AllStarted, Join,
       PrintResults, DiskInv
  <2> QED BY <1>1, <1>3, <2>1, MainDisk DEF DiskInv
<1>4. ASSUME NEW t \in Thread, Alive, ThreadStep(t) \/ TransferFails(t)
      PROVE  DiskInv'
  <2>1. main' = "spin" => next' < NumFiles
    BY <1>4 DEF ThreadStep, Begin, LoopHead, TestSeeded, Seed, Mark, Draw, ReadRecord,
       WriteRecord, TransferRecord, TransferFails, mainVars, DiskInv
  <2> QED BY <1>1, <1>4, <2>1, OtherThreads, OwnThread DEF DiskInv, Alive
<1> QED BY <1>2, <1>3, <1>4 DEF Next, Over, ThreadStep

LEMMA DiskCorrect == Spec => []DiskInv
BY InitDisk, DiskStep, PTL DEF Spec

-----------------------------------------------------------------------------
(* Every variable keeps its type. *)
THEOREM DiskTypeCorrect == Spec => []TypeOK
<1>1. DiskInv => TypeOK
  BY DEF DiskInv
<1> QED BY <1>1, DiskCorrect, PTL

(* With any sizes, no access goes past the records of the file. *)
THEOREM AccessesStayInFile == Spec => []AccessInFile
<1>1. DiskInv => AccessInFile
  BY DEF DiskInv, ThreadInv, Progress, AccessInFile
<1> QED BY <1>1, DiskCorrect, PTL

(* However many threads there are, each seeds rand at its first call only. *)
THEOREM SeedsAreEarly == Spec => []SeedsEarly
<1>1. DiskInv => SeedsEarly
  BY DEF DiskInv, ThreadInv, Seeding, SeedsEarly
<1> QED BY <1>1, DiskCorrect, PTL

(* What is printed is what was done, for any number of threads, whatever  *)
(* the calls return: true if none was cut short, an overstatement if one   *)
(* was.                                                                    *)
THEOREM ResultsAreTrue == Spec => []ResultsTrue
<1>1. DiskInv => ResultsTrue
  <2> SUFFICES ASSUME DiskInv, main = "printed", NEW t \in Thread
               PROVE  /\ calls[t] = total_io
                      /\ moved[t] <= task_size
                      /\ cut[t] => moved[t] < task_size
                      /\ ~ cut[t] /\ (workload \in Write \/ length[t] = task_size)
                           => moved[t] = task_size /\ file_size - moved[t] < record_size
    BY DEF ResultsTrue
  <2>1. TypeOK /\ Progress(t) /\ Moved(t) /\ pc[t] = "done"
    BY DEF DiskInv, ThreadInv, Files, Started
  <2>2. calls[t] = total_io /\ at[t] = task_size
    BY <2>1 DEF Progress, task_size
  <2> QED BY <2>1, <2>2, Sizes DEF Moved
<1> QED BY <1>1, DiskCorrect, PTL

(* A sequential write leaves a file that ends within its last record, and  *)
(* at the end of it if none of its calls was cut short.                    *)
THEOREM SequentialIsWhole == Spec => []SequentialWhole
<1>1. DiskInv => SequentialWhole
  <2> SUFFICES ASSUME DiskInv, main = "printed", written = "write_seq", NEW t \in Thread
               PROVE  /\ EndsWithin(t, task_size)
                      /\ workload = "write_seq" /\ ~ cut[t] => length[t] = task_size
    BY DEF SequentialWhole, EndsWithin
  <2>1. TypeOK /\ Progress(t) /\ Files(t) /\ pc[t] = "done"
    BY DEF DiskInv, ThreadInv, Started
  <2>2. at[t] = task_size
    BY <2>1 DEF Progress, task_size
  <2> QED BY <2>1, <2>2 DEF Files, TypeOK, Workload, Write, Read
<1> QED BY <1>1, DiskCorrect, PTL
=============================================================================
