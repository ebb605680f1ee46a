# Verification of `mysort` and its companions

This directory holds TLA+ models of the concurrent external sort of the repository
(`hw5`, copied unchanged to `hw6`), the TLC configurations that check them, and proofs,
checked by TLAPS, of what matters most. Paths below are relative to the repository;
`mysort.c`, `worker.c`, `io.c`, `cache.c`, `misc.c` and `task.c` are in `hw5/src`.

## 1. The system

`mysort FILE BUFFER_SIZE NUM_THREADS` sorts a file of 100-byte records by their first ten
bytes, in place, with a buffer that may be much smaller than the file.

| Part | State it keeps | Operations | Interacts with |
|---|---|---|---|
| Division (`divide_file`, `init_chunk_cache`) | `CHUNK_SIZE`, the array of `CHUNK` structs, the slots | run once | everything relies on what it decides |
| Chunk cache (`cache.c`) | slots with flags `IN_USE`, `IS_DIRTY`, `IS_LOADED`; `free_chunks`, `empty_chunks`, `last_pin`; `chunk->slot` | pin, pin_force, unpin, read, write, flush, flush_cache | schedules I/O |
| I/O pool (`io.c`) | per thread: `op`, a job, a buffered `FILE*`; `free_workers` | `schedule_io` (waits for a thread), `wait_for_all_io`, `io_finish` | two locks and a condition variable per thread, one for the pool |
| Sort pool (`worker.c`) | per thread: `op`, a job; `free_workers`, `terminate` | `schedule` (refuses when full), `wait_for_all_workers`, `finish` | called by the main thread and by its own threads |
| Quicksort (`sort_buffer_parallel`) | the window, a stack of parts per thread | partition; give a half to another thread or keep it | calls `schedule` |
| Driver (`parallel_sort`) | the order of the chunk array, `min` and `max` of each chunk | even pass, odd pass, sort the array | load, sort, write each window |
| Chunk mapping (`map_chunks`) | the tables `whereis_chunk`, `chunk_at_loc`, the offsets in `absolute` | swaps pairs of chunks in the file | cache, I/O pool |
| Tasks (`task.c`) | `done` | start, wait, finish | every caller passes `NULL` |

The main thread divides the file, starts both pools, and then alternates: load a window of
chunks (I/O pool), sort it (sort pool), note each chunk's first and last key, write it back
(I/O pool). After a pass the array of `CHUNK` structs is sorted by smallest key; the next pass
begins half a window further or at the start again. When every chunk ends no later than the
next one begins, `map_chunks` moves the data to where the structs are.

What is hard in it:

* **Interleaving.** A thread of the sort pool gives halves away and never waits for them; one
  counter tells main that all is done. `schedule` publishes a job before it takes the
  worker's lock. One condition variable serves two kinds of wait in the I/O pool.
* **Stale state.** I/O threads read through streams with buffers of their own; the pivot is a
  pointer into the buffer that is being rearranged; the metadata of a chunk is a copy;
  `map_chunks` goes by tables.
* **Boundaries.** A short last chunk, an empty half, a pool without threads, three divisions
  that decide chunk size and slots.
* **Termination** of the passes, of the barriers, of every job.

Around it:

| Part | State it keeps | Operations | Interacts with |
|---|---|---|---|
| Disk benchmark (`hw3/src/MyDiskBenchmark.c`) | a flag per thread, the static flag of `prand`, one file per thread | `test` opens, starts, joins, prints; four workloads | a shell script runs it several times in one directory |
| Hadoop and Spark sorts (`hw6/src/*.java`) | none of their own | `map` cuts lines into key and row, `reduce` writes rows | the framework runs tasks, again if they fail, and brings rows to partitions |
| Validation (`hw6/scripts/test.sh`, `valsort.c`) | the summaries of the parts so far | summarise a part, append, sum up | reads what the sorts have written |

In the benchmark the main thread waits for each new thread in a busy loop on a plain `int`, and
threads race for the flag that says whether `rand` has been seeded. In the MapReduce sorts
what is hard is what is done twice: tasks are lost and run again; and the verdict is put
together from parts, by a script that looks at no exit status.

The rest of the repository is listed in section 5, and every component is in `PROJECT.json`, with
every hazard, its line, and the properties aimed at it.

## 2. Modules

| Module | Models | One step is |
|---|---|---|
| `Records` | buffers of keys: rearrangement, sortedness, partition | – |
| `WindowSort` | the abstract sort pool: a window is loaded, then sorted in one step | – |
| `ParallelSort` | `worker.c` with `sort_buffer_parallel` and its caller | a critical section, or part of one that others can tell apart |
| `Partition` | the loop of `sort_buffer_parallel`, lines 32–62 | an iteration |
| `IoPool` | `io.c` with stdio streams under `load_window` and `write_window` | as in `ParallelSort`; a read or a write is one step |
| `ExternalSort` | `parallel_sort` | a call it makes |
| `MapChunks` | `map_chunks` | a group of calls between two waits; each read and write by itself |
| `FileSort` | the abstract sort of a file: records are exchanged, and at the end in order | – |
| `ChunkCache` | the cache and any client of it | a call |
| `Chunking` | `divide_file`, `init_chunk_cache` | a paragraph of the function |
| `DiskBenchmark` | all of `MyDiskBenchmark.c`, run several times | one access to what another thread, or a later run, can see |
| `Valsort` | the summaries of `valsort.c` and their sum, as operators | – |
| `MapReduceSort` | `HadoopSort.java`, `SparkSort.java`, `HadoopValSort2` | a line mapped, a key reduced, a part validated |

`MC*` modules are what TLC is given; `*_proofs` hold the proofs.

How they fit together: `ExternalSort` takes the sort pool at its word (`WindowSort`, which
`ParallelSort` is proved to implement), the I/O pool at its word (`ReadsAreFresh`,
`WindowCommitted` of `IoPool`) and `map_chunks` at its word (`ChunksMapped` of `MapChunks`).
What `parallel_sort` then promises of the file is `FileSort`, which
`ExternalSort` implements (`SortsFile`). `ChunkCache` has the clients that these modules have in
one: it pins, reads, flushes, unpins, and sorts its array of `CHUNK` structs in between, so that
slots point to places where other structs are now.
`ParallelSort` takes the partitioning loop as one step with the contract `IsPartition`, which
`Partition` checks and proves. All of them take what `Chunking` shows of the sizes: at least
four slots for a file of several chunks (`EnoughSlots`), chunks of whole records. For
`ExternalSort` this is more than a convention: its assumption on the sizes (`Divided`, in
`FileAssumption`) is proved of whatever the division leaves (`DivisionSuitsTheSort`). One proof
module extends both, so the names in `Chunking` say that they are of the division.
`MapReduceSort` uses `Valsort` as the script uses the program: for each part, and for the sums.

### Abstractions

* Keys are integers: `strncmp` on ten bytes is a total preorder, and the payload moves with
  its key unseen. A byte 0 in a key, which ends the comparison early, makes two keys equal in
  that preorder; gensort's `-a` data has none.
* `prng` is any choice of pivot: it is shared by the sort threads without a lock, so the order
  in which they draw is arbitrary.
* The mutexes are in the guards. `WP.lock` stays held between two steps only by a thread that
  has published a job and not signalled it (pc `"signal"`); a worker's own lock only by itself,
  between testing `op` and sleeping (`"test"`, `"wait"`). `schedule` stores the job
  and then `op` without the worker's lock; the model relies on these stores being seen in
  that order, as on the x86 machines that the reports name.
* A buffered stream (`Seek`, `Fread` in `IoPool`) is external code: it follows glibc, which
  reads whole blocks straight into the caller's memory, a block into the stream for the rest,
  and keeps what the stream holds when a seek stays inside it. The file is divided into units
  that hold the number of the round that last wrote them.
* `terminate` is never seen by sleeping workers and the join functions are never called: main
  returns and the process ends (`"exited"`).
* The address of a part, slot or chunk is an index. In `mysort` memory and disk never fail, as it
  looks at no result; in `DiskBenchmark`, which looks for -1, any transfer may fail, and any may
  move fewer bytes than it was asked to (`Counts`), as on a disk that gets full or with a record
  of more than the 0x7ffff000 bytes that Linux moves at once. As the files are opened with
  `O_DIRECT`, the count is a whole number of sectors (`Sector`, which divides 4096).
* `rand` in `DiskBenchmark` returns any number: its sequence depends on who seeds and draws when.
  The busy wait reads its flag at every turn, as the build does not optimise.
* The MapReduce framework and the pump that feeds valsort's threads are external: tasks fail
  at any time and begin again with what they had written dropped, the partitioner is any function
  of the key (SparkSort's ranges and HadoopSort's single reducer among them), and a file is
  summarised in blocks of any fixed size whose summaries arrive in order. A record is its
  key; `Crc` is any function of it, and counters do not overflow their 128 bits.

### Where to find a function

`schedule` is `Publish`, then `Signal` (or `Refused`); `finish` is `Finish`; the loop of
`worker_thread` is `LoopHead`, `LockWorker`, `FindNoJob`/`FindJob`, `FallAsleep`,
`SpuriousWakeup`; a call of `sort_buffer_parallel` is a part in `work[w]`, with `PartSorted`
for its early return, `Partition` for lines 37–62 and `GiveAway`/`KeepPart` for lines 65–75.
`schedule_io` is `SleepUntilFree`, `ScheduleIo`, `SignalWorker`. `pin_chunk` is `PinAgain`,
`PinEmpty`, `PinEvict`, and either pin function ends the program in `PinFails`. `prand` is
`TestSeeded`, `Seed`, `Mark` and `Draw`; `test` is `OpenFiles`, `CreateThread`, `Spin`,
`AllStarted`, `Join`, `PrintResults`; the four workloads are `LoopHead` with
`ReadRecord` or `WriteRecord`. Everything
else bears the name of its function. Definitions whose comment begins with "Fault:" are not
part of any specification: each is a plausible slip in the definition after it, and
`PROJECT.json` pairs it with the property that it breaks.

## 3. What the runs show

| Run | Instance | Shows |
|---|---|---|
| `sort_pool` | 3 threads, 3 records, 3 keys, 2 windows, fairness | `PartsDisjoint`, `FreeWorkersExact`, `QuietOutsideSort`, `SortedAtBarrier`, refinement `SortsWindows`, liveness `WindowsGetSorted` |
| `partition` | 5 records, 3 keys, any pivot | `PivotInSight`, `PartitionDone` |
| `io_pool` | 2 threads, 3 slots, chunks of 2 blocks, the last one shorter, fairness | `ReadsAreFresh`, `WindowCommitted`, `JobsIndependent`, `FreeWorkersExact`, `WindowsGetCommitted` |
| `external_sort` | 11 records in chunks of 2, 4 slots, fairness | `MetadataFresh`, `WindowsContiguous`, refinement `SortsFile`, liveness `SortEnds` |
| `map_chunks` | 6 chunks, every order | `TablesTrue`, `SwapSafe`, `LastNotMoved`, `ChunksMapped` |
| `chunk_cache` | 3 chunks, 2 slots, any client | `CountersExact`; while the client is careful, `LoadedIsLatest`, `ChangesKept` |
| `chunking` | every buffer up to 220 bytes, file up to 60 records | `ChunksTile`, `EnoughSlots` |
| `disk_benchmark` | 2 files, 3 runs, rounded sizes, fairness | `AccessInFile`, `SeedsEarly`, `ResultsTrue`, liveness `TestEnds` |
| `hadoop_sort` | 5 lines, 3 keys, 2 parts, any partitioner, 2 failures | `JobSorts`, `SummaryExact` |
| `sort_no_workers`, `io_unaligned`, `disk_random` | see "Disagreements found" | what a comment or a usage text promises and the code does not do |

Each module with threads, tables or counters also has a type invariant, `TypeOK`, checked in its run.

### Bounds, and why they are enough

* `ParallelSort`: `MinLeaf = 0` instead of 640 records, so that halves are given away in
  windows of three records, whose three keys make pivots at either end and in the middle. Two
  threads are enough for one to give a half away and finish before the other begins; with
  three, both of them can give parts to the third; two windows for a job of the second to reach a thread that has not yet gone back
  to sleep. `MaxWindows` bounds the windows. The proofs have none of these bounds.
* `Partition`: five records with three keys have ties before, at and after the pivot.
* `IoPool`: two threads are the fewest that can hold stale data for each other, and two rounds the
  fewest for data to become stale; `io_unaligned` has a third. Three slots are more than there
  are threads, so main waits for one thread as well as for all of them. `MaxRounds` bounds the
  windows loaded. Windows are any chunks in any order.
* `ExternalSort`: six chunks with four slots make two windows in the even pass, of four and
  two chunks, and one in the odd pass.
* `MapChunks`: six chunks have cycles of all lengths up to six, and pairs of cycles.
* `ChunkCache`: three chunks for two slots make evictions necessary, and let a chunk come back
  to another slot; `MaxVersion` bounds the changes to a chunk, and one change is enough to tell
  new data from old. The client may sort its array whenever it has nothing pinned. A careful client reads what it pins, flushes what it changed before it
  unpins and leaves `flush_cache` alone, as `load_window`, `write_window` and `map_chunks` do.
* `DiskBenchmark`: two threads race for the flag of `prand`; files of five blocks and a bit in
  records of two blocks and a bit leave something over in both roundings; three runs (`MaxRuns`)
  write files, write them again in another way, and read them. With a sector of one block a call on
  a record of two has two counts: all and half; with sectors of half a block, which make
  ten times as many states, the invariants hold as well. `disk_random` needs one thread, and its
  records of one sector cannot be cut short.
* `MapReduceSort`: five lines in splits of three make two map tasks, of different length; blocks of
  two make a part of up to three blocks. With two failures (`MaxFailures`) a map task is lost
  after a reducer has used it, and a reduce task as well; or a download is cut short.
* `Chunking`: the largest chunk is twice the smallest buffer, so that every branch is taken
  on both sides of its boundary. Sizes are bytes of records of 3; they stay far below 2^64.

### Fairness

`ParallelSort` and `IoPool` assume weak fairness of main and of every worker: the scheduler of
the system runs a thread that can run. Spurious wakeups are allowed and never assumed. A mutex
that is free is not left to others for ever, which weak fairness of the whole thread gives
here, as critical sections are steps. `DiskBenchmark` assumes the same of its threads; that a
transfer fails is never assumed. `ExternalSort` is one sequential thread that is run.

### Disagreements found

* **`io_unaligned`** (`io.c:39`). Every I/O thread has a stream of its own; one that has read
  ahead into the next chunk answers from that block after another thread has overwritten it,
  and the window that `load_window` leaves is not what the file holds. It needs two I/O
  threads and chunks that do not end at a block boundary (`CHUNK_SIZE` is 64,000,000 bytes or a
  quarter of the buffer rounded down to 100; 64,000,000 is a multiple of 4096, most values are
  not), or a last chunk shorter than a block. Runs of the program
  itself with such sizes leave the file with records lost and doubled now and then.
* **`sort_no_workers`** (`mysort.c:170`). `num_threads = 0` makes a pool of no sort threads;
  the refusal of `schedule` is ignored and windows are written back unsorted.
* **`disk_random`** (`MyDiskBenchmark.c:67`). The usage text calls `[file_size]` the total size of
  the file, but the offsets of the random workloads leave out the last place where a record
  fits. A file of more than one record is always left shorter by workload 1, and `hw3/scripts/test.sh` runs
  the workloads 0 1 2 3 in turn: the reads come back short at the end and are
  reported as if they had not.

Not a run of its own, but in the same code: the messages of the workloads say `Did not write (seq) all
data`, and so on, but are printed for a count of -1 only (`MyDiskBenchmark.c:75, 88, 101, 114`). A
transfer that is cut short goes unnoticed and the loop goes on by a whole record. `ResultsTrue` says
exactly how far the printed results can be trusted: the number of calls always; the bytes if no call
was cut short and the file was whole; and if a call was cut short, they are more than was moved.

## 4. What is proved

The theorems hold for every value of the constants under the assumption named in each module
(`PoolAssumption`, `BufferAssumption`, `IoAssumption`, `FileAssumption`, `MapAssumption`,
`CacheAssumption`, `SizeAssumption`, `DiskAssumption`, `JobAssumption`), which say that sizes are
natural numbers, mostly positive, keys integers, and checksums of records natural numbers. In particular the bounds on windows, rounds, changes and runs are arbitrary.

* **`ParallelSort_proofs`**: `TypeCorrect`, `FreeWorkersAreExact`, `PoolIsQuiet`,
  `PartsAreDisjoint`; and with `NumThreads # 0`, `BarrierIsCorrect` and `PoolSortsWindows`
  (the refinement of `WindowSort`). The argument has two layers.
  `PoolInv` is about the pool alone: a thread has parts on its stack only while it is at work,
  at most one thread is between publishing and signalling, its target is a worker that has a
  job, and `free_workers` is the number of idle workers, plus one while somebody has
  published. From that, a barrier that is passed finds no job anywhere. `SortInv` is about the
  window: the buffer is a rearrangement of the loaded one; parts of different owners, or
  different parts of one, are disjoint; and every two records out of order lie in one part
  that somebody is still responsible for. With no part left, nothing is out of order. Neither
  the properties nor the type invariant is inductive without these. Without a thread the last
  clause fails at the first refusal, which is why the two theorems need `NumThreads # 0`, and
  `sort_no_workers` shows that they do.
* **`Partition_proofs`**: `PartitionTypeCorrect`, `PivotStaysInSight`, `PartitionIsCorrect`. The
  invariant says which part of the buffer is not greater, which is greater, and that the pointer
  is at a record that has been put in place or has not been reached. It is what entitles
  `ParallelSort` to take the loop as one step.
* **`IoPool_proofs`**: `IoTypeCorrect`, `IoFreeWorkersExact`, `JobsAreIndependent`,
  `WindowsAreCommitted`, and under `Aligned`, `AlignedReadsAreFresh`. `IoInv` adds to the types
  which jobs are out (each for a slot that has been scheduled, in the phase main is in), what
  slots and file hold for a chunk that has been scheduled and whose job is over, and, when chunks
  are whole blocks and the last one is no shorter than a block (`Aligned`), that no
  stream holds the beginning of a chunk. The last is what fails without alignment, and
  `io_unaligned` shows that the hypothesis is needed.
* **`MapChunks_proofs`**: `MapTypeCorrect`, `TablesAreTrue`, `SwapsAreSafe`, `LastStays`,
  `MapIsCorrect`. The invariant `MapInv` says that the tables are inverse to each other, that
  the places before `i` are settled, and for each point of a swap what the slots and the two
  places hold, whichever I/O is still under way.
* **`ChunkCache_proofs`**: `CacheTypeCorrect`, `CountersAreExact`, `LoadedDataIsLatest`,
  `ChangesAreKept`. The counters need that pinned chunks and used slots correspond one to one. The
  data needs, for a careful client, that dirty slots are in use and loaded, that a change is in the
  file unless its chunk is pinned and the slot dirty, and, until the array is sorted for the first
  time, that a chunk whose slot points back to it has its data there. After a sort the pointers
  of slots may be stale, but no slot they lead to is dirty when it is evicted: this is why they
  do no harm.
* **`DiskBenchmark_proofs`**: `DiskTypeCorrect`, `AccessesStayInFile`, `SeedsAreEarly`,
  `ResultsAreTrue`, `SequentialIsWhole`. The invariant ties the loop variable of every thread to the
  calls so far, says that the flag of `prand` is set before any random transfer is done, and that
  a thread main has joined is done. Of the bytes it says (`Moved`) that they fall behind the
  loop variable at the first call that is cut short, and never catch up; of a file that is written
  sequentially (`EndsWithin`), that it ends within the record before the loop variable, however
  short the calls were, and at its end if none was.
* **`ExternalSort_proofs`**: `SortTyped`, `MetadataIsFresh`, `WindowsAreContiguous`, and `PassesSortFile`,
  the refinement of `FileSort`: for every length of the file, every content, every chunk size and
  number of slots. `SortInv` says that the array of chunks is a permutation with a short last chunk
  at its end; that in the first even pass the chunks before `i` are sorted and their `min` and
  `max` true, and from its end on those of all chunks; and what memory holds between the calls: the records
  of the window's chunks without a hole, then the same records sorted. It also says that a file
  that fits in the slots never gets a second pass, as an odd one would begin behind its
  end (`OneWindow`). The properties are not inductive without it: the keys are true in an odd pass
  only because the pass before saw every chunk, and no record is lost only because each chunk of a
  window has its own place in memory and in the file. The step from a sorted window to the file counts
  the records of every key, in the window and outside it.
  The module also has the theorems of `Chunking`: `ChunksTileTheFile`, `SlotsAreEnough`, from
  lemmas on division and rounding, and with them `DivisionSuitsTheSort`: when the division is done,
  its sizes, counted in records, satisfy what `ExternalSort` assumes of them, and it has as many chunks
  as `NumChunks` says.
* **`MapReduceSort_proofs`**: `JobTyped`, `JobsSort`, `SummariesAreExact`, for every input,
  partitioner, split, block, and every sequence of lost tasks and cut downloads. `JobInv` says
  that a part is always a whole number of calls of `reduce`, in the order of the keys
  (`WholeKeys`): a key that is there is there as often as in the input, and so is every key of that
  part before it. This is why a map task that is lost after a reducer has used it does no harm: what
  it emits again is what has been written already. After the commit no key is left, so each is in
  its part, completely, and in no other. It says further that what has been validated holds nothing
  of the parts to come (`NotTwice`), and that the sum of the summaries so far is the summary of the
  records so far (`SumSoFar`). The last rests on the lemmas about `Valsort`: adding a record after
  adding a summary is adding the summary of one record more (`LaterRecord`); by it the sum of
  two summaries is the summary of the concatenation (`TwoParts`), blocks of any size make no difference
  (`BlocksMakeNoDifference`), and a summary without unordered records means a sorted
  sequence (`Verdict`). The script looks at no exit status, so a part may be judged that arrived cut
  short; but a sum that counts as many records as were generated misses no row (`AllThere`), as none
  is judged twice. The summaries are recursive functions on the indices of a sequence;
  `Recursion` proves that such functions exist, and `OneAfterAnother` is the induction over their
  indices, from the well-foundedness of the natural numbers.

### Only model-checked

* Liveness (`WindowsGetSorted`, `WindowsGetCommitted`, `SortEnds`, `TestEnds`): it rests on
  fairness and `ENABLED`, which the prover does not handle.

## 5. Not modelled

* **Completion tasks** (`task.c`). Every caller passes `NULL`, for which every function returns
  at once; there is no state of the program in which a task exists.
* **`get_size`, `get_file_size`, argument parsing.** Pure functions of strings and of the file
  system; the models begin with their results.
* **The copy of `mysort` in `hw6/src`.** The same text as in `hw5/src`.
* **`hw4/scripts/calculator.py`.** Arithmetic on price tables.
* **The other scripts.** They run programs in sequence and parse logs. The sequences are in the
  models (`DiskBenchmark` allows any).
* **Vendored code**: iozone with its helpers, gensort, the SUMP pump library and zlib headers, which
  are most of the repository's lines (iozone alone is half of them). The repository builds and
  runs them as they are. Of gensort's package only `valsort.c` is modelled, as the judgement of
  every sort rests on it.
* **Failing memory, threads that cannot be created, negative or missing arguments.** The code
  reacts to none of them, or by ending at once.

What could be taken further: the composition of `ExternalSort` with `ChunkCache` and `IoPool` in
one specification, which their contracts now join on paper; and the pump that feeds valsort.

## 6. Running

    tlc -config ParallelSortPool.cfg MCParallelSort
    tlapm ParallelSort_proofs.tla

The module and configuration of every run are in `PROJECT.json`; the longest take one or two minutes,
the proofs some ten minutes together.
