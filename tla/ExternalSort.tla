---------------------------- MODULE ExternalSort ----------------------------
(***************************************************************************)
(* Sorting a file that does not fit in memory (parallel_sort): even passes *)
(* sort windows of CacheSize chunks from the first chunk on, odd passes    *)
(* from half a window further; between passes the CHUNK structs, not the   *)
(* data, are sorted by the smallest key of their chunk.  When every chunk  *)
(* ends no later than the next one begins, map_chunks moves the chunks to  *)
(* where their structs are.                                                *)
(*                                                                         *)
(* One step per call that parallel_sort makes.  The two pools are taken at *)
(* their word (ParallelSort: a window is sorted; IoPool: what is loaded is *)
(* what the file holds, and what is written is in the file), and so is     *)
(* map_chunks (MapChunks).                                                 *)
(***************************************************************************)
EXTENDS Records, FiniteSets

CONSTANTS NumRecs,    \* records in the file
          ChunkSize,  \* CHUNK_SIZE, in records
          CacheSize,  \* slots of the cache
          Key         \* the keys, a set of positive integers

(* n records in chunks of c, and s slots to sort them in: divide_file      *)
(* leaves at least four when there are several chunks.                     *)
Divided(n, c, s) == {n, c, s} \subseteq Nat \ {0} /\ (n > c => s >= 4)

ASSUME FileAssumption == /\ Divided(NumRecs, ChunkSize, CacheSize)
                         /\ Key \subseteq Nat \ {0}

NumChunks == (NumRecs + ChunkSize - 1) \div ChunkSize

Rec   == 1 .. NumRecs
Chunk == 0 .. NumChunks - 1
Cell  == 1 .. CacheSize * ChunkSize
Unset == 0                                    \* what malloc leaves in min and max

(* CHUNK.size, in records; a chunk is named by its offset, which is fixed. *)
Size(c) == IF (c + 1) * ChunkSize > NumRecs THEN NumRecs - c * ChunkSize ELSE ChunkSize

(* The r-th record of chunk c in the file, and of the j-th slot in memory. *)
InFile(c, r) == c * ChunkSize + r
InMem(j, r)  == (j - 1) * ChunkSize + r

VARIABLES
  file,   \* the file
  buf,    \* the memory of the cache, its slots side by side
  arr,    \* chunk_array: the chunk at every index
  min,    \* CHUNK.min, by chunk
  max,    \* CHUNK.max, by chunk
  odd,    \* the pass is an odd one
  i,      \* the index the next window starts at
  pc      \* what parallel_sort does next

vars == <<file, buf, arr, min, max, odd, i, pc>>

Init == /\ file \in [Rec -> Key]
        /\ buf = [m \in Cell |-> Unset]
        /\ arr = [x \in Chunk |-> x]
        /\ min = [c \in Chunk |-> Unset]
        /\ max = [c \in Chunk |-> Unset]
        /\ odd = FALSE
        /\ i = 0
        /\ pc = "load"

(* The chunks of the window at i: as many as there are slots, or are left. *)
LoadCount == IF NumChunks - i > CacheSize THEN CacheSize ELSE NumChunks - i
Slots     == 1 .. LoadCount
InSlot(j) == arr[i + j - 1]

(* The number of the slot that cell m lies in, and its place there. *)
SlotOf(m)  == (m - 1) \div ChunkSize + 1
PlaceOf(m) == ((m - 1) % ChunkSize) + 1

(* load_size: the sum of the sizes of the chunks loaded. *)
LoadSize ==
  LET sum[j \in 0 .. LoadCount] == IF j = 0 THEN 0 ELSE sum[j - 1] + Size(InSlot(j))
  IN  sum[LoadCount]

(* b with its first n records in order. *)
Ordered(b, n) ==
  LET nth(m) == CHOOSE k \in { b[x] : x \in 1 .. n } :
                  /\ Cardinality({ x \in 1 .. n : b[x] <= k }) >= m
                  /\ Cardinality({ x \in 1 .. n : b[x] < k }) < m
  IN  [m \in DOMAIN b |-> IF m <= n THEN nth(m) ELSE b[m]]

-----------------------------------------------------------------------------
(* load_window: every chunk at the start of its slot.  What a short chunk  *)
(* does not cover keeps what was there.                                    *)
LoadWindow ==
  /\ pc = "load"
  /\ i < NumChunks
  /\ buf' = [m \in Cell |->
               IF SlotOf(m) \in Slots /\ PlaceOf(m) <= Size(InSlot(SlotOf(m)))
               THEN file[InFile(InSlot(SlotOf(m)), PlaceOf(m))] ELSE buf[m]]
  /\ pc' = "sort"
  /\ UNCHANGED <<file, arr, min, max, odd, i>>

(* schedule and wait_for_all_workers: load_size bytes from the first slot on. *)
SortWindow ==
  /\ pc = "sort"
  /\ buf' = Ordered(buf, LoadSize)
  /\ pc' = "write"
  /\ UNCHANGED <<file, arr, min, max, odd, i>>

Here        == { InSlot(j) : j \in Slots }
SlotWith(c) == CHOOSE j \in Slots : InSlot(j) = c

(* update_metadata: the keys of the first and last record of every chunk. *)
FirstKeys == [c \in Chunk |-> IF c \in Here THEN buf[InMem(SlotWith(c), 1)] ELSE min[c]]

(* Fault: every chunk is taken to be as long as a slot. *)
KeysAtSlotEnds ==
  [c \in Chunk |-> IF c \in Here THEN buf[InMem(SlotWith(c), ChunkSize)] ELSE max[c]]

LastKeys == [c \in Chunk |-> IF c \in Here THEN buf[InMem(SlotWith(c), Size(c))] ELSE max[c]]

(* write_window: every chunk back to where it came from. *)
Written == [f \in Rec |->
              LET c == (f - 1) \div ChunkSize
              IN  IF c \in Here THEN buf[InMem(SlotWith(c), PlaceOf(f))] ELSE file[f]]

(* Fault: i moves by as many chunks as there are slots. *)
NextSlots == i + CacheSize

NextIndex == i + LoadCount

(* update_metadata and write_window; then i moves to the next window. *)
WriteWindow ==
  /\ pc = "write"
  /\ min' = FirstKeys
  /\ max' = LastKeys
  /\ file' = Written
  /\ i' = NextIndex
  /\ pc' = "load"
  /\ UNCHANGED <<buf, arr, odd>>

(* Fault: only the smallest keys are compared. *)
MinsAreSorted == \A x \in Chunk \ {0} : min[arr[x - 1]] <= min[arr[x]]

ChunksAreSorted == \A x \in Chunk \ {0} : max[arr[x - 1]] <= min[arr[x]]

(* The end of a pass. *)
Check ==
  /\ pc = "load"
  /\ i >= NumChunks
  /\ pc' = IF ChunksAreSorted THEN "map" ELSE "rearrange"
  /\ UNCHANGED <<file, buf, arr, min, max, odd, i>>

(* Fault: the last chunk is sorted with the others, whatever its size. *)
AllChunks == NumChunks

(* The chunks that may change places: the last one only if it is full. *)
SortedChunks == IF Size(NumChunks - 1) # ChunkSize THEN NumChunks - 1 ELSE NumChunks

(* Fault: the odd pass starts where the second window of the even one does. *)
WholeWindow == CacheSize

OddStart == CacheSize \div 2

(* sort_buffer_seq on chunk_array: nothing if it is sorted by min already, *)
(* else any order that is (the pivots decide between equal ones).  Then    *)
(* the other pass begins.                                                  *)
Rearrange ==
  /\ pc = "rearrange"
  /\ LET S    == 0 .. SortedChunks - 1
         mins == [x \in Chunk |-> min[arr[x]]]
     IN  IF IsSorted(mins, 0, SortedChunks - 1)
         THEN UNCHANGED arr
         ELSE \E f \in Perms(S) : /\ IsSorted(Shuffle(mins, S, f), 0, SortedChunks - 1)
                                         /\ arr' = Shuffle(arr, S, f)
  /\ odd' = ~ odd
  /\ i' = IF odd THEN 0 ELSE OddStart
  /\ pc' = "load"
  /\ UNCHANGED <<file, buf, min, max>>

(* map_chunks, and the program is done. *)
MapFile ==
  /\ pc = "map"
  /\ file' = [f \in Rec |-> file[InFile(arr[(f - 1) \div ChunkSize], PlaceOf(f))]]
  /\ pc' = "done"
  /\ UNCHANGED <<buf, arr, min, max, odd, i>>

Done == pc = "done" /\ UNCHANGED vars

Next == LoadWindow \/ SortWindow \/ WriteWindow \/ Check \/ Rearrange \/ MapFile \/ Done

Spec == Init /\ [][Next]_vars

(* A sequential program that is run. *)
FairSpec == Spec /\ WF_vars(Next)

-----------------------------------------------------------------------------
(***************************************************************************)
(* Properties                                                              *)
(***************************************************************************)
TypeOK == /\ file \in [Rec -> Key]
          /\ buf \in [Cell -> Key \cup {Unset}]
          /\ arr \in [Chunk -> Chunk]
          /\ min \in [Chunk -> Key \cup {Unset}]
          /\ max \in [Chunk -> Key \cup {Unset}]
          /\ odd \in BOOLEAN
          /\ i \in 0 .. NumChunks
          /\ pc \in {"load", "sort", "write", "rearrange", "map", "done"}

(* When chunks_are_sorted and sort_buffer_seq read min and max, they are   *)
(* those of the data: none is left over from an earlier pass or was never  *)
(* set, although the odd pass does not visit every chunk                   *)
(* (mysort.c:142-149, 183).                                                *)
MetadataFresh ==
  (pc = "load" /\ i >= NumChunks) \/ pc = "rearrange" =>
    \A c \in Chunk : /\ min[c] = file[InFile(c, 1)]
                     /\ max[c] = file[InFile(c, Size(c))]
                     /\ IsSorted(file, InFile(c, 1), InFile(c, Size(c)))

(* The sort threads are given one run of records without a hole: a chunk   *)
(* shorter than its slot can only be in the last slot of a window          *)
(* (mysort.c:157-160, 169-170).                                            *)
WindowsContiguous ==
  pc = "sort" => \A j \in Slots : Size(InSlot(j)) = ChunkSize \/ j = LoadCount

(* The passes and the mapping implement the sort of the file: no step of   *)
(* theirs loses or doubles a record, whatever has been moved where, and    *)
(* the file is sorted when the program ends (mysort.c:163-203).            *)
Promised == INSTANCE FileSort WITH N <- NumRecs, content <- file, done <- (pc = "done")

SortsFile == Promised!Spec

(* The passes come to an end: no content of the file keeps the windows     *)
(* from making progress for ever (mysort.c:163-199).                       *)
SortEnds == <>(pc = "done")
=============================================================================
