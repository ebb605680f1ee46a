------------------------------ MODULE Chunking ------------------------------
(***************************************************************************)
(* How the file is divided into chunks, and the buffer into slots, before  *)
(* anything is sorted (divide_file and init_chunk_cache).  Everything else *)
(* relies on what they decide: the chunks tile the file, a chunk begins    *)
(* and ends between records, and a file of several chunks has at least     *)
(* four slots to sort them in.                                             *)
(*                                                                         *)
(* Sizes are bytes, and small: they are far below 2^64 in the program too. *)
(***************************************************************************)
EXTENDS Integers

CONSTANTS RecordSize,  \* RECORD_SIZE
          MaxChunk,    \* MAX_CHUNK_SIZE
          MaxRecords,  \* bound on the records in the file
          MaxBuffer    \* bound on the buffer_size argument

ASSUME SizeAssumption == /\ {RecordSize, MaxChunk} \subseteq Nat \ {0}
                         /\ MaxChunk % RecordSize = 0
                         /\ {MaxRecords, MaxBuffer} \subseteq Nat

MinBuffer == 8 * RecordSize

VARIABLES fileSize, bufferSize,  \* the arguments of the program
          chunkSize,             \* CHUNK_SIZE
          numChunks,
          lastSize,              \* the size of the last chunk
          cacheSize,             \* cache.max_chunks
          step

divisionVars == <<fileSize, bufferSize, chunkSize, numChunks, lastSize, cacheSize, step>>

(* The file holds whole records. *)
DivisionInit == /\ fileSize \in { n * RecordSize : n \in 0 .. MaxRecords }
                /\ bufferSize \in 0 .. MaxBuffer
                /\ chunkSize = MaxChunk
                /\ numChunks = 0
                /\ lastSize = 0
                /\ cacheSize = 0
                /\ step = "maximize"

(* Fault: nothing is rounded. *)
Unaligned(num) == num

Align(num) == (num \div RecordSize) * RecordSize

Ceild(a, b) == IF a % b # 0 THEN a \div b + 1 ELSE a \div b

-----------------------------------------------------------------------------
BufferTooSmall ==
  /\ step = "maximize"
  /\ bufferSize < MinBuffer
  /\ step' = "exited"
  /\ UNCHANGED <<fileSize, bufferSize, chunkSize, numChunks, lastSize, cacheSize>>

(* No chunk is larger than the buffer. *)
Maximize ==
  /\ step = "maximize"
  /\ bufferSize >= MinBuffer
  /\ chunkSize' = IF chunkSize > bufferSize THEN Align(bufferSize) ELSE chunkSize
  /\ numChunks' = Ceild(fileSize, chunkSize')
  /\ step' = "quarter"
  /\ UNCHANGED <<fileSize, bufferSize, lastSize, cacheSize>>

(* Fault: two slots are thought to be enough. *)
TwoSlots == 2

SlotsWanted == 4

(* A file of several chunks is sorted in windows, of SlotsWanted slots at  *)
(* least; with smaller chunks there are more of them.                      *)
Quarter ==
  /\ step = "quarter"
  /\ LET split == numChunks > 1 /\ bufferSize \div chunkSize < SlotsWanted
         size  == IF split THEN Align(bufferSize \div SlotsWanted) ELSE chunkSize
     IN  /\ chunkSize' = size
         /\ numChunks' = IF split THEN Ceild(fileSize, size) ELSE numChunks
         /\ step' = IF size < MinBuffer THEN "exited" ELSE "divide"
  /\ UNCHANGED <<fileSize, bufferSize, lastSize, cacheSize>>

(* The array of chunks.  With no chunk at all the size of the last one is  *)
(* written before the array, which is undefined.                           *)
Divide ==
  /\ step = "divide"
  /\ lastSize' = IF numChunks = 0 THEN 0 ELSE fileSize - chunkSize * (numChunks - 1)
  /\ step' = IF numChunks = 0 THEN "corrupted" ELSE "slots"
  /\ UNCHANGED <<fileSize, bufferSize, chunkSize, numChunks, cacheSize>>

(* init_chunk_cache *)
InitChunkCache ==
  /\ step = "slots"
  /\ cacheSize' = bufferSize \div chunkSize
  /\ step' = "divided"
  /\ UNCHANGED <<fileSize, bufferSize, chunkSize, numChunks, lastSize>>

DivisionDone == step \in {"exited", "corrupted", "divided"} /\ UNCHANGED divisionVars

DivisionNext == \/ BufferTooSmall \/ Maximize \/ Quarter \/ Divide
                \/ InitChunkCache \/ DivisionDone

DivisionSpec == DivisionInit /\ [][DivisionNext]_divisionVars

-----------------------------------------------------------------------------
(***************************************************************************)
(* Properties                                                              *)
(***************************************************************************)
(* The chunks lie side by side and end where the file does; none is empty, *)
(* none is longer than CHUNK_SIZE, and each begins and ends between two    *)
(* records: sorting chunks by themselves tears no record apart             *)
(* (cache.c:27, 34, 42-51).                                                *)
ChunksTile ==
  step = "divided" => /\ lastSize \in 1 .. chunkSize
                    /\ chunkSize * (numChunks - 1) + lastSize = fileSize
                    /\ chunkSize % RecordSize = 0 /\ lastSize % RecordSize = 0

(* load_window always gets a chunk to load, and the odd passes start       *)
(* inside the even windows (cache.c:30-35, mysort.c:183).                  *)
EnoughSlots ==
  step = "divided" => cacheSize >= 1 /\ (numChunks > 1 => cacheSize >= 4)
=============================================================================
