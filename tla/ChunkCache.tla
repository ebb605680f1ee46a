----------------------------- MODULE ChunkCache -----------------------------
(***************************************************************************)
(* The cache of chunks (cache.c): slots of memory that chunks are pinned   *)
(* to, read into, marked dirty, flushed and unpinned, one call a step.     *)
(* The calls are made by one thread, the client, in any order; it pins a   *)
(* chunk before it uses it and unpins what it has pinned.  It is careful as*)
(* long as it reads what it pins, flushes what it changed before it unpins,*)
(* and leaves flush_cache alone.                                           *)
(*                                                                         *)
(* The client may sort its array of CHUNK structs, as parallel_sort does.  *)
(* The slots then keep pointers to places in the array that hold other     *)
(* structs now, while a struct takes its own pointer to a slot with it.    *)
(* Who sorts is careful and pins by force: load_window, write_window and   *)
(* map_chunks, the only clients there are, do.                             *)
(*                                                                         *)
(* The data of a chunk is its name and the number of times it was changed. *)
(* I/O is done when it is asked for: the client waits for it before it     *)
(* goes on (wait_for_all_io; IoPool has the threads).                      *)
(***************************************************************************)
EXTENDS Integers, FiniteSets

CONSTANTS Chunk,           \* the chunks
          NumSlots,        \* cache.max_chunks
          NoChunk,         \* a null pointer
          MaxVersion       \* bound on the changes to a chunk

ASSUME CacheAssumption == /\ NumSlots \in Nat \ {0}
                          /\ MaxVersion \in Nat
                          /\ NoChunk \notin Chunk

Slot    == 0 .. NumSlots - 1
NoSlot  == -1
Data    == Chunk \X (0 .. MaxVersion)
Garbage == << >>
Flag    == {"IN_USE", "IS_DIRTY", "IS_LOADED"}
Place   == Chunk   \* in the array: named by the chunk that is there at first

VARIABLES
  place,    \* where the struct of each chunk is in the array
  sorted,   \* the array has been sorted (history)
  chunkIn,  \* slot->chunk, a place
  flags,    \* slot->flags, as a set
  mem,      \* what is in slot->buffer
  slotOf,   \* chunk->slot
  free,     \* cache.free_chunks
  empty,    \* cache.empty_chunks
  lastPin,  \* cache.last_pin
  file,     \* what is in the file where each chunk belongs
  latest,   \* what the client wrote last (history)
  pinned,   \* the chunks the client has pinned (history)
  careful,  \* what the client has been so far (history)
  pc

arrayVars == <<place, sorted>>
slotVars  == <<chunkIn, slotOf, empty, lastPin>>
dataVars  == <<mem, file, latest>>
vars      == <<arrayVars, slotVars, dataVars, flags, free, pinned, careful, pc>>

Init == /\ place = [c \in Chunk |-> c]
        /\ sorted = FALSE
        /\ chunkIn = [s \in Slot |-> NoChunk]
        /\ flags = [s \in Slot |-> {}]
        /\ mem = [s \in Slot |-> Garbage]
        /\ slotOf = [c \in Chunk |-> NoSlot]
        /\ free = NumSlots
        /\ empty = NumSlots
        /\ lastPin = 0
        /\ file = [c \in Chunk |-> <<c, 0>>]
        /\ latest = [c \in Chunk |-> <<c, 0>>]
        /\ pinned = {}
        /\ careful = TRUE
        /\ pc = "running"

(* The chunk whose struct is at place p now. *)
ChunkAt(p) == CHOOSE c \in Chunk : place[c] = p

Has(c, flag) == flag \in flags[slotOf[c]]

(* chunk->slot && chunk->slot->chunk == chunk *)
Resident(c) == slotOf[c] # NoSlot /\ chunkIn[slotOf[c]] = place[c]

Used   == { s \in Slot : "IN_USE" \in flags[s] }
Unused == { s \in Slot : "IN_USE" \notin flags[s] }
Empty  == { s \in Slot : chunkIn[s] = NoChunk }

(* The slot s is the first in S, counted from the one after last_pin. *)
Distance(s) == (s - lastPin - 1 + NumSlots) % NumSlots
First(s, S) == s \in S /\ \A r \in S : Distance(s) <= Distance(r)

(* flush_chunk returns at once for a chunk that is not in use. *)
MustWrite(c) == {"IN_USE", "IS_DIRTY"} \subseteq flags[slotOf[c]]

-----------------------------------------------------------------------------
(* Fault: free_chunks is not counted down. *)
SameFree == free

OneFreeLess == free - 1

(* Fault: a slot that is used for the first time is not counted. *)
SameEmpty(s) == empty

EmptyAfter(s) == IF chunkIn[s] = NoChunk THEN empty - 1 ELSE empty

(* Fault: the flags of the chunk that was there before are kept. *)
AddedFlags(s) == flags[s] \cup {"IN_USE"}

FreshFlags(s) == {"IN_USE"}

(* The slot s is given to c; free_chunks counts it out. *)
TakeSlot(c, s) ==
  /\ chunkIn' = [chunkIn EXCEPT ![s] = place[c]]
  /\ slotOf' = [slotOf EXCEPT ![c] = s]
  /\ lastPin' = s
  /\ empty' = EmptyAfter(s)

(* What the slot held is flushed first if it is dirty - by flush_chunk,    *)
(* which writes nothing for a slot that is not in use.  The flags are set  *)
(* anew in any case.                                                       *)
Evict(s) ==
  LET old == ChunkAt(chunkIn[s])
      r   == slotOf[old]
  IN  IF chunkIn[s] # NoChunk /\ "IS_DIRTY" \in flags[s] /\ MustWrite(old)
      THEN /\ file' = [file EXCEPT ![old] = mem[r]]
           /\ flags' = [flags EXCEPT ![r] = @ \ {"IS_DIRTY"}, ![s] = FreshFlags(s)]
      ELSE UNCHANGED file /\ flags' = [flags EXCEPT ![s] = FreshFlags(s)]

(* What pin_chunk and pin_chunk_force have in common. *)
Pin(c) == /\ pc = "running" /\ c \notin pinned
          /\ free # 0
          /\ free' = OneFreeLess
          /\ pinned' = pinned \cup {c}
          /\ UNCHANGED <<arrayVars, mem, latest, careful, pc>>

(* pin_chunk: the chunk has a slot still. *)
PinAgain(c) ==
  /\ ~ sorted
  /\ Resident(c)
  /\ ~ Has(c, "IN_USE")
  /\ Pin(c)
  /\ flags' = [flags EXCEPT ![slotOf[c]] = @ \cup {"IN_USE", "IS_LOADED"}]
  /\ UNCHANGED <<slotVars, file>>

(* pin_chunk: there are slots that have never been used. *)
PinEmpty(c) ==
  /\ ~ sorted
  /\ ~ Resident(c)
  /\ empty > 0
  /\ Pin(c)
  /\ \E s \in Slot : /\ First(s, Empty)
                    /\ TakeSlot(c, s)
                    /\ flags' = [flags EXCEPT ![s] = {"IN_USE"}]
  /\ UNCHANGED file

(* pin_chunk: another chunk has to go. *)
PinEvict(c) ==
  /\ ~ sorted
  /\ ~ Resident(c)
  /\ empty = 0
  /\ Pin(c)
  /\ \E s \in Slot : First(s, Unused) /\ TakeSlot(c, s) /\ Evict(s)

(* pin_chunk_force, as load_window and map_chunks call it. *)
PinForce(c, s) ==
  /\ s \in Unused
  /\ Pin(c)
  /\ TakeSlot(c, s)
  /\ Evict(s)

(* Either function ends the program when nothing is free, or the slot that *)
(* was asked for is taken.                                                 *)
PinFails(c) ==
  /\ pc = "running" /\ c \notin pinned
  /\ free = 0 \/ Used # {}
  /\ pc' = "exited"
  /\ UNCHANGED <<arrayVars, slotVars, dataVars, flags, free, pinned, careful>>

-----------------------------------------------------------------------------
(* A call for a chunk that is pinned, which leaves it pinned. *)
Use(c) == /\ pc = "running" /\ c \in pinned
          /\ UNCHANGED <<arrayVars, slotVars, free, pinned, careful, pc>>

ReadChunk(c) ==
  /\ Use(c)
  /\ ~ Has(c, "IS_LOADED")
  /\ mem' = [mem EXCEPT ![slotOf[c]] = file[c]]
  /\ flags' = [flags EXCEPT ![slotOf[c]] = @ \cup {"IS_LOADED"}]
  /\ UNCHANGED <<file, latest>>

(* The client changes the data of a chunk that it has read, and says so by *)
(* calling write_chunk.                                                    *)
WriteChunk(c) ==
  /\ Use(c)
  /\ Has(c, "IS_LOADED")
  /\ latest[c][2] < MaxVersion
  /\ latest' = [latest EXCEPT ![c] = <<c, @[2] + 1>>]
  /\ mem' = [mem EXCEPT ![slotOf[c]] = <<c, latest[c][2] + 1>>]
  /\ flags' = [flags EXCEPT ![slotOf[c]] = @ \cup {"IS_DIRTY"}]
  /\ UNCHANGED file

(* Fault: the flag is cleared and nothing is written. *)
Unwritten(c) == file[c]

Flushed(c) == mem[slotOf[c]]

FlushChunk(c) ==
  /\ Use(c)
  /\ MustWrite(c)
  /\ file' = [file EXCEPT ![c] = Flushed(c)]
  /\ flags' = [flags EXCEPT ![slotOf[c]] = @ \ {"IS_DIRTY"}]
  /\ UNCHANGED <<mem, latest>>

(* flush_cache: flush_chunk for the chunk of every slot in turn, which     *)
(* goes by the slot that the chunk points to: of several that point to one *)
(* slot the first writes.  A slot without a chunk is a null pointer.       *)
FlushCache ==
  LET target(s) == slotOf[ChunkAt(chunkIn[s])]
      writes(s) == /\ \A r \in 0 .. s : chunkIn[r] # NoChunk
                   /\ MustWrite(ChunkAt(chunkIn[s]))
                   /\ \A r \in 0 .. s - 1 : target(r) # target(s)
  IN  /\ pc = "running" /\ ~ sorted
      /\ careful' = FALSE
      /\ pc' = IF Empty = {} THEN "running" ELSE "crashed"
      /\ file' = [c \in Chunk |-> IF \E s \in Slot : writes(s) /\ ChunkAt(chunkIn[s]) = c
                                  THEN mem[slotOf[c]] ELSE file[c]]
      /\ flags' = [r \in Slot |-> IF \E s \in Slot : writes(s) /\ target(s) = r
                                  THEN flags[r] \ {"IS_DIRTY"} ELSE flags[r]]
      /\ UNCHANGED <<arrayVars, slotVars, mem, latest, free, pinned>>

UnpinChunk(c) ==
  /\ pc = "running" /\ c \in pinned
  /\ careful' = (careful /\ Has(c, "IS_LOADED") /\ ~ Has(c, "IS_DIRTY"))
  /\ sorted => careful'
  /\ flags' = [flags EXCEPT ![slotOf[c]] = @ \ {"IN_USE"}]
  /\ free' = free + 1
  /\ pinned' = pinned \ {c}
  /\ UNCHANGED <<arrayVars, slotVars, dataVars, pc>>

(* sort_buffer_seq on the array of chunks: two structs change places.  The *)
(* client has no chunk pinned.                                             *)
SwapChunks(c, d) ==
  /\ pc = "running" /\ careful
  /\ pinned = {}
  /\ c # d
  /\ place' = [place EXCEPT ![c] = place[d], ![d] = place[c]]
  /\ sorted' = TRUE
  /\ UNCHANGED <<slotVars, dataVars, flags, free, pinned, careful, pc>>

Stopped == pc \in {"exited", "crashed"} /\ UNCHANGED vars

Next == \/ \E c \in Chunk : \/ PinAgain(c) \/ PinEmpty(c) \/ PinEvict(c) \/ PinFails(c)
                            \/ ReadChunk(c) \/ WriteChunk(c) \/ FlushChunk(c) \/ UnpinChunk(c)
                            \/ \E s \in Slot : PinForce(c, s)
                            \/ \E d \in Chunk : SwapChunks(c, d)
        \/ FlushCache \/ Stopped

Spec == Init /\ [][Next]_vars

-----------------------------------------------------------------------------
(***************************************************************************)
(* Properties                                                              *)
(***************************************************************************)
TypeOK == /\ place \in [Chunk -> Place]
          /\ sorted \in BOOLEAN
          /\ chunkIn \in [Slot -> Place \cup {NoChunk}]
          /\ flags \in [Slot -> SUBSET Flag]
          /\ mem \in [Slot -> Data \cup {Garbage}]
          /\ slotOf \in [Chunk -> Slot \cup {NoSlot}]
          /\ free \in 0 .. NumSlots
          /\ empty \in 0 .. NumSlots
          /\ lastPin \in Slot
          /\ file \in [Chunk -> Data]
          /\ latest \in [Chunk -> Data]
          /\ pinned \subseteq Chunk
          /\ careful \in BOOLEAN
          /\ pc \in {"running", "exited", "crashed"}

(* The counters that decide how many chunks load_window takes and whether  *)
(* pin_chunk evicts tell the truth, and every chunk that is pinned has a   *)
(* slot of its own, in use, whatever the client does (cache.c:82, 97, 212).*)
CountersExact ==
  /\ free = Cardinality(Unused)
  /\ empty = Cardinality(Empty)
  /\ \A c \in pinned : Resident(c) /\ Has(c, "IN_USE")

(* What a careful client finds in a slot that claims to be loaded is the   *)
(* latest version, whatever was in the slot, wherever the chunk was before *)
(* and however the array of chunks has been sorted in between (cache.c:166 *)
(* "Load a chunk into memory if it isn't already").                        *)
LoadedIsLatest ==
  careful /\ pc = "running" =>
    \A c \in pinned : Has(c, "IS_LOADED") => mem[slotOf[c]] = latest[c]

(* A change that a careful client made is never lost: it is in the file, or*)
(* in the slot of the chunk, marked dirty (cache.c:107-116, 149-155).      *)
ChangesKept ==
  careful /\ pc = "running" =>
    \A c \in Chunk :
      file[c] = latest[c] \/ (Resident(c) /\ Has(c, "IS_DIRTY") /\ mem[slotOf[c]] = latest[c])
=============================================================================
