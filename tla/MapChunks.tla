----------------------------- MODULE MapChunks -----------------------------
(***************************************************************************)
(* map_chunks (cache.c): the chunks of the file are moved to the places    *)
(* that the order of the CHUNK structs gives them, by swapping two chunks  *)
(* at a time through two slots of the cache.  Two tables are kept to know  *)
(* which chunk is where, and a third one, which gives the offsets for the  *)
(* reads and the writes, is changed between the two.                       *)
(*                                                                         *)
(* A place is an offset divided by CHUNK_SIZE, counted from 1; the data of *)
(* a chunk is named by the place it came from.  A step is a call that      *)
(* schedules I/O, or an I/O thread doing its job.                          *)
(***************************************************************************)
EXTENDS Integers

CONSTANT NumChunks  \* the length of the array

ASSUME MapAssumption == NumChunks \in Nat \ {0}

Place == 1 .. NumChunks

(* Slot 1 holds the chunk that is to move, slot 2 the one it displaces. *)
Slot == {1, 2}

VARIABLES
  sorted,   \* where the data for each place was originally
  file,     \* which data is at each place
  whereis,  \* whereis_chunk: where each data is
  atLoc,    \* chunk_at_loc: which data is at each place
  absolute, \* the offset in each CHUNK that I/O is done with
  mem,      \* the data in each slot
  pending,  \* the slots whose read or write is under way
  i, xCur, yCur, pc

vars == <<sorted, file, whereis, atLoc, absolute, mem, pending, i, xCur, yCur, pc>>

OneToOne(f) == \A a, b \in Place : f[a] = f[b] => a = b

Init == /\ sorted \in [Place -> Place]
        /\ OneToOne(sorted)
        /\ file = [p \in Place |-> p]
        /\ whereis = [p \in Place |-> p]
        /\ atLoc = [p \in Place |-> p]
        /\ absolute = [p \in Place |-> p]
        /\ mem = [s \in Slot |-> 1]
        /\ pending = {}
        /\ i = 1
        /\ xCur = 1
        /\ yCur = 1
        /\ pc = "loop"

-----------------------------------------------------------------------------
(* Fault: i is increased before the continue and by the loop. *)
TwoFurther == i + 2

NextPlace == i + 1

(* The data for place i is there already. *)
Skip == /\ pc = "loop"
        /\ i <= NumChunks
        /\ whereis[sorted[i]] = i
        /\ i' = NextPlace
        /\ UNCHANGED <<sorted, file, whereis, atLoc, absolute, mem, pending, xCur, yCur, pc>>

(* Fault: nothing is skipped. *)
Always == TRUE

Misplaced == whereis[sorted[i]] # i

(* Both chunks are pinned, each to its slot, and read. *)
ReadPair == /\ pc = "loop"
            /\ i <= NumChunks
            /\ Misplaced
            /\ xCur' = whereis[sorted[i]]
            /\ yCur' = atLoc[i]
            /\ pending' = Slot
            /\ pc' = "read"
            /\ UNCHANGED <<sorted, file, whereis, atLoc, absolute, mem, i>>

(* The chunk that slot s was pinned to. *)
Pinned(s) == IF s = 1 THEN xCur ELSE i

ReadDone(s) == /\ pc = "read"
               /\ s \in pending
               /\ mem' = [mem EXCEPT ![s] = file[absolute[Pinned(s)]]]
               /\ pending' = pending \ {s}
               /\ UNCHANGED <<sorted, file, whereis, atLoc, absolute, i, xCur, yCur, pc>>

(* Fault: wait_for_all_io is left out after the reads. *)
NotWaited == TRUE

AllDone == pending = {}

(* Fault: the place the data came from keeps its entry. *)
OneEntry == [atLoc EXCEPT ![i] = sorted[i]]

BothEntries == [atLoc EXCEPT ![i] = sorted[i], ![xCur] = yCur]

(* The reads are waited for, the tables brought up to date, the offsets    *)
(* exchanged, and both slots flushed.                                      *)
SwapOffsets ==
  /\ pc = "read"
  /\ AllDone
  /\ whereis' = [whereis EXCEPT ![sorted[i]] = i, ![yCur] = xCur]
  /\ atLoc' = BothEntries
  /\ absolute' = [absolute EXCEPT ![xCur] = i, ![i] = xCur]
  /\ pending' = Slot
  /\ pc' = "write"
  /\ UNCHANGED <<sorted, file, mem, i, xCur, yCur>>

WriteDone(s) == /\ pc = "write"
                /\ s \in pending
                /\ file' = [file EXCEPT ![absolute[Pinned(s)]] = mem[s]]
                /\ pending' = pending \ {s}
                /\ UNCHANGED <<sorted, whereis, atLoc, absolute, mem, i, xCur, yCur, pc>>

(* Fault: the offsets stay exchanged. *)
Exchanged == absolute

Restored == [absolute EXCEPT ![i] = whereis[sorted[i]], ![xCur] = whereis[yCur]]

(* The writes are waited for and the offsets put back, from the tables.    *)
MakeAbsolute ==
  /\ pc = "write"
  /\ pending = {}
  /\ absolute' = Restored
  /\ i' = i + 1
  /\ pc' = "loop"
  /\ UNCHANGED <<sorted, file, whereis, atLoc, mem, pending, xCur, yCur>>

Return == /\ pc = "loop"
          /\ i > NumChunks
          /\ pc' = "done"
          /\ UNCHANGED <<sorted, file, whereis, atLoc, absolute, mem, pending, i, xCur, yCur>>

Done == pc = "done" /\ UNCHANGED vars

Next == \/ Skip \/ ReadPair \/ SwapOffsets \/ MakeAbsolute \/ Return \/ Done
        \/ \E s \in Slot : ReadDone(s) \/ WriteDone(s)

Spec == Init /\ [][Next]_vars

-----------------------------------------------------------------------------
(***************************************************************************)
(* Properties                                                              *)
(***************************************************************************)
TypeOK == /\ sorted \in [Place -> Place]
          /\ file \in [Place -> Place]
          /\ whereis \in [Place -> Place]
          /\ atLoc \in [Place -> Place]
          /\ absolute \in [Place -> Place]
          /\ mem \in [Slot -> Place]
          /\ pending \subseteq Slot
          /\ i \in 1 .. NumChunks + 1
          /\ xCur \in Place
          /\ yCur \in Place
          /\ pc \in {"loop", "read", "write", "done"}

(* Between two swaps the tables describe the file: each is the inverse of  *)
(* the other, and the offsets are back where they were (cache.c:277-295).  *)
TablesTrue ==
  pc = "loop" =>
    \A p \in Place : /\ file[p] = atLoc[p]
                     /\ whereis[atLoc[p]] = p
                     /\ absolute[p] = p

(* The two writes of a swap go to different places, and the data that they *)
(* put there is what the file does not hold any more: whichever is first,  *)
(* nothing is overwritten that was not read (cache.c:284-293).             *)
SwapSafe ==
  /\ pc = "write" => absolute[xCur] # absolute[i]
  /\ pc = "write" /\ pending = Slot => mem[1] = file[absolute[i]] /\ mem[2] = file[absolute[xCur]]

(* A last chunk whose struct is still the last one is never read or        *)
(* written, not even for a moment on the way of another: it may be shorter *)
(* than the CHUNK_SIZE that cache.c:252-257 gives to all of them           *)
(* (parallel_sort leaves the struct of a short one in its place).          *)
LastNotMoved ==
  sorted[NumChunks] = NumChunks /\ pc \in {"read", "write"} =>
     i # NumChunks /\ xCur # NumChunks

(* At the end every place holds the data that belongs there                *)
(* (cache.c:239 "Sort the chunks within the file itself").                 *)
ChunksMapped == pc = "done" => file = sorted
=============================================================================
