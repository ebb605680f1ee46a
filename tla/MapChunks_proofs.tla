-------------------------- MODULE MapChunks_proofs --------------------------
(***************************************************************************)
(* map_chunks puts every chunk where it belongs, for any number of chunks. *)
(*                                                                         *)
(* The invariant: the two tables are inverse permutations at all times     *)
(* (Tables), the places before i are done with (Settled), and for each     *)
(* value of pc, how the file, the offsets and the two slots agree with the *)
(* tables.                                                                 *)
(***************************************************************************)
EXTENDS MapChunks, TLAPS

Tables == \A p \in Place : whereis[atLoc[p]] = p /\ atLoc[whereis[p]] = p

Settled == \A p \in Place : p < i => atLoc[p] = sorted[p]

LastInPlace == sorted[NumChunks] = NumChunks => atLoc[NumChunks] = NumChunks

(* No swap is under way. *)
AtRest == /\ pending = {}
          /\ \A p \in Place : file[p] = atLoc[p] /\ absolute[p] = p

Swapping == /\ i \in Place /\ xCur \in Place
            /\ i < xCur
            /\ sorted[NumChunks] = NumChunks => xCur # NumChunks

Reading ==
  /\ Swapping
  /\ whereis[sorted[i]] = xCur
  /\ atLoc[i] = yCur
  /\ \A p \in Place : file[p] = atLoc[p] /\ absolute[p] = p
  /\ \A s \in Slot \ pending : mem[s] = file[Pinned(s)]

Writing ==
  /\ Swapping
  /\ atLoc[i] = sorted[i]
  /\ atLoc[xCur] = yCur
  /\ mem[1] = sorted[i]
  /\ mem[2] = yCur
  /\ \A p \in Place : absolute[p] = IF p = xCur THEN i ELSE IF p = i THEN xCur ELSE p
  /\ \A p \in Place \ {i, xCur} : file[p] = atLoc[p]
  /\ file[i] = IF 1 \in pending THEN yCur ELSE sorted[i]
  /\ file[xCur] = IF 2 \in pending THEN sorted[i] ELSE yCur

MapInv == /\ TypeOK
          /\ OneToOne(sorted)
          /\ Tables
          /\ Settled
          /\ LastInPlace
          /\ pc \in {"loop", "done"} => AtRest
          /\ pc = "read" => Reading
          /\ pc = "write" => Writing
          /\ pc = "done" => i = NumChunks + 1

(* Swapping the data of two places in one table and the places of two data *)
(* in the other keeps the tables inverse to each other.                    *)
LEMMA SwappedTables ==
  ASSUME NEW S, NEW at \in [S -> S], NEW where \in [S -> S],
         NEW a \in S, NEW b \in S, a # b,
         \A p \in S : where[at[p]] = p /\ at[where[p]] = p,
         NEW at2, at2 = [at EXCEPT ![a] = at[b], ![b] = at[a]],
         NEW where2, where2 = [where EXCEPT ![at[b]] = a, ![at[a]] = b]
  PROVE  \A p \in S : where2[at2[p]] = p /\ at2[where2[p]] = p
<1>1. at[a] # at[b]
  OBVIOUS
<1>2. \A p \in S : at2[p] = IF p = a THEN at[b] ELSE IF p = b THEN at[a] ELSE at[p]
  OBVIOUS
<1>3. \A d \in S : where2[d] = IF d = at[b] THEN a ELSE IF d = at[a] THEN b ELSE where[d]
  BY <1>1
<1>. TAKE p \in S
<1>4. where2[at2[p]] = p
  BY <1>1, <1>2, <1>3
<1>5. at2[where2[p]] = p
  BY <1>1, <1>2, <1>3
<1>. QED  BY <1>4, <1>5

LEMMA InitMap == Init => MapInv
BY MapAssumption DEF Init, MapInv, TypeOK, OneToOne, Tables, Settled, LastInPlace, AtRest,
   Place, Slot

(* What displaces a chunk lies behind it, and is not the short one.        *)
LEMMA SwapGoesUp ==
  ASSUME MapInv, pc = "loop", i <= NumChunks, whereis[sorted[i]] # i
  PROVE  /\ i \in Place
         /\ whereis[sorted[i]] \in Place
         /\ i < whereis[sorted[i]]
         /\ sorted[NumChunks] = NumChunks => whereis[sorted[i]] # NumChunks
<1>1. i \in Place /\ sorted[i] \in Place /\ whereis[sorted[i]] \in Place
  <2>1. i \in 1 .. NumChunks + 1
    BY DEF MapInv, TypeOK
  <2>2. i \in Place
    BY <2>1, MapAssumption DEF Place
  <2>. QED  BY <2>2 DEF MapInv, TypeOK
<1>2. atLoc[whereis[sorted[i]]] = sorted[i]
  BY <1>1 DEF MapInv, Tables
<1>3. ~ (whereis[sorted[i]] < i)
  <2>. SUFFICES ASSUME whereis[sorted[i]] < i PROVE FALSE
    OBVIOUS
  <2>1. atLoc[whereis[sorted[i]]] = sorted[whereis[sorted[i]]]
    BY <1>1 DEF MapInv, Settled
  <2>. QED  BY <1>1, <1>2, <2>1 DEF MapInv, OneToOne
<1>4. i < whereis[sorted[i]]
  BY <1>1, <1>3 DEF Place
<1>5. ASSUME sorted[NumChunks] = NumChunks, whereis[sorted[i]] = NumChunks PROVE FALSE
  <2>1. sorted[NumChunks] = NumChunks /\ atLoc[NumChunks] = NumChunks
    BY <1>5 DEF MapInv, LastInPlace
  <2>2. sorted[i] = NumChunks
    BY <1>2, <1>5, <2>1
  <2>3. NumChunks \in Place
    BY MapAssumption DEF Place
  <2>4. i = NumChunks
    BY <1>1, <2>1, <2>2, <2>3 DEF MapInv, OneToOne
  <2>. QED  BY <1>4, <1>5, <2>4, MapAssumption DEF Place
<1>. QED  BY <1>1, <1>4, <1>5

LEMMA ReadPairKeeps == MapInv /\ ReadPair => MapInv'
<1>. SUFFICES ASSUME MapInv, ReadPair PROVE MapInv'
  OBVIOUS
<1>1. /\ i \in Place /\ i < whereis[sorted[i]]
      /\ whereis[sorted[i]] \in Place
      /\ sorted[NumChunks] = NumChunks => whereis[sorted[i]] # NumChunks
  BY SwapGoesUp DEF ReadPair, Misplaced
<1>2. TypeOK'
  BY <1>1 DEF MapInv, TypeOK, ReadPair, Misplaced
<1>3. Reading'
  BY <1>1 DEF MapInv, AtRest, ReadPair, Misplaced, Reading, Swapping
<1>. QED  BY <1>2, <1>3 DEF MapInv, ReadPair, Misplaced, OneToOne, Tables, Settled, LastInPlace

LEMMA ReadDoneKeeps == ASSUME NEW s \in Slot PROVE MapInv /\ ReadDone(s) => MapInv'
<1>. SUFFICES ASSUME MapInv, ReadDone(s) PROVE MapInv'
  OBVIOUS
<1>1. Reading /\ TypeOK
  BY DEF MapInv, ReadDone
<1>2. Pinned(s) \in Place /\ absolute[Pinned(s)] = Pinned(s)
  BY <1>1 DEF Reading, Swapping, Pinned
<1>3. TypeOK'
  BY <1>1, <1>2 DEF TypeOK, ReadDone
<1>4. \A r \in (Slot \ pending)' : mem'[r] = file'[Pinned(r)']
  BY <1>1, <1>2 DEF Reading, ReadDone, TypeOK, Pinned
<1>5. Reading'
  BY <1>1, <1>4 DEF Reading, ReadDone, Swapping
<1>. QED  BY <1>3, <1>5 DEF MapInv, ReadDone, OneToOne, Tables, Settled, LastInPlace

LEMMA SwapKeeps == MapInv /\ SwapOffsets => MapInv'
<1>. SUFFICES ASSUME MapInv, SwapOffsets PROVE MapInv'
  OBVIOUS
<1>1. Reading /\ TypeOK /\ Tables /\ Settled
  BY DEF MapInv, SwapOffsets, AllDone, BothEntries
<1>2. /\ i \in Place /\ xCur \in Place /\ i < xCur /\ i # xCur
      /\ atLoc[i] = yCur /\ whereis[sorted[i]] = xCur
      /\ sorted[i] \in Place /\ yCur \in Place
  BY <1>1 DEF Reading, Swapping, TypeOK, Place
<1>3. atLoc[xCur] = sorted[i]
  BY <1>1, <1>2 DEF Tables
<1>4. TypeOK'
  BY <1>1, <1>2 DEF TypeOK, SwapOffsets, AllDone, BothEntries
<1>5. atLoc' = [atLoc EXCEPT ![i] = atLoc[xCur], ![xCur] = atLoc[i]]
  BY <1>2, <1>3 DEF SwapOffsets, AllDone, BothEntries
<1>6. whereis' = [whereis EXCEPT ![atLoc[xCur]] = i, ![atLoc[i]] = xCur]
  BY <1>2, <1>3 DEF SwapOffsets, AllDone, BothEntries
<1>7. Tables'
  <2>1. atLoc \in [Place -> Place] /\ whereis \in [Place -> Place]
    BY <1>1 DEF TypeOK
  <2>2. \A p \in Place : whereis'[atLoc'[p]] = p /\ atLoc'[whereis'[p]] = p
    BY <1>1, <1>2, <1>5, <1>6, <2>1, SwappedTables DEF Tables
  <2>. QED  BY <2>2 DEF Tables
<1>8. /\ atLoc'[i] = sorted[i] /\ atLoc'[xCur] = yCur
      /\ \A p \in Place \ {i, xCur} : atLoc'[p] = atLoc[p]
  BY <1>1, <1>2 DEF SwapOffsets, AllDone, BothEntries, TypeOK
<1>9. Settled'
  <2>. SUFFICES ASSUME NEW p \in Place, p < i PROVE atLoc'[p] = sorted[p]
    BY DEF Settled, SwapOffsets, AllDone, BothEntries
  <2>1. p # i /\ p # xCur
    BY <1>2 DEF Place
  <2>. QED  BY <1>1, <1>8, <2>1 DEF Settled
<1>10. LastInPlace'
  <2>. SUFFICES ASSUME sorted[NumChunks] = NumChunks PROVE atLoc'[NumChunks] = NumChunks
    BY DEF LastInPlace, SwapOffsets, AllDone, BothEntries
  <2>1. NumChunks \in Place /\ NumChunks # i /\ NumChunks # xCur
    BY <1>1, <1>2, MapAssumption DEF Reading, Swapping, Place
  <2>. QED  BY <1>8, <2>1 DEF MapInv, LastInPlace
<1>11. mem[1] = sorted[i] /\ mem[2] = yCur
  <2>1. mem[1] = file[xCur] /\ mem[2] = file[i]
    BY <1>1 DEF Reading, SwapOffsets, AllDone, BothEntries, Pinned, Slot
  <2>. QED  BY <1>1, <1>2, <1>3, <2>1 DEF Reading
<1>12. \A p \in Place : absolute'[p] = IF p = xCur THEN i ELSE IF p = i THEN xCur ELSE p
  BY <1>1, <1>2 DEF SwapOffsets, AllDone, BothEntries, TypeOK, Reading
<1>13. file[i] = yCur /\ file[xCur] = sorted[i] /\ \A p \in Place \ {i, xCur} : file[p] = atLoc'[p]
  BY <1>1, <1>2, <1>3, <1>8 DEF Reading
<1>14. Writing'
  <2>1. /\ i' = i /\ xCur' = xCur /\ yCur' = yCur /\ sorted' = sorted /\ mem' = mem
        /\ file' = file /\ pending' = {1, 2}
    BY DEF SwapOffsets, AllDone, BothEntries, Slot
  <2>2. Swapping'
    BY <1>1, <2>1 DEF Reading, Swapping
  <2>. QED  BY <1>8, <1>11, <1>12, <1>13, <2>1, <2>2 DEF Writing
<1>. QED  BY <1>4, <1>7, <1>9, <1>10, <1>14 DEF MapInv, SwapOffsets, AllDone, BothEntries, OneToOne

LEMMA WriteDoneKeeps == ASSUME NEW s \in Slot PROVE MapInv /\ WriteDone(s) => MapInv'
<1>. SUFFICES ASSUME MapInv, WriteDone(s) PROVE MapInv'
  OBVIOUS
<1>1. Writing /\ TypeOK
  BY DEF MapInv, WriteDone
<1>2. i \in Place /\ xCur \in Place /\ i # xCur /\ sorted[i] \in Place /\ yCur \in Place
  BY <1>1 DEF Writing, Swapping, TypeOK, Place
<1>3. file' = [file EXCEPT ![IF s = 1 THEN i ELSE xCur] = IF s = 1 THEN sorted[i] ELSE yCur]
  BY <1>1, <1>2 DEF Writing, WriteDone, Pinned, Slot
<1>4. TypeOK'
  BY <1>1, <1>2, <1>3 DEF TypeOK, WriteDone
<1>5. /\ \A p \in Place \ {i, xCur} : file'[p] = atLoc[p]
      /\ file'[i] = IF 1 \in pending' THEN yCur ELSE sorted[i]
      /\ file'[xCur] = IF 2 \in pending' THEN sorted[i] ELSE yCur
  BY <1>1, <1>2, <1>3 DEF Writing, WriteDone, Slot, TypeOK
<1>6. Writing'
  BY <1>1, <1>5 DEF Writing, WriteDone, Swapping
<1>. QED  BY <1>4, <1>6 DEF MapInv, WriteDone, OneToOne, Tables, Settled, LastInPlace

LEMMA MakeAbsoluteKeeps == MapInv /\ MakeAbsolute => MapInv'
<1>. SUFFICES ASSUME MapInv, MakeAbsolute PROVE MapInv'
  OBVIOUS
<1>1. Writing /\ TypeOK /\ Tables /\ Settled
  BY DEF MapInv, MakeAbsolute, Restored
<1>2. i \in Place /\ xCur \in Place /\ i # xCur
  BY <1>1 DEF Writing, Swapping, Place
<1>3. whereis[sorted[i]] = i /\ whereis[yCur] = xCur
  BY <1>1, <1>2 DEF Writing, Tables
<1>4. absolute' = [absolute EXCEPT ![i] = i, ![xCur] = xCur]
  BY <1>3 DEF MakeAbsolute, Restored
<1>5. TypeOK'
  <2>1. i' \in 1 .. NumChunks + 1
    BY <1>2, MapAssumption DEF MakeAbsolute, Restored, Place
  <2>2. absolute' \in [Place -> Place]
    BY <1>1, <1>2, <1>4 DEF TypeOK
  <2>. QED  BY <1>1, <2>1, <2>2 DEF TypeOK, MakeAbsolute, Restored
<1>6. Settled'
  BY <1>1, <1>2 DEF Settled, Writing, MakeAbsolute, Restored, Place
<1>7. AtRest'
  BY <1>1, <1>2, <1>4 DEF AtRest, Writing, MakeAbsolute, Restored, TypeOK
<1>. QED  BY <1>5, <1>6, <1>7 DEF MapInv, MakeAbsolute, Restored, OneToOne, Tables, LastInPlace

LEMMA SkipKeeps == MapInv /\ Skip => MapInv'
<1>. SUFFICES ASSUME MapInv, Skip PROVE MapInv'
  OBVIOUS
<1>1. i \in Place /\ sorted[i] \in Place
  <2>1. i \in 1 .. NumChunks + 1 /\ i <= NumChunks
    BY DEF MapInv, TypeOK, Skip, NextPlace
  <2>2. i \in Place
    BY <2>1, MapAssumption DEF Place
  <2>. QED  BY <2>2 DEF MapInv, TypeOK
<1>2. atLoc[i] = sorted[i]
  BY <1>1 DEF MapInv, Tables, Skip, NextPlace
<1>3. Settled'
  BY <1>1, <1>2 DEF MapInv, Settled, Skip, NextPlace, Place
<1>4. TypeOK'
  <2>1. i' \in 1 .. NumChunks + 1
    BY <1>1, MapAssumption DEF Skip, NextPlace, Place
  <2>. QED  BY <2>1 DEF MapInv, TypeOK, Skip, NextPlace
<1>. QED  BY <1>3, <1>4 DEF MapInv, Skip, NextPlace, OneToOne, Tables, LastInPlace, AtRest

LEMMA ReturnKeeps == MapInv /\ Return => MapInv'
BY MapAssumption DEF MapInv, Return, TypeOK, OneToOne, Tables, Settled, LastInPlace, AtRest

LEMMA StutterKeeps == MapInv /\ UNCHANGED vars => MapInv'
BY DEF MapInv, vars, TypeOK, OneToOne, Tables, Settled, LastInPlace, AtRest, Reading, Writing,
   Swapping, Pinned

LEMMA StepMap == MapInv /\ [Next]_vars => MapInv'
<1>. SUFFICES ASSUME MapInv, [Next]_vars PROVE MapInv'
  OBVIOUS
<1>1. CASE \E s \in Slot : ReadDone(s) \/ WriteDone(s)
  BY <1>1, ReadDoneKeeps, WriteDoneKeeps
<1>2. CASE Done \/ UNCHANGED vars
  BY <1>2, StutterKeeps DEF Done
<1>. QED  BY <1>1, <1>2, ReadPairKeeps, SwapKeeps, MakeAbsoluteKeeps, SkipKeeps, ReturnKeeps
          DEF Next

LEMMA MapInvariant == Spec => []MapInv
BY InitMap, StepMap, PTL DEF Spec

(* The type invariant of map_chunks: no index leaves the tables.           *)
THEOREM MapTypeCorrect == Spec => []TypeOK
<1>1. MapInv => TypeOK
  BY DEF MapInv
<1>. QED  BY <1>1, MapInvariant, PTL

(* The tables and the file agree between two swaps (cache.c:277-295).      *)
THEOREM TablesAreTrue == Spec => []TablesTrue
<1>1. MapInv => TablesTrue
  BY DEF MapInv, TablesTrue, AtRest, Tables
<1>. QED  BY <1>1, MapInvariant, PTL

(* The two writes of a swap cannot disturb each other (cache.c:284-293).   *)
THEOREM SwapsAreSafe == Spec => []SwapSafe
<1>1. MapInv => SwapSafe
  <2>. SUFFICES ASSUME MapInv, pc = "write" PROVE SwapSafe
    BY DEF SwapSafe
  <2>1. Writing /\ i # xCur
    BY DEF MapInv, Writing, Swapping, Place
  <2>2. absolute[xCur] = i /\ absolute[i] = xCur
    BY <2>1 DEF Writing, Swapping
  <2>. QED  BY <2>1, <2>2 DEF SwapSafe, Writing, Slot
<1>. QED  BY <1>1, MapInvariant, PTL

(* A last chunk that belongs there is not touched (cache.c:252-257).        *)
THEOREM LastStays == Spec => []LastNotMoved
<1>1. MapInv => LastNotMoved
  BY MapAssumption DEF MapInv, LastNotMoved, Reading, Writing, Swapping, Place
<1>. QED  BY <1>1, MapInvariant, PTL

(* When map_chunks returns, every chunk is in its place (cache.c:239).     *)
THEOREM MapIsCorrect == Spec => []ChunksMapped
<1>1. MapInv => ChunksMapped
  <2>. SUFFICES ASSUME MapInv, pc = "done" PROVE file = sorted
    BY DEF ChunksMapped
  <2>1. \A p \in Place : file[p] = sorted[p]
    BY MapAssumption DEF MapInv, AtRest, Settled, Place
  <2>2. file \in [Place -> Place] /\ sorted \in [Place -> Place]
    BY DEF MapInv, TypeOK
  <2>. QED  BY <2>1, <2>2
<1>. QED  BY <1>1, MapInvariant, PTL
=============================================================================
