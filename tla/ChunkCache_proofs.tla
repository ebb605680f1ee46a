-------------------------- MODULE ChunkCache_proofs --------------------------
(***************************************************************************)
(* Theorems about ChunkCache, for any chunks and any number of slots.      *)
(***************************************************************************)
EXTENDS ChunkCache, FiniteSetTheorems, TLAPS

(* Structs are moved, never copied; before the first sort none has moved.  *)
Array == /\ \A c, d \in Chunk : place[c] = place[d] => c = d
         /\ ~ sorted => place = [c \in Chunk |-> c]

(* The slots in use are those of the pinned chunks. *)
Slots == /\ \A c \in pinned : /\ slotOf[c] \in Slot
                              /\ chunkIn[slotOf[c]] = place[c]
                              /\ "IN_USE" \in flags[slotOf[c]]
         /\ \A s \in Used : \E c \in pinned : slotOf[c] = s
         /\ \A s \in Slot : "IS_DIRTY" \in flags[s] => mem[s] \in Data
         /\ ~ sorted => \A s \in Slot : chunkIn[s] # NoChunk => slotOf[chunkIn[s]] # NoSlot

Counters == free = Cardinality(Unused) /\ empty = Cardinality(Empty)

(* What a careful client can rely on. *)
Careful ==
  /\ sorted => careful
  /\ careful =>
       /\ \A s \in Slot : "IS_DIRTY" \in flags[s] => {"IN_USE", "IS_LOADED"} \subseteq flags[s]
       /\ \A c \in pinned : "IS_LOADED" \in flags[slotOf[c]] => mem[slotOf[c]] = latest[c]
       /\ \A c \in Chunk : file[c] = latest[c]
                           \/ (c \in pinned /\ "IS_DIRTY" \in flags[slotOf[c]])
       /\ ~ sorted => \A c \in Chunk \ pinned : Resident(c) => mem[slotOf[c]] = latest[c]

CacheInv == TypeOK /\ Array /\ Slots /\ Counters /\ Careful

LEMMA SlotFacts == IsFiniteSet(Slot) /\ Cardinality(Slot) = NumSlots /\ NoSlot \notin Slot
<1>1. /\ IsFiniteSet(0 .. NumSlots - 1)
      /\ Cardinality(0 .. NumSlots - 1)
           = IF 0 > NumSlots - 1 THEN 0 ELSE (NumSlots - 1) - 0 + 1
  BY FS_Interval, CacheAssumption
<1> QED BY <1>1, CacheAssumption DEF Slot, NoSlot

(* A set of slots is counted; one more or less of them is one more or less.*)
LEMMA Count ==
  ASSUME NEW S, S \subseteq Slot
  PROVE  /\ Cardinality(S) \in 0 .. NumSlots
         /\ S # {} => Cardinality(S) # 0
         /\ \A s \in S : Cardinality(S \ {s}) = Cardinality(S) - 1
         /\ \A s \in Slot \ S : Cardinality(S \cup {s}) = Cardinality(S) + 1
<1>1. IsFiniteSet(S) /\ Cardinality(S) \in Nat /\ Cardinality(S) <= NumSlots
  BY SlotFacts, FS_Subset, FS_CardinalityType
<1>2. S # {} => Cardinality(S) # 0
  BY <1>1, FS_EmptySet
<1>3. \A s \in S : Cardinality(S \ {s}) = Cardinality(S) - 1
  BY <1>1, FS_RemoveElement
<1>4. \A s \in Slot \ S : Cardinality(S \cup {s}) = Cardinality(S) + 1
  BY <1>1, FS_AddElement
<1> QED BY <1>1, <1>2, <1>3, <1>4, CacheAssumption

LEMMA InitCache == Init => CacheInv
<1> SUFFICES ASSUME Init PROVE CacheInv
  OBVIOUS
<1>1. Unused = Slot /\ Empty = Slot /\ Used = {}
  BY DEF Init, Unused, Empty, Used
<1>2. TypeOK
  <2>1. free \in 0 .. NumSlots /\ empty \in 0 .. NumSlots /\ lastPin \in Slot
    BY CacheAssumption DEF Init, Slot
  <2>2. file \in [Chunk -> Data] /\ latest \in [Chunk -> Data]
    BY CacheAssumption DEF Init, Data
  <2>3. flags \in [Slot -> SUBSET Flag] /\ place \in [Chunk -> Place]
    BY DEF Init, Place
  <2> QED BY <2>1, <2>2, <2>3 DEF Init, TypeOK
<1>3. Array /\ Slots
  BY <1>1 DEF Init, Array, Slots
<1>4. Counters
  BY <1>1, SlotFacts DEF Init, Counters
<1>5. Careful
  BY <1>1 DEF Init, Careful, Resident
<1> QED BY <1>2, <1>3, <1>4, <1>5 DEF CacheInv

-----------------------------------------------------------------------------
(* Before the first sort the pointers of the slots name chunks. *)
LEMMA ChunkAtPlace ==
  ASSUME CacheInv, ~ sorted, NEW c \in Chunk
  PROVE  ChunkAt(c) = c
BY DEF CacheInv, Array, ChunkAt

(* Every pin takes a slot that is not in use. *)
LEMMA TakeCounters ==
  ASSUME CacheInv, NEW s \in Unused, free' = free - 1, flags' \in [Slot -> SUBSET Flag],
         "IN_USE" \in flags'[s],
         \A r \in Slot \ {s} : "IN_USE" \in flags'[r] <=> "IN_USE" \in flags[r]
  PROVE  free' = Cardinality(Unused') /\ free' \in 0 .. NumSlots
<1>1. Unused' = Unused \ {s} /\ Unused \subseteq Slot /\ Unused' \subseteq Slot
  BY DEF Unused
<1>2. Cardinality(Unused') = Cardinality(Unused) - 1
  BY <1>1, Count
<1> QED BY <1>1, <1>2, Count DEF CacheInv, Counters

LEMMA TakeEmpty ==
  ASSUME CacheInv, NEW c \in Chunk, NEW s \in Slot, TakeSlot(c, s)
  PROVE  /\ empty' = Cardinality(Empty') /\ empty' \in 0 .. NumSlots
         /\ chunkIn' \in [Slot -> Place \cup {NoChunk}]
         /\ slotOf' \in [Chunk -> Slot \cup {NoSlot}] /\ lastPin' \in Slot
<1>1. Empty' = Empty \ {s} /\ Empty \subseteq Slot /\ Empty' \subseteq Slot
  BY CacheAssumption DEF TakeSlot, Empty, CacheInv, TypeOK, Place
<1>2. s \in Empty <=> chunkIn[s] = NoChunk
  BY DEF Empty
<1>3. Cardinality(Empty') = Cardinality(Empty) - (IF s \in Empty THEN 1 ELSE 0)
  <2>1. CASE s \in Empty
    BY <1>1, <2>1, Count
  <2>2. CASE s \notin Empty
    <3>1. Empty' = Empty
      BY <1>1, <2>2
    <3>2. Cardinality(Empty) \in Nat
      BY <1>1, Count
    <3> QED BY <2>2, <3>1, <3>2
  <2> QED BY <2>1, <2>2
<1>4. empty' = Cardinality(Empty')
  BY <1>1, <1>2, <1>3, Count DEF TakeSlot, EmptyAfter, CacheInv, Counters
<1>5. empty' \in 0 .. NumSlots
  BY <1>1, <1>4, Count
<1> QED BY <1>4, <1>5 DEF TakeSlot, CacheInv, TypeOK, Place

(* What Evict leaves, for a client of either kind. *)
LEMMA EvictLeaves ==
  ASSUME CacheInv, NEW s \in Unused, Evict(s)
  PROVE  /\ flags' \in [Slot -> SUBSET Flag] /\ flags'[s] = {"IN_USE"}
         /\ \A r \in Slot \ {s} : flags'[r] = flags[r] \/ flags'[r] = flags[r] \ {"IS_DIRTY"}
         /\ file' \in [Chunk -> Data]
         /\ careful => /\ file' = file
                       /\ \A r \in Slot \ {s} : flags'[r] = flags[r]
<1> DEFINE old == ChunkAt(chunkIn[s])
<1>1. s \in Slot /\ "IN_USE" \notin flags[s]
  BY DEF Unused
<1>2. CASE chunkIn[s] # NoChunk /\ "IS_DIRTY" \in flags[s] /\ MustWrite(old)
  <2>1. ~ careful /\ ~ sorted
    BY <1>1, <1>2 DEF CacheInv, Careful
  <2>2. old = chunkIn[s] /\ old \in Chunk
    BY <1>1, <1>2, <2>1, ChunkAtPlace DEF CacheInv, TypeOK, Place
  <2>3. slotOf[old] \in Slot /\ mem[slotOf[old]] \in Data
    BY <1>1, <1>2, <2>1, <2>2 DEF MustWrite, CacheInv, TypeOK, Slots
  <2>4. /\ file' = [file EXCEPT ![old] = mem[slotOf[old]]]
        /\ flags' = [flags EXCEPT ![slotOf[old]] = @ \ {"IS_DIRTY"}, ![s] = {"IN_USE"}]
    BY <1>2 DEF Evict, FreshFlags
  <2> QED BY <1>1, <2>1, <2>2, <2>3, <2>4 DEF CacheInv, TypeOK, Flag
<1>3. CASE ~ (chunkIn[s] # NoChunk /\ "IS_DIRTY" \in flags[s] /\ MustWrite(old))
  <2>1. file' = file /\ flags' = [flags EXCEPT ![s] = {"IN_USE"}]
    BY <1>3 DEF Evict, FreshFlags
  <2> QED BY <1>1, <2>1 DEF CacheInv, TypeOK, Flag
<1> QED BY <1>2, <1>3

-----------------------------------------------------------------------------
(* A chunk that is not pinned gets a slot that is not in use. *)
LEMMA TakeStep ==
  ASSUME CacheInv, NEW c \in Chunk, NEW s \in Unused, Pin(c), TakeSlot(c, s),
         flags' \in [Slot -> SUBSET Flag], flags'[s] = {"IN_USE"},
         \A r \in Slot \ {s} : flags'[r] = flags[r] \/ flags'[r] = flags[r] \ {"IS_DIRTY"},
         file' \in [Chunk -> Data],
         careful => /\ file' = file
                    /\ \A r \in Slot \ {s} : flags'[r] = flags[r]
  PROVE  CacheInv'
<1>1. s \in Slot /\ "IN_USE" \notin flags[s] /\ c \notin pinned /\ pinned' = pinned \cup {c}
  BY DEF Unused, Pin
<1>2. free' = Cardinality(Unused') /\ free' \in 0 .. NumSlots
  <2>1. \A r \in Slot \ {s} : "IN_USE" \in flags'[r] <=> "IN_USE" \in flags[r]
    OBVIOUS
  <2> QED BY <2>1, TakeCounters DEF Pin, OneFreeLess
<1>3. /\ empty' = Cardinality(Empty') /\ empty' \in 0 .. NumSlots
      /\ chunkIn' \in [Slot -> Place \cup {NoChunk}]
      /\ slotOf' \in [Chunk -> Slot \cup {NoSlot}] /\ lastPin' \in Slot
  BY <1>1, TakeEmpty
<1>4. TypeOK'
  BY <1>1, <1>2, <1>3 DEF Pin, arrayVars, CacheInv, TypeOK
<1>5. Array'
  BY DEF Pin, arrayVars, CacheInv, Array
<1>6. /\ slotOf'[c] = s /\ chunkIn'[s] = place[c]
      /\ \A d \in Chunk \ {c} : slotOf'[d] = slotOf[d]
      /\ \A r \in Slot \ {s} : chunkIn'[r] = chunkIn[r]
  BY <1>1 DEF TakeSlot, CacheInv, TypeOK
<1>7. \A d \in pinned : slotOf[d] \in Slot /\ slotOf[d] # s /\ d # c /\ d \in Chunk
  BY <1>1 DEF CacheInv, Slots, TypeOK
<1>8. Slots'
  <2>1. \A d \in pinned' : /\ slotOf'[d] \in Slot
                           /\ chunkIn'[slotOf'[d]] = place[d]
                           /\ "IN_USE" \in flags'[slotOf'[d]]
    BY <1>1, <1>6, <1>7 DEF CacheInv, Slots
  <2>2. \A r \in Used' : \E d \in pinned' : slotOf'[d] = r
    <3> SUFFICES ASSUME NEW r \in Slot, "IN_USE" \in flags'[r]
                 PROVE  \E d \in pinned' : slotOf'[d] = r
      BY DEF Used
    <3>1. CASE r = s
      BY <1>1, <1>6, <3>1
    <3>2. CASE r # s
      <4>1. r \in Used
        BY <3>2 DEF Used
      <4> QED BY <1>1, <1>6, <1>7, <4>1 DEF CacheInv, Slots
    <3> QED BY <3>1, <3>2
  <2>3. \A r \in Slot : "IS_DIRTY" \in flags'[r] => mem[r] \in Data
    BY DEF CacheInv, Slots
  <2>4. ~ sorted => \A r \in Slot : chunkIn'[r] # NoChunk => slotOf'[chunkIn'[r]] # NoSlot
    <3> SUFFICES ASSUME ~ sorted, NEW r \in Slot, chunkIn'[r] # NoChunk
                 PROVE  slotOf'[chunkIn'[r]] # NoSlot
      OBVIOUS
    <3>1. s # NoSlot /\ place[c] = c
      BY <1>1, SlotFacts DEF CacheInv, Array
    <3>2. CASE r = s
      BY <1>6, <3>1, <3>2
    <3>3. CASE r # s
      <4>1. chunkIn[r] \in Chunk /\ slotOf[chunkIn[r]] # NoSlot /\ chunkIn'[r] = chunkIn[r]
        BY <1>6, <3>3 DEF CacheInv, TypeOK, Slots, Place
      <4> QED BY <1>6, <3>1, <4>1
    <3> QED BY <3>2, <3>3
  <2> QED BY <2>1, <2>2, <2>3, <2>4 DEF Slots, Pin, arrayVars
<1>9. Careful'
  <2> SUFFICES ASSUME careful
               PROVE  /\ \A r \in Slot : "IS_DIRTY" \in flags'[r]
                                           => {"IN_USE", "IS_LOADED"} \subseteq flags'[r]
                      /\ \A d \in pinned' : "IS_LOADED" \in flags'[slotOf'[d]]
                                             => mem[slotOf'[d]] = latest[d]
                      /\ \A d \in Chunk : file'[d] = latest[d]
                            \/ (d \in pinned' /\ "IS_DIRTY" \in flags'[slotOf'[d]])
                      /\ ~ sorted => \A d \in Chunk \ pinned' :
                                        Resident(d)' => mem[slotOf'[d]] = latest[d]
    BY DEF Careful, Pin, arrayVars, CacheInv
  <2>1. \A r \in Slot : "IS_DIRTY" \in flags'[r]
                          => {"IN_USE", "IS_LOADED"} \subseteq flags'[r]
    BY DEF CacheInv, Careful
  <2>2. \A d \in pinned' : "IS_LOADED" \in flags'[slotOf'[d]] => mem[slotOf'[d]] = latest[d]
    BY <1>1, <1>6, <1>7 DEF CacheInv, Careful
  <2>3. \A d \in Chunk : file'[d] = latest[d]
            \/ (d \in pinned' /\ "IS_DIRTY" \in flags'[slotOf'[d]])
    BY <1>1, <1>6, <1>7 DEF CacheInv, Careful
  <2>4. ~ sorted => \A d \in Chunk \ pinned' : Resident(d)' => mem[slotOf'[d]] = latest[d]
    <3> SUFFICES ASSUME ~ sorted, NEW d \in Chunk \ pinned', Resident(d)'
                 PROVE  mem[slotOf'[d]] = latest[d]
      OBVIOUS
    <3>1. d # c /\ d \notin pinned /\ slotOf'[d] = slotOf[d] /\ slotOf[d] \in Slot
          /\ chunkIn'[slotOf[d]] = place[d] /\ place[d] # place[c]
      BY <1>1, <1>6 DEF Resident, Pin, arrayVars, CacheInv, TypeOK, Array
    <3>2. slotOf[d] # s
      BY <1>6, <3>1
    <3>3. Resident(d)
      BY <1>6, <3>1, <3>2, SlotFacts DEF Resident
    <3> QED BY <3>1, <3>3 DEF CacheInv, Careful
  <2> QED BY <2>1, <2>2, <2>3, <2>4
<1> QED BY <1>2, <1>3, <1>4, <1>5, <1>8, <1>9 DEF CacheInv, Counters

LEMMA PinStep ==
  ASSUME CacheInv, NEW c \in Chunk,
         PinEmpty(c) \/ PinEvict(c) \/ \E s \in Slot : PinForce(c, s)
  PROVE  CacheInv'
<1>1. CASE PinEmpty(c)
  <2>1. PICK s \in Slot : First(s, Empty) /\ TakeSlot(c, s)
                          /\ flags' = [flags EXCEPT ![s] = {"IN_USE"}]
    BY <1>1 DEF PinEmpty
  <2>2. s \in Unused
    <3>1. chunkIn[s] = NoChunk
      BY <2>1 DEF First, Empty
    <3>2. \A d \in pinned : chunkIn[slotOf[d]] # NoChunk
      BY CacheAssumption DEF CacheInv, Slots, TypeOK, Place
    <3> QED BY <3>1, <3>2 DEF CacheInv, Slots, Used, Unused
  <2>3. flags' \in [Slot -> SUBSET Flag] /\ flags'[s] = {"IN_USE"}
        /\ (\A r \in Slot \ {s} : flags'[r] = flags[r]) /\ file' = file
        /\ file' \in [Chunk -> Data]
    BY <1>1, <2>1 DEF PinEmpty, CacheInv, TypeOK, Flag
  <2> QED BY <1>1, <2>1, <2>2, <2>3, TakeStep DEF PinEmpty
<1>2. CASE PinEvict(c)
  <2>1. PICK s \in Unused : TakeSlot(c, s) /\ Evict(s)
    BY <1>2 DEF PinEvict, First
  <2> QED BY <1>2, <2>1, EvictLeaves, TakeStep DEF PinEvict
<1>3. CASE \E s \in Slot : PinForce(c, s)
  <2>1. PICK s \in Unused : TakeSlot(c, s) /\ Evict(s) /\ Pin(c)
    BY <1>3 DEF PinForce
  <2> QED BY <2>1, EvictLeaves, TakeStep
<1> QED BY <1>1, <1>2, <1>3

LEMMA PinAgainStep ==
  ASSUME CacheInv, NEW c \in Chunk, PinAgain(c)
  PROVE  CacheInv'
<1> DEFINE s == slotOf[c]
<1>1. /\ s \in Slot /\ chunkIn[s] = place[c] /\ s \in Unused /\ c \notin pinned
      /\ pinned' = pinned \cup {c} /\ ~ sorted
  BY DEF PinAgain, Resident, Has, Pin, CacheInv, TypeOK, Unused
<1>2. /\ flags' \in [Slot -> SUBSET Flag] /\ flags'[s] = flags[s] \cup {"IN_USE", "IS_LOADED"}
      /\ \A r \in Slot \ {s} : flags'[r] = flags[r]
  BY <1>1 DEF PinAgain, CacheInv, TypeOK, Flag
<1>3. free' = Cardinality(Unused') /\ free' \in 0 .. NumSlots
  BY <1>1, <1>2, TakeCounters DEF PinAgain, Pin, OneFreeLess
<1>4. Empty' = Empty
  BY DEF PinAgain, slotVars, Empty
<1>5. TypeOK'
  BY <1>1, <1>2, <1>3 DEF PinAgain, Pin, slotVars, arrayVars, CacheInv, TypeOK
<1>6. Array'
  BY DEF PinAgain, Pin, arrayVars, CacheInv, Array
<1>7. \A d \in pinned : slotOf[d] \in Slot \ {s}
  BY <1>1 DEF CacheInv, Slots, Unused
<1>8. Slots'
  <2>1. \A d \in pinned' : /\ slotOf[d] \in Slot
                           /\ chunkIn[slotOf[d]] = place[d]
                           /\ "IN_USE" \in flags'[slotOf[d]]
    BY <1>1, <1>2, <1>7 DEF CacheInv, Slots
  <2>2. \A r \in Used' : \E d \in pinned' : slotOf[d] = r
    BY <1>1, <1>2 DEF CacheInv, Slots, Used
  <2>3. \A r \in Slot : "IS_DIRTY" \in flags'[r] => mem[r] \in Data
    BY <1>2 DEF CacheInv, Slots
  <2> QED BY <2>1, <2>2, <2>3 DEF PinAgain, Pin, slotVars, arrayVars, CacheInv, Slots
<1>9. Careful'
  <2> SUFFICES ASSUME careful
               PROVE  /\ \A r \in Slot : "IS_DIRTY" \in flags'[r]
                                           => {"IN_USE", "IS_LOADED"} \subseteq flags'[r]
                      /\ \A d \in pinned' : "IS_LOADED" \in flags'[slotOf[d]]
                                             => mem[slotOf[d]] = latest[d]
                      /\ \A d \in Chunk : file[d] = latest[d]
                            \/ (d \in pinned' /\ "IS_DIRTY" \in flags'[slotOf[d]])
                      /\ \A d \in Chunk \ pinned' : Resident(d) => mem[slotOf[d]] = latest[d]
    BY DEF PinAgain, Pin, slotVars, arrayVars, Careful, Resident, CacheInv
  <2>1. \A r \in Slot : "IS_DIRTY" \in flags'[r]
                          => {"IN_USE", "IS_LOADED"} \subseteq flags'[r]
    BY <1>2 DEF CacheInv, Careful
  <2>2. mem[s] = latest[c]
    BY <1>1 DEF PinAgain, CacheInv, Careful
  <2>3. \A d \in pinned' : "IS_LOADED" \in flags'[slotOf[d]] => mem[slotOf[d]] = latest[d]
    BY <1>1, <1>2, <1>7, <2>2 DEF CacheInv, Careful
  <2>4. \A d \in Chunk : file[d] = latest[d]
            \/ (d \in pinned' /\ "IS_DIRTY" \in flags'[slotOf[d]])
    BY <1>1, <1>2, <1>7 DEF CacheInv, Careful
  <2> QED BY <1>1, <2>1, <2>3, <2>4 DEF CacheInv, Careful
<1> QED BY <1>3, <1>4, <1>5, <1>6, <1>8, <1>9 DEF PinAgain, slotVars, CacheInv, Counters

-----------------------------------------------------------------------------
(* Reading, changing and flushing one pinned chunk disturbs no other. *)
LEMMA UseStep ==
  ASSUME CacheInv, NEW c \in Chunk, ReadChunk(c) \/ WriteChunk(c) \/ FlushChunk(c)
  PROVE  CacheInv'
<1> DEFINE s == slotOf[c]
<1>1. /\ s \in Slot /\ chunkIn[s] = place[c] /\ "IN_USE" \in flags[s] /\ c \in pinned
      /\ Use(c)
  BY DEF ReadChunk, WriteChunk, FlushChunk, Use, CacheInv, Slots
<1>2. /\ flags' \in [Slot -> SUBSET Flag]
      /\ flags'[s] \ {"IS_DIRTY", "IS_LOADED"} = flags[s] \ {"IS_DIRTY", "IS_LOADED"}
      /\ \A r \in Slot \ {s} : flags'[r] = flags[r]
  BY <1>1 DEF ReadChunk, WriteChunk, FlushChunk, CacheInv, TypeOK, Flag
<1>3. /\ file' \in [Chunk -> Data] /\ latest' \in [Chunk -> Data]
      /\ mem' \in [Slot -> Data \cup {Garbage}]
      /\ \A r \in Slot \ {s} : mem'[r] = mem[r]
      /\ \A d \in Chunk \ {c} : file'[d] = file[d] /\ latest'[d] = latest[d]
      /\ "IS_DIRTY" \in flags'[s] => mem'[s] \in Data
  <2>1. CASE ReadChunk(c)
    BY <1>1, <2>1 DEF ReadChunk, CacheInv, TypeOK
  <2>2. CASE WriteChunk(c)
    <3>1. <<c, latest[c][2] + 1>> \in Data
      <4>1. latest[c] \in Chunk \X (0 .. MaxVersion) /\ latest[c][2] < MaxVersion
        BY <2>2 DEF WriteChunk, CacheInv, TypeOK, Data
      <4>2. latest[c][2] \in 0 .. MaxVersion
        BY <4>1
      <4>3. latest[c][2] + 1 \in 0 .. MaxVersion
        BY <4>1, <4>2, CacheAssumption
      <4> QED BY <4>3 DEF Data
    <3> QED BY <1>1, <2>2, <3>1 DEF WriteChunk, CacheInv, TypeOK
  <2>3. CASE FlushChunk(c)
    <3>1. mem[s] \in Data
      BY <1>1, <2>3 DEF FlushChunk, MustWrite, CacheInv, Slots
    <3> QED BY <1>1, <2>3, <3>1 DEF FlushChunk, Flushed, CacheInv, TypeOK
  <2> QED BY <2>1, <2>2, <2>3
<1>4. Unused' = Unused /\ Empty' = Empty /\ Used' = Used
  BY <1>1, <1>2 DEF Use, slotVars, Unused, Empty, Used
<1>5. TypeOK' /\ Array' /\ Counters'
  BY <1>1, <1>2, <1>3, <1>4
     DEF Use, slotVars, arrayVars, CacheInv, TypeOK, Array, Counters
<1>6. Slots'
  <2>1. \A d \in pinned : /\ slotOf[d] \in Slot
                          /\ chunkIn[slotOf[d]] = place[d]
                          /\ "IN_USE" \in flags'[slotOf[d]]
    BY <1>1, <1>2 DEF CacheInv, Slots
  <2>2. \A r \in Slot : "IS_DIRTY" \in flags'[r] => mem'[r] \in Data
    BY <1>2, <1>3 DEF CacheInv, Slots
  <2> QED BY <1>1, <1>4, <2>1, <2>2 DEF Use, slotVars, arrayVars, CacheInv, Slots
<1>7. \A d \in Chunk \ {c} : slotOf[d] \in Slot /\ chunkIn[slotOf[d]] = place[d] => slotOf[d] # s
  BY <1>1 DEF CacheInv, Array
<1>8. Careful'
  <2> SUFFICES ASSUME careful
               PROVE  /\ \A r \in Slot : "IS_DIRTY" \in flags'[r]
                                           => {"IN_USE", "IS_LOADED"} \subseteq flags'[r]
                      /\ \A d \in pinned : "IS_LOADED" \in flags'[slotOf[d]]
                                             => mem'[slotOf[d]] = latest'[d]
                      /\ \A d \in Chunk : file'[d] = latest'[d]
                            \/ (d \in pinned /\ "IS_DIRTY" \in flags'[slotOf[d]])
                      /\ ~ sorted => \A d \in Chunk \ pinned :
                                        Resident(d) => mem'[slotOf[d]] = latest'[d]
    BY <1>1 DEF Use, slotVars, arrayVars, Careful, Resident, CacheInv
  <2>1. /\ "IS_DIRTY" \in flags[s] => "IS_LOADED" \in flags[s]
        /\ "IS_LOADED" \in flags[s] => mem[s] = latest[c]
        /\ file[c] = latest[c] \/ "IS_DIRTY" \in flags[s]
    BY <1>1 DEF CacheInv, Careful
  <2>2. /\ "IS_DIRTY" \in flags'[s] => {"IN_USE", "IS_LOADED"} \subseteq flags'[s]
        /\ "IS_LOADED" \in flags'[s] => mem'[s] = latest'[c]
        /\ file'[c] = latest'[c] \/ "IS_DIRTY" \in flags'[s]
    <3>1. CASE ReadChunk(c)
      BY <1>1, <2>1, <3>1 DEF ReadChunk, Has, CacheInv, TypeOK
    <3>2. CASE WriteChunk(c)
      BY <1>1, <2>1, <3>2 DEF WriteChunk, Has, CacheInv, TypeOK
    <3>3. CASE FlushChunk(c)
      BY <1>1, <2>1, <3>3 DEF FlushChunk, Flushed, MustWrite, CacheInv, TypeOK
    <3> QED BY <3>1, <3>2, <3>3
  <2>3. \A d \in pinned \ {c} : slotOf[d] \in Slot \ {s} /\ d \in Chunk
    BY <1>7 DEF CacheInv, Slots, TypeOK
  <2>4. \A r \in Slot : "IS_DIRTY" \in flags'[r] => {"IN_USE", "IS_LOADED"} \subseteq flags'[r]
    BY <1>2, <2>2 DEF CacheInv, Careful
  <2>5. \A d \in pinned : "IS_LOADED" \in flags'[slotOf[d]] => mem'[slotOf[d]] = latest'[d]
    BY <1>2, <1>3, <2>2, <2>3 DEF CacheInv, Careful
  <2>6. \A d \in Chunk : file'[d] = latest'[d]
            \/ (d \in pinned /\ "IS_DIRTY" \in flags'[slotOf[d]])
    BY <1>1, <1>2, <1>3, <2>2, <2>3 DEF CacheInv, Careful
  <2>7. ~ sorted => \A d \in Chunk \ pinned : Resident(d) => mem'[slotOf[d]] = latest'[d]
    BY <1>1, <1>3, <1>7 DEF CacheInv, Careful, Resident, TypeOK
  <2> QED BY <2>4, <2>5, <2>6, <2>7
<1> QED BY <1>5, <1>6, <1>8 DEF CacheInv

LEMMA FlushCacheStep == CacheInv /\ FlushCache => CacheInv'
<1> SUFFICES ASSUME CacheInv, FlushCache PROVE CacheInv'
  OBVIOUS
<1>1. UNCHANGED <<arrayVars, slotVars, mem, latest, free, pinned>> /\ ~ sorted
      /\ careful' = FALSE /\ pc' \in {"running", "crashed"}
  BY DEF FlushCache
<1>2. /\ flags' \in [Slot -> SUBSET Flag]
      /\ \A r \in Slot : flags'[r] = flags[r] \/ flags'[r] = flags[r] \ {"IS_DIRTY"}
  BY DEF FlushCache, CacheInv, TypeOK
<1>3. file' \in [Chunk -> Data]
  <2> SUFFICES ASSUME NEW c \in Chunk PROVE file'[c] \in Data
    BY DEF FlushCache
  <2>1. CASE \E s \in Slot : ChunkAt(chunkIn[s]) = c /\ chunkIn[s] # NoChunk /\ MustWrite(c)
    <3>1. PICK s \in Slot : ChunkAt(chunkIn[s]) = c /\ chunkIn[s] # NoChunk /\ MustWrite(c)
      BY <2>1
    <3>2. chunkIn[s] = c
      BY <1>1, <3>1, ChunkAtPlace DEF CacheInv, TypeOK, Place
    <3>3. slotOf[c] \in Slot /\ mem[slotOf[c]] \in Data
      BY <1>1, <3>1, <3>2 DEF MustWrite, CacheInv, TypeOK, Slots
    <3> QED BY <3>3 DEF FlushCache, CacheInv, TypeOK
  <2>2. CASE ~ \E s \in Slot : ChunkAt(chunkIn[s]) = c /\ chunkIn[s] # NoChunk /\ MustWrite(c)
    <3>1. \A s \in Slot : s \in 0 .. s
      BY CacheAssumption DEF Slot
    <3> QED BY <2>2, <3>1 DEF FlushCache, CacheInv, TypeOK
  <2> QED BY <2>1, <2>2
<1>4. Unused' = Unused /\ Empty' = Empty /\ Used' = Used
  BY <1>1, <1>2 DEF slotVars, Unused, Empty, Used
<1>5. TypeOK' /\ Array' /\ Counters'
  <2>1. TypeOK'
    BY <1>1, <1>2, <1>3 DEF slotVars, arrayVars, CacheInv, TypeOK
  <2> QED BY <1>1, <1>4, <2>1 DEF slotVars, arrayVars, CacheInv, Array, Counters
<1>6. Slots'
  BY <1>1, <1>2, <1>4 DEF slotVars, arrayVars, CacheInv, Slots
<1>7. Careful'
  BY <1>1 DEF arrayVars, Careful
<1> QED BY <1>5, <1>6, <1>7 DEF CacheInv

LEMMA UnpinStep ==
  ASSUME CacheInv, NEW c \in Chunk, UnpinChunk(c)
  PROVE  CacheInv'
<1> DEFINE s == slotOf[c]
<1>1. /\ s \in Slot /\ chunkIn[s] = place[c] /\ "IN_USE" \in flags[s] /\ c \in pinned
      /\ UNCHANGED <<arrayVars, slotVars, dataVars, pc>> /\ pinned' = pinned \ {c}
  BY DEF UnpinChunk, CacheInv, Slots
<1>2. /\ flags' \in [Slot -> SUBSET Flag] /\ flags'[s] = flags[s] \ {"IN_USE"}
      /\ \A r \in Slot \ {s} : flags'[r] = flags[r]
  BY <1>1 DEF UnpinChunk, CacheInv, TypeOK
<1>3. free' = Cardinality(Unused') /\ free' \in 0 .. NumSlots
  <2>1. Unused' = Unused \cup {s} /\ s \in Slot \ Unused /\ Unused \subseteq Slot
    BY <1>1, <1>2 DEF Unused
  <2>2. Unused' \subseteq Slot
    BY <2>1
  <2> QED BY <2>1, <2>2, Count DEF UnpinChunk, CacheInv, Counters
<1>4. Empty' = Empty
  BY <1>1 DEF slotVars, Empty
<1>5. TypeOK' /\ Array' /\ Counters'
  <2>1. careful' \in BOOLEAN
    BY DEF UnpinChunk
  <2> QED BY <1>1, <1>2, <1>3, <1>4, <2>1
          DEF slotVars, arrayVars, dataVars, CacheInv, TypeOK, Array, Counters
<1>6. \A d \in Chunk \ {c} : slotOf[d] \in Slot /\ chunkIn[slotOf[d]] = place[d] => slotOf[d] # s
  BY <1>1 DEF CacheInv, Array
<1>7. \A d \in pinned' : d \in Chunk \ {c} /\ d \in pinned /\ slotOf[d] \in Slot \ {s}
  BY <1>1, <1>6 DEF CacheInv, Slots, TypeOK
<1>8. Slots'
  <2>1. \A d \in pinned' : /\ slotOf[d] \in Slot
                           /\ chunkIn[slotOf[d]] = place[d]
                           /\ "IN_USE" \in flags'[slotOf[d]]
    BY <1>2, <1>7 DEF CacheInv, Slots
  <2>2. \A r \in Used' : \E d \in pinned' : slotOf[d] = r
    <3> SUFFICES ASSUME NEW r \in Slot, "IN_USE" \in flags'[r]
                 PROVE  \E d \in pinned' : slotOf[d] = r
      BY DEF Used
    <3>1. r # s /\ r \in Used
      BY <1>2 DEF Used
    <3> QED BY <1>1, <3>1 DEF CacheInv, Slots
  <2>3. \A r \in Slot : "IS_DIRTY" \in flags'[r] => mem[r] \in Data
    BY <1>2 DEF CacheInv, Slots
  <2> QED BY <1>1, <2>1, <2>2, <2>3 DEF slotVars, arrayVars, dataVars, CacheInv, Slots
<1>9. Careful'
  <2>1. sorted => careful'
    BY DEF UnpinChunk
  <2>2. ASSUME careful'
        PROVE  /\ \A r \in Slot : "IS_DIRTY" \in flags'[r]
                                    => {"IN_USE", "IS_LOADED"} \subseteq flags'[r]
               /\ \A d \in pinned' : "IS_LOADED" \in flags'[slotOf[d]]
                                      => mem[slotOf[d]] = latest[d]
               /\ \A d \in Chunk : file[d] = latest[d]
                     \/ (d \in pinned' /\ "IS_DIRTY" \in flags'[slotOf[d]])
               /\ ~ sorted => \A d \in Chunk \ pinned' :
                                 Resident(d) => mem[slotOf[d]] = latest[d]
    <3>1. careful /\ "IS_LOADED" \in flags[s] /\ "IS_DIRTY" \notin flags[s]
      BY <2>2 DEF UnpinChunk, Has
    <3>2. mem[s] = latest[c] /\ file[c] = latest[c]
      BY <1>1, <3>1 DEF CacheInv, Careful
    <3>3. \A r \in Slot : "IS_DIRTY" \in flags'[r] => {"IN_USE", "IS_LOADED"} \subseteq flags'[r]
      BY <1>2, <3>1 DEF CacheInv, Careful
    <3>4. \A d \in pinned' : "IS_LOADED" \in flags'[slotOf[d]] => mem[slotOf[d]] = latest[d]
      BY <1>2, <1>7, <3>1 DEF CacheInv, Careful
    <3>5. \A d \in Chunk : file[d] = latest[d]
              \/ (d \in pinned' /\ "IS_DIRTY" \in flags'[slotOf[d]])
      BY <1>1, <1>2, <1>7, <3>1, <3>2 DEF CacheInv, Careful
    <3>6. ~ sorted => \A d \in Chunk \ pinned' : Resident(d) => mem[slotOf[d]] = latest[d]
      BY <1>1, <3>1, <3>2 DEF CacheInv, Careful
    <3> QED BY <3>3, <3>4, <3>5, <3>6
  <2> QED BY <1>1, <2>1, <2>2 DEF slotVars, arrayVars, dataVars, Careful, Resident
<1> QED BY <1>5, <1>8, <1>9 DEF CacheInv

(* Sorting the array leaves what a careful client relies on. *)
LEMMA SwapStep ==
  ASSUME CacheInv, NEW c \in Chunk, NEW d \in Chunk, SwapChunks(c, d)
  PROVE  CacheInv'
<1>1. /\ pinned = {} /\ careful /\ sorted' /\ place' = [place EXCEPT ![c] = place[d], ![d] = place[c]]
      /\ UNCHANGED <<slotVars, dataVars, flags, free, pinned, careful, pc>>
  BY DEF SwapChunks
<1>2. Unused' = Unused /\ Empty' = Empty /\ Used' = Used
  BY <1>1 DEF slotVars, Unused, Empty, Used
<1>3. TypeOK'
  BY <1>1 DEF SwapChunks, slotVars, dataVars, CacheInv, TypeOK
<1>4. Array'
  BY <1>1 DEF CacheInv, TypeOK, Array
<1>5. Slots' /\ Counters' /\ Careful'
  BY <1>1, <1>2 DEF slotVars, dataVars, CacheInv, Slots, Counters, Careful
<1> QED BY <1>3, <1>4, <1>5 DEF CacheInv

LEMMA CacheStep == CacheInv /\ [Next]_vars => CacheInv'
<1> SUFFICES ASSUME CacheInv, [Next]_vars PROVE CacheInv'
  OBVIOUS
<1>1. CASE UNCHANGED vars \/ \E c \in Chunk : PinFails(c)
  <2>1. UNCHANGED <<arrayVars, slotVars, dataVars, flags, free, pinned, careful>>
        /\ pc' \in {"running", "exited", "crashed"}
    BY <1>1 DEF vars, PinFails, CacheInv, TypeOK
  <2>2. Unused' = Unused /\ Empty' = Empty /\ Used' = Used
    BY <2>1 DEF slotVars, Unused, Empty, Used
  <2>3. TypeOK' /\ Array' /\ Counters'
    BY <2>1, <2>2 DEF arrayVars, slotVars, dataVars, CacheInv, TypeOK, Array, Counters
  <2>4. Slots' /\ Careful'
    BY <2>1, <2>2 DEF arrayVars, slotVars, dataVars, CacheInv, Slots, Careful, Resident
  <2> QED BY <2>3, <2>4 DEF CacheInv
<1>2. ASSUME NEW c \in Chunk,
             PinEmpty(c) \/ PinEvict(c) \/ \E s \in Slot : PinForce(c, s)
      PROVE  CacheInv'
  BY <1>2, PinStep
<1>3. ASSUME NEW c \in Chunk, PinAgain(c)
      PROVE  CacheInv'
  BY <1>3, PinAgainStep
<1>4. ASSUME NEW c \in Chunk, ReadChunk(c) \/ WriteChunk(c) \/ FlushChunk(c)
      PROVE  CacheInv'
  BY <1>4, UseStep
<1>5. ASSUME NEW c \in Chunk, UnpinChunk(c)
      PROVE  CacheInv'
  BY <1>5, UnpinStep
<1>6. ASSUME NEW c \in Chunk, NEW d \in Chunk, SwapChunks(c, d)
      PROVE  CacheInv'
  BY <1>6, SwapStep
<1>7. CASE FlushCache
  BY <1>7, FlushCacheStep
<1> QED BY <1>1, <1>2, <1>3, <1>4, <1>5, <1>6, <1>7 DEF Next, Stopped

LEMMA CacheCorrect == Spec => []CacheInv
BY InitCache, CacheStep, PTL DEF Spec

-----------------------------------------------------------------------------
(* Every variable keeps its type, whatever the client does. *)
THEOREM CacheTypeCorrect == Spec => []TypeOK
<1>1. CacheInv => TypeOK
  BY DEF CacheInv
<1> QED BY <1>1, CacheCorrect, PTL

(* The counters are exact and pinned chunks have slots, for every client. *)
THEOREM CountersAreExact == Spec => []CountersExact
<1>1. CacheInv => CountersExact
  BY SlotFacts DEF CacheInv, Counters, Slots, CountersExact, Resident, Has
<1> QED BY <1>1, CacheCorrect, PTL

(* A careful client never finds old data in a slot that claims to be loaded*)
(* (cache.c:166-173).                                                      *)
THEOREM LoadedDataIsLatest == Spec => []LoadedIsLatest
<1>1. CacheInv => LoadedIsLatest
  BY DEF CacheInv, Careful, LoadedIsLatest, Has
<1> QED BY <1>1, CacheCorrect, PTL

(* No change of a careful client is lost. *)
THEOREM ChangesAreKept == Spec => []ChangesKept
<1>1. CacheInv => ChangesKept
  <2> SUFFICES ASSUME CacheInv, careful, NEW c \in Chunk, file[c] # latest[c]
               PROVE  Resident(c) /\ Has(c, "IS_DIRTY") /\ mem[slotOf[c]] = latest[c]
    BY DEF ChangesKept
  <2>1. c \in pinned /\ "IS_DIRTY" \in flags[slotOf[c]]
    BY DEF CacheInv, Careful
  <2>2. slotOf[c] \in Slot /\ chunkIn[slotOf[c]] = place[c]
    BY <2>1 DEF CacheInv, Slots
  <2>3. mem[slotOf[c]] = latest[c]
    BY <2>1, <2>2 DEF CacheInv, Careful
  <2> QED BY <2>1, <2>2, <2>3, SlotFacts DEF Resident, Has
<1> QED BY <1>1, CacheCorrect, PTL
=============================================================================
