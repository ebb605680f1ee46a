---------------------------- MODULE IoPool_proofs ----------------------------
(***************************************************************************)
(* Theorems about IoPool, for any number of threads, any sizes and any     *)
(* number of windows.                                                      *)
(***************************************************************************)
EXTENDS IoPool, FiniteSetTheorems, TLAPS

(* Chunks are whole blocks, and the last one has at least one block: what  *)
(* it takes for the streams never to hold part of another chunk.           *)
Aligned == /\ \E k \in Nat : Chunk = k * Block
           /\ \A c \in ChunkId : End(c) - Off(c) >= Block

Quiet == \A w \in Worker : op[w] = "NO_OP"

(* The slots of the window whose chunks have been given to workers. *)
Scheduled == IF pc[Main] = "signal" THEN next
             ELSE IF pc[Main] \in {"schedule", "full"} THEN next - 1
             ELSE Len(window)

Counter == free = Cardinality(Idle) + (IF LockFree THEN 0 ELSE 1)

(* Where main is, and what it knows there. *)
MainInv ==
  /\ pc[Main] \in {"schedule", "full", "signal"} => next \in DOMAIN window
  /\ pc[Main] \notin {"idle", "exited"} => 1 \in DOMAIN window
  /\ pc[Main] \in {"idle", "loaded", "exited"} => Quiet
  /\ pc[Main] \in {"idle", "exited"} => phase = "WRITE_CHUNK"
  /\ pc[Main] = "loaded" => phase = "READ_CHUNK"
  /\ pc[Main] = "signal" => target \in Worker /\ op[target] # "NO_OP"

(* Every job under way is one of the phase, for a slot of its own. *)
JobsInv ==
  /\ \A w \in Worker : pc[w] \in {"run", "finish"} => op[w] # "NO_OP"
  /\ \A w \in Worker : op[w] # "NO_OP" =>
       /\ op[w] = phase
       /\ job[w].slot \in DOMAIN window /\ job[w].slot <= Scheduled
       /\ job[w].chunk = window[job[w].slot]
  /\ \A v, w \in Worker :
       v # w /\ op[v] # "NO_OP" /\ op[w] # "NO_OP" => job[v].slot # job[w].slot

(* Some worker has the job of slot i, and has not done it yet. *)
Pending(i) == \E w \in Worker : op[w] # "NO_OP" /\ job[w].slot = i /\ pc[w] # "finish"

Fetched(i) == /\ DOMAIN mem[i] = Units(window[i])
              /\ Aligned => \A u \in Units(window[i]) : mem[i][u] = file[u]

Sorted(i)    == DOMAIN mem[i] = Units(window[i])
                /\ \A u \in Units(window[i]) : mem[i][u] = round
Committed(i) == \A u \in Units(window[i]) : file[u] = round

(* What has been scheduled is pending or done. *)
Progress ==
  \A i \in DOMAIN window :
    /\ phase = "READ_CHUNK" => (i <= Scheduled => Pending(i) \/ Fetched(i))
    /\ phase = "WRITE_CHUNK" => /\ pc[Main] \notin {"idle", "exited"} => Sorted(i)
                                /\ i <= Scheduled => Pending(i) \/ Committed(i)

(* No stream holds the first unit of a chunk. *)
StreamsSafe == Aligned => \A w \in Worker, c \in ChunkId : Off(c) \notin DOMAIN ahead[w]

IoInv == TypeOK /\ Counter /\ MainInv /\ JobsInv /\ Progress /\ StreamsSafe

-----------------------------------------------------------------------------
LEMMA Halving == ASSUME NEW n \in Nat \ {0} PROVE n - n \div 2 \in Nat \ {0} /\ n \div 2 \in Nat
OBVIOUS

LEMMA WorkerFacts ==
  /\ NumWorkers \in Nat \ {0}
  /\ Main \notin Worker
  /\ Thread = Worker \cup {Main}
  /\ IsFiniteSet(Worker) /\ Cardinality(Worker) = NumWorkers
<1>1. NumWorkers \in Nat \ {0}
  BY Halving, IoAssumption DEF NumWorkers
<1>2. Main \notin Worker /\ Thread = Worker \cup {Main}
  BY <1>1 DEF Main, Worker, Thread
<1>3. IsFiniteSet(Worker) /\ Cardinality(Worker) = NumWorkers
  <2>1. /\ IsFiniteSet(1 .. NumWorkers)
        /\ Cardinality(1 .. NumWorkers) = IF 1 > NumWorkers THEN 0 ELSE NumWorkers - 1 + 1
    BY <1>1, FS_Interval
  <2> QED BY <1>1, <2>1 DEF Worker
<1> QED BY <1>1, <1>2, <1>3

LEMMA IdleFacts ==
  /\ Idle \subseteq Worker /\ IsFiniteSet(Idle) /\ Cardinality(Idle) \in 0 .. NumWorkers
  /\ Cardinality(Idle) = NumWorkers => Idle = Worker
<1>1. Idle \subseteq Worker
  BY DEF Idle
<1>2. /\ IsFiniteSet(Idle) /\ Cardinality(Idle) <= Cardinality(Worker)
      /\ Cardinality(Idle) = Cardinality(Worker) => Idle = Worker
  BY <1>1, WorkerFacts, FS_Subset
<1>3. Cardinality(Idle) \in Nat
  BY <1>2, FS_CardinalityType
<1> QED BY <1>1, <1>2, <1>3, WorkerFacts

LEMMA Product ==
  ASSUME NEW a \in Nat, NEW b \in Nat, NEW k \in Nat, a < b
  PROVE  a * k + k <= b * k
OBVIOUS

LEMMA Division ==
  ASSUME NEW x \in Nat, NEW b \in Nat \ {0}
  PROVE  /\ x \div b \in Nat /\ (x \div b) * b \in Nat
         /\ (x \div b) * b <= x /\ x < (x \div b) * b + b
         /\ x % b \in Nat /\ x % b < b
<1>1. /\ x \div b \in Nat
      /\ (x \div b) * b <= x /\ x < (x \div b) * b + b
  OBVIOUS
<1>2. x % b \in Nat /\ x % b < b
  OBVIOUS
<1>3. (x \div b) * b \in Nat
  BY <1>1
<1> QED BY <1>1, <1>2, <1>3

(* Multiples leave nothing over. *)
LEMMA Multiples ==
  ASSUME NEW k \in Nat, NEW b \in Nat \ {0}
  PROVE  (k * b) % b = 0 /\ ((k * b) \div b) * b = k * b
<1>1. (k * b) % b = 0
  OBVIOUS
<1>2. (k * b) \div b = k
  OBVIOUS
<1> QED BY <1>1, <1>2

LEMMA ChunkFacts ==
  ASSUME NEW c \in ChunkId
  PROVE  /\ Off(c) \in Nat /\ Off(c) < FileSize
         /\ End(c) \in Nat /\ Off(c) < End(c) /\ End(c) <= FileSize /\ End(c) <= Off(c) + Chunk
         /\ Units(c) \subseteq Unit
         /\ \A d \in ChunkId : c < d => Off(c) + Chunk <= Off(d)
<1>1. c \in Nat /\ c <= (FileSize - 1) \div Chunk /\ (FileSize - 1) \div Chunk \in Nat
  BY IoAssumption DEF ChunkId
<1>2. c * Chunk <= FileSize - 1 /\ c * Chunk \in Nat
  <2>1. ((FileSize - 1) \div Chunk) * Chunk <= FileSize - 1
    BY Division, IoAssumption
  <2>2. c * Chunk <= ((FileSize - 1) \div Chunk) * Chunk
    BY <1>1, Product, IoAssumption
  <2> QED BY <1>1, <2>1, <2>2, IoAssumption
<1>3. \A d \in ChunkId : c < d => c * Chunk + Chunk <= d * Chunk
  BY <1>1, Product, IoAssumption DEF ChunkId
<1> QED BY <1>2, <1>3, IoAssumption DEF Off, End, Units, Unit

(* Two chunks share no unit. *)
LEMMA ChunksApart ==
  ASSUME NEW c \in ChunkId, NEW d \in ChunkId, c # d
  PROVE  Units(c) \cap Units(d) = {}
<1>1. c \in Int /\ d \in Int
  BY IoAssumption DEF ChunkId
<1>2. CASE c < d
  BY <1>2, ChunkFacts, IoAssumption DEF Units
<1>3. CASE d < c
  BY <1>3, ChunkFacts, IoAssumption DEF Units
<1> QED BY <1>1, <1>2, <1>3

LEMMA WindowFacts ==
  ASSUME NEW s \in Window \cup {<< >>}
  PROVE  /\ Len(s) \in Nat /\ DOMAIN s = 1 .. Len(s) /\ Len(s) <= CacheSize
         /\ \A i \in DOMAIN s : s[i] \in ChunkId
         /\ \A i, j \in DOMAIN s : i # j => s[i] # s[j]
         /\ s \in Window => 1 \in DOMAIN s
<1>1. CASE s = << >>
  <2>1. Len(s) = 0 /\ DOMAIN s = {}
    BY <1>1
  <2>2. << >> \notin Window
    <3> SUFFICES ASSUME << >> \in Window PROVE FALSE
      OBVIOUS
    <3>1. PICK n \in 1 .. CacheSize : << >> \in [1 .. n -> ChunkId]
      BY DEF Window
    <3>2. 1 \in DOMAIN << >>
      BY <3>1
    <3> QED BY <3>2
  <2>3. 1 .. 0 = {} /\ 0 <= CacheSize
    BY IoAssumption
  <2> QED BY <1>1, <2>1, <2>2, <2>3
<1>2. CASE s \in Window
  <2>1. PICK n \in 1 .. CacheSize : s \in [1 .. n -> ChunkId]
    BY <1>2 DEF Window
  <2>2. s \in Seq(ChunkId) /\ Len(s) = n
    BY <2>1, IoAssumption
  <2> QED BY <1>2, <2>1, <2>2, IoAssumption DEF Window
<1> QED BY <1>1, <1>2

LEMMA SlotOfWindow ==
  ASSUME TypeOK
  PROVE  /\ DOMAIN window \subseteq Slot
         /\ \A i \in DOMAIN window : window[i] \in ChunkId /\ Units(window[i]) \subseteq Unit
<1>1. window \in Window \cup {<< >>}
  BY DEF TypeOK
<1>2. /\ Len(window) \in Nat /\ DOMAIN window = 1 .. Len(window) /\ Len(window) <= CacheSize
      /\ \A i \in DOMAIN window : window[i] \in ChunkId
  BY <1>1, WindowFacts
<1>3. DOMAIN window \subseteq Slot
  BY <1>2, IoAssumption DEF Slot
<1>4. \A i \in DOMAIN window : Units(window[i]) \subseteq Unit
  BY <1>2, ChunkFacts
<1> QED BY <1>2, <1>3, <1>4

-----------------------------------------------------------------------------
(***************************************************************************)
(* Streams                                                                 *)
(***************************************************************************)

(* Whatever the sizes, fread fills the buffer, from the stream or the file.*)
LEMMA FreadShape ==
  ASSUME TypeOK, NEW w \in Worker, NEW c \in ChunkId
  PROVE  LET s == Seek(ahead[w], Off(c))
             r == Fread(s, Off(c), End(c))
         IN  /\ DOMAIN r.data = Units(c) /\ UnitsOf(r.data)
             /\ UnitsOf(r.stream)
<1> DEFINE s == Seek(ahead[w], Off(c))
           at == Off(c)
           end == End(c)
           held == { u \in DOMAIN s : at \in DOMAIN s /\ at <= u /\ u < end }
           rest == at + Cardinality(held)
           direct == ((end - rest) \div Block) * Block
<1>1. ASSUME NEW lo \in Nat, NEW hi \in Int PROVE UnitsOf(Loaded(lo, hi))
  <2> DEFINE top == IF hi > FileSize THEN FileSize ELSE hi
  <2>1. FileSize \in Nat /\ top \in Int /\ top <= FileSize
    BY IoAssumption
  <2>2. Loaded(lo, hi) = [u \in lo .. top - 1 |-> file[u]]
    BY DEF Loaded
  <2> HIDE DEF top
  <2>3. lo .. top - 1 \subseteq Unit
    BY <2>1 DEF Unit
  <2>4. \A u \in Unit : file[u] \in Version
    BY DEF TypeOK
  <2> QED BY <2>2, <2>3, <2>4 DEF UnitsOf
<1>2. UnitsOf(Nothing)
  <2>1. DOMAIN Nothing = {}
    BY DEF Nothing
  <2> QED BY <2>1 DEF UnitsOf
<1>3. /\ at \in Nat /\ end \in Nat /\ at < end /\ end <= FileSize
      /\ at % Block \in Nat /\ at % Block < Block /\ at - (at % Block) \in Nat
  <2>1. at \in Nat /\ end \in Nat /\ at < end /\ end <= FileSize
    BY ChunkFacts
  <2>2. at % Block <= at
    BY <2>1, IoAssumption
  <2> QED BY <2>1, <2>2, Division, IoAssumption
<1>4. UnitsOf(s)
  <2>1. UnitsOf(ahead[w])
    BY DEF TypeOK
  <2> QED BY <1>1, <1>2, <1>3, <2>1, IoAssumption DEF Seek
<1>5. held \subseteq at .. end - 1 /\ IsFiniteSet(held) /\ Cardinality(held) \in Nat
      /\ Cardinality(held) <= end - at
  <2>1. held \subseteq at .. end - 1
    BY <1>3, <1>4 DEF UnitsOf, Unit
  <2>2. /\ IsFiniteSet(at .. end - 1)
        /\ Cardinality(at .. end - 1) = end - at
    <3> HIDE DEF at, end
    <3>1. at \in Int /\ end - 1 \in Int /\ ~ (at > end - 1) /\ (end - 1) - at + 1 = end - at
      BY <1>3
    <3>2. \A a, b \in Int : /\ IsFiniteSet(a .. b)
                            /\ Cardinality(a .. b) = IF a > b THEN 0 ELSE b - a + 1
      BY FS_Interval
    <3> QED BY <3>1, <3>2
  <2> QED BY <1>3, <2>1, <2>2, FS_Subset, FS_CardinalityType
<1>6. rest \in Nat /\ rest <= end /\ direct \in Nat
  <2>1. rest \in Nat /\ rest <= end
    BY <1>3, <1>5
  <2>2. end - rest \in Nat
    BY <1>3, <2>1
  <2> HIDE DEF rest, end
  <2>3. ((end - rest) \div Block) * Block \in Nat
    BY <2>2, Division, IoAssumption
  <2> QED BY <2>1, <2>3
<1>7. UnitsOf(Fread(s, at, end).stream)
  <2>1. Fread(s, at, end).stream = IF rest + direct < end
                                   THEN Loaded(rest + direct, rest + direct + Block)
                                   ELSE IF direct > 0 THEN Nothing ELSE s
    BY DEF Fread
  <2>2. rest + direct \in Nat /\ rest + direct + Block \in Int
    BY <1>6, IoAssumption
  <2> QED BY <1>1, <1>2, <1>4, <2>1, <2>2
<1>8. /\ DOMAIN Fread(s, at, end).data = Units(c) /\ UnitsOf(Fread(s, at, end).data)
  <2>1. Fread(s, at, end).data = [u \in at .. end - 1 |-> IF u \in held THEN s[u] ELSE file[u]]
    BY DEF Fread
  <2>2. ASSUME NEW u \in at .. end - 1
        PROVE  (IF u \in held THEN s[u] ELSE file[u]) \in Version
    <3>1. u \in Unit /\ file[u] \in Version
      <4>1. u \in Unit
        <5> HIDE DEF at, end
        <5> QED BY <1>3, IoAssumption DEF Unit
      <4> QED BY <4>1 DEF TypeOK
    <3>2. u \in held => s[u] \in Version
      <4> HIDE DEF s
      <4> QED BY <1>4 DEF UnitsOf
    <3> HIDE DEF s, held
    <3> QED BY <3>1, <3>2
  <2> QED BY <1>3, <2>1, <2>2, ChunkFacts DEF UnitsOf, Units
<1> QED BY <1>7, <1>8

(* With aligned chunks fread has nothing to take from the stream, and what *)
(* it leaves there holds the beginning of no chunk.                        *)
LEMMA FreadAligned ==
  ASSUME TypeOK, Aligned, NEW w \in Worker, NEW c \in ChunkId,
         \A d \in ChunkId : Off(d) \notin DOMAIN ahead[w]
  PROVE  LET r == Fread(Seek(ahead[w], Off(c)), Off(c), End(c))
         IN  /\ \A u \in Units(c) : r.data[u] = file[u]
             /\ \A d \in ChunkId : Off(d) \notin DOMAIN r.stream
<1> DEFINE at == Off(c)
           end == End(c)
           direct == ((end - at) \div Block) * Block
<1>1. PICK k \in Nat : Chunk = k * Block
  BY DEF Aligned
<1>2. at \in Nat /\ end \in Nat /\ at < end /\ end <= FileSize /\ c \in Nat
  BY ChunkFacts, IoAssumption DEF ChunkId
<1>3. at % Block = 0
  <2>1. at = (c * k) * Block /\ c * k \in Nat
    BY <1>1, <1>2, IoAssumption DEF Off
  <2> QED BY <2>1, Multiples, IoAssumption
<1>4. Seek(ahead[w], at) = Nothing
  BY <1>2, <1>3 DEF Seek
<1>5. /\ Fread(Nothing, at, end).data = [u \in at .. end - 1 |-> file[u]]
      /\ Fread(Nothing, at, end).stream = IF at + direct < end
                                         THEN Loaded(at + direct, at + direct + Block)
                                         ELSE IF direct > 0 THEN Nothing ELSE Nothing
  <2> DEFINE held == { u \in DOMAIN Nothing : at \in DOMAIN Nothing /\ at <= u /\ u < end }
  <2>1. held = {} /\ Cardinality(held) = 0
    BY FS_EmptySet DEF Nothing
  <2>2. at + Cardinality(held) = at
    BY <1>2, <2>1
  <2> HIDE DEF held
  <2>3. Fread(Nothing, at, end)
          = [data   |-> [u \in at .. end - 1 |-> IF u \in held THEN Nothing[u] ELSE file[u]],
             stream |-> IF at + direct < end THEN Loaded(at + direct, at + direct + Block)
                        ELSE IF direct > 0 THEN Nothing ELSE Nothing]
    BY <2>2 DEF Fread, held
  <2> QED BY <2>1, <2>3
<1>6. \A u \in Units(c) : Fread(Nothing, at, end).data[u] = file[u]
  BY <1>5 DEF Units
<1>7. ASSUME NEW d \in ChunkId
      PROVE  Off(d) \notin DOMAIN Fread(Nothing, at, end).stream
  <2>0. direct \in Nat /\ at + direct \in Nat
    <3>1. end - at \in Nat
      BY <1>2
    <3>2. ((end - at) \div Block) * Block \in Nat
      <4> HIDE DEF end, at
      <4> QED BY <3>1, Division, IoAssumption
    <3> QED BY <1>2, <3>2
  <2>1. CASE at + direct >= end
    <3>1. Fread(Nothing, at, end).stream = Nothing
      <4> HIDE DEF direct
      <4> QED BY <1>2, <1>5, <2>0, <2>1
    <3>2. DOMAIN Nothing = {}
      BY DEF Nothing
    <3> QED BY <3>1, <3>2
  <2>2. CASE at + direct < end
    <3>1. direct \in Nat /\ direct > 0
      <4>1. end - at \in Nat /\ end - at >= Block
        BY <1>2 DEF Aligned
      <4>2. direct \in Nat /\ end - at < direct + Block
        BY <4>1, Division, IoAssumption
      <4> QED BY <4>1, <4>2, IoAssumption
    <3>2. end = FileSize
      <4> SUFFICES ASSUME end # FileSize PROVE FALSE
        OBVIOUS
      <4>1. end - at = Chunk
        BY <1>2, IoAssumption DEF End
      <4>2. direct = Chunk
        BY <1>1, <4>1, Multiples, IoAssumption
      <4> QED BY <1>2, <2>2, <4>1, <4>2, IoAssumption
    <3>3. DOMAIN Fread(Nothing, at, end).stream \subseteq (at + 1) .. (FileSize - 1)
      BY <1>2, <1>5, <2>2, <3>1, IoAssumption DEF Loaded
    <3>4. Off(d) <= at \/ Off(d) >= FileSize
      <4>1. d \in Nat /\ FileSize <= at + Chunk
        BY <1>2, <3>2, ChunkFacts, IoAssumption DEF ChunkId
      <4>2. CASE d = c
        BY <1>2, <4>2
      <4>3. CASE d < c
        BY <4>3, ChunkFacts, IoAssumption
      <4>4. CASE c < d
        BY <1>2, <4>1, <4>4, ChunkFacts, IoAssumption
      <4> QED BY <1>2, <4>1, <4>2, <4>3, <4>4
    <3>5. Off(d) \in Nat
      BY ChunkFacts
    <3> QED BY <1>2, <3>3, <3>4, <3>5, IoAssumption
  <2> HIDE DEF direct
  <2> QED BY <1>2, <2>0, <2>1, <2>2
<1> QED BY <1>4, <1>6, <1>7

-----------------------------------------------------------------------------
(***************************************************************************)
(* The steps                                                               *)
(***************************************************************************)
LEMMA InitIo == Init => IoInv
<1> SUFFICES ASSUME Init PROVE IoInv
  OBVIOUS
<1>1. Idle = Worker /\ pc[Main] = "idle" /\ \A w \in Worker : pc[w] = "loop"
  BY WorkerFacts DEF Init, Idle
<1>2. DOMAIN Nothing = {}
  BY DEF Nothing
<1>3. TypeOK
  <2>1. file \in [Unit -> Version] /\ round \in Version
    BY IoAssumption DEF Init, Version
  <2>2. DOMAIN mem = Slot /\ \A s \in Slot : UnitsOf(mem[s])
    BY <1>2 DEF Init, UnitsOf
  <2>3. DOMAIN ahead = Worker /\ \A w \in Worker : UnitsOf(ahead[w])
    BY <1>2 DEF Init, UnitsOf
  <2>4. job \in [Worker -> Job]
    <3>1. 1 \in Slot
      BY IoAssumption DEF Slot
    <3>2. 0 \in ChunkId
      BY Division, IoAssumption DEF ChunkId
    <3> QED BY <3>1, <3>2 DEF Init, Job
  <2>5. free \in 0 .. NumWorkers /\ next \in 1 .. CacheSize + 1
    BY WorkerFacts, IoAssumption DEF Init
  <2>6. DOMAIN pc = Thread /\ pc[Main] \in MainPC /\ \A w \in Worker : pc[w] \in WorkerPC
    BY <1>1 DEF Init, MainPC, WorkerPC
  <2>7. target \in Thread
    BY WorkerFacts DEF Init
  <2> QED BY <2>1, <2>2, <2>3, <2>4, <2>5, <2>6, <2>7 DEF Init, TypeOK
<1>4. Counter
  BY <1>1, WorkerFacts DEF Init, Counter, LockFree
<1>5. MainInv
  BY <1>1 DEF Init, MainInv, Quiet
<1>6. JobsInv
  BY <1>1 DEF Init, JobsInv
<1>7. Progress
  BY DEF Init, Progress
<1>8. StreamsSafe
  BY <1>2 DEF Init, StreamsSafe
<1> QED BY <1>3, <1>4, <1>5, <1>6, <1>7, <1>8 DEF IoInv

(* The steps of a worker that touch only its own program counter. *)
LEMMA WorkerMoves ==
  ASSUME IoInv, NEW w \in Worker,
         UNCHANGED <<file, mem, ahead, op, job, free, target, window, phase, next, round>>,
         NEW to \in {"lock", "test", "wait", "asleep", "run"},
         pc[w] # "finish", pc' = [pc EXCEPT ![w] = to], to = "run" => op[w] # "NO_OP"
  PROVE  IoInv'
<1>1. pc'[Main] = pc[Main] /\ pc'[w] = to /\ \A v \in Worker \ {w} : pc'[v] = pc[v]
  BY WorkerFacts DEF IoInv, TypeOK
<1>2. TypeOK'
  <2>1. DOMAIN pc' = Thread /\ pc'[Main] \in MainPC /\ \A v \in Worker : pc'[v] \in WorkerPC
    BY <1>1 DEF IoInv, TypeOK, WorkerPC
  <2> QED BY <2>1 DEF IoInv, TypeOK
<1>3. Counter' /\ MainInv'
  BY <1>1 DEF IoInv, Counter, MainInv, LockFree, Idle, Quiet
<1>4. JobsInv'
  BY <1>1 DEF IoInv, JobsInv, Scheduled
<1>5. Progress'
  <2>1. \A i \in DOMAIN window : Pending(i) => Pending(i)'
    BY <1>1 DEF Pending
  <2> QED BY <1>1, <2>1 DEF IoInv, Progress, Scheduled, Fetched, Sorted, Committed
<1>6. StreamsSafe'
  BY DEF IoInv, StreamsSafe
<1> QED BY <1>2, <1>3, <1>4, <1>5, <1>6 DEF IoInv

(* The job of a worker in "run", or "finish", as the window has it. *)
LEMMA JobFacts ==
  ASSUME IoInv, NEW w \in Worker, op[w] # "NO_OP"
  PROVE  /\ job[w].slot \in DOMAIN window /\ job[w].slot \in Slot
         /\ job[w].chunk = window[job[w].slot] /\ job[w].chunk \in ChunkId
         /\ Units(job[w].chunk) \subseteq Unit
         /\ op[w] = phase /\ pc[Main] \notin {"idle", "loaded", "exited"}
         /\ \A i \in DOMAIN window \ {job[w].slot} :
               window[i] \in ChunkId /\ Units(window[i]) \cap Units(job[w].chunk) = {}
<1>1. /\ job[w].slot \in DOMAIN window /\ job[w].chunk = window[job[w].slot]
      /\ op[w] = phase /\ pc[Main] \notin {"idle", "loaded", "exited"}
  BY DEF IoInv, JobsInv, MainInv, Quiet
<1>2. TypeOK
  BY DEF IoInv
<1>3. \A i, j \in DOMAIN window : i # j => window[i] # window[j]
  BY <1>2, WindowFacts DEF TypeOK
<1> QED BY <1>1, <1>2, <1>3, SlotOfWindow, ChunksApart

LEMMA ReadStep ==
  ASSUME IoInv, NEW w \in Worker, ReadChunk(w)
  PROVE  IoInv'
<1> DEFINE c == job[w].chunk
           j == job[w].slot
           r == Fread(Seek(ahead[w], Off(c)), Off(c), End(c))
<1>1. /\ op[w] = "READ_CHUNK" /\ pc[w] = "run" /\ pc' = [pc EXCEPT ![w] = "finish"]
      /\ mem' = [mem EXCEPT ![j] = r.data] /\ ahead' = [ahead EXCEPT ![w] = r.stream]
      /\ UNCHANGED <<file, op, job, free, target, window, phase, next, round>>
  BY DEF ReadChunk, Goto, NoPool, NoPlan
<1>2. /\ j \in DOMAIN window /\ j \in Slot /\ c = window[j] /\ c \in ChunkId /\ phase = "READ_CHUNK"
  BY <1>1, JobFacts
<1>3. TypeOK
  BY DEF IoInv
<1>4. DOMAIN r.data = Units(c) /\ UnitsOf(r.data) /\ UnitsOf(r.stream)
  BY <1>2, <1>3, FreadShape
<1>5. Aligned => /\ \A u \in Units(c) : r.data[u] = file[u]
                 /\ \A d \in ChunkId : Off(d) \notin DOMAIN r.stream
  BY <1>2, <1>3, FreadAligned DEF IoInv, StreamsSafe
<1> HIDE DEF r
<1>6. pc'[Main] = pc[Main] /\ pc'[w] = "finish" /\ \A v \in Worker \ {w} : pc'[v] = pc[v]
  BY <1>1, <1>3, WorkerFacts DEF TypeOK
<1>7. mem'[j] = r.data /\ (\A s \in Slot \ {j} : mem'[s] = mem[s]) /\ DOMAIN mem' = Slot
  BY <1>1, <1>2, <1>3 DEF TypeOK
<1>8. ahead'[w] = r.stream /\ (\A v \in Worker \ {w} : ahead'[v] = ahead[v])
      /\ DOMAIN ahead' = Worker
  BY <1>1, <1>3 DEF TypeOK
<1>9. TypeOK'
  <2>1. DOMAIN pc' = Thread /\ pc'[Main] \in MainPC /\ \A v \in Worker : pc'[v] \in WorkerPC
    BY <1>1, <1>3, <1>6 DEF TypeOK, WorkerPC
  <2>2. \A s \in Slot : UnitsOf(mem'[s])
    BY <1>3, <1>4, <1>7 DEF TypeOK
  <2>3. \A v \in Worker : UnitsOf(ahead'[v])
    BY <1>3, <1>4, <1>8 DEF TypeOK
  <2>4. \A f : UnitsOf(f)' <=> UnitsOf(f)
    BY DEF UnitsOf
  <2> QED BY <1>1, <1>3, <1>7, <1>8, <2>1, <2>2, <2>3, <2>4 DEF TypeOK
<1>10. Counter' /\ MainInv'
  BY <1>1, <1>6 DEF IoInv, Counter, MainInv, LockFree, Idle, Quiet
<1>11. JobsInv'
  BY <1>1, <1>6 DEF IoInv, JobsInv, Scheduled
<1>12. Progress'
  <2> SUFFICES ASSUME NEW i \in DOMAIN window, i <= Scheduled
               PROVE  Pending(i)' \/ Fetched(i)'
    BY <1>1, <1>2, <1>6 DEF Progress, Scheduled
  <2>1. CASE i = j
    BY <1>1, <1>2, <1>4, <1>5, <1>7, <2>1 DEF Fetched
  <2>2. CASE i # j
    <3>1. Pending(i) => Pending(i)'
      BY <1>1, <1>6, <2>2 DEF Pending
    <3>2. mem'[i] = mem[i]
      BY <1>3, <1>7, <2>2, SlotOfWindow
    <3>3. Fetched(i) => Fetched(i)'
      BY <1>1, <3>2 DEF Fetched
    <3> QED BY <1>2, <3>1, <3>3 DEF IoInv, Progress
  <2> QED BY <2>1, <2>2
<1>13. StreamsSafe'
  BY <1>5, <1>8 DEF IoInv, StreamsSafe
<1> QED BY <1>9, <1>10, <1>11, <1>12, <1>13 DEF IoInv

LEMMA WriteStep ==
  ASSUME IoInv, NEW w \in Worker, WriteChunk(w)
  PROVE  IoInv'
<1> DEFINE c == job[w].chunk
           j == job[w].slot
<1>1. /\ op[w] = "WRITE_CHUNK" /\ pc[w] = "run" /\ pc' = [pc EXCEPT ![w] = "finish"]
      /\ file' = [u \in Unit |-> IF u \in Units(c) THEN mem[j][u] ELSE file[u]]
      /\ ahead' = [ahead EXCEPT ![w] = Nothing]
      /\ UNCHANGED <<mem, op, job, free, target, window, phase, next, round>>
  BY DEF WriteChunk, Written, Goto, NoPool, NoPlan
<1>2. /\ j \in DOMAIN window /\ j \in Slot /\ c = window[j] /\ c \in ChunkId
      /\ phase = "WRITE_CHUNK" /\ Units(c) \subseteq Unit
      /\ pc[Main] \notin {"idle", "loaded", "exited"}
      /\ \A i \in DOMAIN window \ {j} : Units(window[i]) \cap Units(c) = {}
  BY <1>1, JobFacts
<1>3. TypeOK /\ Sorted(j)
  BY <1>2 DEF IoInv, Progress
<1>4. file' \in [Unit -> Version]
  BY <1>1, <1>2, <1>3 DEF TypeOK, UnitsOf, Sorted
<1>5. pc'[Main] = pc[Main] /\ pc'[w] = "finish" /\ \A v \in Worker \ {w} : pc'[v] = pc[v]
  BY <1>1, <1>3, WorkerFacts DEF TypeOK
<1>6. ahead'[w] = Nothing /\ (\A v \in Worker \ {w} : ahead'[v] = ahead[v])
      /\ DOMAIN ahead' = Worker /\ DOMAIN Nothing = {}
  BY <1>1, <1>3 DEF TypeOK, Nothing
<1>7. TypeOK'
  <2>1. DOMAIN pc' = Thread /\ pc'[Main] \in MainPC /\ \A v \in Worker : pc'[v] \in WorkerPC
    BY <1>1, <1>3, <1>5 DEF TypeOK, WorkerPC
  <2>2. \A v \in Worker : UnitsOf(ahead'[v])
    BY <1>3, <1>6 DEF TypeOK, UnitsOf
  <2>3. \A f : UnitsOf(f)' <=> UnitsOf(f)
    BY DEF UnitsOf
  <2> QED BY <1>1, <1>3, <1>4, <1>6, <2>1, <2>2, <2>3 DEF TypeOK
<1>8. Counter' /\ MainInv'
  BY <1>1, <1>5 DEF IoInv, Counter, MainInv, LockFree, Idle, Quiet
<1>9. JobsInv'
  BY <1>1, <1>5 DEF IoInv, JobsInv, Scheduled
<1>10. Progress'
  <2>1. ASSUME NEW i \in DOMAIN window
        PROVE  Sorted(i)' /\ (i <= Scheduled => Pending(i)' \/ Committed(i)')
    <3>1. Sorted(i)'
      BY <1>1, <1>2 DEF IoInv, Progress, Sorted
    <3>2. CASE i = j
      BY <1>1, <1>2, <1>3, <3>2 DEF Sorted, Committed
    <3>3. CASE i # j
      <4>1. Pending(i) => Pending(i)'
        BY <1>1, <1>5, <3>3 DEF Pending
      <4>2. Units(window[i]) \subseteq Unit
        BY <1>3, SlotOfWindow
      <4>3. Committed(i) => Committed(i)'
        BY <1>1, <1>2, <3>3, <4>2 DEF Committed
      <4> QED BY <1>2, <3>1, <4>1, <4>3 DEF IoInv, Progress
    <3> QED BY <3>1, <3>2, <3>3
  <2> QED BY <1>1, <1>2, <1>5, <2>1 DEF Progress, Scheduled
<1>11. StreamsSafe'
  BY <1>6 DEF IoInv, StreamsSafe
<1> QED BY <1>7, <1>8, <1>9, <1>10, <1>11 DEF IoInv

LEMMA FinishStep ==
  ASSUME IoInv, NEW w \in Worker, Finish(w)
  PROVE  IoInv'
<1> DEFINE m == Woken(pc[Main])
<1>1. /\ pc[w] = "finish" /\ pc[Main] # "signal" /\ op' = [op EXCEPT ![w] = "NO_OP"]
      /\ free' = free + 1 /\ pc' = [pc EXCEPT ![w] = "loop", ![Main] = m]
      /\ UNCHANGED <<file, mem, ahead, job, target, window, phase, next, round>>
  BY DEF Finish, LockFree, NoData, NoPlan
<1>2. TypeOK /\ op[w] # "NO_OP" /\ pc[Main] \in {"schedule", "full", "barrier", "asleep"}
  BY <1>1, JobFacts DEF IoInv, JobsInv, TypeOK, MainPC
<1>3. m = IF pc[Main] \in {"schedule", "full"} THEN "schedule" ELSE "barrier"
  BY <1>2 DEF Woken
<1> HIDE DEF m
<1>4. pc'[Main] = m /\ pc'[w] = "loop" /\ \A v \in Worker \ {w} : pc'[v] = pc[v]
  BY <1>1, <1>2, WorkerFacts DEF TypeOK
<1>5. op'[w] = "NO_OP" /\ \A v \in Worker \ {w} : op'[v] = op[v]
  BY <1>1, <1>2 DEF TypeOK
<1>6. Scheduled' = Scheduled
  BY <1>1, <1>2, <1>3, <1>4 DEF Scheduled
<1>7. Counter' /\ free' \in 0 .. NumWorkers
  <2>1. Idle' = Idle \cup {w} /\ w \notin Idle
    BY <1>2, <1>5 DEF Idle
  <2>2. Cardinality(Idle') = Cardinality(Idle) + 1
    BY <2>1, IdleFacts, FS_AddElement
  <2>3. Idle' \subseteq Worker
    BY <2>1, IdleFacts
  <2>4. Cardinality(Idle') <= NumWorkers
    BY <2>3, WorkerFacts, FS_Subset
  <2>5. free' = Cardinality(Idle')
    BY <1>1, <1>2, <2>2, IdleFacts DEF IoInv, Counter, LockFree
  <2>6. LockFree'
    BY <1>3, <1>4 DEF LockFree
  <2> QED BY <2>2, <2>4, <2>5, <2>6, IdleFacts, WorkerFacts DEF Counter
<1>8. TypeOK'
  <2>1. DOMAIN pc' = Thread /\ pc'[Main] \in MainPC /\ \A v \in Worker : pc'[v] \in WorkerPC
    BY <1>1, <1>2, <1>3, <1>4 DEF TypeOK, WorkerPC, MainPC
  <2>2. op' \in [Worker -> {"NO_OP", "READ_CHUNK", "WRITE_CHUNK"}]
    BY <1>1, <1>2 DEF TypeOK
  <2> QED BY <1>1, <1>2, <1>7, <2>1, <2>2 DEF TypeOK
<1>9. MainInv'
  BY <1>1, <1>2, <1>3, <1>4 DEF IoInv, MainInv
<1>10. JobsInv'
  <2>1. \A v \in Worker : pc'[v] \in {"run", "finish"} => op'[v] # "NO_OP"
    BY <1>4, <1>5 DEF IoInv, JobsInv
  <2>2. \A v \in Worker : op'[v] # "NO_OP" => v # w /\ op'[v] = op[v] /\ op[v] # "NO_OP"
    BY <1>5
  <2>3. \A v \in Worker : op'[v] # "NO_OP" =>
          /\ op'[v] = phase
          /\ job[v].slot \in DOMAIN window /\ job[v].slot <= Scheduled
          /\ job[v].chunk = window[job[v].slot]
    BY <2>2 DEF IoInv, JobsInv
  <2>4. \A u, v \in Worker :
          u # v /\ op'[u] # "NO_OP" /\ op'[v] # "NO_OP" => job[u].slot # job[v].slot
    BY <2>2 DEF IoInv, JobsInv
  <2> QED BY <1>1, <1>6, <2>1, <2>3, <2>4 DEF JobsInv
<1>11. Progress'
  <2>1. \A i \in DOMAIN window : Pending(i) => Pending(i)'
    BY <1>1, <1>4, <1>5 DEF Pending
  <2> QED BY <1>1, <1>2, <1>3, <1>4, <1>6, <2>1
          DEF IoInv, Progress, Fetched, Sorted, Committed
<1>12. StreamsSafe'
  BY <1>1 DEF IoInv, StreamsSafe
<1> QED BY <1>7, <1>8, <1>9, <1>10, <1>11, <1>12 DEF IoInv

(* main goes on without a change to the pool or to what is scheduled. *)
LEMMA MainMoves ==
  ASSUME IoInv, NEW to \in MainPC, pc' = [pc EXCEPT ![Main] = to],
         UNCHANGED <<file, mem, ahead, op, job, free, target, window, phase, next, round>>,
         pc[Main] # "signal", to # "signal",
         to \in {"schedule", "full"} => next \in DOMAIN window,
         to \in {"idle", "loaded", "exited"} => Quiet,
         to \in {"idle", "exited"} => phase = "WRITE_CHUNK",
         to = "loaded" => phase = "READ_CHUNK",
         pc[Main] \in {"idle", "exited"} => to \in {"idle", "exited"},
         Scheduled' = Scheduled
  PROVE  IoInv'
<1>1. TypeOK /\ pc'[Main] = to /\ \A v \in Worker : pc'[v] = pc[v]
  BY WorkerFacts DEF IoInv, TypeOK
<1>2. TypeOK'
  <2>1. DOMAIN pc' = Thread /\ pc'[Main] \in MainPC /\ \A v \in Worker : pc'[v] \in WorkerPC
    BY <1>1 DEF TypeOK
  <2> QED BY <1>1, <2>1 DEF TypeOK
<1>3. Counter' /\ MainInv'
  BY <1>1 DEF IoInv, Counter, MainInv, LockFree, Idle, Quiet
<1>4. JobsInv'
  BY <1>1 DEF IoInv, JobsInv
<1>5. Progress'
  <2>1. \A i \in DOMAIN window : Pending(i)' <=> Pending(i)
    BY <1>1 DEF Pending
  <2> QED BY <1>1, <2>1 DEF IoInv, Progress, Fetched, Sorted, Committed
<1>6. StreamsSafe'
  BY DEF IoInv, StreamsSafe
<1> QED BY <1>2, <1>3, <1>4, <1>5, <1>6 DEF IoInv

(* All workers are free: none has a job. *)
LEMMA AllFreeQuiet ==
  ASSUME IoInv, AllFree, pc[Main] # "signal"
  PROVE  Quiet
<1>1. Idle = Worker
  BY IdleFacts, WorkerFacts DEF IoInv, Counter, LockFree, AllFree
<1> QED BY <1>1 DEF Idle, Quiet

LEMMA ScheduleStep ==
  ASSUME IoInv, ScheduleIo
  PROVE  IoInv'
<1>1. PICK w \in Worker : /\ op[w] = "NO_OP" /\ op' = [op EXCEPT ![w] = phase] /\ target' = w
                          /\ job' = [job EXCEPT ![w] = [slot |-> next, chunk |-> window[next]]]
  BY DEF ScheduleIo, Idle, NextSlot
<1>2. /\ pc[Main] = "schedule" /\ pc' = [pc EXCEPT ![Main] = "signal"] /\ free # 0
      /\ UNCHANGED <<file, mem, ahead, free, window, phase, next, round>>
  BY DEF ScheduleIo, Goto, NoData, NoPlan
<1>3. TypeOK /\ next \in DOMAIN window /\ next \in Slot /\ window[next] \in ChunkId
      /\ next \in Nat /\ phase \in {"READ_CHUNK", "WRITE_CHUNK"}
  BY <1>2, SlotOfWindow, IoAssumption DEF IoInv, MainInv, TypeOK
<1>4. pc'[Main] = "signal" /\ \A v \in Worker : pc'[v] = pc[v]
  BY <1>2, <1>3, WorkerFacts DEF TypeOK
<1>5. op'[w] = phase /\ (\A v \in Worker \ {w} : op'[v] = op[v])
      /\ job'[w].slot = next /\ job'[w].chunk = window[next]
      /\ (\A v \in Worker \ {w} : job'[v] = job[v])
  BY <1>1, <1>3 DEF TypeOK
<1>6. Scheduled = next - 1 /\ Scheduled' = next
  BY <1>2, <1>4 DEF Scheduled
<1>7. pc[w] \notin {"run", "finish"}
  BY <1>1 DEF IoInv, JobsInv
<1>8. TypeOK'
  <2>1. DOMAIN pc' = Thread /\ pc'[Main] \in MainPC /\ \A v \in Worker : pc'[v] \in WorkerPC
    BY <1>2, <1>3, <1>4 DEF TypeOK, MainPC
  <2>2. op' \in [Worker -> {"NO_OP", "READ_CHUNK", "WRITE_CHUNK"}] /\ target' \in Thread
    BY <1>1, <1>3, WorkerFacts DEF TypeOK
  <2>3. job' \in [Worker -> Job]
    BY <1>1, <1>3 DEF TypeOK, Job
  <2> QED BY <1>2, <1>3, <2>1, <2>2, <2>3 DEF TypeOK
<1>9. Counter'
  <2>1. Idle' = Idle \ {w} /\ w \in Idle
    BY <1>1, <1>3, <1>5 DEF Idle
  <2>2. Cardinality(Idle') = Cardinality(Idle) - 1
    BY <2>1, IdleFacts, FS_RemoveElement
  <2> QED BY <1>2, <1>4, <2>2, IdleFacts DEF IoInv, Counter, LockFree
<1>10. MainInv'
  BY <1>1, <1>2, <1>3, <1>4, <1>5 DEF IoInv, MainInv
<1>11. JobsInv'
  <2>1. \A v \in Worker \ {w} : op'[v] # "NO_OP" =>
          /\ op[v] # "NO_OP" /\ op'[v] = phase
          /\ job'[v].slot \in DOMAIN window /\ job'[v].slot <= next - 1
          /\ job'[v].slot \in Nat
          /\ job'[v].chunk = window[job'[v].slot]
    BY <1>3, <1>5, <1>6, IoAssumption DEF IoInv, JobsInv, TypeOK, Job, Slot
  <2>2. \A v \in Worker : pc'[v] \in {"run", "finish"} => op'[v] # "NO_OP"
    BY <1>3, <1>4, <1>5, <1>7 DEF IoInv, JobsInv
  <2>3. \A u, v \in Worker :
          u # v /\ op'[u] # "NO_OP" /\ op'[v] # "NO_OP" => job'[u].slot # job'[v].slot
    <3> SUFFICES ASSUME NEW u \in Worker, NEW v \in Worker,
                        u # v, op'[u] # "NO_OP", op'[v] # "NO_OP"
                 PROVE  job'[u].slot # job'[v].slot
      OBVIOUS
    <3>1. CASE u = w
      BY <1>3, <1>5, <2>1, <3>1
    <3>2. CASE v = w
      BY <1>3, <1>5, <2>1, <3>2
    <3>3. CASE u # w /\ v # w
      BY <1>5, <2>1, <3>3 DEF IoInv, JobsInv
    <3> QED BY <3>1, <3>2, <3>3
  <2>4. \A v \in Worker : op'[v] # "NO_OP" =>
          /\ op'[v] = phase
          /\ job'[v].slot \in DOMAIN window /\ job'[v].slot <= next
          /\ job'[v].chunk = window[job'[v].slot]
    BY <1>3, <1>5, <2>1
  <2> QED BY <1>2, <1>6, <2>2, <2>3, <2>4 DEF JobsInv
<1>12. Progress'
  <2>1. \A i \in DOMAIN window : Pending(i) => Pending(i)'
    BY <1>1, <1>4, <1>5 DEF Pending
  <2>2. Pending(next)'
    <3>1. next' = next /\ phase # "NO_OP" /\ pc'[w] # "finish"
      BY <1>2, <1>3, <1>4, <1>7
    <3> QED BY <1>5, <3>1 DEF Pending
  <2>3. \A i \in DOMAIN window : i <= next => i <= next - 1 \/ i = next
    BY <1>3, WindowFacts DEF TypeOK
  <2> QED BY <1>2, <1>4, <1>6, <2>1, <2>2, <2>3
          DEF IoInv, Progress, Fetched, Sorted, Committed
<1>13. StreamsSafe'
  BY <1>2 DEF IoInv, StreamsSafe
<1> QED BY <1>8, <1>9, <1>10, <1>11, <1>12, <1>13 DEF IoInv

LEMMA SignalStep ==
  ASSUME IoInv, SignalWorker
  PROVE  IoInv'
<1> DEFINE m == IF next = Len(window) THEN "barrier" ELSE "schedule"
<1>1. /\ pc[Main] = "signal" /\ free' = free - 1 /\ next' = next + 1
      /\ pc' = [pc EXCEPT ![Main] = m, ![target] = IF @ = "asleep" THEN "lock" ELSE @]
      /\ UNCHANGED <<file, mem, ahead, op, job, target, window, phase, round>>
  BY DEF SignalWorker, Taken, NoData
<1>2. TypeOK /\ target \in Worker /\ next \in DOMAIN window /\ op[target] # "NO_OP"
  BY <1>1 DEF IoInv, MainInv
<1>3. DOMAIN window = 1 .. Len(window) /\ Len(window) \in Nat /\ Len(window) <= CacheSize
      /\ next \in Nat /\ next >= 1 /\ next <= Len(window)
  BY <1>2, WindowFacts DEF TypeOK
<1>4. pc'[Main] = m /\ pc'[target] = (IF pc[target] = "asleep" THEN "lock" ELSE pc[target])
      /\ \A v \in Worker \ {target} : pc'[v] = pc[v]
  BY <1>1, <1>2, WorkerFacts DEF TypeOK
<1>5. /\ m \in {"barrier", "schedule"}
      /\ m = "schedule" => next' \in DOMAIN window
      /\ m = "barrier" => next = Len(window)
  <2>1. next # Len(window) => next + 1 \in DOMAIN window
    <3>1. \A a, b \in Nat : a >= 1 /\ a <= b /\ a # b => a + 1 \in 1 .. b
      OBVIOUS
    <3> QED BY <1>3, <3>1
  <2> QED BY <1>1, <1>3, <2>1
<1> HIDE DEF m
<1>6. Scheduled' = Scheduled
  <2>1. next' - 1 = next /\ Len(window') = Len(window)
    BY <1>1, <1>3
  <2>2. CASE m = "barrier"
    BY <1>1, <1>4, <1>5, <2>1, <2>2 DEF Scheduled
  <2>3. CASE m = "schedule"
    BY <1>1, <1>4, <1>5, <2>1, <2>3 DEF Scheduled
  <2> QED BY <1>5, <2>2, <2>3
<1>7. Counter' /\ free' \in 0 .. NumWorkers
  <2>1. Idle' = Idle
    BY <1>1 DEF Idle
  <2>2. free = Cardinality(Idle) + 1
    BY <1>1 DEF IoInv, Counter, LockFree
  <2> QED BY <1>1, <1>2, <1>4, <1>5, <2>1, <2>2, IdleFacts, WorkerFacts
          DEF Counter, LockFree
<1>8. TypeOK'
  <2>1. DOMAIN pc' = Thread /\ pc'[Main] \in MainPC /\ \A v \in Worker : pc'[v] \in WorkerPC
    BY <1>1, <1>2, <1>4, <1>5 DEF TypeOK, WorkerPC, MainPC
  <2>2. next' \in 1 .. CacheSize + 1
    BY <1>1, <1>3, IoAssumption
  <2> QED BY <1>1, <1>2, <1>7, <2>1, <2>2 DEF TypeOK
<1>9. MainInv'
  BY <1>1, <1>4, <1>5 DEF IoInv, MainInv
<1>10. JobsInv'
  <2>1. \A v \in Worker : pc'[v] \in {"run", "finish"} => op[v] # "NO_OP"
    BY <1>2, <1>4 DEF IoInv, JobsInv
  <2> QED BY <1>1, <1>6, <2>1 DEF IoInv, JobsInv
<1>11. Progress'
  <2>1. \A v \in Worker : pc'[v] = "finish" => pc[v] = "finish"
    BY <1>2, <1>4
  <2>2. \A i \in DOMAIN window : Pending(i) => Pending(i)'
    BY <1>1, <2>1 DEF Pending
  <2> QED BY <1>1, <1>4, <1>5, <1>6, <2>2 DEF IoInv, Progress, Fetched, Sorted, Committed
<1>12. StreamsSafe'
  BY <1>1 DEF IoInv, StreamsSafe
<1> QED BY <1>7, <1>8, <1>9, <1>10, <1>11, <1>12 DEF IoInv

(* load_window begins with every worker free, hence without a job. *)
LEMMA LoadStep ==
  ASSUME IoInv, LoadWindow
  PROVE  IoInv'
<1>1. /\ pc[Main] = "idle" /\ pc' = [pc EXCEPT ![Main] = "schedule"] /\ AllFree
      /\ window' \in Window /\ phase' = "READ_CHUNK" /\ next' = 1 /\ round' = round + 1
      /\ round < MaxRounds
      /\ UNCHANGED <<file, mem, ahead, op, job, free, target>>
  BY DEF LoadWindow, Goto, NoData, NoPool
<1>2. TypeOK /\ Quiet
  BY <1>1, AllFreeQuiet DEF IoInv
<1>3. pc'[Main] = "schedule" /\ \A v \in Worker : pc'[v] = pc[v]
  BY <1>1, <1>2, WorkerFacts DEF TypeOK
<1>4. 1 \in DOMAIN window' /\ DOMAIN window' \subseteq Nat \ {0} /\ Scheduled' = 0
  BY <1>1, <1>3, WindowFacts DEF Scheduled
<1>5. TypeOK'
  <2>1. DOMAIN pc' = Thread /\ pc'[Main] \in MainPC /\ \A v \in Worker : pc'[v] \in WorkerPC
    BY <1>1, <1>2, <1>3 DEF TypeOK, MainPC
  <2>2. next' \in 1 .. CacheSize + 1 /\ round' \in Version
    BY <1>1, <1>2, IoAssumption DEF TypeOK, Version
  <2>3. \A f : UnitsOf(f)' <=> UnitsOf(f)
    BY DEF UnitsOf
  <2> QED BY <1>1, <1>2, <2>1, <2>2, <2>3 DEF TypeOK
<1>6. Counter' /\ MainInv'
  BY <1>1, <1>3, <1>4 DEF IoInv, Counter, MainInv, LockFree, Idle
<1>7. JobsInv'
  BY <1>1, <1>2, <1>3 DEF IoInv, JobsInv, Quiet
<1>8. Progress'
  BY <1>1, <1>4 DEF Progress
<1>9. StreamsSafe'
  BY <1>1 DEF IoInv, StreamsSafe
<1> QED BY <1>5, <1>6, <1>7, <1>8, <1>9 DEF IoInv

(* Before the sort every chunk of the window has been fetched. *)
LEMMA SortStep ==
  ASSUME IoInv, SortAndWriteWindow
  PROVE  IoInv'
<1>1. /\ pc[Main] = "loaded" /\ pc' = [pc EXCEPT ![Main] = "schedule"] /\ AllFree
      /\ mem' = [s \in Slot |-> IF s \in DOMAIN window THEN [u \in DOMAIN mem[s] |-> round]
                                ELSE mem[s]]
      /\ phase' = "WRITE_CHUNK" /\ next' = 1
      /\ UNCHANGED <<file, ahead, op, job, free, target, window, round>>
  BY DEF SortAndWriteWindow, Goto, NoPool
<1>2. TypeOK /\ Quiet /\ phase = "READ_CHUNK" /\ Scheduled = Len(window)
  BY <1>1, AllFreeQuiet DEF IoInv, MainInv, Scheduled
<1>3. pc'[Main] = "schedule" /\ \A v \in Worker : pc'[v] = pc[v]
  BY <1>1, <1>2, WorkerFacts DEF TypeOK
<1>4. /\ Len(window) \in Nat /\ DOMAIN window = 1 .. Len(window) /\ Len(window) <= CacheSize
      /\ DOMAIN window \subseteq Slot
  BY <1>2, WindowFacts, SlotOfWindow DEF TypeOK
<1>5. \A i \in DOMAIN window : Fetched(i)
  BY <1>2, <1>4 DEF IoInv, Progress, Pending, Quiet
<1>6. Scheduled' = 0
  BY <1>1, <1>3 DEF Scheduled
<1>7. TypeOK'
  <2>1. DOMAIN pc' = Thread /\ pc'[Main] \in MainPC /\ \A v \in Worker : pc'[v] \in WorkerPC
    BY <1>1, <1>2, <1>3 DEF TypeOK, MainPC
  <2>2. next' \in 1 .. CacheSize + 1
    BY <1>1, IoAssumption
  <2>3. DOMAIN mem' = Slot /\ \A s \in Slot : UnitsOf(mem'[s])
    BY <1>1, <1>2 DEF TypeOK, UnitsOf
  <2>4. \A f : UnitsOf(f)' <=> UnitsOf(f)
    BY DEF UnitsOf
  <2> QED BY <1>1, <1>2, <2>1, <2>2, <2>3, <2>4 DEF TypeOK
<1>8. Counter' /\ LockFree'
  BY <1>1, <1>3 DEF IoInv, Counter, LockFree, Idle
<1>9. MainInv'
  BY <1>1, <1>3 DEF IoInv, MainInv
<1>10. JobsInv'
  BY <1>1, <1>2, <1>3 DEF IoInv, JobsInv, Quiet
<1>11. Progress'
  <2>1. ASSUME NEW i \in DOMAIN window PROVE Sorted(i)' /\ ~ (i <= 0)
    BY <1>1, <1>4, <1>5 DEF Fetched, Sorted
  <2> QED BY <1>1, <1>6, <2>1 DEF Progress
<1>12. StreamsSafe'
  BY <1>1 DEF IoInv, StreamsSafe
<1> QED BY <1>7, <1>8, <1>9, <1>10, <1>11, <1>12 DEF IoInv

LEMMA IoStep ==
  ASSUME IoInv, [Next]_vars
  PROVE  IoInv'
<1>1. TypeOK
  BY DEF IoInv
<1>2. ASSUME NEW w \in Worker,
             LoopHead(w) \/ LockWorker(w) \/ FindNoJob(w) \/ FindJob(w) \/ FallAsleep(w)
               \/ SpuriousWakeup(w)
      PROVE  IoInv'
  <2>1. PICK to \in {"lock", "test", "wait", "run", "asleep"} :
          /\ pc[w] \notin {"run", "finish"}
          /\ pc' = [pc EXCEPT ![w] = to]
          /\ to = "run" => op[w] # "NO_OP"
    BY <1>2 DEF LoopHead, LockWorker, FindNoJob, FindJob, FallAsleep, SpuriousWakeup, Goto
  <2>2. UNCHANGED <<file, mem, ahead, op, job, free, target, window, phase, next, round>>
    BY <1>2 DEF LoopHead, LockWorker, FindNoJob, FindJob, FallAsleep, SpuriousWakeup,
                NoData, NoPool, NoPlan
  <2> QED BY <2>1, <2>2, WorkerMoves DEF WorkerPC
<1>3. ASSUME SleepUntilFree \/ MainSpuriousWakeup \/ WaitForAllIo \/ ReturnFromMain
      PROVE  IoInv'
  <2>1. /\ UNCHANGED <<file, mem, ahead, op, job, free, target, window, phase, next, round>>
        /\ \A to : pc' = [pc EXCEPT ![Main] = to] => pc'[Main] = to
    BY <1>1, <1>3, WorkerFacts DEF SleepUntilFree, MainSpuriousWakeup, WaitForAllIo,
       ReturnFromMain, NoData, NoPool, NoPlan, TypeOK
  <2>2. CASE SleepUntilFree
    BY <2>1, <2>2, MainMoves DEF SleepUntilFree, Goto, IoInv, MainInv, MainPC, Scheduled
  <2>3. CASE MainSpuriousWakeup
    <3>1. CASE Goto(Main, "full", "schedule")
      BY <2>1, <3>1, MainMoves DEF Goto, IoInv, MainInv, MainPC, Scheduled
    <3>2. CASE Goto(Main, "asleep", "barrier")
      BY <2>1, <3>2, MainMoves DEF Goto, IoInv, MainInv, MainPC, Scheduled
    <3> QED BY <2>3, <3>1, <3>2 DEF MainSpuriousWakeup
  <2>4. CASE WaitForAllIo
    <3> DEFINE to == IF ~ AllFree THEN "asleep"
                     ELSE IF phase = "READ_CHUNK" THEN "loaded" ELSE "idle"
    <3>1. /\ pc[Main] = "barrier" /\ pc' = [pc EXCEPT ![Main] = to]
          /\ to \in {"asleep", "loaded", "idle"}
          /\ to # "asleep" => AllFree
      BY <2>4 DEF WaitForAllIo, Goto
    <3>2. /\ to = "loaded" => phase = "READ_CHUNK"
          /\ to = "idle" => phase = "WRITE_CHUNK"
      BY <1>1 DEF TypeOK
    <3>3. to # "asleep" => Quiet
      BY <3>1, AllFreeQuiet
    <3> HIDE DEF to
    <3>4. pc'[Main] = to
      BY <2>1, <3>1
    <3>5. Scheduled' = Scheduled
      <4>1. /\ pc'[Main] \notin {"signal", "schedule", "full"}
            /\ pc[Main] \notin {"signal", "schedule", "full"}
        BY <3>1, <3>4
      <4>2. window' = window
        BY <2>1
      <4> QED BY <4>1, <4>2 DEF Scheduled
    <3> QED BY <2>1, <3>1, <3>2, <3>3, <3>5, MainMoves DEF MainPC
  <2>5. CASE ReturnFromMain
    BY <2>1, <2>5, MainMoves DEF ReturnFromMain, Goto, IoInv, MainInv, MainPC, Scheduled
  <2> QED BY <1>3, <2>2, <2>3, <2>4, <2>5
<1>4. ASSUME UNCHANGED vars
      PROVE  IoInv'
  BY <1>4 DEF vars, IoInv, TypeOK, UnitsOf, Counter, MainInv, JobsInv, Progress, StreamsSafe,
              Quiet, Idle, LockFree, Scheduled, Pending, Fetched, Sorted, Committed
<1>5. ASSUME NEW w \in Worker, WorkerStep(w)
      PROVE  IoInv'
  BY <1>2, <1>5, ReadStep, WriteStep, FinishStep DEF WorkerStep
<1>6. CASE MainStep
  BY <1>3, <1>6, LoadStep, ScheduleStep, SignalStep, SortStep DEF MainStep
<1>7. CASE Spurious
  BY <1>2, <1>3, <1>7 DEF Spurious
<1> QED BY <1>4, <1>5, <1>6, <1>7 DEF Next, Exited

LEMMA IoCorrect == Spec => []IoInv
<1>1. Init => IoInv
  BY InitIo
<1> QED BY <1>1, IoStep, PTL DEF Spec

-----------------------------------------------------------------------------
(* The type invariant of the I/O pool. *)
THEOREM IoTypeCorrect == Spec => []TypeOK
<1>1. IoInv => TypeOK
  BY DEF IoInv
<1> QED BY <1>1, IoCorrect, PTL

(* With the pool's lock free, free_workers is the number of idle workers,  *)
(* for any number of threads: schedule_io never gives a job to nobody.     *)
THEOREM IoFreeWorkersExact == Spec => []FreeWorkersExact
<1>1. IoInv => FreeWorkersExact
  BY IdleFacts DEF IoInv, Counter, FreeWorkersExact, LockFree
<1> QED BY <1>1, IoCorrect, PTL

(* Two jobs in flight never share a slot or a chunk, nor mix reads and     *)
(* writes.                                                                 *)
THEOREM JobsAreIndependent == Spec => []JobsIndependent
<1>1. IoInv => JobsIndependent
  BY WindowFacts DEF IoInv, JobsInv, TypeOK, JobsIndependent
<1> QED BY <1>1, IoCorrect, PTL

(* A window that write_window has been called for is in the file, whole,   *)
(* whichever threads wrote its chunks.                                     *)
THEOREM WindowsAreCommitted == Spec => []WindowCommitted
<1>1. IoInv => WindowCommitted
  <2> SUFFICES ASSUME IoInv, pc[Main] = "idle", NEW i \in DOMAIN window
               PROVE  Committed(i)
    BY DEF WindowCommitted, Committed
  <2>1. i <= Scheduled
    BY WindowFacts DEF IoInv, TypeOK, Scheduled
  <2> QED BY <2>1 DEF IoInv, MainInv, Quiet, Progress, Pending
<1> QED BY <1>1, IoCorrect, PTL

(* If chunks are whole blocks of the streams, what load_window leaves in   *)
(* the cache is what the file holds, though every thread has a stream of   *)
(* its own with data of its own read ahead.                                *)
THEOREM AlignedReadsAreFresh == ASSUME Aligned PROVE Spec => []ReadsAreFresh
<1>1. IoInv => ReadsAreFresh
  <2> SUFFICES ASSUME IoInv, pc[Main] = "loaded", NEW i \in DOMAIN window
               PROVE  Fetched(i)
    BY DEF ReadsAreFresh, Fetched
  <2>1. i <= Scheduled
    BY WindowFacts DEF IoInv, TypeOK, Scheduled
  <2> QED BY <2>1 DEF IoInv, MainInv, Quiet, Progress, Pending
<1> QED BY <1>1, IoCorrect, PTL
=============================================================================
