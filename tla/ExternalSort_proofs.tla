------------------------ MODULE ExternalSort_proofs ------------------------
(***************************************************************************)
(* The external sort keeps its promise for files of every length with      *)
(* every content, chunks of every size and every number of slots.          *)
(***************************************************************************)
EXTENDS ExternalSort, Chunking, FiniteSetTheorems, WellFoundedInduction, TLAPS

(* The chunk that a record lies in. *)
ChunkOf(f) == (f - 1) \div ChunkSize

(* The record of the file that cell m of the window stands for. *)
Home(m) == InFile(InSlot(SlotOf(m)), PlaceOf(m))

Window == 1 .. LoadSize

(* Every chunk is somewhere in the array, and nowhere twice. *)
OnePlace == /\ \A x, y \in Chunk : arr[x] = arr[y] => x = y
            /\ \A c \in Chunk : \E x \in Chunk : arr[x] = c

(* A chunk that is shorter than the others stays at the end of the array.  *)
ShortStays == Size(NumChunks - 1) # ChunkSize => arr[NumChunks - 1] = NumChunks - 1

(* min and max are true, and the chunk is sorted. *)
Fresh(c) == /\ min[c] = file[InFile(c, 1)]
            /\ max[c] = file[InFile(c, Size(c))]
            /\ IsSorted(file, InFile(c, 1), InFile(c, Size(c)))

(* In the even pass the chunks are known up to the index that has been     *)
(* reached.  When the first odd pass begins all of them are.               *)
Visited == /\ pc \in {"load", "sort", "write"} =>
                \A x \in Chunk : odd \/ x < i => Fresh(arr[x])
           /\ pc \in {"rearrange", "map"} => \A c \in Chunk : Fresh(c)

(* Two buffers have the key k equally often, at the positions S. *)
EquallyOften(a, b, S) ==
  \A k \in Key : Cardinality({ x \in S : a[x] = k }) = Cardinality({ x \in S : b[x] = k })

(* What is in memory while a window is worked on. *)
InMemory == /\ pc \in {"sort", "write"} => i < NumChunks
            /\ pc = "sort" => \A m \in Window : buf[m] = file[Home(m)]
            /\ pc = "write" =>
                 /\ \A m \in Window : buf[m] \in Key
                 /\ \A p, q \in Window : p <= q => buf[p] <= buf[q]
                 /\ EquallyOften(buf, [m \in Window |-> file[Home(m)]], Window)

(* A file that fits in the slots is sorted by the first window: there is   *)
(* no second pass, which could start behind its end.                       *)
OneWindow == NumChunks <= CacheSize =>
               /\ ~ odd /\ i \in {0, NumChunks} /\ pc # "rearrange"
               /\ pc = "load" /\ i = NumChunks => ChunksAreSorted

SortInv == /\ TypeOK /\ OnePlace /\ ShortStays /\ Visited /\ InMemory /\ OneWindow
           /\ pc = "map" => ChunksAreSorted
-----------------------------------------------------------------------------
(***************************************************************************)
(* Numbers                                                                 *)
(***************************************************************************)
(* A nonempty set of natural numbers has a smallest element. *)
LEMMA SmallestNumber ==
  ASSUME NEW S \in SUBSET Nat, S # {}
  PROVE  \E n \in S : \A m \in S : n <= m
<1> DEFINE R == { ss \in Nat \X Nat : ss[1] < ss[2] }
<1>1. IsWellFoundedOn(R, Nat)
  BY NatLessThanWellFounded DEF OpToRel
<1> HIDE DEF R
<1>2. PICK n \in S : \A m \in S : ~ (<<m, n>> \in R)
  BY <1>1, WFMin
<1>3. \A m \in S : m < n => <<m, n>> \in R
  BY DEF R
<1>4. \A m \in S : n <= m
  <2> TAKE m \in S
  <2>1. m \in Nat /\ n \in Nat
    OBVIOUS
  <2>2. ~ (m < n)
    BY <1>2, <1>3
  <2> QED BY <2>1, <2>2
<1> QED BY <1>4

LEMMA Product ==
  ASSUME NEW a \in Nat, NEW b \in Nat, NEW k \in Nat, a < b
  PROVE  /\ a * k \in Nat /\ b * k \in Nat
         /\ a * k + k <= b * k
         /\ (a + 1) * k = a * k + k
OBVIOUS

LEMMA Remainder ==
  ASSUME NEW x \in Int, NEW b \in Int, b > 0
  PROVE  x = (x \div b) * b + (x % b)
OBVIOUS

LEMMA Division ==
  ASSUME NEW x \in Nat, NEW b \in Nat \ {0}
  PROVE  /\ x \div b \in Nat /\ x % b \in 0 .. b - 1
         /\ x = (x \div b) * b + (x % b)
<1>1. x \div b \in Nat
  OBVIOUS
<1>2. x % b \in 0 .. b - 1
  OBVIOUS
<1>3. x = (x \div b) * b + (x % b)
  BY Remainder
<1> QED BY <1>1, <1>2, <1>3, Zenon

(* Quotient and remainder are the only such pair. *)
LEMMA OneQuotient ==
  ASSUME NEW b \in Nat \ {0},
         NEW p \in Nat, NEW r \in 0 .. b - 1,
         NEW q \in Nat, NEW s \in 0 .. b - 1,
         p * b + r = q * b + s
  PROVE  p = q /\ r = s
<1>1. p * b \in Nat /\ q * b \in Nat
  OBVIOUS
<1>2. ~ (p < q)
  <2> SUFFICES ASSUME p < q PROVE FALSE
    OBVIOUS
  <2>1. p * b + b <= q * b
    BY Product
  <2> QED BY <1>1, <2>1
<1>3. ~ (q < p)
  <2> SUFFICES ASSUME q < p PROVE FALSE
    OBVIOUS
  <2>1. q * b + b <= p * b
    BY Product
  <2> QED BY <1>1, <2>1
<1>4. p = q
  BY <1>2, <1>3
<1> QED BY <1>1, <1>4

(* The quotient and the remainder of a number that is given by them. *)
LEMMA Quotient ==
  ASSUME NEW b \in Nat \ {0}, NEW q \in Nat, NEW r \in 0 .. b - 1
  PROVE  /\ q * b + r \in Nat
         /\ (q * b + r) \div b = q
         /\ (q * b + r) % b = r
<1> DEFINE x == q * b + r
<1>1. x \in Nat
  OBVIOUS
<1>2. /\ x \div b \in Nat /\ x % b \in 0 .. b - 1
      /\ x = (x \div b) * b + (x % b)
  BY <1>1, Division
<1>3. q = x \div b /\ r = x % b
  <2> DEFINE d == x \div b
             m == x % b
  <2>1. d \in Nat /\ m \in 0 .. b - 1 /\ q * b + r = d * b + m
    BY <1>2
  <2> HIDE DEF d, m
  <2>2. q = d /\ r = m
    BY <2>1, OneQuotient
  <2> QED BY <2>2 DEF d, m
<1> QED BY <1>1, <1>3

-----------------------------------------------------------------------------
(***************************************************************************)
(* Chunks and records                                                      *)
(***************************************************************************)
LEMMA Sizes ==
  /\ NumRecs \in Nat \ {0} /\ ChunkSize \in Nat \ {0} /\ CacheSize \in Nat \ {0}
  /\ NumChunks \in Nat \ {0}
  /\ NumChunks - 1 \in Nat /\ NumChunks - 1 \in Chunk
  /\ (NumChunks - 1) * ChunkSize \in Nat
  /\ (NumChunks - 1) * ChunkSize < NumRecs
  /\ NumRecs <= (NumChunks - 1) * ChunkSize + ChunkSize
<1> DEFINE x == NumRecs + ChunkSize - 1
           d == x \div ChunkSize
<1>1. NumRecs \in Nat \ {0} /\ ChunkSize \in Nat \ {0} /\ CacheSize \in Nat \ {0}
  BY FileAssumption DEF Divided
<1>2. x \in Nat /\ d = NumChunks
  BY <1>1 DEF NumChunks
<1>3. d \in Nat /\ x % ChunkSize \in 0 .. ChunkSize - 1 /\ x = d * ChunkSize + (x % ChunkSize)
  BY <1>1, <1>2, Division
<1> HIDE DEF d
<1>4. d # 0
  BY <1>1, <1>3
<1>5. d - 1 \in Nat /\ (d - 1) * ChunkSize \in Nat
      /\ d * ChunkSize = (d - 1) * ChunkSize + ChunkSize
  <2>1. d - 1 \in Nat /\ d - 1 < d /\ (d - 1) + 1 = d
    BY <1>3, <1>4
  <2> QED BY <1>1, <2>1, Product
<1>6. (d - 1) * ChunkSize < NumRecs /\ NumRecs <= (d - 1) * ChunkSize + ChunkSize
  BY <1>1, <1>3, <1>5
<1> QED BY <1>1, <1>2, <1>3, <1>4, <1>5, <1>6 DEF Chunk

(* Records are counted through the chunks without a gap. *)
LEMMA ChunkFacts ==
  ASSUME NEW c \in Chunk
  PROVE  /\ Size(c) \in 1 .. ChunkSize
         /\ c # NumChunks - 1 => Size(c) = ChunkSize
         /\ \A r \in 1 .. Size(c) :
              /\ InFile(c, r) \in Rec
              /\ ChunkOf(InFile(c, r)) = c
              /\ PlaceOf(InFile(c, r)) = r
<1> DEFINE C == ChunkSize
           last == NumChunks - 1
<1>1. /\ C \in Nat \ {0} /\ NumRecs \in Nat \ {0} /\ last \in Nat /\ c \in Nat /\ c <= last
      /\ last * C \in Nat /\ last * C < NumRecs /\ NumRecs <= last * C + C
  BY Sizes DEF Chunk
<1>2. c * C \in Nat /\ (c + 1) * C = c * C + C
  <2>1. c < c + 1 /\ c + 1 \in Nat
    BY <1>1
  <2> QED BY <1>1, <2>1, Product
<1>3. c # last => c * C + C <= last * C
  BY <1>1, Product
<1>4. Size(c) = IF c * C + C > NumRecs THEN NumRecs - c * C ELSE C
  BY <1>2 DEF Size
<1>5. c = last => c * C < NumRecs /\ NumRecs <= c * C + C
  BY <1>1
<1>6. c * C < NumRecs
  BY <1>1, <1>2, <1>3, <1>5
<1> HIDE DEF C, last
<1>7. Size(c) \in 1 .. C /\ c * C + Size(c) <= NumRecs
  BY <1>1, <1>2, <1>4, <1>6
<1>8. c # last => Size(c) = C
  BY <1>1, <1>2, <1>3, <1>4
<1>9. ASSUME NEW r \in 1 .. Size(c)
      PROVE  InFile(c, r) \in Rec /\ ChunkOf(InFile(c, r)) = c /\ PlaceOf(InFile(c, r)) = r
  <2>1. r - 1 \in 0 .. C - 1 /\ InFile(c, r) = c * C + r /\ InFile(c, r) - 1 = c * C + (r - 1)
    BY <1>1, <1>2, <1>7 DEF InFile, C
  <2>2. InFile(c, r) \in Rec
    BY <1>1, <1>2, <1>7, <2>1 DEF Rec
  <2>3. (c * C + (r - 1)) \div C = c /\ (c * C + (r - 1)) % C = r - 1
    BY <1>1, <2>1, Quotient
  <2>4. ChunkOf(InFile(c, r)) = c
    BY <2>1, <2>3 DEF ChunkOf, C
  <2>5. PlaceOf(InFile(c, r)) = (r - 1) + 1
    BY <2>1, <2>3 DEF PlaceOf, C
  <2> QED BY <1>7, <2>2, <2>4, <2>5
<1> QED BY <1>7, <1>8, <1>9 DEF C, last

LEMMA RecFacts ==
  ASSUME NEW f \in Rec
  PROVE  /\ ChunkOf(f) \in Chunk
         /\ PlaceOf(f) \in 1 .. Size(ChunkOf(f))
         /\ f = InFile(ChunkOf(f), PlaceOf(f))
<1> DEFINE C == ChunkSize
           last == NumChunks - 1
           c == ChunkOf(f)
           m == (f - 1) % C
<1>1. /\ C \in Nat \ {0} /\ NumRecs \in Nat \ {0} /\ last \in Nat /\ last + 1 = NumChunks
      /\ last * C \in Nat /\ last * C < NumRecs /\ NumRecs <= last * C + C
  BY Sizes
<1>2. f - 1 \in Nat /\ f <= NumRecs /\ f \in Nat
  BY <1>1 DEF Rec
<1>3. c \in Nat /\ m \in 0 .. C - 1 /\ f - 1 = c * C + m
  <2>1. c = (f - 1) \div C
    BY DEF ChunkOf
  <2> QED BY <1>1, <1>2, <2>1, Division
<1>4. PlaceOf(f) = m + 1
  BY DEF PlaceOf
<1> HIDE DEF C, last, c, m
<1>5. c * C \in Nat /\ (c + 1) * C = c * C + C
  <2>1. c < c + 1 /\ c + 1 \in Nat
    BY <1>3
  <2> QED BY <1>1, <1>3, <2>1, Product
<1>6. ~ (last < c)
  <2> SUFFICES ASSUME last < c PROVE FALSE
    OBVIOUS
  <2>1. last * C + C <= c * C
    BY <1>1, <1>3, Product
  <2> QED BY <1>1, <1>2, <1>3, <1>5, <2>1
<1>7. c \in Chunk
  BY <1>1, <1>3, <1>6 DEF Chunk
<1>8. Size(c) = IF c * C + C > NumRecs THEN NumRecs - c * C ELSE C
  BY <1>5 DEF Size, C
<1>9. PlaceOf(f) \in 1 .. Size(c)
  BY <1>1, <1>2, <1>3, <1>4, <1>5, <1>8
<1>10. f = InFile(c, PlaceOf(f))
  BY <1>2, <1>3, <1>4, <1>5 DEF InFile, C
<1> QED BY <1>7, <1>9, <1>10 DEF c

(* So are cells through the slots. *)
LEMMA CellFacts ==
  ASSUME NEW j \in Nat \ {0}, NEW r \in 1 .. ChunkSize
  PROVE  /\ InMem(j, r) \in Nat \ {0}
         /\ SlotOf(InMem(j, r)) = j
         /\ PlaceOf(InMem(j, r)) = r
<1>1. /\ ChunkSize \in Nat \ {0} /\ j - 1 \in Nat /\ r - 1 \in 0 .. ChunkSize - 1
      /\ (j - 1) * ChunkSize \in Nat
  BY Sizes
<1>2. InMem(j, r) \in Nat \ {0} /\ InMem(j, r) - 1 = (j - 1) * ChunkSize + (r - 1)
  BY <1>1 DEF InMem
<1>3. /\ ((j - 1) * ChunkSize + (r - 1)) \div ChunkSize = j - 1
      /\ ((j - 1) * ChunkSize + (r - 1)) % ChunkSize = r - 1
  BY <1>1, Quotient
<1>4. SlotOf(InMem(j, r)) = (j - 1) + 1 /\ PlaceOf(InMem(j, r)) = (r - 1) + 1
  BY <1>2, <1>3 DEF SlotOf, PlaceOf
<1> QED BY <1>2, <1>4

LEMMA SlotFacts ==
  ASSUME NEW m \in Nat \ {0}
  PROVE  /\ SlotOf(m) \in Nat \ {0}
         /\ PlaceOf(m) \in 1 .. ChunkSize
         /\ m = InMem(SlotOf(m), PlaceOf(m))
<1> DEFINE d == (m - 1) \div ChunkSize
           r == (m - 1) % ChunkSize
<1>1. ChunkSize \in Nat \ {0} /\ m - 1 \in Nat
  BY Sizes
<1>2. d \in Nat /\ r \in 0 .. ChunkSize - 1 /\ m - 1 = d * ChunkSize + r
  BY <1>1, Division
<1>3. SlotOf(m) = d + 1 /\ PlaceOf(m) = r + 1
  BY DEF SlotOf, PlaceOf
<1> HIDE DEF d, r
<1>4. (SlotOf(m) - 1) * ChunkSize + PlaceOf(m) = m
  <2>1. SlotOf(m) - 1 = d /\ d * ChunkSize \in Nat
    BY <1>1, <1>2, <1>3
  <2> QED BY <1>1, <1>2, <1>3, <2>1
<1> QED BY <1>1, <1>2, <1>3, <1>4 DEF InMem

-----------------------------------------------------------------------------
(***************************************************************************)
(* The window                                                              *)
(***************************************************************************)
Working == TypeOK /\ OnePlace /\ ShortStays /\ i < NumChunks

(* Only at the end of the array there may be a chunk that is not full. *)
LEMMA FullChunks ==
  ASSUME TypeOK, OnePlace, ShortStays
  PROVE  /\ \A x \in Chunk : arr[x] \in Chunk
         /\ \A x \in Chunk \ {NumChunks - 1} : Size(arr[x]) = ChunkSize
         /\ Size(arr[NumChunks - 1]) = Size(NumChunks - 1)
<1>1. NumChunks - 1 \in Chunk /\ \A x \in Chunk : arr[x] \in Chunk
  BY Sizes DEF TypeOK
<1>2. ASSUME NEW x \in Chunk \ {NumChunks - 1} PROVE Size(arr[x]) = ChunkSize
  <2>1. CASE arr[x] # NumChunks - 1
    BY <1>1, <2>1, ChunkFacts
  <2>2. CASE arr[x] = NumChunks - 1
    BY <1>1, <2>2 DEF OnePlace, ShortStays
  <2> QED BY <2>1, <2>2
<1>3. Size(arr[NumChunks - 1]) = Size(NumChunks - 1)
  <2>1. CASE Size(NumChunks - 1) # ChunkSize
    BY <2>1 DEF ShortStays
  <2>2. CASE Size(NumChunks - 1) = ChunkSize
    <3>1. arr[NumChunks - 1] # NumChunks - 1 => Size(arr[NumChunks - 1]) = ChunkSize
      BY <1>1, ChunkFacts
    <3> QED BY <2>2, <3>1
  <2> QED BY <2>1, <2>2
<1> QED BY <1>1, <1>2, <1>3

LEMMA CountFacts ==
  ASSUME Working
  PROVE  /\ LoadCount \in 1 .. CacheSize /\ i \in Nat /\ i + LoadCount <= NumChunks
         /\ i + LoadCount < NumChunks => LoadCount = CacheSize
         /\ \A j \in Slots : i + j - 1 \in Chunk /\ InSlot(j) \in Chunk
         /\ \A j \in Slots : j # LoadCount => Size(InSlot(j)) = ChunkSize
         /\ \A j, k \in Slots : InSlot(j) = InSlot(k) => j = k
<1>1. /\ i \in Nat /\ i < NumChunks /\ NumChunks \in Nat \ {0} /\ CacheSize \in Nat \ {0}
      /\ LoadCount \in 1 .. CacheSize /\ i + LoadCount <= NumChunks
      /\ i + LoadCount < NumChunks => LoadCount = CacheSize
  BY Sizes DEF Working, TypeOK, LoadCount
<1>2. \A j \in Slots : j \in 1 .. LoadCount /\ i + j - 1 \in Chunk
  BY <1>1 DEF Slots, Chunk
<1>3. \A j \in Slots : InSlot(j) \in Chunk
  BY <1>2, FullChunks DEF InSlot, Working
<1>4. \A j \in Slots : j # LoadCount => Size(InSlot(j)) = ChunkSize
  <2>1. \A j \in Slots : j # LoadCount => i + j - 1 # NumChunks - 1
    BY <1>1, <1>2
  <2> QED BY <1>2, <2>1, FullChunks DEF InSlot, Working
<1>5. \A j, k \in Slots : InSlot(j) = InSlot(k) => j = k
  <2> SUFFICES ASSUME NEW j \in Slots, NEW k \in Slots, InSlot(j) = InSlot(k) PROVE j = k
    OBVIOUS
  <2>1. i + j - 1 = i + k - 1
    BY <1>2 DEF InSlot, Working, OnePlace
  <2> QED BY <1>1, <1>2, <2>1
<1> QED BY <1>1, <1>2, <1>3, <1>4, <1>5

(* load_size is the sum of the sizes: only the last one may be smaller. *)
LEMMA LoadSizeIs ==
  ASSUME Working
  PROVE  LoadSize = (LoadCount - 1) * ChunkSize + Size(InSlot(LoadCount))
<1> DEFINE L == LoadCount
           C == ChunkSize
           size(j) == Size(InSlot(j))
           sum[j \in 0 .. L] == IF j = 0 THEN 0 ELSE sum[j - 1] + size(j)
           g == [j \in 0 .. L |-> IF j < L THEN j * C ELSE (L - 1) * C + size(L)]
<1>1. LoadSize = sum[L]
  BY DEF LoadSize
<1>2. /\ L \in Nat \ {0} /\ L - 1 \in Nat /\ C \in Nat
      /\ \A j \in 1 .. L : j # L => size(j) = C
      /\ size(L) \in Nat
  <2>1. L \in Slots /\ L \in Nat \ {0}
    BY CountFacts DEF Slots
  <2>2. size(L) \in Nat
    BY <2>1, CountFacts, ChunkFacts, Sizes
  <2> QED BY <2>1, <2>2, CountFacts, Sizes DEF Slots
<1> HIDE DEF L, C, size
<1>3. \A j \in 0 .. L : g[j] = IF j = 0 THEN 0 ELSE g[j - 1] + size(j)
  <2> TAKE j \in 0 .. L
  <2>1. CASE j = 0
    BY <1>2, <2>1
  <2>2. CASE j # 0
    <3>1. j - 1 \in 0 .. L /\ j - 1 < L /\ j \in 1 .. L /\ j - 1 < j /\ (j - 1) + 1 = j
      BY <1>2, <2>2
    <3>2. g[j - 1] = (j - 1) * C
      BY <3>1
    <3>3. j * C = (j - 1) * C + C
      BY <1>2, <3>1, Product
    <3>4. CASE j < L
      BY <1>2, <2>2, <3>1, <3>2, <3>3, <3>4
    <3>5. CASE j = L
      BY <1>2, <2>2, <3>1, <3>2, <3>5
    <3> QED BY <1>2, <3>1, <3>4, <3>5
  <2> QED BY <2>1, <2>2
<1>4. g = [j \in 0 .. L |-> IF j = 0 THEN 0 ELSE g[j - 1] + size(j)]
  BY <1>3
<1> HIDE DEF g
<1>5. sum = [j \in 0 .. L |-> IF j = 0 THEN 0 ELSE sum[j - 1] + size(j)]
  BY <1>4 DEF sum
<1> HIDE DEF sum
<1>6. \A j \in 0 .. L : sum[j] = g[j]
  <2> DEFINE Bad == { j \in 0 .. L : sum[j] # g[j] }
  <2> SUFFICES ASSUME Bad # {} PROVE FALSE
    OBVIOUS
  <2>1. PICK j \in Bad : \A k \in Bad : j <= k
    <3>1. Bad \in SUBSET Nat
      BY <1>2
    <3> QED BY <3>1, SmallestNumber
  <2>2. j \in 0 .. L /\ sum[j] # g[j] /\ j \in Nat
    BY <1>2
  <2>3. j # 0
    BY <1>4, <1>5, <2>2
  <2>4. j - 1 \in 0 .. L /\ j - 1 \notin Bad
    <3>1. j - 1 \in 0 .. L /\ ~ (j <= j - 1)
      BY <1>2, <2>2, <2>3
    <3> QED BY <2>1, <3>1
  <2>5. sum[j - 1] = g[j - 1]
    BY <2>4
  <2>6. sum[j] = sum[j - 1] + size(j) /\ g[j] = g[j - 1] + size(j)
    BY <1>4, <1>5, <2>2, <2>3
  <2> QED BY <2>2, <2>5, <2>6
<1>7. g[L] = (L - 1) * C + size(L)
  BY <1>2 DEF g
<1>8. sum[L] = (L - 1) * C + size(L)
  BY <1>2, <1>6, <1>7
<1> QED BY <1>1, <1>8 DEF L, C, size

(* The cells of the window are those of its chunks, without a hole.        *)
LEMMA InWindow ==
  ASSUME Working, NEW m \in Nat \ {0}
  PROVE  m \in Window <=> SlotOf(m) \in Slots /\ PlaceOf(m) <= Size(InSlot(SlotOf(m)))
<1> DEFINE L == LoadCount
           C == ChunkSize
           s == SlotOf(m)
           r == PlaceOf(m)
<1>1. L \in Slots /\ L \in Nat \ {0} /\ C \in Nat \ {0} /\ Slots = 1 .. L
  BY CountFacts, Sizes DEF Slots
<1>2. s \in Nat \ {0} /\ r \in 1 .. C /\ m = (s - 1) * C + r /\ (s - 1) * C \in Nat
  <2>1. s \in Nat \ {0} /\ r \in 1 .. C /\ m = InMem(s, r)
    BY SlotFacts
  <2>2. s - 1 \in Nat
    BY <2>1
  <2> QED BY <1>1, <2>1, <2>2 DEF InMem
<1>3. /\ LoadSize = (L - 1) * C + Size(InSlot(L))
      /\ Size(InSlot(L)) \in 1 .. C /\ (L - 1) * C \in Nat
  <2>1. Size(InSlot(L)) \in 1 .. C
    BY <1>1, CountFacts, ChunkFacts
  <2>2. L - 1 \in Nat
    BY <1>1
  <2> QED BY <1>1, <2>1, <2>2, LoadSizeIs
<1>4. s \in Slots /\ s # L => Size(InSlot(s)) = C
  BY CountFacts
<1> HIDE DEF L, C, s, r
<1>5. s < L => (s - 1) * C + C <= (L - 1) * C
  <2>1. s < L => s - 1 \in Nat /\ L - 1 \in Nat /\ s - 1 < L - 1
    BY <1>1, <1>2
  <2> QED BY <1>1, <2>1, Product
<1>6. L < s => (L - 1) * C + C <= (s - 1) * C
  <2>1. L < s => s - 1 \in Nat /\ L - 1 \in Nat /\ L - 1 < s - 1
    BY <1>1, <1>2
  <2> QED BY <1>1, <2>1, Product
<1>7. CASE s < L
  <2>1. s \in Slots /\ Size(InSlot(s)) = C
    BY <1>1, <1>2, <1>4, <1>7
  <2>2. m \in Window
    BY <1>1, <1>2, <1>3, <1>5, <1>7 DEF Window
  <2> QED BY <1>2, <2>1, <2>2 DEF s, r
<1>8. CASE s = L
  <2>1. m \in Window <=> r <= Size(InSlot(L))
    BY <1>1, <1>2, <1>3, <1>8 DEF Window
  <2> QED BY <1>1, <1>8, <2>1 DEF s, r
<1>9. CASE L < s
  <2>1. s \notin Slots
    BY <1>1, <1>2, <1>9
  <2>2. m \notin Window
    BY <1>1, <1>2, <1>3, <1>6, <1>9 DEF Window
  <2> QED BY <2>1, <2>2 DEF s, r
<1> QED BY <1>1, <1>2, <1>7, <1>8, <1>9

LEMMA WindowFacts ==
  ASSUME Working
  PROVE  /\ LoadSize \in Nat \ {0} /\ Window \subseteq Cell /\ Window \subseteq Nat \ {0}
         /\ \A m \in Window : /\ SlotOf(m) \in Slots
                              /\ PlaceOf(m) \in 1 .. Size(InSlot(SlotOf(m)))
                              /\ m = InMem(SlotOf(m), PlaceOf(m))
         /\ \A j \in Slots : \A r \in 1 .. Size(InSlot(j)) :
              /\ InMem(j, r) \in Window
              /\ SlotOf(InMem(j, r)) = j /\ PlaceOf(InMem(j, r)) = r
              /\ Home(InMem(j, r)) = InFile(InSlot(j), r)
<1> DEFINE L == LoadCount
           C == ChunkSize
<1>1. /\ L \in Slots /\ L \in 1 .. CacheSize /\ C \in Nat \ {0} /\ Slots = 1 .. L
      /\ CacheSize \in Nat \ {0}
  BY CountFacts, Sizes DEF Slots
<1>2. /\ LoadSize = (L - 1) * C + Size(InSlot(L))
      /\ Size(InSlot(L)) \in 1 .. C
  BY <1>1, CountFacts, ChunkFacts, LoadSizeIs
<1>3. /\ (L - 1) * C \in Nat /\ (L - 1) * C + C <= CacheSize * C
      /\ CacheSize * C \in Nat
  <2>1. L - 1 \in Nat /\ L - 1 < CacheSize
    BY <1>1
  <2> QED BY <1>1, <2>1, Product
<1>4. LoadSize \in Nat \ {0} /\ LoadSize <= CacheSize * C
  <2> HIDE DEF L, C
  <2> QED BY <1>1, <1>2, <1>3
<1>5. Window \subseteq Cell /\ Window \subseteq Nat \ {0}
  BY <1>3, <1>4 DEF Window, Cell
<1>6. ASSUME NEW m \in Window
      PROVE  /\ SlotOf(m) \in Slots
             /\ PlaceOf(m) \in 1 .. Size(InSlot(SlotOf(m)))
             /\ m = InMem(SlotOf(m), PlaceOf(m))
  <2>1. m \in Nat \ {0}
    BY <1>5
  <2>2. SlotOf(m) \in Slots /\ PlaceOf(m) <= Size(InSlot(SlotOf(m)))
    BY <2>1, InWindow
  <2>3. Size(InSlot(SlotOf(m))) \in Nat
    BY <1>1, <2>2, CountFacts, ChunkFacts
  <2> QED BY <1>1, <2>1, <2>2, <2>3, SlotFacts
<1>7. ASSUME NEW j \in Slots, NEW r \in 1 .. Size(InSlot(j))
      PROVE  /\ InMem(j, r) \in Window
             /\ SlotOf(InMem(j, r)) = j /\ PlaceOf(InMem(j, r)) = r
             /\ Home(InMem(j, r)) = InFile(InSlot(j), r)
  <2>1. Size(InSlot(j)) \in 1 .. C
    BY CountFacts, ChunkFacts
  <2>2. j \in Nat \ {0} /\ r \in 1 .. C /\ r <= Size(InSlot(j))
    BY <1>1, <2>1
  <2>3. InMem(j, r) \in Nat \ {0} /\ SlotOf(InMem(j, r)) = j /\ PlaceOf(InMem(j, r)) = r
    BY <2>2, CellFacts
  <2>4. InMem(j, r) \in Window
    BY <2>2, <2>3, InWindow
  <2> QED BY <2>3, <2>4 DEF Home
<1> QED BY <1>4, <1>5, <1>6, <1>7

(* Cells and records of the window correspond one to one. *)
LEMMA HomeFacts ==
  ASSUME Working
  PROVE  /\ \A m \in Window : /\ Home(m) \in Rec
                              /\ ChunkOf(Home(m)) = InSlot(SlotOf(m))
                              /\ PlaceOf(Home(m)) = PlaceOf(m)
         /\ \A m, n \in Window : Home(m) = Home(n) => m = n
         /\ \A j \in Slots : InSlot(j) \in Here /\ SlotWith(InSlot(j)) = j
         /\ \A c \in Here : /\ c \in Chunk /\ SlotWith(c) \in Slots
                            /\ InSlot(SlotWith(c)) = c
         /\ \A f \in Rec : ChunkOf(f) \in Here =>
              /\ InMem(SlotWith(ChunkOf(f)), PlaceOf(f)) \in Window
              /\ Home(InMem(SlotWith(ChunkOf(f)), PlaceOf(f))) = f
<1>1. ASSUME NEW m \in Window
      PROVE  /\ Home(m) \in Rec
             /\ ChunkOf(Home(m)) = InSlot(SlotOf(m))
             /\ PlaceOf(Home(m)) = PlaceOf(m)
  <2>1. /\ SlotOf(m) \in Slots /\ InSlot(SlotOf(m)) \in Chunk
        /\ PlaceOf(m) \in 1 .. Size(InSlot(SlotOf(m)))
    BY WindowFacts, CountFacts
  <2> QED BY <2>1, ChunkFacts DEF Home
<1>2. ASSUME NEW m \in Window, NEW n \in Window, Home(m) = Home(n) PROVE m = n
  <2>1. InSlot(SlotOf(m)) = InSlot(SlotOf(n)) /\ PlaceOf(m) = PlaceOf(n)
    BY <1>1, <1>2
  <2>2. SlotOf(m) = SlotOf(n)
    BY <2>1, WindowFacts, CountFacts
  <2>3. m = InMem(SlotOf(m), PlaceOf(m)) /\ n = InMem(SlotOf(n), PlaceOf(n))
    BY WindowFacts
  <2> QED BY <2>1, <2>2, <2>3
<1>3. ASSUME NEW c \in Here
      PROVE  c \in Chunk /\ SlotWith(c) \in Slots /\ InSlot(SlotWith(c)) = c
  <2>1. \E j \in Slots : InSlot(j) = c
    BY DEF Here
  <2> QED BY <2>1, CountFacts DEF SlotWith
<1>4. ASSUME NEW j \in Slots PROVE InSlot(j) \in Here /\ SlotWith(InSlot(j)) = j
  <2>1. InSlot(j) \in Here
    BY DEF Here
  <2> QED BY <1>3, <2>1, CountFacts
<1>5. ASSUME NEW f \in Rec, ChunkOf(f) \in Here
      PROVE  /\ InMem(SlotWith(ChunkOf(f)), PlaceOf(f)) \in Window
             /\ Home(InMem(SlotWith(ChunkOf(f)), PlaceOf(f))) = f
  <2>1. /\ SlotWith(ChunkOf(f)) \in Slots /\ InSlot(SlotWith(ChunkOf(f))) = ChunkOf(f)
        /\ PlaceOf(f) \in 1 .. Size(ChunkOf(f)) /\ f = InFile(ChunkOf(f), PlaceOf(f))
    BY <1>3, <1>5, RecFacts
  <2> QED BY <2>1, WindowFacts
<1> QED BY <1>1, <1>2, <1>3, <1>4, <1>5

-----------------------------------------------------------------------------
(***************************************************************************)
(* Sorting by rank                                                         *)
(***************************************************************************)
Below(b, n, k) == { x \in 1 .. n : b[x] < k }
UpTo(b, n, k)  == { x \in 1 .. n : b[x] <= k }
With(b, n, k)  == { x \in 1 .. n : b[x] = k }

(* k is what Ordered puts at m. *)
IsNth(b, n, m, k) == /\ k \in { b[x] : x \in 1 .. n }
                     /\ Cardinality(UpTo(b, n, k)) >= m
                     /\ Cardinality(Below(b, n, k)) < m

LEMMA RankFacts ==
  ASSUME NEW n \in Nat, NEW b, \A x \in 1 .. n : b[x] \in Nat, NEW k \in Nat
  PROVE  /\ Cardinality(Below(b, n, k)) \in Nat
         /\ Cardinality(With(b, n, k)) \in Nat
         /\ Cardinality(UpTo(b, n, k)) \in 0 .. n
         /\ Cardinality(UpTo(b, n, k)) = Cardinality(Below(b, n, k)) + Cardinality(With(b, n, k))
         /\ \A l \in Nat : l < k => Cardinality(UpTo(b, n, l)) <= Cardinality(Below(b, n, k))
<1>1. IsFiniteSet(1 .. n) /\ Cardinality(1 .. n) = n
  BY FS_Interval
<1>2. \A S \in SUBSET (1 .. n) : /\ IsFiniteSet(S)
                                 /\ Cardinality(S) \in Nat /\ Cardinality(S) <= n
  BY <1>1, FS_Subset, FS_CardinalityType
<1>3. /\ Below(b, n, k) \in SUBSET (1 .. n) /\ With(b, n, k) \in SUBSET (1 .. n)
      /\ UpTo(b, n, k) \in SUBSET (1 .. n)
  BY DEF Below, With, UpTo
<1>4. UpTo(b, n, k) = Below(b, n, k) \cup With(b, n, k)
  BY DEF Below, With, UpTo
<1>5. Below(b, n, k) \cap With(b, n, k) = {}
  BY DEF Below, With
<1>6. Cardinality(UpTo(b, n, k))
        = Cardinality(Below(b, n, k)) + Cardinality(With(b, n, k)) - Cardinality({})
  BY <1>2, <1>3, <1>4, <1>5, FS_Union
<1>7. Cardinality({}) = 0
  BY FS_EmptySet
<1>8. ASSUME NEW l \in Nat, l < k
      PROVE  Cardinality(UpTo(b, n, l)) <= Cardinality(Below(b, n, k))
  <2>1. UpTo(b, n, l) \in SUBSET Below(b, n, k)
    BY <1>8 DEF UpTo, Below
  <2> QED BY <1>2, <1>3, <2>1, FS_Subset
<1> QED BY <1>2, <1>3, <1>6, <1>7, <1>8

(* Of the keys in a buffer, or of some of them, one is the greatest. *)
LEMMA GreatestKey ==
  ASSUME NEW n \in Nat, NEW b, \A x \in 1 .. n : b[x] \in Nat,
         NEW W \in SUBSET { b[x] : x \in 1 .. n }, W # {}
  PROVE  \E k \in W : \A l \in W : l <= k
<1> DEFINE Bound == { u \in Nat : \A l \in W : l <= u }
<1>1. W \in SUBSET Nat
  OBVIOUS
<1>2. Bound # {}
  <2> DEFINE Bounded(h) == \E u \in Nat : \A x \in 1 .. h : b[x] <= u
             Bad == { h \in 0 .. n : ~ Bounded(h) }
  <2>1. Bad = {}
    <3> SUFFICES ASSUME Bad # {} PROVE FALSE
      OBVIOUS
    <3>1. PICK h \in Bad : \A g \in Bad : h <= g
      <4>1. Bad \in SUBSET Nat
        OBVIOUS
      <4> QED BY <4>1, SmallestNumber
    <3>2. h \in 0 .. n /\ ~ Bounded(h) /\ h # 0
      <4>1. Bounded(0)
        <5>1. 0 \in Nat /\ 1 .. 0 = {}
          OBVIOUS
        <5> QED BY <5>1
      <4> QED BY <4>1
    <3>3. h - 1 \in 0 .. n /\ h \in 1 .. n /\ h - 1 \notin Bad
      <4>1. h - 1 \in 0 .. n /\ ~ (h <= h - 1) /\ h \in 1 .. n
        BY <3>2
      <4> QED BY <3>1, <4>1
    <3>4. PICK u \in Nat : \A x \in 1 .. h - 1 : b[x] <= u
      BY <3>3
    <3> DEFINE v == IF u < b[h] THEN b[h] ELSE u
    <3>5. v \in Nat /\ \A x \in 1 .. h : b[x] <= v
      <4>1. b[h] \in Nat
        BY <3>3
      <4>2. ASSUME NEW x \in 1 .. h PROVE b[x] <= v
        <5>1. CASE x = h
          BY <4>1, <5>1
        <5>2. CASE x # h
          <6>1. x \in 1 .. h - 1 /\ x \in 1 .. n
            <7>1. h \in 1 .. n /\ n \in Nat
              BY <3>3
            <7> HIDE DEF v
            <7> QED BY <5>2, <7>1
          <6>2. b[x] <= u /\ b[x] \in Nat
            BY <3>4, <6>1
          <6> QED BY <4>1, <6>2
        <5> QED BY <5>1, <5>2
      <4> QED BY <4>1, <4>2
    <3> QED BY <3>2, <3>5
  <2>2. Bounded(n)
    <3>1. n \in 0 .. n
      OBVIOUS
    <3>2. n \notin Bad
      BY <2>1, Zenon
    <3> QED BY <3>1, <3>2
  <2>3. PICK u \in Nat : \A x \in 1 .. n : b[x] <= u
    BY <2>2
  <2> QED BY <2>3
<1>3. PICK u \in Bound : \A v \in Bound : u <= v
  <2>1. Bound \in SUBSET Nat
    OBVIOUS
  <2> QED BY <1>2, <2>1, SmallestNumber
<1>4. u \in W
  <2> SUFFICES ASSUME u \notin W PROVE FALSE
    OBVIOUS
  <2>1. u \in Nat /\ \A l \in W : l \in Nat /\ l <= u /\ l # u
    BY <1>1
  <2>2. u # 0
    BY <2>1
  <2>3. u - 1 \in Bound
    BY <2>1, <2>2
  <2> QED BY <1>3, <2>1, <2>3
<1> QED BY <1>4

LEMMA NthExists ==
  ASSUME NEW n \in Nat, NEW b, \A x \in 1 .. n : b[x] \in Nat, NEW m \in 1 .. n
  PROVE  \E k : IsNth(b, n, m, k)
<1> DEFINE V == { b[x] : x \in 1 .. n }
           Enough == { k \in V : Cardinality(UpTo(b, n, k)) >= m }
<1>1. V \in SUBSET Nat /\ Enough \in SUBSET Nat
  OBVIOUS
<1>2. Enough # {}
  <2>1. IsFiniteSet(1 .. n) /\ Cardinality(1 .. n) = n
    BY FS_Interval
  <2>2. V # {} /\ V \subseteq V
    OBVIOUS
  <2>3. PICK k \in V : \A l \in V : l <= k
    BY <2>2, GreatestKey
  <2>4. UpTo(b, n, k) = 1 .. n
    BY <2>3 DEF UpTo
  <2> QED BY <2>1, <2>3, <2>4
<1>3. PICK k \in Enough : \A l \in Enough : k <= l
  BY <1>1, <1>2, SmallestNumber
<1>4. Cardinality(Below(b, n, k)) < m
  <2> SUFFICES ASSUME ~ (Cardinality(Below(b, n, k)) < m) PROVE FALSE
    OBVIOUS
  <2>1. k \in Nat /\ Cardinality(Below(b, n, k)) \in Nat
    BY <1>1, RankFacts
  <2> DEFINE W == { l \in V : l < k }
  <2>2. W # {}
    <3>1. Below(b, n, k) # {}
      BY <2>1, FS_EmptySet
    <3> QED BY <3>1 DEF Below
  <2>3. PICK l \in W : \A h \in W : h <= l
    BY <2>2, GreatestKey
  <2>4. UpTo(b, n, l) = Below(b, n, k)
    <3>1. \A x \in 1 .. n : b[x] < k => b[x] <= l
      BY <2>3
    <3>2. \A x \in 1 .. n : b[x] <= l => b[x] < k
      BY <1>1, <2>1, <2>3
    <3> QED BY <3>1, <3>2 DEF UpTo, Below
  <2>5. l \in Enough
    BY <2>1, <2>3, <2>4
  <2>6. l \in Nat /\ l < k
    BY <1>1, <2>3
  <2> QED BY <1>3, <2>1, <2>5, <2>6
<1> QED BY <1>3, <1>4 DEF IsNth

LEMMA NthInOrder ==
  ASSUME NEW n \in Nat, NEW b, \A x \in 1 .. n : b[x] \in Nat,
         NEW p \in 1 .. n, NEW q \in 1 .. n, p <= q,
         NEW k, IsNth(b, n, p, k), NEW l, IsNth(b, n, q, l)
  PROVE  k \in Nat /\ l \in Nat /\ k <= l
<1>1. k \in Nat /\ l \in Nat
  BY DEF IsNth
<1>2. ~ (l < k)
  <2> SUFFICES ASSUME l < k PROVE FALSE
    OBVIOUS
  <2>1. Cardinality(UpTo(b, n, l)) <= Cardinality(Below(b, n, k))
    BY <1>1, RankFacts
  <2>2. /\ Cardinality(UpTo(b, n, l)) \in Nat /\ Cardinality(Below(b, n, k)) \in Nat
    BY <1>1, RankFacts
  <2>3. Cardinality(UpTo(b, n, l)) >= q /\ Cardinality(Below(b, n, k)) < p
    BY DEF IsNth
  <2> QED BY <2>1, <2>2, <2>3
<1> QED BY <1>1, <1>2

SortOf(c, b, D, n) ==
  /\ c = [m \in D |-> c[m]]
  /\ \A m \in D \ (1 .. n) : c[m] = b[m]
  /\ \A m \in 1 .. n : \E x \in 1 .. n : c[m] = b[x]
  /\ \A p, q \in 1 .. n : p <= q => c[p] <= c[q]
  /\ \A k \in Nat : Cardinality(With(c, n, k)) = Cardinality(With(b, n, k))

(* The sort puts the first n records in order and keeps every key as often *)
(* as it was.                                                              *)
LEMMA OrderedFacts ==
  ASSUME NEW D \in SUBSET (Nat \ {0}), NEW n \in Nat, 1 .. n \subseteq D,
         NEW b, DOMAIN b = D, \A x \in 1 .. n : b[x] \in Nat
  PROVE  SortOf(Ordered(b, n), b, D, n)
<1> DEFINE nth(m) == CHOOSE k \in { b[x] : x \in 1 .. n } :
                       /\ Cardinality({ x \in 1 .. n : b[x] <= k }) >= m
                       /\ Cardinality({ x \in 1 .. n : b[x] < k }) < m
           c == Ordered(b, n)
<1>1. c = [m \in D |-> IF m \in 1 .. n THEN c[m] ELSE b[m]]
      /\ \A m \in 1 .. n : c[m] = nth(m)
  <2>1. c = [m \in D |-> IF m <= n THEN nth(m) ELSE b[m]]
    BY DEF Ordered
  <2> HIDE DEF c, nth
  <2>2. \A m \in D : m <= n <=> m \in 1 .. n
    OBVIOUS
  <2> QED BY <2>1, <2>2
<1>2. ASSUME NEW m \in 1 .. n PROVE IsNth(b, n, m, c[m])
  <2>1. \E k : IsNth(b, n, m, k)
    BY NthExists
  <2>2. IsNth(b, n, m, nth(m))
    BY <2>1 DEF IsNth, UpTo, Below
  <2> QED BY <1>1, <2>2
<1> HIDE DEF c, nth
<1>3. \A m \in 1 .. n : \E x \in 1 .. n : c[m] = b[x]
  BY <1>2 DEF IsNth
<1>4. \A p, q \in 1 .. n : p <= q => c[p] <= c[q]
  BY <1>2, NthInOrder
<1>5. ASSUME NEW k \in Nat PROVE Cardinality(With(c, n, k)) = Cardinality(With(b, n, k))
  <2> DEFINE lt == Cardinality(Below(b, n, k))
             le == Cardinality(UpTo(b, n, k))
             eq == Cardinality(With(b, n, k))
  <2>1. lt \in Nat /\ le \in 0 .. n /\ eq \in Nat /\ le = lt + eq
    BY RankFacts
  <2>2. CASE k \in { b[x] : x \in 1 .. n }
    <3>1. ASSUME NEW m \in 1 .. n PROVE c[m] = k <=> m \in lt + 1 .. le
      <4>1. c[m] = k => m \in lt + 1 .. le
        BY <1>2, <2>1 DEF IsNth
      <4>2. ASSUME m \in lt + 1 .. le PROVE c[m] = k
        <5>1. IsNth(b, n, m, k)
          BY <2>1, <2>2, <4>2 DEF IsNth
        <5>2. IsNth(b, n, m, c[m])
          BY <1>2
        <5>3. m <= m
          OBVIOUS
        <5>4. k \in Nat /\ c[m] \in Nat /\ k <= c[m] /\ c[m] <= k
          BY <5>1, <5>2, <5>3, NthInOrder
        <5> QED BY <5>4
      <4> QED BY <4>1, <4>2
    <3>2. lt + 1 .. le \subseteq 1 .. n
      BY <2>1
    <3>3. With(c, n, k) = lt + 1 .. le
      BY <3>1, <3>2 DEF With
    <3>4. Cardinality(lt + 1 .. le) = eq
      <4>1. Cardinality(lt + 1 .. le) = IF lt + 1 > le THEN 0 ELSE le - (lt + 1) + 1
        <5>1. lt + 1 \in Int /\ le \in Int
          BY <2>1
        <5> QED BY <5>1, FS_Interval
      <4> HIDE DEF lt, le, eq
      <4> QED BY <2>1, <4>1
    <3> QED BY <3>3, <3>4
  <2>3. CASE k \notin { b[x] : x \in 1 .. n }
    <3>1. With(c, n, k) = {} /\ With(b, n, k) = {}
      BY <1>3, <2>3 DEF With
    <3> QED BY <3>1
  <2> QED BY <2>2, <2>3
<1>6. c = [m \in D |-> c[m]] /\ \A m \in D \ (1 .. n) : c[m] = b[m]
  BY <1>1
<1>7. SortOf(c, b, D, n)
  BY <1>3, <1>4, <1>5, <1>6 DEF SortOf
<1> QED BY <1>7 DEF c

-----------------------------------------------------------------------------
(***************************************************************************)
(* Nothing is lost on the way to the cache and back                        *)
(***************************************************************************)
LEMMA OneToOneSameSize ==
  ASSUME NEW S, IsFiniteSet(S), NEW T, NEW h \in [S -> T],
         \A x, y \in S : h[x] = h[y] => x = y,
         \A y \in T : \E x \in S : h[x] = y
  PROVE  Cardinality(T) = Cardinality(S)
<1>1. h \in Bijection(S, T)
  BY DEF Bijection, Injection, IsInjective, Surjection, Range
<1> QED BY <1>1, FS_Bijection DEF ExistsBijection

(* Counting a part of the file and the rest of it. *)
AllWith(a, S, k)       == { x \in S : a[x] = k }
InsideWith(a, S, R, k)  == { x \in S : x \in R /\ a[x] = k }
OutsideWith(a, S, R, k) == { x \in S : x \notin R /\ a[x] = k }

LEMMA CountInTwo ==
  ASSUME NEW S, IsFiniteSet(S), NEW R, NEW a, NEW k
  PROVE  Cardinality(AllWith(a, S, k))
           = Cardinality(InsideWith(a, S, R, k)) + Cardinality(OutsideWith(a, S, R, k))
<1> DEFINE A == AllWith(a, S, k)
           B == InsideWith(a, S, R, k)
           C == OutsideWith(a, S, R, k)
<1>1. A = B \cup C /\ B \cap C = {}
  BY DEF AllWith, InsideWith, OutsideWith
<1>2. IsFiniteSet(B) /\ IsFiniteSet(C)
  <2>1. B \in SUBSET S /\ C \in SUBSET S
    BY DEF InsideWith, OutsideWith
  <2> QED BY <2>1, FS_Subset
<1>3. Cardinality(B) \in Nat /\ Cardinality(C) \in Nat
  BY <1>2, FS_CardinalityType
<1>4. Cardinality(A) = Cardinality(B) + Cardinality(C) - Cardinality({})
  BY <1>1, <1>2, FS_Union
<1>5. Cardinality({}) = 0
  BY FS_EmptySet
<1> HIDE DEF A, B, C
<1>6. Cardinality(A) = Cardinality(B) + Cardinality(C)
  BY <1>3, <1>4, <1>5
<1> QED BY <1>6 DEF A, B, C

LEMMA WrittenFacts ==
  ASSUME Working, InMemory, pc = "write"
  PROVE  /\ Written \in [Rec -> Key]
         /\ \A m \in Window : Written[Home(m)] = buf[m]
         /\ \A f \in Rec : ChunkOf(f) \notin Here => Written[f] = file[f]
         /\ EquallyOften(Written, file, Rec)
<1> DEFINE cell(f) == InMem(SlotWith(ChunkOf(f)), PlaceOf(f))
           R == { f \in Rec : ChunkOf(f) \in Here }
<1>1. /\ \A m \in Window : buf[m] \in Key
      /\ EquallyOften(buf, [m \in Window |-> file[Home(m)]], Window)
      /\ file \in [Rec -> Key]
  BY DEF InMemory, Working, TypeOK
<1>2. \A f \in Rec : f \in R => cell(f) \in Window /\ Home(cell(f)) = f
  BY HomeFacts
<1>3. \A m \in Window : Home(m) \in R /\ cell(Home(m)) = m
  <2> TAKE m \in Window
  <2>1. /\ Home(m) \in Rec /\ ChunkOf(Home(m)) = InSlot(SlotOf(m))
        /\ PlaceOf(Home(m)) = PlaceOf(m)
    BY HomeFacts
  <2>2. SlotOf(m) \in Slots /\ m = InMem(SlotOf(m), PlaceOf(m))
    BY WindowFacts
  <2> QED BY <2>1, <2>2, HomeFacts
<1>4. /\ DOMAIN Written = Rec
      /\ \A f \in Rec : Written[f] = IF f \in R THEN buf[cell(f)] ELSE file[f]
  BY DEF Written, ChunkOf
<1>5. Written = [f \in Rec |-> IF f \in R THEN buf[cell(f)] ELSE file[f]]
  BY DEF Written, ChunkOf
<1> HIDE DEF cell
<1>6. Written \in [Rec -> Key]
  BY <1>1, <1>2, <1>5
<1>7. \A m \in Window : Written[Home(m)] = buf[m]
  BY <1>3, <1>4
<1>8. \A f \in Rec : ChunkOf(f) \notin Here => Written[f] = file[f]
  BY <1>4
<1>9. ASSUME NEW k \in Key
      PROVE  Cardinality({ f \in Rec : Written[f] = k }) = Cardinality({ f \in Rec : file[f] = k })
  <2>1. IsFiniteSet(Rec) /\ IsFiniteSet(Window)
    <3>1. NumRecs \in Int /\ LoadSize \in Int
      BY Sizes, WindowFacts
    <3> QED BY <3>1, FS_Interval DEF Rec, Window
  <2> DEFINE inFile(g)  == { f \in Rec : f \in R /\ g[f] = k }
             outside(g) == { f \in Rec : f \notin R /\ g[f] = k }
             sorted     == { m \in Window : buf[m] = k }
             loaded     == { m \in Window : file[Home(m)] = k }
  <2>2. outside(Written) = outside(file)
    BY <1>4
  <2>3. Cardinality(sorted) = Cardinality(loaded)
    <3>1. loaded = { x \in Window : [m \in Window |-> file[Home(m)]][x] = k }
      OBVIOUS
    <3> QED BY <1>1, <3>1 DEF EquallyOften
  <2>4. Cardinality(inFile(Written)) = Cardinality(sorted)
    <3> DEFINE h == [m \in sorted |-> Home(m)]
    <3>1. IsFiniteSet(sorted)
      BY <2>1, FS_Subset
    <3>2. h \in [sorted -> inFile(Written)]
      BY <1>3, <1>7
    <3>3. \A x, y \in sorted : h[x] = h[y] => x = y
      BY <1>3
    <3>4. \A f \in inFile(Written) : cell(f) \in sorted /\ h[cell(f)] = f
      BY <1>2, <1>4
    <3> HIDE DEF h
    <3> QED BY <3>1, <3>2, <3>3, <3>4, OneToOneSameSize
  <2>5. Cardinality(inFile(file)) = Cardinality(loaded)
    <3> DEFINE h == [m \in loaded |-> Home(m)]
    <3>1. IsFiniteSet(loaded)
      BY <2>1, FS_Subset
    <3>2. h \in [loaded -> inFile(file)]
      BY <1>3
    <3>3. \A x, y \in loaded : h[x] = h[y] => x = y
      BY <1>3
    <3>4. \A f \in inFile(file) : cell(f) \in loaded /\ h[cell(f)] = f
      BY <1>2
    <3> HIDE DEF h
    <3> QED BY <3>1, <3>2, <3>3, <3>4, OneToOneSameSize
  <2>6. \A g : Cardinality(AllWith(g, Rec, k))
                 = Cardinality(InsideWith(g, Rec, R, k)) + Cardinality(OutsideWith(g, Rec, R, k))
    BY <2>1, CountInTwo
  <2>7. Cardinality(AllWith(Written, Rec, k)) = Cardinality(AllWith(file, Rec, k))
    BY <2>2, <2>3, <2>4, <2>5, <2>6 DEF InsideWith, OutsideWith
  <2> QED BY <2>7 DEF AllWith
<1> QED BY <1>6, <1>7, <1>8, <1>9 DEF EquallyOften

-----------------------------------------------------------------------------
(***************************************************************************)
(* The invariant                                                           *)
(***************************************************************************)
LEMMA SameWindow ==
  ASSUME UNCHANGED <<arr, i>>
  PROVE  /\ LoadSize' = LoadSize /\ Window' = Window
         /\ \A m : Home(m)' = Home(m)
<1>1. LoadSize' = LoadSize
  BY DEF LoadSize, LoadCount, InSlot, Size
<1>2. \A m : Home(m)' = Home(m)
  BY DEF Home, InFile, InSlot, SlotOf, PlaceOf
<1> QED BY <1>1, <1>2 DEF Window

LEMMA SameOrder ==
  ASSUME UNCHANGED arr
  PROVE  (OnePlace => OnePlace') /\ (ShortStays => ShortStays')
BY DEF OnePlace, ShortStays, Size

LEMMA SameKeys ==
  ASSUME UNCHANGED <<file, min, max>>
  PROVE  \A c : Fresh(c) => Fresh(c)'
BY DEF Fresh, IsSorted, InFile, Size

LEMMA InitSort == Init => SortInv
<1> SUFFICES ASSUME Init PROVE SortInv
  OBVIOUS
<1>1. TypeOK
  <2>1. 0 \in 0 .. NumChunks
    BY Sizes
  <2> QED BY <2>1 DEF Init, TypeOK
<1>2. OnePlace /\ ShortStays
  <2>1. NumChunks - 1 \in Chunk
    BY Sizes
  <2> QED BY <2>1 DEF Init, OnePlace, ShortStays
<1>3. Visited
  BY Sizes DEF Init, Visited, Chunk
<1>4. InMemory /\ OneWindow
  BY Sizes DEF Init, InMemory, OneWindow
<1> QED BY <1>1, <1>2, <1>3, <1>4 DEF SortInv, Init

LEMMA LoadKeeps == ASSUME SortInv, LoadWindow PROVE SortInv'
<1>1. /\ pc = "load" /\ i < NumChunks /\ pc' = "sort"
      /\ buf' = [m \in Cell |->
                   IF SlotOf(m) \in Slots /\ PlaceOf(m) <= Size(InSlot(SlotOf(m)))
                   THEN file[InFile(InSlot(SlotOf(m)), PlaceOf(m))] ELSE buf[m]]
      /\ UNCHANGED <<file, arr, min, max, odd, i>>
  BY DEF LoadWindow
<1>2. Working
  BY <1>1 DEF Working, SortInv
<1>3. \A m \in Cell : buf'[m] = IF m \in Window THEN file[Home(m)] ELSE buf[m]
  <2> TAKE m \in Cell
  <2>1. m \in Nat \ {0}
    BY Sizes DEF Cell
  <2>2. m \in Window <=> SlotOf(m) \in Slots /\ PlaceOf(m) <= Size(InSlot(SlotOf(m)))
    BY <1>2, <2>1, InWindow
  <2> QED BY <1>1, <2>2 DEF Home
<1>4. TypeOK'
  <2>1. \A m \in Window : file[Home(m)] \in Key
    BY <1>2, HomeFacts DEF Working, TypeOK
  <2>2. buf' \in [Cell -> Key \cup {Unset}]
    BY <1>1, <1>2, <1>3, <2>1 DEF Working, TypeOK
  <2> QED BY <1>1, <1>2, <2>2 DEF Working, TypeOK
<1>5. OnePlace' /\ ShortStays'
  BY <1>1, SameOrder DEF SortInv
<1>6. Visited'
  BY <1>1, SameKeys DEF SortInv, Visited
<1>7. InMemory'
  <2>1. \A m \in Window : buf'[m] = file[Home(m)]
    BY <1>2, <1>3, WindowFacts
  <2> QED BY <1>1, <2>1, SameWindow DEF InMemory
<1>8. OneWindow'
  BY <1>1 DEF SortInv, OneWindow
<1> QED BY <1>1, <1>4, <1>5, <1>6, <1>7, <1>8 DEF SortInv

LEMMA SortKeeps == ASSUME SortInv, SortWindow PROVE SortInv'
<1>1. /\ pc = "sort" /\ pc' = "write" /\ buf' = Ordered(buf, LoadSize)
      /\ UNCHANGED <<file, arr, min, max, odd, i>>
  BY DEF SortWindow
<1>2. Working /\ \A m \in Window : buf[m] = file[Home(m)]
  BY <1>1 DEF Working, SortInv, InMemory
<1>3. \A m \in Window : buf[m] \in Key /\ buf[m] \in Nat
  BY <1>2, HomeFacts, FileAssumption DEF Divided, Working, TypeOK
<1>4. /\ buf' = [m \in Cell |-> buf'[m]]
      /\ \A m \in Cell \ Window : buf'[m] = buf[m]
      /\ \A m \in Window : \E x \in Window : buf'[m] = buf[x]
      /\ \A p, q \in Window : p <= q => buf'[p] <= buf'[q]
      /\ \A k \in Nat : Cardinality(With(buf', LoadSize, k)) = Cardinality(With(buf, LoadSize, k))
  <2>1. /\ Cell \in SUBSET (Nat \ {0}) /\ LoadSize \in Nat /\ 1 .. LoadSize \subseteq Cell
        /\ DOMAIN buf = Cell /\ \A x \in 1 .. LoadSize : buf[x] \in Nat
    <3>1. LoadSize \in Nat /\ Window \subseteq Cell
      BY <1>2, WindowFacts
    <3>2. DOMAIN buf = Cell /\ \A x \in Window : buf[x] \in Nat
      BY <1>2, <1>3 DEF Working, TypeOK
    <3>3. Cell \in SUBSET (Nat \ {0})
      BY DEF Cell
    <3> QED BY <3>1, <3>2, <3>3 DEF Window
  <2>2. SortOf(Ordered(buf, LoadSize), buf, Cell, LoadSize)
    BY <2>1, OrderedFacts
  <2>3. SortOf(buf', buf, Cell, LoadSize)
    BY <1>1, <2>2
  <2> QED BY <2>3 DEF SortOf, Window
<1>5. \A m \in Window : buf'[m] \in Key
  BY <1>3, <1>4
<1>6. TypeOK'
  <2>1. buf' \in [Cell -> Key \cup {Unset}]
    BY <1>2, <1>4, <1>5 DEF Working, TypeOK
  <2> QED BY <1>1, <1>2, <2>1 DEF Working, TypeOK
<1>7. OnePlace' /\ ShortStays'
  BY <1>1, SameOrder DEF SortInv
<1>8. Visited'
  BY <1>1, SameKeys DEF SortInv, Visited
<1>9. InMemory'
  <2> DEFINE loaded == [m \in Window |-> file[Home(m)]]
  <2>1. EquallyOften(buf', loaded, Window)
    <3> SUFFICES ASSUME NEW k \in Key
                 PROVE  Cardinality({ x \in Window : buf'[x] = k })
                          = Cardinality({ x \in Window : loaded[x] = k })
      BY DEF EquallyOften
    <3>1. k \in Nat
      BY FileAssumption DEF Divided
    <3>2. { x \in Window : loaded[x] = k } = With(buf, LoadSize, k)
      BY <1>2 DEF With, Window
    <3>3. { x \in Window : buf'[x] = k } = With(buf', LoadSize, k)
      BY DEF With, Window
    <3> QED BY <1>4, <3>1, <3>2, <3>3
  <2>2. loaded' = loaded
    BY <1>1, SameWindow
  <2>3. Window' = Window
    BY <1>1, SameWindow
  <2>4. (EquallyOften(buf, loaded, Window))'
    BY <2>1, <2>2, <2>3 DEF EquallyOften
  <2>5. i' < NumChunks
    BY <1>1, <1>2 DEF Working
  <2> HIDE DEF loaded
  <2>6. (\A m \in Window : buf[m] \in Key)' /\ (\A p, q \in Window : p <= q => buf[p] <= buf[q])'
    BY <1>4, <1>5, <2>3
  <2> QED BY <1>1, <2>4, <2>5, <2>6 DEF InMemory, loaded
<1>10. OneWindow'
  BY <1>1 DEF SortInv, OneWindow
<1> QED BY <1>1, <1>6, <1>7, <1>8, <1>9, <1>10 DEF SortInv

(* update_metadata and write_window leave every chunk of the window sorted *)
(* and its keys true, and do not touch the others.                         *)
LEMMA WriteRefreshes ==
  ASSUME Working, InMemory, WriteWindow
  PROVE  \A c \in Chunk : c \in Here \/ Fresh(c) => Fresh(c)'
<1>1. /\ pc = "write" /\ file' = Written /\ min' = FirstKeys /\ max' = LastKeys
  BY DEF WriteWindow
<1>2. \A c : Fresh(c)' <=> /\ min'[c] = file'[InFile(c, 1)]
                            /\ max'[c] = file'[InFile(c, Size(c))]
                            /\ IsSorted(file', InFile(c, 1), InFile(c, Size(c)))
  BY DEF Fresh, IsSorted, InFile, Size
<1>3. ASSUME NEW c \in Chunk
      PROVE  /\ Size(c) \in 1 .. ChunkSize /\ 1 \in 1 .. Size(c) /\ Size(c) \in 1 .. Size(c)
             /\ \A g : IsSorted(g, InFile(c, 1), InFile(c, Size(c)))
                         <=> \A r \in 2 .. Size(c) : g[InFile(c, r - 1)] <= g[InFile(c, r)]
  <2>1. Size(c) \in 1 .. ChunkSize /\ 1 \in 1 .. Size(c) /\ Size(c) \in 1 .. Size(c)
    BY Sizes, ChunkFacts
  <2>2. c * ChunkSize \in Nat
    BY Sizes DEF Chunk
  <2>3. \A r \in Int : InFile(c, r) = c * ChunkSize + r
    BY DEF InFile
  <2>4. ASSUME NEW g
        PROVE  IsSorted(g, InFile(c, 1), InFile(c, Size(c)))
                 <=> \A r \in 2 .. Size(c) : g[InFile(c, r - 1)] <= g[InFile(c, r)]
    <3>1. ASSUME IsSorted(g, InFile(c, 1), InFile(c, Size(c))), NEW r \in 2 .. Size(c)
          PROVE  g[InFile(c, r - 1)] <= g[InFile(c, r)]
      <4>1. /\ InFile(c, r) \in InFile(c, 1) + 1 .. InFile(c, Size(c))
            /\ InFile(c, r) - 1 = InFile(c, r - 1)
        BY <2>1, <2>2, <2>3
      <4>2. g[InFile(c, r) - 1] <= g[InFile(c, r)]
        BY <3>1, <4>1 DEF IsSorted
      <4> QED BY <4>1, <4>2
    <3>2. ASSUME \A r \in 2 .. Size(c) : g[InFile(c, r - 1)] <= g[InFile(c, r)]
          PROVE  IsSorted(g, InFile(c, 1), InFile(c, Size(c)))
      <4> SUFFICES ASSUME NEW f \in InFile(c, 1) + 1 .. InFile(c, Size(c)) PROVE g[f - 1] <= g[f]
        BY DEF IsSorted
      <4> DEFINE r == f - c * ChunkSize
      <4>1. r \in 2 .. Size(c) /\ InFile(c, r) = f /\ InFile(c, r - 1) = f - 1
        BY <2>1, <2>2, <2>3
      <4> HIDE DEF r
      <4> QED BY <3>2, <4>1
    <3> QED BY <3>1, <3>2
  <2> QED BY <2>1, <2>4
<1>4. ASSUME NEW c \in Here PROVE Fresh(c)'
  <2> DEFINE j == SlotWith(c)
  <2>1. c \in Chunk /\ j \in Slots /\ InSlot(j) = c
    BY HomeFacts
  <2>2. \A r \in 1 .. Size(c) : /\ InMem(j, r) \in Window
                                /\ Written[InFile(c, r)] = buf[InMem(j, r)]
    BY <1>1, <2>1, WindowFacts, WrittenFacts
  <2>3. min'[c] = buf[InMem(j, 1)] /\ max'[c] = buf[InMem(j, Size(c))]
    BY <1>1, <2>1 DEF FirstKeys, LastKeys
  <2>4. \A r \in 2 .. Size(c) : Written[InFile(c, r - 1)] <= Written[InFile(c, r)]
    <3> TAKE r \in 2 .. Size(c)
    <3>1. r - 1 \in 1 .. Size(c) /\ r \in 1 .. Size(c)
      BY <1>3, <2>1, Sizes
    <3>2. InMem(j, r - 1) <= InMem(j, r)
      <4>1. j - 1 \in Nat /\ (j - 1) * ChunkSize \in Nat
        BY <2>1, Sizes, CountFacts DEF Slots
      <4> HIDE DEF j
      <4> QED BY <3>1, <4>1 DEF InMem
    <3>3. buf[InMem(j, r - 1)] <= buf[InMem(j, r)]
      BY <1>1, <2>2, <3>1, <3>2 DEF InMemory
    <3> QED BY <2>2, <3>1, <3>3
  <2>5. min'[c] = Written[InFile(c, 1)] /\ max'[c] = Written[InFile(c, Size(c))]
    BY <1>3, <2>1, <2>2, <2>3
  <2> QED BY <1>1, <1>2, <1>3, <2>1, <2>4, <2>5
<1>5. ASSUME NEW c \in Chunk, c \notin Here, Fresh(c) PROVE Fresh(c)'
  <2>1. min'[c] = min[c] /\ max'[c] = max[c]
    BY <1>1, <1>5 DEF FirstKeys, LastKeys
  <2>2. \A r \in 1 .. Size(c) : Written[InFile(c, r)] = file[InFile(c, r)]
    BY <1>1, <1>5, ChunkFacts, WrittenFacts
  <2>3. \A r \in 2 .. Size(c) : r - 1 \in 1 .. Size(c) /\ r \in 1 .. Size(c)
    BY <1>3, Sizes
  <2>4. \A r \in 2 .. Size(c) : Written[InFile(c, r - 1)] <= Written[InFile(c, r)]
    <3>1. \A r \in 2 .. Size(c) : file[InFile(c, r - 1)] <= file[InFile(c, r)]
      BY <1>3, <1>5 DEF Fresh
    <3> QED BY <2>2, <2>3, <3>1
  <2> QED BY <1>1, <1>2, <1>3, <1>5, <2>1, <2>2, <2>4 DEF Fresh
<1> QED BY <1>4, <1>5

(* The chunks of a window are in order after it. *)
LEMMA WindowOrder ==
  ASSUME Working, InMemory, WriteWindow, NEW j \in Slots, j + 1 \in Slots
  PROVE  max'[InSlot(j)] <= min'[InSlot(j + 1)]
<1> DEFINE c == InSlot(j)
           d == InSlot(j + 1)
<1>1. pc = "write" /\ min' = FirstKeys /\ max' = LastKeys
  BY DEF WriteWindow
<1>2. /\ c \in Here /\ SlotWith(c) = j /\ c \in Chunk
      /\ d \in Here /\ SlotWith(d) = j + 1 /\ d \in Chunk
  BY HomeFacts
<1>3. max'[c] = buf[InMem(j, Size(c))] /\ min'[d] = buf[InMem(j + 1, 1)]
  BY <1>1, <1>2 DEF FirstKeys, LastKeys
<1>4. /\ Size(c) \in 1 .. ChunkSize /\ Size(c) \in 1 .. Size(c) /\ 1 \in 1 .. Size(d)
  BY <1>2, ChunkFacts, Sizes
<1>5. InMem(j, Size(c)) \in Window /\ InMem(j + 1, 1) \in Window
  BY <1>4, WindowFacts
<1>6. InMem(j, Size(c)) <= InMem(j + 1, 1)
  <2>1. j \in Nat \ {0} /\ j - 1 \in Nat /\ j - 1 < j /\ (j - 1) + 1 = j /\ (j + 1) - 1 = j
    BY CountFacts DEF Slots
  <2>2. (j - 1) * ChunkSize \in Nat /\ j * ChunkSize = (j - 1) * ChunkSize + ChunkSize
    BY <2>1, Sizes, Product
  <2> HIDE DEF c, d
  <2> QED BY <1>4, <2>1, <2>2, Sizes DEF InMem
<1> QED BY <1>1, <1>3, <1>5, <1>6 DEF InMemory

LEMMA WriteKeeps == ASSUME SortInv, WriteWindow PROVE SortInv'
<1>1. /\ pc = "write" /\ pc' = "load" /\ min' = FirstKeys /\ max' = LastKeys
      /\ file' = Written /\ i' = i + LoadCount /\ UNCHANGED <<buf, arr, odd>>
  BY DEF WriteWindow, NextIndex
<1>2. Working /\ InMemory
  BY <1>1 DEF Working, SortInv, InMemory
<1>3. LoadCount \in 1 .. CacheSize /\ i \in Nat /\ i + LoadCount <= NumChunks
  BY <1>2, CountFacts
<1>4. TypeOK'
  <2>1. \A c \in Here : /\ buf[InMem(SlotWith(c), 1)] \in Key
                        /\ buf[InMem(SlotWith(c), Size(c))] \in Key
    <3> TAKE c \in Here
    <3>1. c \in Chunk /\ SlotWith(c) \in Slots /\ InSlot(SlotWith(c)) = c
      BY <1>2, HomeFacts
    <3>2. 1 \in 1 .. Size(c) /\ Size(c) \in 1 .. Size(c)
      BY <3>1, ChunkFacts, Sizes
    <3>3. InMem(SlotWith(c), 1) \in Window /\ InMem(SlotWith(c), Size(c)) \in Window
      BY <1>2, <3>1, <3>2, WindowFacts
    <3> QED BY <1>1, <1>2, <3>3 DEF InMemory
  <2>2. min' \in [Chunk -> Key \cup {Unset}]
    BY <1>1, <1>2, <2>1 DEF FirstKeys, Working, TypeOK
  <2>3. max' \in [Chunk -> Key \cup {Unset}]
    BY <1>1, <1>2, <2>1 DEF LastKeys, Working, TypeOK
  <2>4. file' \in [Rec -> Key]
    BY <1>1, <1>2, WrittenFacts
  <2>5. i' \in 0 .. NumChunks
    BY <1>1, <1>3, Sizes
  <2> QED BY <1>1, <1>2, <2>2, <2>3, <2>4, <2>5 DEF Working, TypeOK
<1>5. OnePlace' /\ ShortStays'
  BY <1>1, SameOrder DEF SortInv
<1>6. Visited'
  <2> SUFFICES ASSUME NEW x \in Chunk, odd \/ x < i + LoadCount
               PROVE  Fresh(arr[x])'
    BY <1>1 DEF Visited
  <2>1. arr[x] \in Chunk
    BY <1>2 DEF Working, TypeOK
  <2>2. arr[x] \in Here \/ odd \/ x < i
    <3> SUFFICES ASSUME x >= i, x < i + LoadCount PROVE arr[x] \in Here
      BY <1>3 DEF Chunk
    <3>1. x - i + 1 \in Slots /\ i + (x - i + 1) - 1 = x
      BY <1>3 DEF Chunk, Slots
    <3>2. InSlot(x - i + 1) = arr[x]
      BY <3>1 DEF InSlot
    <3> QED BY <3>1, <3>2 DEF Here
  <2>3. arr[x] \in Here \/ Fresh(arr[x])
    BY <1>1, <2>2 DEF SortInv, Visited
  <2>4. \A c \in Chunk : c \in Here \/ Fresh(c) => Fresh(c)'
    BY <1>2, WriteRefreshes
  <2>5. Fresh(arr[x])'
    <3>1. PICK c \in Chunk : c = arr[x]
      BY <2>1
    <3>2. c \in Here \/ Fresh(c)
      BY <2>3, <3>1
    <3>3. Fresh(c)'
      BY <2>4, <3>2
    <3>4. arr'[x] = c
      BY <1>1, <3>1
    <3> QED BY <3>3, <3>4 DEF Fresh, IsSorted, InFile, Size
  <2> QED BY <2>5
<1>7. InMemory'
  BY <1>1 DEF InMemory
<1>8. OneWindow'
  <2> SUFFICES ASSUME NumChunks <= CacheSize
               PROVE  ~ odd' /\ i' = NumChunks /\ ChunksAreSorted'
    BY <1>1, Sizes DEF OneWindow
  <2>1. ~ odd /\ i = 0
    BY <1>2, Sizes DEF SortInv, OneWindow, Working
  <2>2. LoadCount = NumChunks
    BY <2>1, Sizes DEF LoadCount
  <2>3. ASSUME NEW x \in Chunk \ {0} PROVE max'[arr'[x - 1]] <= min'[arr'[x]]
    <3>1. x \in Slots /\ x + 1 \in Slots /\ i + x - 1 = x - 1 /\ i + (x + 1) - 1 = x
      BY <2>1, <2>2, Sizes DEF Slots, Chunk
    <3>2. InSlot(x) = arr[x - 1] /\ InSlot(x + 1) = arr[x]
      BY <3>1 DEF InSlot
    <3>3. max'[InSlot(x)] <= min'[InSlot(x + 1)]
      BY <1>2, <3>1, WindowOrder
    <3> QED BY <1>1, <3>2, <3>3
  <2>4. ChunksAreSorted'
    BY <2>3 DEF ChunksAreSorted
  <2> QED BY <1>1, <2>1, <2>2, <2>4, Sizes
<1> QED BY <1>1, <1>4, <1>5, <1>6, <1>7, <1>8 DEF SortInv

LEMMA CheckKeeps == ASSUME SortInv, Check PROVE SortInv'
<1>1. /\ pc = "load" /\ i >= NumChunks /\ pc' = IF ChunksAreSorted THEN "map" ELSE "rearrange"
      /\ UNCHANGED <<file, buf, arr, min, max, odd, i>>
  BY DEF Check
<1>2. TypeOK
  BY DEF SortInv
<1>3. i = NumChunks
  BY <1>1, <1>2, Sizes DEF TypeOK
<1>4. TypeOK' /\ OnePlace' /\ ShortStays'
  BY <1>1, <1>2, SameOrder DEF SortInv, TypeOK
<1>5. Visited'
  <2>1. ASSUME NEW c \in Chunk PROVE Fresh(c)
    <3>1. PICK x \in Chunk : arr[x] = c
      BY DEF SortInv, OnePlace
    <3>2. x < i
      BY <1>3, Sizes DEF Chunk
    <3> QED BY <1>1, <3>1, <3>2 DEF SortInv, Visited
  <2> QED BY <1>1, <2>1, SameKeys DEF Visited
<1>6. InMemory'
  BY <1>1 DEF InMemory
<1>7. OneWindow' /\ (pc' = "map" => ChunksAreSorted')
  BY <1>1, <1>3 DEF SortInv, OneWindow, ChunksAreSorted
<1> QED BY <1>4, <1>5, <1>6, <1>7 DEF SortInv

(* sort_buffer_seq on chunk_array moves the chunks around. *)
LEMMA RearrangeMoves ==
  ASSUME TypeOK, OnePlace, NEW S \in SUBSET Chunk, NEW f \in Perms(S), arr' = Shuffle(arr, S, f)
  PROVE  /\ arr' \in [Chunk -> Chunk] /\ OnePlace'
         /\ \A x \in Chunk \ S : arr'[x] = arr[x]
<1>1. arr \in [Chunk -> Chunk]
  BY DEF TypeOK
<1>2. f \in [S -> S] /\ \A y \in S : \E x \in S : f[x] = y
  BY DEF Perms
<1>3. arr' = [x \in Chunk |-> IF x \in S THEN arr[f[x]] ELSE arr[x]]
  BY <1>1 DEF Shuffle
<1>4. IsFiniteSet(S)
  <2>1. IsFiniteSet(Chunk)
    <3>1. 0 \in Int /\ NumChunks - 1 \in Int
      BY Sizes
    <3> QED BY <3>1, FS_Interval DEF Chunk
  <2> QED BY <2>1, FS_Subset
<1>5. \A x, y \in S : f[x] = f[y] => x = y
  <2>1. f \in Surjection(S, S)
    BY <1>2 DEF Surjection, Range
  <2>2. f \in Injection(S, S)
    BY <1>4, <2>1, FS_SurjSameCardinalityImpliesInj
  <2> QED BY <2>2 DEF Injection, IsInjective
<1>6. arr' \in [Chunk -> Chunk]
  BY <1>1, <1>2, <1>3
<1>7. \A x \in Chunk \ S : arr'[x] = arr[x]
  BY <1>3
<1>8. OnePlace'
  <2>1. \A x, y \in Chunk : arr'[x] = arr'[y] => x = y
    <3> TAKE x, y \in Chunk
    <3>1. PICK p \in Chunk : p = (IF x \in S THEN f[x] ELSE x) /\ arr'[x] = arr[p]
      BY <1>2, <1>3
    <3>2. PICK q \in Chunk : q = (IF y \in S THEN f[y] ELSE y) /\ arr'[y] = arr[q]
      BY <1>2, <1>3
    <3>3. arr'[x] = arr'[y] => p = q
      <4>1. arr[p] = arr[q] => p = q
        BY DEF OnePlace
      <4>2. arr'[x] = arr[p] /\ arr'[y] = arr[q]
        BY <3>1, <3>2
      <4> QED BY <4>1, <4>2, Zenon
    <3>4. p = q => x = y
      BY <1>2, <1>5, <3>1, <3>2
    <3> QED BY <3>3, <3>4
  <2>2. \A c \in Chunk : \E x \in Chunk : arr'[x] = c
    <3> TAKE c \in Chunk
    <3>1. PICK y \in Chunk : arr[y] = c
      BY DEF OnePlace
    <3>2. CASE y \in S
      <4>1. PICK x \in S : f[x] = y
        BY <1>2, <3>2
      <4> QED BY <1>3, <3>1, <4>1
    <3>3. CASE y \notin S
      BY <1>3, <3>1, <3>3
    <3> QED BY <3>2, <3>3
  <2> QED BY <2>1, <2>2 DEF OnePlace
<1> QED BY <1>6, <1>7, <1>8

LEMMA RearrangeKeeps == ASSUME SortInv, Rearrange PROVE SortInv'
<1> DEFINE S == 0 .. SortedChunks - 1
<1>1. /\ pc = "rearrange" /\ pc' = "load" /\ odd' = ~ odd
      /\ i' = IF odd THEN 0 ELSE OddStart
      /\ UNCHANGED <<file, buf, min, max>>
  BY DEF Rearrange
<1>2. arr' = arr \/ \E f \in Perms(S) : arr' = Shuffle(arr, S, f)
  BY DEF Rearrange
<1>3. S \in SUBSET Chunk /\ (Size(NumChunks - 1) # ChunkSize => NumChunks - 1 \notin S)
  BY Sizes DEF SortedChunks, Chunk
<1>4. TypeOK /\ OnePlace /\ ShortStays /\ NumChunks > CacheSize
  BY <1>1, Sizes DEF SortInv, OneWindow
<1>5. /\ arr' \in [Chunk -> Chunk] /\ OnePlace'
      /\ \A x \in Chunk \ S : arr'[x] = arr[x]
  <2>1. CASE arr' = arr
    BY <1>4, <2>1, SameOrder DEF TypeOK
  <2>2. CASE \E f \in Perms(S) : arr' = Shuffle(arr, S, f)
    <3> HIDE DEF S
    <3>1. PICK f \in Perms(S) : arr' = Shuffle(arr, S, f)
      BY <2>2
    <3> QED BY <1>3, <1>4, <3>1, RearrangeMoves
  <2> QED BY <1>2, <2>1, <2>2
<1> HIDE DEF S
<1>6. ShortStays'
  <2>1. NumChunks - 1 \in Chunk
    BY Sizes
  <2> QED BY <1>3, <1>4, <1>5, <2>1 DEF ShortStays, Size
<1>7. TypeOK'
  <2>1. OddStart \in 0 .. NumChunks /\ 0 \in 0 .. NumChunks
    BY <1>4, Sizes DEF OddStart
  <2> QED BY <1>1, <1>4, <1>5, <2>1 DEF TypeOK
<1>8. Visited'
  <2>1. \A c \in Chunk : Fresh(c)
    BY <1>1 DEF SortInv, Visited
  <2>2. \A c : Fresh(c) => Fresh(c)'
    BY <1>1, SameKeys
  <2> SUFFICES ASSUME NEW x \in Chunk, odd' \/ x < i' PROVE Fresh(arr[x])'
    BY <1>1 DEF Visited
  <2>3. PICK c \in Chunk : c = arr'[x]
    BY <1>5
  <2>4. Fresh(c)'
    BY <2>1, <2>2
  <2> QED BY <2>3, <2>4 DEF Fresh, IsSorted, InFile, Size
<1>9. InMemory' /\ OneWindow'
  BY <1>1, <1>4, Sizes DEF InMemory, OneWindow
<1> QED BY <1>1, <1>5, <1>6, <1>7, <1>8, <1>9 DEF SortInv

(* Where map_chunks takes the records from: every record goes to one place.*)
MapSource == [f \in Rec |-> InFile(arr[ChunkOf(f)], PlaceOf(f))]

LEMMA MappedFrom ==
  ASSUME TypeOK, OnePlace, ShortStays
  PROVE  /\ MapSource \in [Rec -> Rec]
         /\ \A f, g \in Rec : MapSource[f] = MapSource[g] => f = g
         /\ \A g \in Rec : \E f \in Rec : MapSource[f] = g
         /\ \A f \in Rec : InFile(arr[ChunkOf(f)], PlaceOf(f)) \in Rec
<1> DEFINE c(f) == arr[ChunkOf(f)]
<1>1. ASSUME NEW x \in Chunk PROVE arr[x] \in Chunk /\ Size(arr[x]) = Size(x)
  BY FullChunks, ChunkFacts
<1>2. ASSUME NEW f \in Rec
      PROVE  /\ ChunkOf(f) \in Chunk /\ c(f) \in Chunk
             /\ PlaceOf(f) \in 1 .. Size(c(f))
             /\ f = InFile(ChunkOf(f), PlaceOf(f))
             /\ InFile(c(f), PlaceOf(f)) \in Rec
             /\ ChunkOf(InFile(c(f), PlaceOf(f))) = c(f)
             /\ PlaceOf(InFile(c(f), PlaceOf(f))) = PlaceOf(f)
  <2>1. /\ ChunkOf(f) \in Chunk /\ PlaceOf(f) \in 1 .. Size(ChunkOf(f))
        /\ f = InFile(ChunkOf(f), PlaceOf(f))
    BY RecFacts
  <2>2. c(f) \in Chunk /\ PlaceOf(f) \in 1 .. Size(c(f))
    BY <1>1, <2>1
  <2> HIDE DEF c
  <2> QED BY <2>1, <2>2, ChunkFacts
<1>3. \A f \in Rec : MapSource[f] = InFile(c(f), PlaceOf(f))
  BY DEF MapSource
<1>4. MapSource \in [Rec -> Rec]
  BY <1>2 DEF MapSource
<1>5. \A f, g \in Rec : MapSource[f] = MapSource[g] => f = g
  <2> SUFFICES ASSUME NEW f \in Rec, NEW g \in Rec, MapSource[f] = MapSource[g] PROVE f = g
    OBVIOUS
  <2>1. c(f) = c(g) /\ PlaceOf(f) = PlaceOf(g)
    <3> HIDE DEF c
    <3>1. InFile(c(f), PlaceOf(f)) = InFile(c(g), PlaceOf(g))
      BY <1>3
    <3> QED BY <1>2, <3>1
  <2>2. ChunkOf(f) = ChunkOf(g)
    BY <1>2, <2>1 DEF OnePlace
  <2> QED BY <1>2, <2>1, <2>2
<1>6. \A g \in Rec : \E f \in Rec : MapSource[f] = g
  <2> TAKE g \in Rec
  <2>1. /\ ChunkOf(g) \in Chunk /\ PlaceOf(g) \in 1 .. Size(ChunkOf(g))
        /\ g = InFile(ChunkOf(g), PlaceOf(g))
    BY RecFacts
  <2>2. PICK x \in Chunk : arr[x] = ChunkOf(g)
    BY <2>1 DEF OnePlace
  <2>3. PlaceOf(g) \in 1 .. Size(x)
    BY <1>1, <2>1, <2>2
  <2> DEFINE f == InFile(x, PlaceOf(g))
  <2>4. f \in Rec /\ ChunkOf(f) = x /\ PlaceOf(f) = PlaceOf(g)
    BY <2>3, ChunkFacts
  <2>5. MapSource[f] = g
    BY <1>3, <2>1, <2>2, <2>4
  <2> QED BY <2>4, <2>5
<1> QED BY <1>2, <1>4, <1>5, <1>6

LEMMA MapKeeps == ASSUME SortInv, MapFile PROVE SortInv'
<1>1. /\ pc = "map" /\ pc' = "done"
      /\ file' = [f \in Rec |-> file[InFile(arr[ChunkOf(f)], PlaceOf(f))]]
      /\ UNCHANGED <<buf, arr, min, max, odd, i>>
  BY DEF MapFile, ChunkOf
<1>2. TypeOK /\ OnePlace /\ ShortStays
  BY DEF SortInv
<1>3. TypeOK'
  <2>1. \A f \in Rec : InFile(arr[ChunkOf(f)], PlaceOf(f)) \in Rec
    BY <1>2, MappedFrom
  <2>2. file' \in [Rec -> Key]
    BY <1>1, <1>2, <2>1 DEF TypeOK
  <2> QED BY <1>1, <1>2, <2>2 DEF TypeOK
<1>4. OnePlace' /\ ShortStays'
  BY <1>1, SameOrder DEF SortInv
<1>5. Visited' /\ InMemory' /\ OneWindow'
  BY <1>1 DEF SortInv, Visited, InMemory, OneWindow
<1> QED BY <1>1, <1>3, <1>4, <1>5 DEF SortInv

LEMMA StepSort == ASSUME SortInv, [Next]_vars PROVE SortInv'
<1>1. CASE LoadWindow
  BY <1>1, LoadKeeps
<1>2. CASE SortWindow
  BY <1>2, SortKeeps
<1>3. CASE WriteWindow
  BY <1>3, WriteKeeps
<1>4. CASE Check
  BY <1>4, CheckKeeps
<1>5. CASE Rearrange
  BY <1>5, RearrangeKeeps
<1>6. CASE MapFile
  BY <1>6, MapKeeps
<1>7. CASE UNCHANGED vars
  <2>1. UNCHANGED <<file, buf, arr, min, max, odd, i, pc>>
    BY <1>7 DEF vars
  <2>2. TypeOK' /\ OnePlace' /\ ShortStays'
    BY <2>1, SameOrder DEF SortInv, TypeOK
  <2>3. Visited'
    BY <2>1, SameKeys DEF SortInv, Visited
  <2>4. InMemory'
    <3>1. Window' = Window /\ \A m : Home(m)' = Home(m)
      BY <2>1, SameWindow
    <3> QED BY <2>1, <3>1 DEF SortInv, InMemory, EquallyOften
  <2>5. OneWindow' /\ (pc' = "map" => ChunksAreSorted')
    BY <2>1 DEF SortInv, OneWindow, ChunksAreSorted
  <2> QED BY <2>2, <2>3, <2>4, <2>5 DEF SortInv
<1> QED BY <1>1, <1>2, <1>3, <1>4, <1>5, <1>6, <1>7 DEF Next, Done

(* SortInv holds in every state of every sort. *)
THEOREM SortInvariant == Spec => []SortInv
BY InitSort, StepSort, PTL DEF Spec

(* The sort only ever has keys of the file, chunks of the file and indices *)
(* of chunk_array in its hands.                                            *)
THEOREM SortTyped == Spec => []TypeOK
<1>1. SortInv => TypeOK
  BY DEF SortInv
<1> QED BY <1>1, SortInvariant, PTL

(* MetadataFresh, for every file: whenever chunks_are_sorted or            *)
(* sort_buffer_seq reads min and max they are those of the data.           *)
THEOREM MetadataIsFresh == Spec => []MetadataFresh
<1>1. SortInv => MetadataFresh
  <2> SUFFICES ASSUME SortInv, (pc = "load" /\ i >= NumChunks) \/ pc = "rearrange", NEW c \in Chunk
               PROVE  Fresh(c)
    BY DEF MetadataFresh, Fresh
  <2>1. PICK x \in Chunk : arr[x] = c
    BY DEF SortInv, OnePlace
  <2>2. CASE pc = "rearrange"
    BY <2>2 DEF SortInv, Visited
  <2>3. CASE pc = "load" /\ i >= NumChunks
    <3>1. x < i
      BY <2>3, Sizes DEF SortInv, TypeOK, Chunk
    <3> QED BY <2>1, <2>3, <3>1 DEF SortInv, Visited
  <2> QED BY <2>2, <2>3
<1> QED BY <1>1, SortInvariant, PTL

(* WindowsContiguous, for every file: what the sort threads are given has  *)
(* no hole in it.                                                          *)
THEOREM WindowsAreContiguous == Spec => []WindowsContiguous
<1>1. SortInv => WindowsContiguous
  <2> SUFFICES ASSUME SortInv, pc = "sort", NEW j \in Slots, j # LoadCount
               PROVE  Size(InSlot(j)) = ChunkSize
    BY DEF WindowsContiguous
  <2>1. Working
    BY DEF SortInv, InMemory, Working
  <2> QED BY <2>1, CountFacts
<1> QED BY <1>1, SortInvariant, PTL

-----------------------------------------------------------------------------
(***************************************************************************)
(* The sort of the file                                                    *)
(***************************************************************************)
(* map_chunks only moves records. *)
LEMMA MapLosesNothing ==
  ASSUME SortInv, MapFile
  PROVE  EquallyOften(file', file, Rec)
<1>1. TypeOK /\ OnePlace /\ ShortStays
  BY DEF SortInv
<1>2. /\ MapSource \in [Rec -> Rec]
      /\ \A f, g \in Rec : MapSource[f] = MapSource[g] => f = g
      /\ \A g \in Rec : \E f \in Rec : MapSource[f] = g
  BY <1>1, MappedFrom
<1>3. \A f \in Rec : file'[f] = file[MapSource[f]]
  BY DEF MapFile, MapSource, ChunkOf
<1>4. IsFiniteSet(Rec)
  <2>1. 1 \in Int /\ NumRecs \in Int
    BY Sizes
  <2> QED BY <2>1, FS_Interval DEF Rec
<1>5. ASSUME NEW k \in Key
      PROVE  Cardinality({ f \in Rec : file'[f] = k }) = Cardinality({ f \in Rec : file[f] = k })
  <2> DEFINE S == { f \in Rec : file'[f] = k }
             T == { f \in Rec : file[f] = k }
             h == [f \in S |-> MapSource[f]]
  <2>1. IsFiniteSet(S)
    BY <1>4, FS_Subset
  <2>2. h \in [S -> T]
    BY <1>2, <1>3
  <2>3. \A x, y \in S : h[x] = h[y] => x = y
    BY <1>2
  <2>4. \A y \in T : \E x \in S : h[x] = y
    BY <1>2, <1>3
  <2> HIDE DEF h, S, T
  <2>5. Cardinality(T) = Cardinality(S)
    BY <2>1, <2>2, <2>3, <2>4, OneToOneSameSize
  <2> QED BY <2>5 DEF S, T
<1> QED BY <1>5 DEF EquallyOften

(* Chunks that are sorted and in order make a sorted file, once each is    *)
(* where its struct is.                                                    *)
LEMMA MapSorts ==
  ASSUME SortInv, MapFile
  PROVE  IsSorted(file', 1, NumRecs)
<1>1. /\ TypeOK /\ OnePlace /\ ShortStays
      /\ \A c \in Chunk : Fresh(c)
      /\ ChunksAreSorted
      /\ \A f \in Rec : file'[f] = file[InFile(arr[ChunkOf(f)], PlaceOf(f))]
  BY DEF SortInv, Visited, MapFile, ChunkOf
<1>2. \A x \in Chunk : arr[x] \in Chunk /\ Size(arr[x]) = Size(x)
  BY <1>1, FullChunks, ChunkFacts
<1> SUFFICES ASSUME NEW f \in 2 .. NumRecs PROVE file'[f - 1] <= file'[f]
  BY DEF IsSorted
<1> DEFINE x == ChunkOf(f)
           r == PlaceOf(f)
<1>3. f \in Rec /\ f - 1 \in Rec
  BY Sizes DEF Rec
<1>4. x \in Chunk /\ r \in 1 .. Size(x) /\ f = InFile(x, r) /\ Size(x) \in 1 .. ChunkSize
  BY <1>3, RecFacts, ChunkFacts
<1>5. x \in Nat /\ x * ChunkSize \in Nat /\ ChunkSize \in Nat \ {0} /\ f = x * ChunkSize + r
  BY <1>4, Sizes DEF Chunk, InFile
<1> HIDE DEF x, r
<1>6. file'[f] = file[InFile(arr[x], r)]
  BY <1>1, <1>3 DEF x, r
<1>7. CASE r # 1
  <2>1. r - 1 \in 1 .. Size(x) /\ f - 1 = InFile(x, r - 1)
    BY <1>4, <1>5, <1>7 DEF InFile
  <2>2. ChunkOf(f - 1) = x /\ PlaceOf(f - 1) = r - 1
    BY <1>4, <2>1, ChunkFacts
  <2>3. file'[f - 1] = file[InFile(arr[x], r - 1)]
    BY <1>1, <1>3, <2>2
  <2>4. file[InFile(arr[x], r - 1)] <= file[InFile(arr[x], r)]
    <3>1. PICK c \in Chunk : c = arr[x] /\ Size(c) = Size(x)
      BY <1>2, <1>4
    <3>2. IsSorted(file, InFile(c, 1), InFile(c, Size(c)))
      BY <1>1 DEF Fresh
    <3>3. c * ChunkSize \in Nat
      BY <1>5 DEF Chunk
    <3>4. InFile(c, r) \in InFile(c, 1) + 1 .. InFile(c, Size(c)) /\ InFile(c, r) - 1 = InFile(c, r - 1)
      BY <1>4, <1>7, <3>1, <3>3 DEF InFile
    <3>5. file[InFile(c, r) - 1] <= file[InFile(c, r)]
      BY <3>2, <3>4 DEF IsSorted
    <3> QED BY <3>1, <3>4, <3>5
  <2> QED BY <1>6, <2>3, <2>4
<1>8. CASE r = 1
  <2>1. x # 0
    BY <1>5, <1>8
  <2>2. x \in Chunk \ {0} /\ x - 1 \in Chunk /\ x - 1 # NumChunks - 1 /\ x - 1 \in Nat
    BY <1>4, <2>1, Sizes DEF Chunk
  <2>3. Size(x - 1) = ChunkSize /\ Size(arr[x - 1]) = ChunkSize
    BY <1>2, <2>2, ChunkFacts
  <2>4. f - 1 = InFile(x - 1, ChunkSize) /\ ChunkSize \in 1 .. Size(x - 1)
    <3>1. x * ChunkSize = (x - 1) * ChunkSize + ChunkSize
      BY <1>5, <2>2, Product
    <3> QED BY <1>5, <1>8, <2>2, <2>3, <3>1 DEF InFile
  <2>5. ChunkOf(f - 1) = x - 1 /\ PlaceOf(f - 1) = ChunkSize
    BY <2>2, <2>4, ChunkFacts
  <2>6. file'[f - 1] = file[InFile(arr[x - 1], ChunkSize)]
    BY <1>1, <1>3, <2>5
  <2>7. file'[f - 1] = max[arr[x - 1]] /\ file'[f] = min[arr[x]]
    BY <1>1, <1>2, <1>6, <1>8, <2>2, <2>3, <2>6 DEF Fresh
  <2>8. max[arr[x - 1]] <= min[arr[x]]
    BY <1>1, <2>2 DEF ChunksAreSorted
  <2> QED BY <2>7, <2>8
<1> QED BY <1>7, <1>8

(* Every step of the sort is a step of its promise, or changes nothing     *)
(* that the promise speaks of.                                             *)
LEMMA StepSortsFile ==
  ASSUME SortInv, SortInv', [Next]_vars
  PROVE  [Promised!Next]_(Promised!vars)
<1>1. file' \in [1 .. NumRecs -> Key]
  BY DEF SortInv, TypeOK, Rec
<1>2. ASSUME EquallyOften(file', file, Rec) PROVE Promised!SameRecords(file, file')
  <2> SUFFICES ASSUME NEW k \in Key
               PROVE  Cardinality({ x \in Rec : file[x] = k }) = Cardinality({ x \in Rec : file'[x] = k })
    <3>1. \A S : Promised!Cardinality(S) = Cardinality(S)
      BY DEF Promised!Cardinality, Cardinality
    <3> QED BY <3>1 DEF Promised!SameRecords, Rec
  <2> QED BY <1>2 DEF EquallyOften
<1>3. CASE WriteWindow
  <2>1. Working /\ InMemory /\ pc = "write" /\ pc' = "load" /\ file' = Written
    BY <1>3 DEF WriteWindow, SortInv, InMemory, Working
  <2>2. EquallyOften(file', file, Rec)
    BY <2>1, WrittenFacts
  <2>3. Promised!Rearrange
    BY <1>1, <1>2, <2>1, <2>2 DEF Promised!Rearrange, Promised!Exchange
  <2> QED BY <2>3 DEF Promised!Next
<1>4. CASE MapFile
  <2>1. pc = "map" /\ pc' = "done"
    BY <1>4 DEF MapFile
  <2>2. EquallyOften(file', file, Rec) /\ IsSorted(file', 1, NumRecs)
    BY <1>4, MapLosesNothing, MapSorts
  <2>3. Promised!Finish
    BY <1>1, <1>2, <2>1, <2>2 DEF Promised!Finish, Promised!Exchange, Promised!IsSorted, IsSorted
  <2> QED BY <2>3 DEF Promised!Next
<1>5. CASE LoadWindow \/ SortWindow \/ Check \/ Rearrange \/ Done \/ UNCHANGED vars
  <2>1. file' = file /\ (pc' = "done") = (pc = "done")
    BY <1>5 DEF LoadWindow, SortWindow, Check, Rearrange, Done, vars
  <2> QED BY <2>1 DEF Promised!vars
<1> QED BY <1>3, <1>4, <1>5 DEF Next

(* SortsFile: no step of the passes or of the mapping loses or doubles a   *)
(* record, and the file is sorted when the program ends, whatever its      *)
(* length and content.                                                     *)
THEOREM PassesSortFile == Spec => SortsFile
<1>1. Init => Promised!Init
  BY DEF Init, Promised!Init, Rec
<1> QED BY <1>1, SortInvariant, StepSortsFile, PTL DEF Spec, SortsFile, Promised!Spec

-----------------------------------------------------------------------------
(***************************************************************************)
(* The division of the file and of the buffer, for every size of either:   *)
(* what parallel_sort is given to work with.                               *)
(***************************************************************************)
DivisionTyped == /\ fileSize \in Nat /\ bufferSize \in Nat /\ chunkSize \in Nat
                 /\ numChunks \in Nat /\ lastSize \in Int /\ cacheSize \in Nat
                 /\ step \in {"maximize", "quarter", "divide", "slots",
                            "exited", "corrupted", "divided"}

WholeRecords(n) == \E k \in Nat : n = k * RecordSize

(* numChunks chunks of chunkSize are just enough for the file. *)
Covers == /\ chunkSize * numChunks >= fileSize
          /\ chunkSize * numChunks < fileSize + chunkSize

ChunkFits == /\ chunkSize > 0 /\ chunkSize <= bufferSize
             /\ Covers

FourFit == numChunks > 1 => 4 * chunkSize <= bufferSize

DivisionInv ==
  /\ DivisionTyped
  /\ WholeRecords(fileSize) /\ WholeRecords(chunkSize)
  /\ step = "maximize" => chunkSize > 0
  /\ step \in {"quarter", "divide", "slots", "divided"} => ChunkFits /\ bufferSize >= MinBuffer
  /\ step \in {"divide", "slots", "divided"} => FourFit
  /\ step \in {"slots", "divided"} =>
       numChunks > 0 /\ lastSize = fileSize - chunkSize * (numChunks - 1)
  /\ step = "divided" => cacheSize = bufferSize \div chunkSize

-----------------------------------------------------------------------------
LEMMA Bounds ==
  ASSUME NEW x \in Nat, NEW b \in Nat \ {0}
  PROVE  /\ x \div b \in Nat
         /\ (x \div b) * b <= x /\ x < (x \div b) * b + b
         /\ x % b \in Nat /\ (x % b = 0 => x = (x \div b) * b)
<1>1. x \div b \in Nat /\ (x \div b) * b <= x /\ x < (x \div b) * b + b
  OBVIOUS
<1>2. x % b \in Nat
  OBVIOUS
<1>3. x % b = 0 => x = (x \div b) * b
  OBVIOUS
<1> QED BY <1>1, <1>2, <1>3

LEMMA CeildFacts ==
  ASSUME NEW x \in Nat, NEW b \in Nat \ {0}
  PROVE  /\ Ceild(x, b) \in Nat
         /\ b * Ceild(x, b) >= x /\ b * Ceild(x, b) < x + b
<1> DEFINE d == x \div b
<1>1. /\ d \in Nat /\ d * b <= x /\ x < d * b + b
      /\ x % b \in Nat /\ x = d * b + (x % b)
  BY Bounds, Division
<1>2. Ceild(x, b) = IF x % b # 0 THEN d + 1 ELSE d
  BY DEF Ceild
<1> HIDE DEF d
<1>3. b * (d + 1) = d * b + b /\ b * d = d * b /\ d * b \in Nat
  <2>1. \A n \in Nat, a \in Nat : a * (n + 1) = n * a + a /\ a * n = n * a /\ n * a \in Nat
    OBVIOUS
  <2> QED BY <1>1, <2>1
<1>4. CASE x % b = 0
  BY <1>1, <1>2, <1>3, <1>4
<1>5. CASE x % b # 0
  <2>1. Ceild(x, b) = d + 1 /\ d * b < x
    BY <1>1, <1>2, <1>3, <1>5
  <2> QED BY <1>1, <1>3, <2>1
<1> QED BY <1>4, <1>5

LEMMA AlignFacts ==
  ASSUME NEW x \in Nat, x >= RecordSize
  PROVE  Align(x) \in Nat /\ Align(x) > 0 /\ Align(x) <= x /\ WholeRecords(Align(x))
<1> DEFINE d == x \div RecordSize
<1>1. d \in Nat /\ d * RecordSize <= x /\ x < d * RecordSize + RecordSize
  BY Bounds, SizeAssumption
<1>2. Align(x) = d * RecordSize
  BY DEF Align
<1> HIDE DEF d
<1>3. d * RecordSize \in Nat /\ d * RecordSize > 0
  BY <1>1, SizeAssumption
<1> QED BY <1>1, <1>2, <1>3 DEF WholeRecords

LEMMA InitDivision == DivisionInit => DivisionInv
<1> SUFFICES ASSUME DivisionInit PROVE DivisionInv
  OBVIOUS
<1>1. PICK n \in 0 .. MaxRecords : fileSize = n * RecordSize
  BY DEF DivisionInit
<1>2. fileSize \in Nat /\ WholeRecords(fileSize)
  BY <1>1, SizeAssumption DEF WholeRecords
<1>3. WholeRecords(MaxChunk)
  <2>1. MaxChunk = (MaxChunk \div RecordSize) * RecordSize /\ MaxChunk \div RecordSize \in Nat
    BY Bounds, SizeAssumption
  <2> QED BY <2>1 DEF WholeRecords
<1> QED BY <1>2, <1>3, SizeAssumption DEF DivisionInit, DivisionInv, DivisionTyped

LEMMA MaximizeKeeps == ASSUME DivisionInv, Maximize PROVE DivisionInv'
<1> DEFINE size == IF chunkSize > bufferSize THEN Align(bufferSize) ELSE chunkSize
<1>1. /\ step = "maximize" /\ bufferSize >= MinBuffer /\ step' = "quarter"
      /\ chunkSize' = size /\ numChunks' = Ceild(fileSize, size)
      /\ UNCHANGED <<fileSize, bufferSize, lastSize, cacheSize>>
  BY DEF Maximize
<1>2. DivisionTyped /\ WholeRecords(fileSize) /\ WholeRecords(chunkSize) /\ chunkSize > 0
  BY <1>1 DEF DivisionInv
<1>3. bufferSize >= RecordSize
  BY <1>1, <1>2, SizeAssumption DEF MinBuffer, DivisionTyped
<1>4. size \in Nat /\ size > 0 /\ size <= bufferSize /\ WholeRecords(size)
  BY <1>2, <1>3, AlignFacts DEF DivisionTyped
<1>5. /\ Ceild(fileSize, size) \in Nat
      /\ size * Ceild(fileSize, size) >= fileSize
      /\ size * Ceild(fileSize, size) < fileSize + size
  <2> HIDE DEF size
  <2>1. fileSize \in Nat /\ size \in Nat \ {0}
    BY <1>2, <1>4 DEF DivisionTyped
  <2> QED BY <2>1, CeildFacts
<1> HIDE DEF size
<1>6. WholeRecords(fileSize)' /\ WholeRecords(chunkSize)' /\ ChunkFits'
  BY <1>1, <1>2, <1>4, <1>5 DEF WholeRecords, ChunkFits, Covers
<1>7. DivisionTyped'
  BY <1>1, <1>2, <1>4, <1>5 DEF DivisionTyped
<1> QED BY <1>1, <1>6, <1>7 DEF DivisionInv, MinBuffer

LEMMA QuarterKeeps == ASSUME DivisionInv, Quarter PROVE DivisionInv'
<1> DEFINE split == numChunks > 1 /\ bufferSize \div chunkSize < 4
           size == IF split THEN Align(bufferSize \div 4) ELSE chunkSize
           count == IF split THEN Ceild(fileSize, size) ELSE numChunks
<1>1. /\ step = "quarter" /\ chunkSize' = size /\ numChunks' = count
      /\ step' = IF size < MinBuffer THEN "exited" ELSE "divide"
      /\ UNCHANGED <<fileSize, bufferSize, lastSize, cacheSize>>
  BY DEF Quarter, SlotsWanted
<1>2. /\ DivisionTyped /\ WholeRecords(fileSize) /\ WholeRecords(chunkSize) /\ bufferSize >= MinBuffer
      /\ chunkSize > 0 /\ chunkSize <= bufferSize /\ Covers
  BY <1>1 DEF DivisionInv, ChunkFits
<1>3. bufferSize \div 4 \in Nat /\ bufferSize \div 4 >= RecordSize
      /\ 4 * (bufferSize \div 4) <= bufferSize
  BY <1>2, SizeAssumption DEF MinBuffer, DivisionTyped
<1>4. /\ Align(bufferSize \div 4) \in Nat /\ Align(bufferSize \div 4) > 0
      /\ Align(bufferSize \div 4) <= bufferSize \div 4 /\ WholeRecords(Align(bufferSize \div 4))
  BY <1>3, AlignFacts
<1>5. size \in Nat /\ size > 0 /\ size <= bufferSize /\ WholeRecords(size)
  BY <1>2, <1>3, <1>4 DEF DivisionTyped
<1>6. count \in Nat /\ size * count >= fileSize /\ size * count < fileSize + size
  <2> HIDE DEF size
  <2>1. /\ Ceild(fileSize, size) \in Nat
        /\ size * Ceild(fileSize, size) >= fileSize
        /\ size * Ceild(fileSize, size) < fileSize + size
    BY <1>2, <1>5, CeildFacts DEF DivisionTyped
  <2>2. CASE ~ split
    BY <1>2, <2>2 DEF DivisionTyped, Covers, size
  <2> QED BY <2>1, <2>2
<1>7. count > 1 => 4 * size <= bufferSize
  <2>1. CASE split
    BY <1>2, <1>3, <1>4, <2>1 DEF DivisionTyped
  <2>2. CASE ~ split
    <3>1. size = chunkSize /\ count = numChunks
      BY <2>2
    <3>2. numChunks > 1 => bufferSize \div chunkSize >= 4
      BY <1>2, <2>2 DEF DivisionTyped
    <3>3. bufferSize \div chunkSize \in Nat /\ (bufferSize \div chunkSize) * chunkSize <= bufferSize
      BY <1>2, Bounds DEF DivisionTyped
    <3> DEFINE d == bufferSize \div chunkSize
    <3>4. d \in Nat /\ d * chunkSize <= bufferSize /\ (numChunks > 1 => d >= 4)
      BY <3>2, <3>3
    <3> HIDE DEF d
    <3>5. d >= 4 => 4 * chunkSize <= d * chunkSize
      BY <1>2, <3>4 DEF DivisionTyped
    <3> HIDE DEF size, count
    <3> QED BY <1>2, <3>1, <3>4, <3>5 DEF DivisionTyped
  <2> QED BY <2>1, <2>2
<1> HIDE DEF split, size, count
<1>8. WholeRecords(fileSize)' /\ WholeRecords(chunkSize)' /\ ChunkFits' /\ FourFit'
  BY <1>1, <1>2, <1>5, <1>6, <1>7 DEF WholeRecords, ChunkFits, Covers, FourFit
<1>9. DivisionTyped'
  BY <1>1, <1>2, <1>5, <1>6 DEF DivisionTyped
<1> QED BY <1>1, <1>2, <1>8, <1>9 DEF DivisionInv, MinBuffer

LEMMA RestKeeps ==
  ASSUME DivisionInv,
         \/ BufferTooSmall \/ Divide \/ InitChunkCache
         \/ DivisionDone \/ UNCHANGED divisionVars
  PROVE  DivisionInv'
<1>1. CASE BufferTooSmall
  BY <1>1 DEF BufferTooSmall, DivisionInv, DivisionTyped, WholeRecords
<1>2. CASE Divide
  <2>1. chunkSize * numChunks \in Nat /\ chunkSize * (numChunks - 1) \in Int
    BY DEF DivisionInv, DivisionTyped
  <2>2. DivisionTyped'
    BY <1>2, <2>1 DEF Divide, DivisionInv, DivisionTyped
  <2>3. step = "divide" /\ step' \in {"corrupted", "slots"}
        /\ UNCHANGED <<fileSize, bufferSize, chunkSize, numChunks, cacheSize>>
    BY <1>2 DEF Divide
  <2>4. step' = "slots" => numChunks > 0 /\ lastSize' = fileSize - chunkSize * (numChunks - 1)
    BY <1>2 DEF Divide, DivisionInv, DivisionTyped
  <2>5. WholeRecords(fileSize)' /\ WholeRecords(chunkSize)' /\ ChunkFits' /\ FourFit' /\ bufferSize >= MinBuffer
    BY <2>3 DEF DivisionInv, WholeRecords, ChunkFits, Covers, FourFit
  <2> QED BY <2>2, <2>3, <2>4, <2>5 DEF DivisionInv, MinBuffer
<1>3. CASE InitChunkCache
  <2>1. bufferSize \div chunkSize \in Nat
    BY <1>3, Bounds DEF InitChunkCache, DivisionInv, DivisionTyped, ChunkFits
  <2>2. DivisionTyped'
    BY <1>3, <2>1 DEF InitChunkCache, DivisionInv, DivisionTyped
  <2> QED BY <1>3, <2>2 DEF InitChunkCache, DivisionInv, WholeRecords, ChunkFits, Covers, FourFit, MinBuffer
<1>4. CASE DivisionDone \/ UNCHANGED divisionVars
  BY <1>4 DEF DivisionDone, divisionVars, DivisionInv, DivisionTyped, WholeRecords, ChunkFits, Covers, FourFit, MinBuffer
<1> QED BY <1>1, <1>2, <1>3, <1>4

LEMMA DivisionInvariant == DivisionSpec => []DivisionInv
<1>1. DivisionInv /\ [DivisionNext]_divisionVars => DivisionInv'
  BY MaximizeKeeps, QuarterKeeps, RestKeeps DEF DivisionNext
<1> QED BY <1>1, InitDivision, PTL DEF DivisionSpec

-----------------------------------------------------------------------------
(* Whatever the file and the buffer, the chunks tile the file between      *)
(* records (cache.c:27, 34, 42-51).                                        *)
THEOREM ChunksTileTheFile == DivisionSpec => []ChunksTile
<1>1. DivisionInv => ChunksTile
  <2> SUFFICES ASSUME DivisionInv, step = "divided"
               PROVE  /\ lastSize \in 1 .. chunkSize
                      /\ chunkSize * (numChunks - 1) + lastSize = fileSize
                      /\ chunkSize % RecordSize = 0 /\ lastSize % RecordSize = 0
    BY DEF ChunksTile
  <2>1. /\ DivisionTyped /\ ChunkFits /\ numChunks > 0
        /\ lastSize = fileSize - chunkSize * (numChunks - 1)
    BY DEF DivisionInv
  <2>2. chunkSize * (numChunks - 1) = chunkSize * numChunks - chunkSize
        /\ chunkSize * numChunks \in Nat
    BY <2>1 DEF DivisionTyped
  <2>3. lastSize \in 1 .. chunkSize /\ chunkSize * (numChunks - 1) + lastSize = fileSize
    BY <2>1, <2>2 DEF DivisionTyped, ChunkFits, Covers
  <2>4. PICK k \in Nat, m \in Nat : fileSize = k * RecordSize /\ chunkSize = m * RecordSize
    BY DEF DivisionInv, WholeRecords
  <2>5. \A n \in Int : n * RecordSize \in Int /\ (n * RecordSize) % RecordSize = 0
    BY SizeAssumption
  <2>6. lastSize = (k - m * (numChunks - 1)) * RecordSize
    <3>1. \A a, b, c, r \in Int : a * r - (b * r) * c = (a - b * c) * r
      OBVIOUS
    <3>2. k \in Int /\ m \in Int /\ numChunks - 1 \in Int /\ RecordSize \in Int
      BY <2>1, SizeAssumption DEF DivisionTyped
    <3> QED BY <2>1, <2>4, <3>1, <3>2
  <2>7. k - m * (numChunks - 1) \in Int /\ m \in Int
    BY <2>1 DEF DivisionTyped
  <2> QED BY <2>3, <2>4, <2>5, <2>6, <2>7
<1> QED BY <1>1, DivisionInvariant, PTL

(* A file of several chunks has at least four slots (cache.c:30-35).       *)
THEOREM SlotsAreEnough == DivisionSpec => []EnoughSlots
<1>1. DivisionInv => EnoughSlots
  <2> SUFFICES ASSUME DivisionInv, step = "divided"
               PROVE  cacheSize >= 1 /\ (numChunks > 1 => cacheSize >= 4)
    BY DEF EnoughSlots
  <2> DEFINE d == bufferSize \div chunkSize
  <2>1. /\ DivisionTyped /\ ChunkFits /\ FourFit /\ cacheSize = d
    BY DEF DivisionInv
  <2>2. d \in Nat /\ bufferSize < d * chunkSize + chunkSize
    BY <2>1, Bounds DEF DivisionTyped, ChunkFits
  <2> HIDE DEF d
  <2>3. d * chunkSize + chunkSize = (d + 1) * chunkSize /\ d * chunkSize \in Nat
    BY <2>1, <2>2 DEF DivisionTyped
  <2>4. d # 0
    BY <2>1, <2>2, <2>3 DEF DivisionTyped, ChunkFits
  <2>5. d <= 3 => d * chunkSize <= 3 * chunkSize
    BY <2>1, <2>2 DEF DivisionTyped
  <2> QED BY <2>1, <2>2, <2>4, <2>5 DEF DivisionTyped, ChunkFits, FourFit
<1> QED BY <1>1, DivisionInvariant, PTL

(* Chunks of m for k: d that are full, and the last. *)
LEMMA LastQuotient ==
  ASSUME NEW m \in Nat \ {0}, NEW d \in Nat, NEW l \in 1 .. m, NEW k \in Nat, k = m * d + l
  PROVE  (k + m - 1) \div m = d + 1
<1>1. l - 1 \in 0 .. m - 1 /\ d + 1 \in Nat
  OBVIOUS
<1>2. (d + 1) * m = m * d + m /\ m * d \in Nat
  OBVIOUS
<1>3. k + m - 1 = (d + 1) * m + (l - 1)
  BY <1>2
<1>4. ((d + 1) * m + (l - 1)) \div m = d + 1
  BY <1>1, Quotient
<1> QED BY <1>3, <1>4

(* What parallel_sort starts from: the division leaves it a file, chunks   *)
(* and slots as the assumption of ExternalSort has them, and NumChunks     *)
(* chunks (cache.c:27-51, mysort.c:152-160).                               *)
THEOREM DivisionSuitsTheSort ==
  DivisionSpec => [](step = "divided" =>
                       LET n == fileSize \div RecordSize
                           c == chunkSize \div RecordSize
                       IN  Divided(n, c, cacheSize) /\ numChunks = (n + c - 1) \div c)
<1> DEFINE n == fileSize \div RecordSize
           c == chunkSize \div RecordSize
           Suits == step = "divided" => Divided(n, c, cacheSize) /\ numChunks = (n + c - 1) \div c
<1>1. DivisionInv /\ ChunksTile /\ EnoughSlots => Suits
  <2> SUFFICES ASSUME DivisionInv, ChunksTile, EnoughSlots, step = "divided"
               PROVE  Divided(n, c, cacheSize) /\ numChunks = (n + c - 1) \div c
    OBVIOUS
  <2>1. /\ lastSize \in 1 .. chunkSize /\ chunkSize * (numChunks - 1) + lastSize = fileSize
        /\ cacheSize >= 1 /\ (numChunks > 1 => cacheSize >= 4)
    BY DEF ChunksTile, EnoughSlots
  <2>2. /\ fileSize \in Nat /\ chunkSize \in Nat /\ cacheSize \in Nat
        /\ numChunks \in Nat \ {0} /\ RecordSize \in Nat \ {0}
    BY SizeAssumption DEF DivisionInv, DivisionTyped
  <2>3. PICK k \in Nat, m \in Nat : fileSize = k * RecordSize /\ chunkSize = m * RecordSize
    BY DEF DivisionInv, WholeRecords
  <2>4. n = k /\ c = m
    <3>1. \A q \in Nat : (q * RecordSize + 0) \div RecordSize = q /\ q * RecordSize + 0 = q * RecordSize
      BY <2>2, Quotient
    <3> QED BY <2>3, <3>1
  <2> HIDE DEF n, c
  <2>5. m \in Nat \ {0} /\ k \in Nat \ {0}
    <3>1. 0 * RecordSize = 0 /\ chunkSize >= 1 /\ chunkSize * (numChunks - 1) \in Nat
      BY <2>1, <2>2
    <3>2. fileSize >= 1
      BY <2>1, <2>2, <3>1
    <3> QED BY <2>2, <2>3, <3>1, <3>2
  <2> DEFINE d == numChunks - 1
             l == k - m * d
  <2>6. d \in Nat /\ l \in Int /\ m * d \in Nat /\ k = m * d + l /\ lastSize = l * RecordSize
    <3>1. d \in Nat /\ m * d \in Nat /\ l \in Int /\ k = m * d + l
      BY <2>2, <2>5
    <3>2. \A a, b, e, r \in Int : a * r - (b * r) * e = (a - b * e) * r
      OBVIOUS
    <3>3. lastSize = k * RecordSize - (m * RecordSize) * d
      BY <2>1, <2>2, <2>3
    <3> QED BY <2>2, <2>3, <3>1, <3>2, <3>3
  <2> HIDE DEF d, l
  <2>7. l \in 1 .. m
    <3>1. l * RecordSize >= 1 /\ l * RecordSize <= m * RecordSize
      BY <2>1, <2>2, <2>3, <2>6
    <3>2. ~ (l <= 0)
      <4>1. \A x \in Int, y \in Nat : x <= 0 => x * y <= 0
        OBVIOUS
      <4> QED BY <2>2, <2>6, <3>1, <4>1
    <3>3. ~ (m < l)
      <4> SUFFICES ASSUME m < l PROVE FALSE
        OBVIOUS
      <4>1. l \in Nat
        BY <2>6, <3>2
      <4>2. m * RecordSize + RecordSize <= l * RecordSize
        BY <2>2, <2>5, <4>1, Product
      <4>3. m * RecordSize \in Nat /\ l * RecordSize \in Nat
        BY <2>2, <2>5, <4>1
      <4> QED BY <2>2, <3>1, <4>2, <4>3
    <3> QED BY <2>5, <2>6, <3>2, <3>3
  <2>8. (k + m - 1) \div m = numChunks
    BY <2>2, <2>5, <2>6, <2>7, LastQuotient DEF d
  <2>9. k > m => cacheSize >= 4
    <3>1. d = 0 => m * d = 0
      BY <2>5
    <3>2. numChunks = d + 1
      BY <2>2 DEF d
    <3> QED BY <2>1, <2>2, <2>5, <2>6, <2>7, <3>1, <3>2
  <2> QED BY <2>1, <2>2, <2>4, <2>5, <2>8, <2>9 DEF Divided
<1>2. DivisionSpec => []Suits
  BY <1>1, DivisionInvariant, ChunksTileTheFile, SlotsAreEnough, PTL
<1> QED BY <1>2

=============================================================================
