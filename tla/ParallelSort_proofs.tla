------------------------ MODULE ParallelSort_proofs ------------------------
(***************************************************************************)
(* Theorems about ParallelSort, for every number of threads, every window  *)
(* size and every set of keys.                                             *)
(***************************************************************************)
EXTENDS ParallelSort, FiniteSetTheorems, WellFoundedInduction, TLAPS

-----------------------------------------------------------------------------
(***************************************************************************)
(* Buffers of records, of every length and with keys of every value        *)
(***************************************************************************)
(* A nonempty set of natural numbers has a smallest element. *)
LEMMA SmallestNumber ==
  ASSUME NEW S \in SUBSET Nat, S # {}
  PROVE  \E n \in S : \A m \in S : n <= m
<1> DEFINE R == { ss \in Nat \X Nat : ss[1] < ss[2] }
<1>1. IsWellFoundedOn(R, Nat)
  BY NatLessThanWellFounded DEF OpToRel
<1> HIDE DEF R
<1>2. PICK n \in S : \A m \in S : ~ (<<m, n>> \in R)
  BY <1>1, WFMin
<1>3. \A m \in S : m < n => <<m, n>> \in R
  BY DEF R
<1>4. \A m \in S : n <= m
  <2> TAKE m \in S
  <2>1. m \in Nat /\ n \in Nat
    OBVIOUS
  <2>2. ~ (m < n)
    BY <1>2, <1>3
  <2> QED BY <2>1, <2>2
<1> QED BY <1>4

(* buffer_is_sorted compares neighbours only; that orders any two records. *)
LEMMA SortedPairs ==
  ASSUME NEW b, NEW lo \in Int, NEW hi \in Int,
         \A i \in lo .. hi : b[i] \in Int,
         IsSorted(b, lo, hi),
         NEW p \in lo .. hi, NEW q \in lo .. hi, p <= q
  PROVE  b[p] <= b[q]
<1> DEFINE Bad == { d \in Nat : p + d <= hi /\ ~ (b[p] <= b[p + d]) }
<1>1. SUFFICES ASSUME ~ (b[p] <= b[q]) PROVE FALSE
  OBVIOUS
<1>2. q - p \in Bad
  <2>1. q - p \in Nat /\ p + (q - p) = q /\ q <= hi
    OBVIOUS
  <2> QED BY <1>1, <2>1
<1>3. PICK d \in Bad : \A m \in Bad : d <= m
  <2>1. Bad \in SUBSET Nat
    OBVIOUS
  <2> QED BY <1>2, <2>1, SmallestNumber
<1>4. d \in Nat /\ p + d \in lo .. hi /\ ~ (b[p] <= b[p + d])
  OBVIOUS
<1>5. d # 0
  BY <1>4
<1>6. b[p] <= b[p + (d - 1)]
  <2>1. d - 1 \in Nat /\ p + (d - 1) <= hi /\ ~ (d <= d - 1)
    BY <1>4, <1>5
  <2>2. d - 1 \notin Bad
    BY <1>3, <2>1
  <2> QED BY <2>1, <2>2
<1>7. b[p + (d - 1)] <= b[p + d]
  <2>1. p + d \in lo + 1 .. hi /\ (p + d) - 1 = p + (d - 1)
    BY <1>4, <1>5
  <2>2. b[(p + d) - 1] <= b[p + d]
    BY <2>1 DEF IsSorted
  <2> QED BY <2>1, <2>2
<1>8. p + (d - 1) \in lo .. hi
  BY <1>4, <1>5
<1> QED BY <1>4, <1>6, <1>7, <1>8

(* A record is never lost in a rearrangement, and shuffling part of the    *)
(* buffer rearranges it.                                                   *)
LEMMA ShuffleRearranges ==
  ASSUME NEW D, NEW V, NEW a \in [D -> V], NEW b \in [D -> V],
         Rearranged(a, b),
         NEW S \in SUBSET D, NEW f \in Perms(S)
  PROVE  Rearranged(a, Shuffle(b, S, f))
<1>1. PICK g \in Perms(D) : b = Shuffle(a, D, g)
  BY DEF Rearranged
<1>2. g \in [D -> D] /\ \A y \in D : \E x \in D : g[x] = y
  BY DEF Perms
<1>3. f \in [S -> S] /\ \A y \in S : \E x \in S : f[x] = y
  BY DEF Perms
<1>4. \A i \in D : b[i] = a[g[i]]
  BY <1>1 DEF Shuffle
<1> DEFINE h == [i \in D |-> IF i \in S THEN g[f[i]] ELSE g[i]]
<1>5. h \in Perms(D)
  <2>1. h \in [D -> D]
    BY <1>2, <1>3
  <2>2. ASSUME NEW y \in D PROVE \E x \in D : h[x] = y
    <3>1. PICK x \in D : g[x] = y
      BY <1>2
    <3>2. CASE x \in S
      <4>1. PICK z \in S : f[z] = x
        BY <1>3, <3>2
      <4>2. z \in D /\ h[z] = y
        BY <3>1, <4>1
      <4> QED BY <4>2
    <3>3. CASE x \notin S
      BY <3>1, <3>3
    <3> QED BY <3>2, <3>3
  <2> QED BY <2>1, <2>2 DEF Perms
<1>6. Shuffle(b, S, f) = Shuffle(a, D, h)
  BY <1>2, <1>3, <1>4 DEF Shuffle
<1> QED BY <1>5, <1>6 DEF Rearranged

(* A buffer is a rearrangement of itself. *)
LEMMA RearrangedSelf ==
  ASSUME NEW D, NEW V, NEW a \in [D -> V]
  PROVE  Rearranged(a, a)
<1> DEFINE id == [i \in D |-> i]
<1>1. id \in Perms(D)
  BY DEF Perms
<1>2. a = Shuffle(a, D, id)
  BY DEF Shuffle
<1> QED BY <1>1, <1>2 DEF Rearranged

(* A shuffle keeps a buffer a buffer, and leaves the other positions alone.*)
LEMMA ShuffleType ==
  ASSUME NEW D, NEW V, NEW b \in [D -> V], NEW S \in SUBSET D, NEW f \in Perms(S)
  PROVE  /\ Shuffle(b, S, f) \in [D -> V]
         /\ \A i \in D \ S : Shuffle(b, S, f)[i] = b[i]
         /\ \A i \in S : f[i] \in S /\ Shuffle(b, S, f)[i] = b[f[i]]
BY DEF Shuffle, Perms

-----------------------------------------------------------------------------
(***************************************************************************)
(* The invariants                                                          *)
(***************************************************************************)

(* A thread that is sorting has a job; only a thread that is sorting has   *)
(* parts on its stack.                                                     *)
Stacks == \A w \in Worker : IF pc[w] \in {"run", "signal"}
                            THEN op[w] = "SORT_WINDOW"
                            ELSE work[w] = {}

(* WP.lock is a mutex. *)
OneSignaller == \A s, t \in Thread : pc[s] = "signal" /\ pc[t] = "signal" => s = t

(* A thread that is about to signal has a worker to signal. *)
Targets == \A t \in Thread : pc[t] = "signal" => target[t] \in Worker

(* The counter lags behind by the job that is being handed out. *)
Counter == free = Cardinality(Idle) + (IF LockFree THEN 0 ELSE 1)

(* terminate is set at the very end. *)
TerminateLast == terminate => pc[Main] \in {"return", "exited"}

(* Two records out of order are in a part that somebody is going to sort.  *)
Ordered ==
  pc[Main] \notin {"load", "schedule"} =>
    \A p, q \in Pos :
      p < q => \/ buf[p] <= buf[q]
               \/ \E w \in Worker : \E a \in Pending(w) : {p, q} \subseteq Region(a)

(* The inductive invariant of the control of the pool ... *)
PoolInv == /\ TypeOK
           /\ Targets
           /\ Stacks
           /\ OneSignaller
           /\ Counter
           /\ TerminateLast
           /\ QuietOutsideSort

(* ... and of the window.  With an empty pool nothing is ever sorted. *)
SortInv == /\ PartsDisjoint
           /\ NumThreads # 0 => Ordered
           /\ Rearranged(loaded, buf)

(* The two outcomes of schedule for the window. *)
WindowTaken ==
  /\ pc[Main] = "schedule"
  /\ Publish(Main, [lo |-> 1, hi |-> N, try |-> FALSE])
  /\ pc' = [pc EXCEPT ![Main] = "signal"]
  /\ UNCHANGED work

WindowRefused ==
  /\ pc[Main] = "schedule"
  /\ Refused
  /\ pc' = [pc EXCEPT ![Main] = "waitall"]
  /\ UNCHANGED <<buf, loaded, windows, op, job, free, terminate, target, work>>

LEMMA ScheduleSplit == ScheduleWindow => WindowTaken \/ WindowRefused
BY DEF ScheduleWindow, WindowTaken, WindowRefused

-----------------------------------------------------------------------------
(***************************************************************************)
(* The pool                                                                *)
(***************************************************************************)
LEMMA WorkerFacts ==
  /\ NumWorkers \in Nat
  /\ Main \notin Worker
  /\ IsFiniteSet(Worker)
  /\ Cardinality(Worker) = NumWorkers
  /\ NumThreads # 0 => NumWorkers # 0
<1>1. NumWorkers \in Nat /\ (NumThreads # 0 => NumWorkers # 0)
  BY PoolAssumption DEF NumWorkers
<1>2. Main \notin Worker
  BY DEF Main, Worker
<1>3. IsFiniteSet(Worker) /\ Cardinality(Worker) = NumWorkers
  <2>1. /\ IsFiniteSet(1 .. NumWorkers)
        /\ Cardinality(1 .. NumWorkers) = IF 1 > NumWorkers THEN 0 ELSE NumWorkers - 1 + 1
    BY <1>1, FS_Interval
  <2> QED BY <1>1, <2>1 DEF Worker
<1> QED BY <1>1, <1>2, <1>3

(* The halves of a part are parts. *)
LEMMA HalvesType ==
  ASSUME NEW part \in Part, NEW q \in Region(part)
  PROVE  Halves(part, q) \in SUBSET Part
<1>1. q \in 1 .. N /\ part.lo \in 1 .. N + 1 /\ part.hi \in 0 .. N
      /\ part.lo <= q /\ q <= part.hi /\ N \in Nat
  BY PoolAssumption DEF Part, Region
<1>2. ASSUME NEW ask \in BOOLEAN
      PROVE  /\ q # part.lo => [lo |-> part.lo, hi |-> q - 1, try |-> ask] \in Part
             /\ [lo |-> q + 1, hi |-> part.hi, try |-> ask] \in Part
  BY <1>1 DEF Part
<1>3. (q - part.lo > MinLeaf) \in BOOLEAN
  OBVIOUS
<1> QED BY <1>2, <1>3 DEF Halves, After

(* Publishing a job keeps the types. *)
LEMMA PublishType ==
  ASSUME TypeOK, NEW t \in Thread, NEW part \in Part, Publish(t, part)
  PROVE  /\ op' \in [Worker -> {"NO_OP", "SORT_WINDOW"}]
         /\ job' \in [Worker -> Part]
         /\ free' \in Int
         /\ target' \in [Thread -> Thread]
         /\ target'[t] \in Worker
<1>1. [part EXCEPT !.try = FALSE] \in Part
  BY DEF Part
<1> QED BY <1>1 DEF TypeOK, Publish, Idle, Thread

LEMMA InitType == Init => TypeOK /\ Targets
<1> SUFFICES ASSUME Init PROVE TypeOK /\ Targets
  OBVIOUS
<1>1. [lo |-> 1, hi |-> 0, try |-> FALSE] \in Part
  BY PoolAssumption DEF Part
<1>2. /\ pc \in [Thread -> WorkerPC \cup MainPC]
      /\ pc[Main] = "load"
      /\ \A w \in Worker : pc[w] = "loop"
  BY WorkerFacts DEF Init, Thread, WorkerPC, MainPC
<1>3. Targets
  BY <1>2 DEF Targets, Thread
<1>4. buf \in [Pos -> Key] /\ loaded \in [Pos -> Key]
  BY PoolAssumption DEF Init, Pos
<1>5. op \in [Worker -> {"NO_OP", "SORT_WINDOW"}] /\ work \in [Worker -> SUBSET Part]
  BY DEF Init
<1>6. job \in [Worker -> Part]
  BY <1>1 DEF Init
<1>7. target \in [Thread -> Thread] /\ windows \in Nat /\ terminate \in BOOLEAN
  BY DEF Init, Thread
<1>8. free \in Int
  BY WorkerFacts DEF Init
<1> QED BY <1>2, <1>3, <1>4, <1>5, <1>6, <1>7, <1>8 DEF TypeOK, WorkerPC, MainPC

LEMMA SignalType ==
  ASSUME TypeOK, Targets, NEW t \in Thread, NEW next,
         Signal(t, next), next # "signal",
         next \in IF t = Main THEN MainPC ELSE WorkerPC
  PROVE  TypeOK' /\ Targets'
<1>1. target[t] \in Worker /\ target' = target
  BY DEF Targets, Signal, Taken
<1>2. /\ pc' \in [Thread -> WorkerPC \cup MainPC]
      /\ pc'[Main] \in MainPC
      /\ \A w \in Worker : pc'[w] \in WorkerPC
  BY <1>1, WorkerFacts DEF TypeOK, Signal, Thread, WorkerPC, MainPC, Taken
<1>3. Targets'
  BY <1>1, <1>2 DEF Targets, Signal, Taken
<1> QED BY <1>1, <1>2, <1>3 DEF TypeOK, Signal, Taken

LEMMA TypeStep == TypeOK /\ Targets /\ [Next]_vars => TypeOK' /\ Targets'
<1> SUFFICES ASSUME TypeOK, Targets, [Next]_vars PROVE TypeOK' /\ Targets'
  OBVIOUS
<1> USE WorkerFacts
<1>1. CASE UNCHANGED vars
  BY <1>1 DEF TypeOK, Targets, vars
<1>2. LoadWindow => TypeOK' /\ Targets'
  BY PoolAssumption DEF LoadWindow, TypeOK, Targets, Thread, MainPC, Pos
<1>3. WindowTaken => TypeOK' /\ Targets'
  <2> SUFFICES ASSUME WindowTaken PROVE TypeOK' /\ Targets'
    OBVIOUS
  <2>1. [lo |-> 1, hi |-> N, try |-> FALSE] \in Part
    BY PoolAssumption DEF Part
  <2>2. Main \in Thread
    BY DEF Thread
  <2>3. /\ op' \in [Worker -> {"NO_OP", "SORT_WINDOW"}]
        /\ job' \in [Worker -> Part]
        /\ free' \in Int
        /\ target' \in [Thread -> Thread]
        /\ target'[Main] \in Worker
    BY <2>1, <2>2, PublishType DEF WindowTaken
  <2>4. \A t \in Thread \ {Main} : pc'[t] # "signal"
    BY DEF WindowTaken, Publish, LockFree, TypeOK
  <2>5. /\ pc' \in [Thread -> WorkerPC \cup MainPC]
        /\ pc'[Main] \in MainPC
        /\ \A w \in Worker : pc'[w] \in WorkerPC
    BY DEF WindowTaken, TypeOK, Thread, MainPC
  <2>6. Targets'
    BY <2>3, <2>4 DEF Targets
  <2> QED BY <2>3, <2>5, <2>6 DEF WindowTaken, Publish, TypeOK
<1>4. WindowRefused \/ WaitForAllWorkers \/ TerminateWorkers \/ ReturnFromMain
        \/ MainSpuriousWakeup => TypeOK' /\ Targets'
  BY DEF WindowRefused, WaitForAllWorkers, TerminateWorkers, ReturnFromMain,
         MainSpuriousWakeup, TypeOK, Targets, Thread, MainPC, GoOn, AllFree
<1>5. MainSignals => TypeOK' /\ Targets'
  BY SignalType DEF MainSignals, Thread, MainPC
<1>6. ASSUME NEW w \in Worker
      PROVE  LoopHead(w) \/ LockWorker(w) \/ FindNoJob(w) \/ FallAsleep(w)
               \/ SpuriousWakeup(w) => TypeOK' /\ Targets'
  BY <1>6 DEF LoopHead, LockWorker, FindNoJob, FallAsleep, SpuriousWakeup,
              TypeOK, Targets, Thread, WorkerPC, GoOn
<1>7. ASSUME NEW w \in Worker PROVE FindJob(w) => TypeOK' /\ Targets'
  BY <1>7 DEF FindJob, TypeOK, Targets, Thread, WorkerPC
<1>8. ASSUME NEW w \in Worker PROVE WorkerSignals(w) => TypeOK' /\ Targets'
  BY <1>8, SignalType DEF WorkerSignals, Thread, WorkerPC
<1>9. ASSUME NEW w \in Worker PROVE Finish(w) => TypeOK' /\ Targets'
  BY <1>9 DEF Finish, TypeOK, Targets, Thread, WorkerPC, MainPC, Woken
<1>10. ASSUME NEW w \in Worker, NEW part \in work[w], GiveAway(w, part)
       PROVE  TypeOK' /\ Targets'
  <2>1. part \in Part /\ w \in Thread
    BY DEF TypeOK, Thread
  <2>2. /\ op' \in [Worker -> {"NO_OP", "SORT_WINDOW"}]
        /\ job' \in [Worker -> Part]
        /\ free' \in Int
        /\ target' \in [Thread -> Thread]
        /\ target'[w] \in Worker
    BY <1>10, <2>1, PublishType DEF GiveAway, Rest
  <2>3. \A t \in Thread \ {w} : pc'[t] # "signal"
    BY <1>10, <2>1 DEF GiveAway, Publish, LockFree, TypeOK, Rest
  <2>4. /\ pc' \in [Thread -> WorkerPC \cup MainPC]
        /\ pc'[Main] \in MainPC
        /\ \A v \in Worker : pc'[v] \in WorkerPC
    BY <1>10 DEF GiveAway, TypeOK, Thread, WorkerPC, Rest
  <2>5. Targets'
    BY <2>2, <2>3 DEF Targets
  <2>6. work' \in [Worker -> SUBSET Part]
    BY <1>10 DEF GiveAway, TypeOK, Rest
  <2> QED BY <1>10, <2>2, <2>4, <2>5, <2>6 DEF GiveAway, Publish, TypeOK
<1>11. ASSUME NEW w \in Worker, NEW part \in work[w],
              KeepPart(w, part) \/ PartSorted(w, part)
       PROVE  TypeOK' /\ Targets'
  <2>1. part \in Part
    BY DEF TypeOK
  <2>2. [part EXCEPT !.try = FALSE] \in Part
    BY <2>1 DEF Part
  <2>3. work' \in [Worker -> SUBSET Part]
    <3>1. PICK X \in SUBSET Part : work' = [work EXCEPT ![w] = X]
      <4>1. (work[w] \ {part}) \cup {[part EXCEPT !.try = FALSE]} \in SUBSET Part
        BY <2>2 DEF TypeOK
      <4>2. work[w] \ {part} \in SUBSET Part
        BY DEF TypeOK
      <4> QED BY <1>11, <4>1, <4>2 DEF KeepPart, PartSorted, Rest
    <3> QED BY <3>1 DEF TypeOK
  <2> QED BY <1>11, <2>3 DEF KeepPart, PartSorted, TypeOK, Targets, Rest
<1>12. ASSUME NEW w \in Worker, NEW part \in work[w], Partition(w, part)
       PROVE  TypeOK' /\ Targets'
  <2>1. part \in Part
    BY DEF TypeOK
  <2>2. PICK f \in Perms(Region(part)), q \in Region(part) :
          /\ buf' = Shuffle(buf, Region(part), f)
          /\ work' = [work EXCEPT ![w] = (@ \ {part}) \cup Halves(part, q)]
    BY <1>12 DEF Partition
  <2>3. Halves(part, q) \in SUBSET Part
    BY <2>1, HalvesType
  <2>4. buf' \in [Pos -> Key]
    <3>1. Region(part) \in SUBSET Pos
      BY <2>1, PoolAssumption DEF Region, Part, Pos
    <3> QED BY <2>2, <3>1, ShuffleType DEF TypeOK
  <2> QED BY <1>12, <2>1, <2>2, <2>3, <2>4 DEF Partition, TypeOK, Targets
<1>13. CASE Next
  BY <1>1, <1>2, <1>3, <1>4, <1>5, <1>6, <1>7, <1>8, <1>9, <1>10, <1>11, <1>12, <1>13, ScheduleSplit
     DEF Next, MainStep, WorkerStep, Spurious, Exited
<1> QED BY <1>1, <1>13

(* Every variable keeps its type. *)
THEOREM TypeCorrect == Spec => []TypeOK
<1>1. TypeOK /\ Targets /\ [Next]_vars => (TypeOK /\ Targets)'
  BY TypeStep
<1> QED BY <1>1, InitType, PTL DEF Spec

-----------------------------------------------------------------------------
(***************************************************************************)
(* Control: the stacks, the mutex WP.lock and the flag terminate           *)
(***************************************************************************)
Control == Stacks /\ OneSignaller /\ TerminateLast

(* A thread that moves without running, signalling or touching a job. *)
LEMMA MoveControl ==
  ASSUME TypeOK, Control, NEW t \in Thread, NEW next,
         pc[t] \notin {"run", "signal"}, next \notin {"run", "signal"},
         t = Main /\ terminate' => next \in {"return", "exited"},
         pc' = [pc EXCEPT ![t] = next],
         t # Main => terminate' = terminate,
         UNCHANGED <<op, work>>
  PROVE  Control' /\ LockFree' = LockFree
<1>1. \A s \in Thread : /\ pc'[s] = "signal" <=> pc[s] = "signal"
                        /\ pc'[s] = "run" <=> pc[s] = "run"
                        /\ s # t => pc'[s] = pc[s]
  BY DEF TypeOK
<1>2. Stacks'
  BY <1>1 DEF Control, Stacks, Thread
<1>3. OneSignaller'
  BY <1>1 DEF Control, OneSignaller
<1>4. TerminateLast'
  BY <1>1 DEF Control, TerminateLast, TypeOK, Thread
<1>5. LockFree' = LockFree
  BY <1>1 DEF LockFree
<1> QED BY <1>2, <1>3, <1>4, <1>5 DEF Control

(* A thread publishes a job and goes on to signal the worker. *)
LEMMA PublishControl ==
  ASSUME TypeOK, Control, NEW t \in Thread, NEW part, Publish(t, part),
         pc' = [pc EXCEPT ![t] = "signal"],
         UNCHANGED terminate,
         t = Main => pc[Main] = "schedule" /\ UNCHANGED work,
         t # Main => pc[t] = "run" /\ \E X : work' = [work EXCEPT ![t] = X]
  PROVE  Control'
<1>1. PICK w \in Idle : op' = [op EXCEPT ![w] = "SORT_WINDOW"]
  BY DEF Publish
<1>2. w \in Worker /\ op[w] = "NO_OP" /\ op'[w] = "SORT_WINDOW"
      /\ \A v \in Worker \ {w} : op'[v] = op[v]
  BY <1>1 DEF Idle, TypeOK
<1>3. pc[w] \notin {"run", "signal"}
  BY <1>2 DEF Control, Stacks
<1>4. \A s \in Thread : pc'[s] = IF s = t THEN "signal" ELSE pc[s]
  BY DEF TypeOK
<1>5. \A v \in Worker : v # t => work'[v] = work[v]
  BY WorkerFacts DEF TypeOK, Thread
<1>6. Stacks'
  <2> SUFFICES ASSUME NEW v \in Worker
               PROVE  IF pc'[v] \in {"run", "signal"} THEN op'[v] = "SORT_WINDOW"
                      ELSE work'[v] = {}
    BY DEF Stacks
  <2>1. CASE v = t
    BY <1>2, <1>4, <2>1, WorkerFacts DEF Control, Stacks, Thread
  <2>2. CASE v # t
    BY <1>2, <1>3, <1>4, <1>5, <2>2 DEF Control, Stacks, Thread
  <2> QED BY <2>1, <2>2
<1>7. OneSignaller'
  BY <1>4 DEF OneSignaller, Publish, LockFree
<1>8. TerminateLast'
  BY <1>4 DEF Control, TerminateLast, Thread
<1> QED BY <1>6, <1>7, <1>8 DEF Control

(* The signaller releases WP.lock. *)
LEMMA SignalControl ==
  ASSUME TypeOK, Targets, Control, NEW t \in Thread, NEW next, Signal(t, next),
         next = IF t = Main THEN "waitall" ELSE "run"
  PROVE  Control' /\ LockFree'
<1>1. target[t] \in Worker /\ pc[t] = "signal"
  BY DEF Targets, Signal, Taken
<1>2. \A s \in Thread : pc'[s] = IF s = t THEN next
                                 ELSE IF s = target[t] /\ pc[s] = "asleep" THEN "lock"
                                 ELSE pc[s]
  BY DEF Signal, Taken
<1>3. UNCHANGED <<op, work, terminate>>
  BY DEF Signal, Taken
<1>4. Stacks'
  BY <1>1, <1>2, <1>3, WorkerFacts DEF Control, Stacks, Thread
<1>5. \A s \in Thread : pc'[s] # "signal"
  BY <1>1, <1>2 DEF Control, OneSignaller
<1>6. TerminateLast'
  BY <1>1, <1>2, <1>3, WorkerFacts DEF Control, TerminateLast, Thread
<1> QED BY <1>4, <1>5, <1>6 DEF Control, OneSignaller, LockFree

(* finish: the worker has nothing left. *)
LEMMA FinishControl ==
  ASSUME TypeOK, Control, NEW w \in Worker, Finish(w)
  PROVE  Control' /\ LockFree'
<1>1. \A s \in Thread : pc'[s] = IF s = w THEN "loop"
                                 ELSE IF s = Main /\ pc[s] = "asleep" THEN "waitall"
                                 ELSE pc[s]
  BY WorkerFacts DEF Finish, TypeOK, Thread, Woken
<1>2. \A v \in Worker : op'[v] = IF v = w THEN "NO_OP" ELSE op[v]
  BY DEF Finish, TypeOK, Woken
<1>3. work[w] = {} /\ UNCHANGED <<work, terminate>> /\ LockFree
  BY DEF Finish, Woken
<1>4. Stacks'
  BY <1>1, <1>2, <1>3, WorkerFacts DEF Control, Stacks, Thread
<1>5. \A s \in Thread : pc'[s] # "signal"
  BY <1>1, <1>3 DEF LockFree
<1>6. TerminateLast'
  BY <1>1, <1>3, WorkerFacts DEF Control, TerminateLast, Thread
<1> QED BY <1>4, <1>5, <1>6 DEF Control, OneSignaller, LockFree

(* A worker at "run" changes its own stack and nothing else of control. *)
LEMMA WorkControl ==
  ASSUME TypeOK, Control, NEW w \in Worker, pc[w] = "run",
         \E X : work' = [work EXCEPT ![w] = X],
         UNCHANGED <<op, pc, terminate>>
  PROVE  Control' /\ LockFree' = LockFree
<1>1. \A v \in Worker : v # w => work'[v] = work[v]
  BY DEF TypeOK
<1>2. Stacks'
  BY <1>1 DEF Control, Stacks
<1> QED BY <1>2 DEF Control, OneSignaller, TerminateLast, LockFree

(* Taking a job. *)
LEMMA FindJobControl ==
  ASSUME TypeOK, Control, NEW w \in Worker, FindJob(w)
  PROVE  Control' /\ LockFree' = LockFree
<1>1. \A s \in Thread : pc'[s] = IF s = w THEN "run" ELSE pc[s]
  BY DEF FindJob, TypeOK
<1>2. \A v \in Worker : v # w => work'[v] = work[v]
  BY DEF FindJob, TypeOK
<1>3. pc[w] = "test" /\ op[w] = "SORT_WINDOW" /\ UNCHANGED <<op, terminate>>
  BY DEF FindJob
<1>4. Stacks'
  BY <1>1, <1>2, <1>3 DEF Control, Stacks, Thread
<1>5. \A s \in Thread : pc'[s] = "signal" <=> pc[s] = "signal"
  BY <1>1, <1>3 DEF Thread
<1>6. OneSignaller' /\ LockFree' = LockFree
  BY <1>5 DEF Control, OneSignaller, LockFree
<1>7. TerminateLast'
  BY <1>1, <1>3, WorkerFacts DEF Control, TerminateLast, Thread
<1> QED BY <1>4, <1>6, <1>7 DEF Control

-----------------------------------------------------------------------------
(***************************************************************************)
(* The counter                                                             *)
(***************************************************************************)
LEMMA IdleFacts ==
  ASSUME TypeOK
  PROVE  /\ IsFiniteSet(Idle)
         /\ Cardinality(Idle) \in Nat
         /\ Cardinality(Idle) <= NumWorkers
         /\ Cardinality(Idle) = NumWorkers => Idle = Worker
<1>1. Idle \in SUBSET Worker
  BY DEF Idle
<1> QED BY <1>1, WorkerFacts, FS_Subset, FS_CardinalityType

LEMMA PublishCounter ==
  ASSUME TypeOK, Counter, NEW t \in Thread, NEW part, Publish(t, part),
         pc' = [pc EXCEPT ![t] = "signal"]
  PROVE  Counter'
<1>1. PICK w \in Idle : op' = [op EXCEPT ![w] = "SORT_WINDOW"]
  BY DEF Publish
<1>2. Idle' = Idle \ {w}
  BY <1>1 DEF Idle, TypeOK
<1>3. Cardinality(Idle') = Cardinality(Idle) - 1
  BY <1>1, <1>2, IdleFacts, FS_RemoveElement
<1>4. ~ LockFree'
  BY DEF LockFree, TypeOK
<1>5. LockFree /\ free' = free
  BY DEF Publish
<1> QED BY <1>3, <1>4, <1>5, IdleFacts DEF Counter

LEMMA FinishCounter ==
  ASSUME TypeOK, Control, Counter, NEW w \in Worker, Finish(w)
  PROVE  Counter'
<1>1. w \notin Idle
  BY DEF Finish, Control, Stacks, Idle, Woken
<1>2. Idle' = Idle \cup {w}
  BY DEF Finish, Idle, TypeOK, Woken
<1>3. Cardinality(Idle') = Cardinality(Idle) + 1
  BY <1>1, <1>2, IdleFacts, FS_AddElement
<1>4. LockFree /\ LockFree' /\ free' = free + 1
  BY FinishControl DEF Finish, Woken
<1> QED BY <1>3, <1>4, IdleFacts DEF Counter

LEMMA SignalCounter ==
  ASSUME TypeOK, Targets, Control, Counter, NEW t \in Thread, NEW next, Signal(t, next),
         next = IF t = Main THEN "waitall" ELSE "run"
  PROVE  Counter'
<1>1. Idle' = Idle
  BY DEF Signal, Idle, Taken
<1>2. ~ LockFree /\ LockFree' /\ free' = free - 1
  BY SignalControl DEF Signal, LockFree, Taken
<1> QED BY <1>1, <1>2, IdleFacts DEF Counter

LEMMA SameCounter ==
  ASSUME Counter, LockFree' = LockFree, UNCHANGED <<op, free>>
  PROVE  Counter'
<1>1. Idle' = Idle
  BY DEF Idle
<1> QED BY <1>1 DEF Counter

-----------------------------------------------------------------------------
(***************************************************************************)
(* The inductive invariant of the pool                                     *)
(***************************************************************************)
QuietPC == {"load", "schedule", "sorted", "return", "exited"}

(* With the stacks as they are, a worker without a job has nothing pending.*)
LEMMA QuietIdle ==
  ASSUME Stacks
  PROVE  QuietOutsideSort <=> (pc[Main] \in QuietPC => \A w \in Worker : op[w] = "NO_OP")
BY DEF Stacks, QuietOutsideSort, Pending, QuietPC

LEMMA InitPool == Init => PoolInv
<1> SUFFICES ASSUME Init PROVE PoolInv
  OBVIOUS
<1>1. TypeOK /\ Targets
  BY InitType
<1>2. \A t \in Thread : pc[t] # "signal" /\ pc[t] # "run"
  BY DEF Init
<1>3. Stacks /\ OneSignaller /\ LockFree
  BY <1>2 DEF Init, Stacks, OneSignaller, LockFree, Thread
<1>4. Counter
  <2>1. Idle = Worker
    BY DEF Init, Idle
  <2> QED BY <1>3, <2>1, WorkerFacts DEF Counter, Init
<1>5. TerminateLast /\ QuietOutsideSort
  BY <1>3, QuietIdle DEF Init, TerminateLast
<1> QED BY <1>1, <1>3, <1>4, <1>5 DEF PoolInv

(* Steps that leave jobs and counter alone keep the pool quiet. *)
LEMMA QuietKept ==
  ASSUME PoolInv, Stacks', UNCHANGED op,
         pc'[Main] \in QuietPC => pc[Main] \in QuietPC
  PROVE  QuietOutsideSort'
<1>1. pc'[Main] \in QuietPC => \A w \in Worker : op'[w] = "NO_OP"
  BY QuietIdle DEF PoolInv
<1>2. \A w \in Worker : op'[w] = "NO_OP" => Pending(w)' = {}
  BY DEF Stacks, Pending
<1> QED BY <1>1, <1>2 DEF QuietOutsideSort, QuietPC

(* While somebody is sorting, main is between schedule and the barrier. *)
LEMMA BusyMain ==
  ASSUME PoolInv, NEW w \in Worker, pc[w] \in {"run", "signal"}
  PROVE  pc[Main] \notin QuietPC
<1>1. op[w] = "SORT_WINDOW"
  BY DEF PoolInv, Stacks
<1> QED BY <1>1 DEF PoolInv, QuietOutsideSort, QuietPC

LEMMA MainPoolStep == PoolInv /\ (MainStep \/ MainSpuriousWakeup) => PoolInv'
<1> SUFFICES ASSUME PoolInv, MainStep \/ MainSpuriousWakeup PROVE PoolInv'
  OBVIOUS
<1>1. /\ TypeOK /\ Targets /\ Control /\ Counter /\ Main \in Thread
      /\ pc \in [Thread -> WorkerPC \cup MainPC]
  BY DEF PoolInv, Control, Thread, TypeOK
<1>2. Next
  BY DEF Next, Spurious, Alive, MainSpuriousWakeup, GoOn
<1>3. TypeOK' /\ Targets'
  BY <1>1, <1>2, TypeStep
<1>4. CASE \/ LoadWindow \/ WindowRefused \/ TerminateWorkers \/ ReturnFromMain
           \/ MainSpuriousWakeup \/ WaitForAllWorkers
  <2>1. PICK next : /\ pc' = [pc EXCEPT ![Main] = next]
                    /\ next \notin {"run", "signal"}
                    /\ terminate' => next \in {"return", "exited"}
    BY <1>1, <1>4 DEF LoadWindow, WindowRefused, TerminateWorkers, ReturnFromMain,
       MainSpuriousWakeup, WaitForAllWorkers, Control, TerminateLast, GoOn, AllFree
  <2>2. pc[Main] \notin {"run", "signal"} /\ UNCHANGED <<op, work, free>>
    BY <1>4 DEF LoadWindow, WindowRefused, TerminateWorkers, ReturnFromMain,
       MainSpuriousWakeup, WaitForAllWorkers, GoOn, AllFree
  <2>3. Control' /\ LockFree' = LockFree
    BY <1>1, <2>1, <2>2, MoveControl
  <2>4. Counter'
    BY <1>1, <2>2, <2>3, SameCounter
  <2>5. QuietOutsideSort'
    <3>1. CASE WaitForAllWorkers /\ free = NumWorkers
      <4>1. Cardinality(Idle) = NumWorkers
        BY <1>1, <3>1, IdleFacts DEF Counter, WaitForAllWorkers, GoOn, AllFree
      <4>2. \A w \in Worker : op[w] = "NO_OP"
        BY <1>1, <4>1, IdleFacts DEF Idle
      <4>3. \A w \in Worker : op'[w] = "NO_OP" /\ Pending(w)' = {}
        BY <2>2, <2>3, <4>2 DEF Control, Stacks, Pending
      <4> QED BY <4>3 DEF QuietOutsideSort
    <3>2. CASE ~ (WaitForAllWorkers /\ free = NumWorkers)
      <4>1. pc'[Main] \in QuietPC => pc[Main] \in QuietPC
        BY <1>1, <1>4, <3>2 DEF LoadWindow, WindowRefused, TerminateWorkers,
           ReturnFromMain, MainSpuriousWakeup, WaitForAllWorkers, QuietPC, GoOn, AllFree
      <4> QED BY <2>2, <2>3, <4>1, QuietKept DEF Control
    <3> QED BY <3>1, <3>2
  <2> QED BY <1>3, <2>3, <2>4, <2>5 DEF PoolInv, Control
<1>5. CASE WindowTaken
  <2>1. Control'
    BY <1>1, <1>5, PublishControl DEF WindowTaken, Publish
  <2>2. Counter'
    BY <1>1, <1>5, PublishCounter DEF WindowTaken
  <2>3. pc'[Main] = "signal"
    BY <1>1, <1>5 DEF WindowTaken
  <2> QED BY <1>3, <2>1, <2>2, <2>3 DEF PoolInv, Control, QuietOutsideSort
<1>6. CASE MainSignals
  <2>1. Control' /\ Counter'
    BY <1>1, <1>6, SignalControl, SignalCounter DEF MainSignals
  <2>2. pc'[Main] = "waitall"
    BY <1>1, <1>6 DEF MainSignals, Signal, Taken
  <2> QED BY <1>3, <2>1, <2>2 DEF PoolInv, Control, QuietOutsideSort
<1> QED BY <1>4, <1>5, <1>6, ScheduleSplit DEF MainStep

LEMMA WorkerPoolStep ==
  ASSUME PoolInv, Alive, NEW w \in Worker, WorkerStep(w) \/ SpuriousWakeup(w)
  PROVE  PoolInv'
<1>1. /\ TypeOK /\ Targets /\ Control /\ Counter /\ w \in Thread /\ w # Main
      /\ pc \in [Thread -> WorkerPC \cup MainPC]
  BY WorkerFacts DEF PoolInv, Control, Thread, TypeOK
<1>2. TypeOK' /\ Targets'
  BY <1>1, TypeStep DEF Next, Spurious
<1>3. CASE LoopHead(w) \/ LockWorker(w) \/ FindNoJob(w) \/ FallAsleep(w)
           \/ SpuriousWakeup(w)
  <2>1. PICK next : /\ pc' = [pc EXCEPT ![w] = next]
                    /\ next \notin {"run", "signal"}
    BY <1>3 DEF LoopHead, LockWorker, FindNoJob, FallAsleep, SpuriousWakeup, GoOn
  <2>2. pc[w] \notin {"run", "signal"} /\ UNCHANGED <<op, work, free, terminate>>
    BY <1>3 DEF LoopHead, LockWorker, FindNoJob, FallAsleep, SpuriousWakeup, GoOn
  <2>3. Control' /\ LockFree' = LockFree
    BY <1>1, <2>1, <2>2, MoveControl
  <2>4. Counter'
    BY <1>1, <2>2, <2>3, SameCounter
  <2>5. pc'[Main] = pc[Main]
    BY <1>1, <2>1 DEF TypeOK, Thread
  <2>6. QuietOutsideSort'
    BY <2>2, <2>3, <2>5, QuietKept DEF Control
  <2> QED BY <1>2, <2>3, <2>4, <2>6 DEF PoolInv, Control
<1>4. CASE FindJob(w)
  <2>1. Control' /\ LockFree' = LockFree
    BY <1>1, <1>4, FindJobControl
  <2>2. UNCHANGED <<op, free>> /\ pc'[Main] = pc[Main]
    BY <1>1, <1>4 DEF FindJob, TypeOK, Thread
  <2>3. Counter'
    BY <1>1, <2>1, <2>2, SameCounter
  <2>4. QuietOutsideSort'
    BY <2>1, <2>2, QuietKept DEF Control
  <2> QED BY <1>2, <2>1, <2>3, <2>4 DEF PoolInv, Control
<1>5. CASE \E part \in work[w] : KeepPart(w, part) \/ PartSorted(w, part)
                                \/ Partition(w, part)
  <2>1. /\ pc[w] = "run"
        /\ \E X : work' = [work EXCEPT ![w] = X]
        /\ UNCHANGED <<op, free, pc, terminate>>
    BY <1>5 DEF KeepPart, PartSorted, Partition, Current, Rest
  <2>2. Control' /\ LockFree' = LockFree
    BY <1>1, <2>1, WorkControl
  <2>3. Counter'
    BY <1>1, <2>1, <2>2, SameCounter
  <2>4. QuietOutsideSort'
    BY <2>1, <2>2, QuietKept DEF Control
  <2> QED BY <1>2, <2>2, <2>3, <2>4 DEF PoolInv, Control
<1>6. CASE \E part \in work[w] : GiveAway(w, part)
  <2>1. PICK part \in work[w] : GiveAway(w, part)
    BY <1>6
  <2>2. Control'
    BY <1>1, <2>1, PublishControl DEF GiveAway, Publish, Current
  <2>3. Counter'
    BY <1>1, <2>1, PublishCounter DEF GiveAway, Rest
  <2>4. pc[w] = "run" /\ pc'[Main] = pc[Main]
    BY <1>1, <2>1 DEF GiveAway, Current, TypeOK, Thread, Rest
  <2>5. QuietOutsideSort'
    BY <2>4, BusyMain DEF QuietOutsideSort, QuietPC
  <2> QED BY <1>2, <2>2, <2>3, <2>5 DEF PoolInv, Control
<1>7. CASE WorkerSignals(w)
  <2>1. Control' /\ Counter'
    BY <1>1, <1>7, SignalControl, SignalCounter DEF WorkerSignals
  <2>2. pc'[Main] = pc[Main] /\ UNCHANGED op
    BY <1>1, <1>7, WorkerFacts DEF WorkerSignals, Signal, Targets, Thread, Taken
  <2>3. QuietOutsideSort'
    BY <2>1, <2>2, QuietKept DEF Control
  <2> QED BY <1>2, <2>1, <2>3 DEF PoolInv, Control
<1>8. CASE Finish(w)
  <2>1. Control' /\ Counter'
    BY <1>1, <1>8, FinishControl, FinishCounter
  <2>2. pc'[Main] \in QuietPC => pc[Main] \in QuietPC
    BY <1>1, <1>8 DEF Finish, TypeOK, Thread, QuietPC, Woken
  <2>3. pc[Main] \notin QuietPC
    BY <1>8, BusyMain DEF Finish, Woken
  <2> QED BY <1>2, <2>1, <2>2, <2>3 DEF PoolInv, Control, QuietOutsideSort, QuietPC
<1> QED BY <1>3, <1>4, <1>5, <1>6, <1>7, <1>8 DEF WorkerStep

LEMMA PoolStep == PoolInv /\ [Next]_vars => PoolInv'
<1> SUFFICES ASSUME PoolInv, [Next]_vars PROVE PoolInv'
  OBVIOUS
<1>1. CASE UNCHANGED vars
  <2>1. UNCHANGED <<op, pc, work, free, terminate, target>>
    BY <1>1 DEF vars
  <2>2. /\ Idle' = Idle /\ LockFree' = LockFree
        /\ \A w \in Worker : Pending(w)' = Pending(w)
    BY <1>1 DEF Idle, LockFree, Pending, vars
  <2>3. TypeOK'
    BY <1>1, TypeStep DEF PoolInv
  <2> QED BY <2>1, <2>2, <2>3 DEF PoolInv, Targets, Stacks, OneSignaller, Counter,
             TerminateLast, QuietOutsideSort
<1>2. CASE MainStep \/ Spurious \/ \E w \in Worker : WorkerStep(w)
  BY <1>2, MainPoolStep, WorkerPoolStep DEF Spurious, WorkerStep
<1> QED BY <1>1, <1>2 DEF Next, Exited

LEMMA PoolCorrect == Spec => []PoolInv
BY InitPool, PoolStep, PTL DEF Spec

(* The counter of free workers tells the truth whenever WP.lock is free.   *)
THEOREM FreeWorkersAreExact == Spec => []FreeWorkersExact
<1>1. PoolInv => FreeWorkersExact
  BY IdleFacts DEF PoolInv, Counter, FreeWorkersExact
<1> QED BY <1>1, PoolCorrect, PTL

(* No sort thread has anything to do outside schedule .. wait_for_all_workers. *)
THEOREM PoolIsQuiet == Spec => []QuietOutsideSort
<1>1. PoolInv => QuietOutsideSort
  BY DEF PoolInv
<1> QED BY <1>1, PoolCorrect, PTL

-----------------------------------------------------------------------------
(***************************************************************************)
(* Who owns which parts, as a function P from workers to sets of parts     *)
(***************************************************************************)
Owners == [w \in Worker |-> Pending(w)]

DisjointIn(P) ==
  \A v, w \in Worker : \A a \in P[v], b \in P[w] :
     (v # w \/ a # b) => Region(a) \cap Region(b) = {}

OrderedBut(b, P) ==
  \A p, q \in Pos :
    p < q => \/ b[p] <= b[q]
             \/ \E w \in Worker : \E a \in P[w] : {p, q} \subseteq Region(a)

LEMMA OwnersDefs ==
  /\ Owners \in [Worker -> {Pending(w) : w \in Worker}]
  /\ PartsDisjoint <=> DisjointIn(Owners)
  /\ Ordered <=> (pc[Main] \notin {"load", "schedule"} => OrderedBut(buf, Owners))
BY DEF Owners, PartsDisjoint, DisjointIn, Ordered, OrderedBut

(* On the stack of w, pieces of a part take its place. *)
Replaced(P, Q, w, part, Pieces) ==
  /\ w \in Worker /\ part \in P[w]
  /\ \A x \in Worker : Q[x] = IF x = w THEN (P[w] \ {part}) \cup Pieces ELSE P[x]

LEMMA ReplacePart ==
  ASSUME NEW P, NEW Q, NEW w, NEW part, NEW Pieces,
         Replaced(P, Q, w, part, Pieces), DisjointIn(P),
         \A a \in Pieces : Region(a) \subseteq Region(part),
         \A a, b \in Pieces : a # b => Region(a) \cap Region(b) = {}
  PROVE  DisjointIn(Q)
<1> SUFFICES ASSUME NEW u \in Worker, NEW v \in Worker, NEW a \in Q[u], NEW b \in Q[v],
                    u # v \/ a # b
             PROVE  Region(a) \cap Region(b) = {}
  BY DEF DisjointIn
<1> USE DEF Replaced
<1>1. CASE u = w /\ a \in Pieces
  <2>1. CASE v = w /\ b \in Pieces
    BY <1>1, <2>1
  <2>2. CASE ~ (v = w /\ b \in Pieces)
    <3>1. b \in P[v] /\ (v # w \/ b # part)
      BY <2>2
    <3>2. Region(part) \cap Region(b) = {}
      BY <1>1, <3>1 DEF DisjointIn
    <3> QED BY <1>1, <3>2
  <2> QED BY <2>1, <2>2
<1>2. CASE ~ (u = w /\ a \in Pieces)
  <2>1. a \in P[u] /\ (u # w \/ a # part)
    BY <1>2
  <2>2. CASE v = w /\ b \in Pieces
    <3>1. Region(a) \cap Region(part) = {}
      BY <2>1, <2>2 DEF DisjointIn
    <3> QED BY <2>2, <3>1
  <2>3. CASE ~ (v = w /\ b \in Pieces)
    <3>1. b \in P[v]
      BY <2>3
    <3> QED BY <2>1, <3>1 DEF DisjointIn
  <2> QED BY <2>2, <2>3
<1> QED BY <1>1, <1>2

(* A part moves from w to v, which had none. *)
MovedTo(P, Q, w, part, v, moved) ==
  /\ w \in Worker /\ v \in Worker /\ part \in P[w] /\ P[v] = {}
  /\ Region(moved) = Region(part)
  /\ \A x \in Worker : Q[x] = IF x = v THEN {moved}
                              ELSE IF x = w THEN P[w] \ {part} ELSE P[x]

LEMMA MovePart ==
  ASSUME NEW P, NEW Q, NEW w, NEW part, NEW v, NEW moved,
         MovedTo(P, Q, w, part, v, moved), DisjointIn(P)
  PROVE  DisjointIn(Q)
<1> USE DEF MovedTo
<1> SUFFICES ASSUME NEW x \in Worker, NEW y \in Worker, NEW a \in Q[x], NEW b \in Q[y],
                    x # y \/ a # b
             PROVE  Region(a) \cap Region(b) = {}
  BY DEF DisjointIn
<1>1. CASE x = v
  <2>1. a = moved /\ y # v /\ b \in P[y] /\ (y # w \/ b # part)
    BY <1>1
  <2> QED BY <2>1 DEF DisjointIn
<1>2. CASE y = v
  <2>1. b = moved /\ x # v /\ a \in P[x] /\ (x # w \/ a # part)
    BY <1>2
  <2> QED BY <2>1 DEF DisjointIn
<1>3. CASE x # v /\ y # v
  <2>1. a \in P[x] /\ b \in P[y]
    BY <1>3
  <2> QED BY <2>1 DEF DisjointIn
<1> QED BY <1>1, <1>2, <1>3

(* The halves of a part are pieces of it, and leave out only the pivot. *)
LEMMA HalvesRegions ==
  ASSUME NEW part \in Part, NEW q \in Region(part)
  PROVE  /\ \A a \in Halves(part, q) : Region(a) \subseteq Region(part)
         /\ \A a, b \in Halves(part, q) : a # b => Region(a) \cap Region(b) = {}
         /\ \A i, j \in Region(part) :
              i < j => \/ i <= q /\ q <= j
                       \/ \E a \in Halves(part, q) : {i, j} \subseteq Region(a)
<1>1. q \in Int /\ part.lo \in Int /\ part.hi \in Int /\ part.lo <= q /\ q <= part.hi
  BY PoolAssumption DEF Part, Region
<1> DEFINE ask == q - part.lo > MinLeaf
           left == [lo |-> part.lo, hi |-> q - 1, try |-> ask]
           right == [lo |-> q + 1, hi |-> part.hi, try |-> ask]
<1>2. Halves(part, q) = (IF q = part.lo THEN {} ELSE {left}) \cup {right}
  BY DEF Halves, After
<1>3. Region(left) = part.lo .. q - 1 /\ Region(right) = q + 1 .. part.hi
  BY DEF Region
<1> HIDE DEF left, right
<1>4. \A a \in Halves(part, q) : Region(a) \subseteq Region(part)
  <2>1. Region(part) = part.lo .. part.hi
    BY DEF Region
  <2>2. part.lo .. q - 1 \subseteq part.lo .. part.hi
        /\ q + 1 .. part.hi \subseteq part.lo .. part.hi
    BY <1>1
  <2> QED BY <1>2, <1>3, <2>1, <2>2
<1>5. \A a, b \in Halves(part, q) : a # b => Region(a) \cap Region(b) = {}
  BY <1>1, <1>2, <1>3
<1>6. ASSUME NEW i \in Region(part), NEW j \in Region(part), i < j, ~ (i <= q /\ q <= j)
      PROVE  \E a \in Halves(part, q) : {i, j} \subseteq Region(a)
  <2>1. i \in Int /\ j \in Int /\ part.lo <= i /\ j <= part.hi
    BY <1>1 DEF Region
  <2>2. CASE q < i
    BY <1>1, <1>2, <1>3, <1>6, <2>1, <2>2
  <2>3. CASE j < q
    BY <1>1, <1>2, <1>3, <1>6, <2>1, <2>3
  <2> QED BY <1>1, <1>6, <2>1, <2>2, <2>3
<1> QED BY <1>4, <1>5, <1>6

(* Handing a part on, or deciding to keep it, orders nothing and forgets   *)
(* nothing.                                                                *)
LEMMA OrderedCovered ==
  ASSUME NEW b, NEW P, NEW Q, OrderedBut(b, P),
         \A w \in Worker : \A a \in P[w] :
            \E v \in Worker : \E c \in Q[v] : Region(a) \subseteq Region(c)
  PROVE  OrderedBut(b, Q)
<1> SUFFICES ASSUME NEW p \in Pos, NEW q \in Pos, p < q, ~ (b[p] <= b[q])
             PROVE  \E v \in Worker : \E c \in Q[v] : {p, q} \subseteq Region(c)
  BY DEF OrderedBut
<1>1. PICK w \in Worker : \E a \in P[w] : {p, q} \subseteq Region(a)
  BY DEF OrderedBut
<1>2. PICK a \in P[w] : {p, q} \subseteq Region(a)
  BY <1>1
<1> QED BY <1>2

(* A part that is found sorted needs no owner any more. *)
LEMMA OrderedSorted ==
  ASSUME NEW b \in [Pos -> Key], NEW P, OrderedBut(b, P),
         NEW Q, NEW w, NEW part \in Part, Replaced(P, Q, w, part, {}),
         IsSorted(b, part.lo, part.hi)
  PROVE  OrderedBut(b, Q)
<1> USE DEF Replaced
<1> SUFFICES ASSUME NEW p \in Pos, NEW q \in Pos, p < q, ~ (b[p] <= b[q])
             PROVE  \E v \in Worker : \E c \in Q[v] : {p, q} \subseteq Region(c)
  BY DEF OrderedBut
<1>1. PICK u \in Worker : \E a \in P[u] : {p, q} \subseteq Region(a)
  BY DEF OrderedBut
<1>2. PICK a \in P[u] : {p, q} \subseteq Region(a)
  BY <1>1
<1>3. ~ ({p, q} \subseteq Region(part))
  <2>1. part.lo \in Int /\ part.hi \in Int /\ part.lo .. part.hi \subseteq Pos
    BY PoolAssumption DEF Part, Pos
  <2>2. \A i \in part.lo .. part.hi : b[i] \in Int
    BY <2>1, PoolAssumption
  <2>3. p <= q
    BY DEF Pos
  <2> QED BY <2>1, <2>2, <2>3, SortedPairs DEF Region
<1>4. a \in Q[u]
  BY <1>2, <1>3
<1> QED BY <1>2, <1>4

(* Partitioning orders the pivot with everything, and moves records only   *)
(* inside the part, where no other order was established.                  *)
LEMMA OrderedPartition ==
  ASSUME NEW b \in [Pos -> Key], NEW P,
         OrderedBut(b, P), DisjointIn(P),
         NEW w, NEW part \in Part, NEW f \in Perms(Region(part)), NEW q \in Region(part),
         NEW Q, Replaced(P, Q, w, part, Halves(part, q)),
         NEW c, c = Shuffle(b, Region(part), f),
         IsPartition(c, part.lo, part.hi, q)
  PROVE  OrderedBut(c, Q)
<1> USE DEF Replaced
<1> SUFFICES ASSUME NEW i \in Pos, NEW j \in Pos, i < j, ~ (c[i] <= c[j])
             PROVE  \E v \in Worker : \E a \in Q[v] : {i, j} \subseteq Region(a)
  BY DEF OrderedBut
<1> DEFINE R == Region(part)
<1>1. R = part.lo .. part.hi /\ R \in SUBSET Pos /\ Pos \in SUBSET Int
      /\ part.lo \in Int /\ part.hi \in Int /\ q \in Int
  BY PoolAssumption DEF Part, Pos, Region
<1>2. /\ c \in [Pos -> Key]
      /\ \A k \in Pos \ R : c[k] = b[k]
      /\ \A k \in R : f[k] \in R /\ c[k] = b[f[k]]
  <2>1. R \in SUBSET Pos /\ f \in Perms(R) /\ c = Shuffle(b, R, f)
    BY <1>1
  <2> HIDE DEF R
  <2>2. /\ Shuffle(b, R, f) \in [Pos -> Key]
        /\ \A k \in Pos \ R : Shuffle(b, R, f)[k] = b[k]
        /\ \A k \in R : f[k] \in R /\ Shuffle(b, R, f)[k] = b[f[k]]
    BY <2>1 DEF Shuffle, Perms
  <2> QED BY <2>1, <2>2
<1>3. \A k \in Pos : c[k] \in Int /\ b[k] \in Int
  BY <1>2, PoolAssumption
<1>4. \A v \in Worker : \A a \in P[v] : (v # w \/ a # part) => a \in Q[v] /\ Region(a) \cap R = {}
  BY DEF DisjointIn
<1> HIDE DEF R
(* Both in the part: in one half, or separated by the pivot. *)
<1>5. CASE i \in R /\ j \in R
  <2>1. ~ (i <= q /\ q <= j)
    <3> SUFFICES ASSUME i <= q, q <= j PROVE FALSE
      OBVIOUS
    <3>1. c[i] <= c[q]
      BY <1>1, <1>5 DEF IsPartition
    <3>2. c[q] <= c[j]
      <4>1. CASE j = q
        BY <1>3, <4>1
      <4>2. CASE j # q
        <5>1. j \in q + 1 .. part.hi
          BY <1>1, <1>5, <4>2
        <5>2. c[q] < c[j]
          BY <5>1 DEF IsPartition
        <5>3. c[q] \in Int /\ c[j] \in Int
          BY <1>1, <1>3 DEF R
        <5> QED BY <5>2, <5>3
      <4> QED BY <4>1, <4>2
    <3>3. c[i] \in Int /\ c[j] \in Int /\ c[q] \in Int
      BY <1>1, <1>3 DEF R
    <3> QED BY <3>1, <3>2, <3>3
  <2>2. PICK a \in Halves(part, q) : {i, j} \subseteq Region(a)
    BY <1>5, <2>1, HalvesRegions DEF R
  <2>3. a \in Q[w]
    OBVIOUS
  <2> QED BY <2>2, <2>3
(* One of them outside: the pair it makes with the record that was moved   *)
(* is in order, or in another part - which would meet this one.            *)
<1>6. ASSUME i \notin R \/ j \notin R
      PROVE  \E v \in Worker : \E a \in Q[v] : {i, j} \subseteq Region(a)
  <2> DEFINE m == IF i \in R THEN f[i] ELSE i
             n == IF j \in R THEN f[j] ELSE j
  <2>1. m \in Pos /\ n \in Pos /\ c[i] = b[m] /\ c[j] = b[n]
    BY <1>1, <1>2
  <2>2. m < n
    <3>1. CASE i \in R
      BY <1>1, <1>2, <1>6, <3>1
    <3>2. CASE i \notin R /\ j \in R
      BY <1>1, <1>2, <3>2
    <3>3. CASE i \notin R /\ j \notin R
      BY <3>3
    <3> QED BY <3>1, <3>2, <3>3
  <2>3. PICK v \in Worker : \E a \in P[v] : {m, n} \subseteq Region(a)
    BY <2>1, <2>2 DEF OrderedBut
  <2>4. PICK a \in P[v] : {m, n} \subseteq Region(a)
    BY <2>3
  <2>5. m \notin R \/ n \notin R
    BY <1>6
  <2>6. a \in Q[v] /\ Region(a) \cap R = {}
    BY <1>4, <2>4, <2>5 DEF R
  <2>7. m = i /\ n = j
    BY <1>2, <2>4, <2>6
  <2> QED BY <2>4, <2>6, <2>7
<1> QED BY <1>5, <1>6

-----------------------------------------------------------------------------
(***************************************************************************)
(* How the steps of the pool change the owners                             *)
(***************************************************************************)

(* Waking, sleeping, signalling, finishing and picking up a job change     *)
(* nothing: a job in worker->buffer is as pending as one on the stack.     *)
LEMMA SameOwners ==
  ASSUME PoolInv, NEW w \in Worker,
         \/ LoopHead(w) \/ LockWorker(w) \/ FindNoJob(w) \/ FindJob(w) \/ FallAsleep(w)
         \/ SpuriousWakeup(w) \/ WorkerSignals(w) \/ Finish(w)
  PROVE  Owners' = Owners /\ UNCHANGED <<buf, loaded>>
<1> SUFFICES ASSUME NEW v \in Worker PROVE Pending(v)' = Pending(v)
  BY DEF Owners, LoopHead, LockWorker, FindNoJob, FindJob, FallAsleep, SpuriousWakeup,
         WorkerSignals, Signal, Finish, Taken, Woken, GoOn
<1>1. /\ TypeOK /\ Targets /\ Stacks /\ v \in Thread /\ v # Main /\ w # Main
      /\ pc \in [Thread -> WorkerPC \cup MainPC]
  BY WorkerFacts DEF PoolInv, Thread, TypeOK
<1>2. CASE LoopHead(w) \/ LockWorker(w) \/ FindNoJob(w) \/ FallAsleep(w)
           \/ SpuriousWakeup(w)
  BY <1>1, <1>2 DEF LoopHead, LockWorker, FindNoJob, FallAsleep, SpuriousWakeup, Pending,
                    TypeOK, GoOn
<1>3. CASE FindJob(w)
  BY <1>1, <1>3 DEF FindJob, Pending, TypeOK
<1>4. CASE WorkerSignals(w)
  BY <1>1, <1>4 DEF WorkerSignals, Signal, Pending, Taken
<1>5. CASE Finish(w)
  BY <1>1, <1>5 DEF Finish, Pending, TypeOK, Woken
<1> QED BY <1>2, <1>3, <1>4, <1>5

LEMMA SameOwnersMain ==
  ASSUME PoolInv,
         \/ LoadWindow \/ WindowRefused \/ MainSignals \/ WaitForAllWorkers
         \/ TerminateWorkers \/ ReturnFromMain \/ MainSpuriousWakeup
  PROVE  Owners' = Owners
<1> SUFFICES ASSUME NEW v \in Worker PROVE Pending(v)' = Pending(v)
  BY DEF Owners
<1>1. /\ TypeOK /\ v \in Thread /\ v # Main
      /\ pc \in [Thread -> WorkerPC \cup MainPC]
  BY WorkerFacts DEF PoolInv, Thread, TypeOK
<1>2. UNCHANGED <<op, job, work>>
  BY DEF LoadWindow, WindowRefused, MainSignals, Signal, WaitForAllWorkers,
         TerminateWorkers, ReturnFromMain, MainSpuriousWakeup, Taken, GoOn, AllFree
<1>3. CASE MainSignals
  BY <1>1, <1>2, <1>3 DEF MainSignals, Signal, Pending, Taken
<1>4. CASE ~ MainSignals
  <2>1. pc'[v] = pc[v]
    BY <1>1, <1>4 DEF LoadWindow, WindowRefused, WaitForAllWorkers, TerminateWorkers,
       ReturnFromMain, MainSpuriousWakeup, GoOn, AllFree
  <2> QED BY <1>2, <2>1 DEF Pending
<1> QED BY <1>3, <1>4

(* The worker that is found idle gets the part, and nothing else. *)
LEMMA PublishOwners ==
  ASSUME PoolInv, NEW t \in Thread, NEW part, Publish(t, part),
         pc' = [pc EXCEPT ![t] = "signal"],
         t \notin Idle
  PROVE  \E v \in Worker \ {t} :
            /\ Pending(v) = {}
            /\ Pending(v)' = {[part EXCEPT !.try = FALSE]}
            /\ \A x \in Worker \ {v, t} : work'[x] = work[x] => Pending(x)' = Pending(x)
<1>1. PICK v \in Idle : /\ op' = [op EXCEPT ![v] = "SORT_WINDOW"]
                        /\ job' = [job EXCEPT ![v] = [part EXCEPT !.try = FALSE]]
  BY DEF Publish
<1>2. v \in Worker /\ op[v] = "NO_OP" /\ v # t
  BY <1>1 DEF Idle
<1>3. pc[v] \notin {"run", "signal"} /\ pc'[v] = pc[v]
  BY <1>2 DEF PoolInv, Stacks, TypeOK, Thread
<1>4. Pending(v) = {} /\ Pending(v)' = {[part EXCEPT !.try = FALSE]}
  BY <1>1, <1>2, <1>3 DEF Pending, PoolInv, TypeOK
<1>5. ASSUME NEW x \in Worker \ {v, t}, work'[x] = work[x]
      PROVE  Pending(x)' = Pending(x)
  <2>1. pc'[x] = pc[x] /\ op'[x] = op[x] /\ job'[x] = job[x]
    BY <1>1 DEF PoolInv, TypeOK, Thread
  <2> QED BY <1>5, <2>1 DEF Pending
<1> QED BY <1>2, <1>4, <1>5

(* A worker at "run" owns what is on its stack. *)
LEMMA WorkOwners ==
  ASSUME PoolInv, NEW w \in Worker, pc[w] = "run", NEW X,
         work' = [work EXCEPT ![w] = X], UNCHANGED <<op, job, pc>>
  PROVE  Owners[w] = work[w] /\ Owners' = [Owners EXCEPT ![w] = X]
<1>1. Owners[w] = work[w] /\ Pending(w)' = X
  BY DEF Owners, Pending, PoolInv, TypeOK
<1>2. ASSUME NEW v \in Worker, v # w PROVE Pending(v)' = Pending(v)
  BY <1>2 DEF Pending, PoolInv, TypeOK
<1> QED BY <1>1, <1>2 DEF Owners

-----------------------------------------------------------------------------
(***************************************************************************)
(* The inductive invariant of the window                                   *)
(***************************************************************************)
LEMMA InitSort == Init => SortInv
<1> SUFFICES ASSUME Init PROVE SortInv
  OBVIOUS
<1>1. \A w \in Worker : Pending(w) = {}
  BY WorkerFacts DEF Init, Pending, Thread
<1>2. Rearranged(loaded, buf)
  BY RearrangedSelf, PoolAssumption DEF Init, Pos
<1>3. Ordered
  BY DEF Init, Ordered, Thread
<1> QED BY <1>1, <1>2, <1>3 DEF SortInv, PartsDisjoint

LEMMA SameSort ==
  ASSUME SortInv, Owners' = Owners, UNCHANGED <<buf, loaded>>,
         pc'[Main] \notin {"load", "schedule"} => pc[Main] \notin {"load", "schedule"}
  PROVE  SortInv'
<1>1. PartsDisjoint' /\ (Ordered => Ordered')
  <2>1. \A w \in Worker : Pending(w)' = Pending(w)
    BY DEF Owners
  <2>2. PartsDisjoint'
    BY <2>1 DEF PartsDisjoint, SortInv
  <2>3. Ordered => Ordered'
    BY <2>1 DEF Ordered
  <2> QED BY <2>2, <2>3
<1> QED BY <1>1 DEF SortInv

(* A worker gives its leftmost part away. *)
LEMMA GiveAwaySort ==
  ASSUME PoolInv, SortInv, NEW w \in Worker, NEW part \in work[w], GiveAway(w, part)
  PROVE  SortInv'
<1>1. /\ TypeOK /\ Stacks /\ pc[w] = "run" /\ op[w] = "SORT_WINDOW" /\ part \in Part
      /\ w \in Thread /\ w \notin Idle
  BY DEF PoolInv, Stacks, GiveAway, Current, TypeOK, Thread, Idle, Rest
<1>2. pc' = [pc EXCEPT ![w] = "signal"] /\ work' = [work EXCEPT ![w] = work[w] \ {part}]
      /\ Publish(w, part) /\ UNCHANGED <<buf, loaded>>
  BY DEF GiveAway, Publish, Rest
<1> DEFINE moved == [part EXCEPT !.try = FALSE]
<1>3. PICK v \in Worker \ {w} :
         /\ Pending(v) = {}
         /\ Pending(v)' = {moved}
         /\ \A x \in Worker \ {v, w} : work'[x] = work[x] => Pending(x)' = Pending(x)
  BY <1>1, <1>2, PublishOwners
<1>4. Owners[w] = work[w] /\ Pending(w)' = work[w] \ {part}
  BY <1>1, <1>2 DEF Owners, Pending, TypeOK
<1>5. \A x \in Worker \ {v, w} : Pending(x)' = Pending(x)
  BY <1>1, <1>2, <1>3 DEF TypeOK
<1>6. Region(moved) = Region(part)
  BY <1>1 DEF Region, Part
<1>7. \A x \in Worker : Owners'[x] = IF x = v THEN {moved}
                                    ELSE IF x = w THEN Owners[w] \ {part} ELSE Owners[x]
  BY <1>3, <1>4, <1>5 DEF Owners
<1>8. Owners[v] = {} /\ part \in Owners[w] /\ DisjointIn(Owners)
      /\ Owners \in [Worker -> {Pending(x) : x \in Worker}]
  BY <1>3, <1>4, OwnersDefs DEF Owners, SortInv
<1> HIDE DEF moved
<1>9. DisjointIn(Owners')
  <2>1. MovedTo(Owners, Owners', w, part, v, moved)
    BY <1>6, <1>7, <1>8 DEF MovedTo
  <2> QED BY <1>8, <2>1, MovePart
<1>10. PartsDisjoint'
  BY <1>9 DEF DisjointIn, PartsDisjoint, Owners
<1>11. ASSUME NumThreads # 0 PROVE Ordered'
  <2>1. pc[Main] \notin {"load", "schedule"}
    BY <1>1, BusyMain DEF QuietPC
  <2>2. OrderedBut(buf, Owners)
    BY <1>11, <2>1, OwnersDefs DEF SortInv
  <2>3. ASSUME NEW x \in Worker, NEW a \in Owners[x]
        PROVE  \E y \in Worker : \E c \in Owners'[y] : Region(a) \subseteq Region(c)
    <3>1. CASE x = w /\ a = part
      BY <1>3, <1>6, <1>7, <3>1
    <3>2. CASE ~ (x = w /\ a = part)
      BY <1>7, <1>8, <3>2
    <3> QED BY <3>1, <3>2
  <2>4. OrderedBut(buf, Owners')
    BY <2>2, <2>3, OrderedCovered
  <2> QED BY <1>2, <2>4 DEF OrderedBut, Ordered, Owners
<1> QED BY <1>2, <1>10, <1>11 DEF SortInv

LEMMA WorkSort ==
  ASSUME PoolInv, SortInv, NEW w \in Worker, NEW part \in work[w],
         KeepPart(w, part) \/ PartSorted(w, part) \/ Partition(w, part)
  PROVE  SortInv'
<1>1. /\ TypeOK /\ pc[w] = "run" /\ part \in Part /\ buf \in [Pos -> Key]
      /\ UNCHANGED <<op, job, pc, loaded>>
  BY DEF PoolInv, KeepPart, PartSorted, Partition, Current, TypeOK, Rest
<1>2. DisjointIn(Owners) /\ (NumThreads # 0 => OrderedBut(buf, Owners))
  BY <1>1, OwnersDefs, BusyMain DEF SortInv, QuietPC
<1>3. SUFFICES /\ DisjointIn(Owners')
               /\ NumThreads # 0 => OrderedBut(buf', Owners')
               /\ Rearranged(loaded', buf')
  BY DEF SortInv, PartsDisjoint, DisjointIn, Ordered, OrderedBut, Owners
<1>4. ASSUME NEW Pieces, work' = [work EXCEPT ![w] = (work[w] \ {part}) \cup Pieces]
      PROVE  Replaced(Owners, Owners', w, part, Pieces)
  <2>1. /\ Owners[w] = work[w]
        /\ Owners' = [Owners EXCEPT ![w] = (work[w] \ {part}) \cup Pieces]
    BY <1>1, <1>4, WorkOwners
  <2>2. \A x \in Worker : Owners'[x] = IF x = w THEN (work[w] \ {part}) \cup Pieces
                                       ELSE Owners[x]
    BY <2>1, OwnersDefs
  <2> QED BY <2>1, <2>2 DEF Replaced
<1>5. CASE KeepPart(w, part)
  <2> DEFINE kept == [part EXCEPT !.try = FALSE]
  <2>1. Region(kept) = Region(part)
    BY <1>1 DEF Region, Part
  <2>2. work' = [work EXCEPT ![w] = (work[w] \ {part}) \cup {kept}] /\ buf' = buf
    BY <1>5 DEF KeepPart
  <2> HIDE DEF kept
  <2>3. Replaced(Owners, Owners', w, part, {kept})
    BY <1>4, <2>2
  <2>4. DisjointIn(Owners')
    BY <1>2, <2>1, <2>3, ReplacePart
  <2>5. ASSUME NEW x \in Worker, NEW a \in Owners[x]
        PROVE  \E y \in Worker : \E c \in Owners'[y] : Region(a) \subseteq Region(c)
    <3>1. CASE x = w /\ a = part
      BY <2>1, <2>3, <3>1 DEF Replaced
    <3>2. CASE ~ (x = w /\ a = part)
      BY <2>3, <3>2 DEF Replaced
    <3> QED BY <3>1, <3>2
  <2>6. NumThreads # 0 => OrderedBut(buf, Owners')
    BY <1>2, <2>5, OrderedCovered
  <2> QED BY <1>1, <2>2, <2>4, <2>6 DEF SortInv
<1>6. CASE PartSorted(w, part)
  <2>1. /\ work' = [work EXCEPT ![w] = (work[w] \ {part}) \cup {}] /\ buf' = buf
        /\ IsSorted(buf, part.lo, part.hi)
    BY <1>6 DEF PartSorted, Rest
  <2>2. Replaced(Owners, Owners', w, part, {})
    BY <1>4, <2>1
  <2>3. DisjointIn(Owners')
    BY <1>2, <2>2, ReplacePart
  <2>4. NumThreads # 0 => OrderedBut(buf, Owners')
    BY <1>1, <1>2, <2>1, <2>2, OrderedSorted
  <2> QED BY <1>1, <2>1, <2>3, <2>4 DEF SortInv
<1>7. CASE Partition(w, part)
  <2>1. PICK f \in Perms(Region(part)), q \in Region(part) :
          /\ IsPartition(Shuffle(buf, Region(part), f), part.lo, part.hi, q)
          /\ buf' = Shuffle(buf, Region(part), f)
          /\ work' = [work EXCEPT ![w] = (work[w] \ {part}) \cup Halves(part, q)]
    BY <1>7 DEF Partition
  <2>2. Replaced(Owners, Owners', w, part, Halves(part, q))
    BY <1>4, <2>1
  <2>3. DisjointIn(Owners')
    BY <1>1, <1>2, <2>2, ReplacePart, HalvesRegions
  <2>4. NumThreads # 0 => OrderedBut(buf', Owners')
    BY <1>1, <1>2, <2>1, <2>2, OrderedPartition
  <2>5. Rearranged(loaded', buf')
    <3>1. Region(part) \in SUBSET Pos
      BY <1>1, PoolAssumption DEF Region, Part, Pos
    <3>2. loaded \in [Pos -> Key] /\ Rearranged(loaded, buf)
      BY <1>1 DEF TypeOK, SortInv
    <3> QED BY <1>1, <2>1, <3>1, <3>2, ShuffleRearranges
  <2> QED BY <2>3, <2>4, <2>5
<1> QED BY <1>5, <1>6, <1>7

(* With a thread in the pool, main never finds it busy: it schedules only  *)
(* when every worker is idle.                                              *)
LEMMA NeverRefused ==
  ASSUME PoolInv, WindowRefused
  PROVE  NumThreads = 0
<1>1. \A w \in Worker : op[w] = "NO_OP"
  BY DEF PoolInv, QuietOutsideSort, WindowRefused
<1>2. Idle = Worker
  BY <1>1 DEF Idle
<1>3. free = NumWorkers
  BY <1>2, WorkerFacts DEF WindowRefused, Refused, PoolInv, Counter
<1> QED BY <1>3, WorkerFacts DEF WindowRefused, Refused

(* The whole window becomes the one pending part. *)
LEMMA ScheduleSort ==
  ASSUME PoolInv, SortInv, WindowTaken
  PROVE  SortInv'
<1> DEFINE whole == [lo |-> 1, hi |-> N, try |-> FALSE]
           moved == [whole EXCEPT !.try = FALSE]
<1>1. /\ Publish(Main, whole) /\ pc' = [pc EXCEPT ![Main] = "signal"]
      /\ UNCHANGED <<buf, loaded, work>> /\ pc[Main] = "schedule"
      /\ Main \in Thread /\ Main \notin Idle
  BY WorkerFacts DEF WindowTaken, Publish, Thread, Idle
<1>2. Region(moved) = Pos
  BY DEF Region, Pos
<1>3. \A w \in Worker : Pending(w) = {}
  BY <1>1 DEF PoolInv, QuietOutsideSort
<1>4. PICK v \in Worker \ {Main} :
         /\ Pending(v)' = {moved}
         /\ \A x \in Worker \ {v, Main} : work'[x] = work[x] => Pending(x)' = Pending(x)
  BY <1>1, PublishOwners
<1> HIDE DEF whole, moved
<1>5. \A x \in Worker : Pending(x)' = IF x = v THEN {moved} ELSE {}
  BY <1>1, <1>3, <1>4, WorkerFacts
<1>6. PartsDisjoint'
  BY <1>5 DEF PartsDisjoint
<1>7. Ordered'
  BY <1>2, <1>5 DEF Ordered
<1> QED BY <1>1, <1>6, <1>7 DEF SortInv

LEMMA LoadSort ==
  ASSUME PoolInv, SortInv, LoadWindow
  PROVE  SortInv'
<1>1. \A w \in Worker : Pending(w)' = Pending(w)
  BY SameOwnersMain DEF Owners
<1>2. PartsDisjoint'
  BY <1>1 DEF SortInv, PartsDisjoint
<1>3. Ordered'
  BY DEF LoadWindow, Ordered, PoolInv, TypeOK, Thread
<1>4. Rearranged(loaded', buf')
  BY RearrangedSelf, PoolAssumption DEF LoadWindow, Pos
<1> QED BY <1>2, <1>3, <1>4 DEF SortInv

LEMMA SortStep == PoolInv /\ SortInv /\ [Next]_vars => SortInv'
<1> SUFFICES ASSUME PoolInv, SortInv, [Next]_vars PROVE SortInv'
  OBVIOUS
<1>1. CASE UNCHANGED vars
  <2>1. Owners' = Owners /\ UNCHANGED <<buf, loaded, pc>>
    BY <1>1 DEF Owners, Pending, vars
  <2> QED BY <2>1, SameSort
<1>2. CASE LoadWindow
  BY <1>2, LoadSort
<1>3. CASE WindowTaken
  BY <1>3, ScheduleSort
<1>4. CASE WindowRefused
  <2>1. Owners' = Owners /\ UNCHANGED <<buf, loaded>> /\ NumThreads = 0
    BY <1>4, SameOwnersMain, NeverRefused DEF WindowRefused
  <2>2. \A w \in Worker : Pending(w)' = Pending(w)
    BY <2>1 DEF Owners
  <2> QED BY <2>1, <2>2 DEF SortInv, PartsDisjoint
<1>5. CASE MainSignals \/ WaitForAllWorkers \/ TerminateWorkers \/ ReturnFromMain
           \/ MainSpuriousWakeup
  <2>1. Owners' = Owners /\ UNCHANGED <<buf, loaded>>
    BY <1>5, SameOwnersMain DEF MainSignals, Signal, WaitForAllWorkers, TerminateWorkers,
       ReturnFromMain, MainSpuriousWakeup, Taken, GoOn, AllFree
  <2>2. pc[Main] \notin {"load", "schedule"}
    BY <1>5 DEF MainSignals, Signal, WaitForAllWorkers, TerminateWorkers, ReturnFromMain,
       MainSpuriousWakeup, Taken, GoOn, AllFree
  <2> QED BY <2>1, <2>2, SameSort
<1>6. ASSUME NEW w \in Worker,
             \/ LoopHead(w) \/ LockWorker(w) \/ FindNoJob(w) \/ FindJob(w)
             \/ FallAsleep(w) \/ SpuriousWakeup(w) \/ WorkerSignals(w) \/ Finish(w)
      PROVE  SortInv'
  <2>1. Owners' = Owners /\ UNCHANGED <<buf, loaded>>
    BY <1>6, SameOwners
  <2>2. /\ w \in Thread /\ w # Main /\ Main \in Thread
        /\ pc \in [Thread -> WorkerPC \cup MainPC] /\ Targets
    BY WorkerFacts DEF PoolInv, TypeOK, Thread
  <2>3. pc'[Main] \notin {"load", "schedule"} => pc[Main] \notin {"load", "schedule"}
    BY <1>6, <2>2 DEF LoopHead, LockWorker, FindNoJob, FindJob, FallAsleep,
       SpuriousWakeup, WorkerSignals, Signal, Finish, Taken, Woken, GoOn
  <2> QED BY <2>1, <2>3, SameSort
<1>7. ASSUME NEW w \in Worker, NEW part \in work[w],
             \/ GiveAway(w, part) \/ KeepPart(w, part)
             \/ PartSorted(w, part) \/ Partition(w, part)
      PROVE  SortInv'
  BY <1>7, GiveAwaySort, WorkSort
<1> QED BY <1>1, <1>2, <1>3, <1>4, <1>5, <1>6, <1>7, ScheduleSplit
        DEF Next, MainStep, WorkerStep, Spurious, Exited

LEMMA SortCorrect == Spec => [](PoolInv /\ SortInv)
<1>1. PoolInv /\ SortInv /\ [Next]_vars => (PoolInv /\ SortInv)'
  BY PoolStep, SortStep
<1> QED BY <1>1, InitPool, InitSort, PTL DEF Spec

(* The sort threads never write the same record. *)
THEOREM PartsAreDisjoint == Spec => []PartsDisjoint
<1>1. PoolInv /\ SortInv => PartsDisjoint
  BY DEF SortInv
<1> QED BY <1>1, SortCorrect, PTL

(* At the barrier nothing is pending, so everything is in order. *)
LEMMA BarrierSorted ==
  ASSUME PoolInv, SortInv, NumThreads # 0, pc[Main] \in {"sorted", "return", "exited"}
  PROVE  IsSorted(buf, 1, N)
<1>1. \A w \in Worker : Pending(w) = {}
  BY DEF PoolInv, QuietOutsideSort
<1>2. \A p, q \in Pos : p < q => buf[p] <= buf[q]
  BY <1>1 DEF SortInv, Ordered
<1>3. ASSUME NEW i \in 2 .. N PROVE buf[i - 1] <= buf[i]
  <2>1. i - 1 \in Pos /\ i \in Pos /\ i - 1 < i
    BY PoolAssumption DEF Pos
  <2> QED BY <1>2, <2>1
<1> QED BY <1>3 DEF IsSorted

(* With at least one thread in the pool (num_threads at least 1), the      *)
(* window is sorted, and no record lost, whenever the barrier is passed:   *)
(* with every number of threads, every window and every leaf size.         *)
THEOREM BarrierIsCorrect == ASSUME NumThreads # 0 PROVE Spec => []SortedAtBarrier
<1>1. PoolInv /\ SortInv => SortedAtBarrier
  BY BarrierSorted DEF SortedAtBarrier, SortInv
<1> QED BY <1>1, SortCorrect, PTL

-----------------------------------------------------------------------------
(***************************************************************************)
(* The refinement: the pool implements WindowSort                          *)
(***************************************************************************)
LEMMA AbstractInit == Init => Abstract!Init
BY PoolAssumption DEF Init, Abstract!Init, Sorting, Main, Thread, Pos

(* WindowSort means the same by a sorted rearrangement. *)
LEMMA AbstractRecords ==
  /\ \A a, b : Abstract!Rearranged(a, b) <=> Rearranged(a, b)
  /\ \A b, lo, hi : Abstract!IsSorted(b, lo, hi) <=> IsSorted(b, lo, hi)
<1>1. \A S : Abstract!Perms(S) = Perms(S)
  BY DEF Abstract!Perms, Perms
<1>2. \A b, S, f : Abstract!Shuffle(b, S, f) = Shuffle(b, S, f)
  BY DEF Abstract!Shuffle, Shuffle
<1>3. \A a, b : Abstract!Rearranged(a, b) <=> Rearranged(a, b)
  BY <1>1, <1>2 DEF Abstract!Rearranged, Rearranged
<1>4. \A b, lo, hi : Abstract!IsSorted(b, lo, hi) <=> IsSorted(b, lo, hi)
  BY DEF Abstract!IsSorted, IsSorted
<1> QED BY <1>3, <1>4

LEMMA AbstractStep ==
  ASSUME PoolInv, SortedAtBarrier', TypeOK', [Next]_vars
  PROVE  [Abstract!Next]_(Abstract!vars)
<1> DEFINE content == IF Sorting THEN loaded ELSE buf
           phase == IF Sorting THEN "sorting" ELSE IF terminate THEN "stopped" ELSE "ready"
<1>1. /\ TypeOK /\ TerminateLast /\ Main \in Thread /\ QuietOutsideSort
      /\ pc \in [Thread -> WorkerPC \cup MainPC]
  BY DEF PoolInv, TypeOK, Thread
<1>2. SUFFICES ~ (UNCHANGED <<content, phase>>) => Abstract!Next
  BY DEF Abstract!vars
<1>3. CASE LoadWindow
  <2>1. /\ ~ Sorting /\ Sorting' /\ ~ terminate
        /\ loaded' = buf' /\ buf' \in [1 .. N -> Key]
    BY <1>1, <1>3, PoolAssumption DEF LoadWindow, Sorting, TerminateLast, Pos
  <2>2. Abstract!Load
    BY <2>1 DEF Abstract!Load
  <2> QED BY <2>2 DEF Abstract!Next
<1>4. CASE WaitForAllWorkers /\ pc'[Main] = "sorted"
  <2>1. /\ Sorting /\ ~ Sorting' /\ ~ terminate'
        /\ buf' \in [1 .. N -> Key] /\ loaded' = loaded
    BY <1>1, <1>4 DEF WaitForAllWorkers, Sorting, TerminateLast, TypeOK, Pos, GoOn, AllFree
  <2>2. IsSorted(buf', 1, N) /\ Rearranged(loaded, buf')
    BY <1>4, <2>1 DEF SortedAtBarrier
  <2>3. /\ content = loaded /\ content' = buf'
        /\ phase = "sorting" /\ phase' = "ready"
    BY <2>1
  <2>4. Abstract!Rearranged(content, content') /\ Abstract!IsSorted(content', 1, N)
    BY <2>2, <2>3, AbstractRecords
  <2>5. content' \in [1 .. N -> Key]
    BY <2>1, <2>3
  <2> HIDE DEF content, phase
  <2>6. Abstract!Sort
    BY <2>3, <2>4, <2>5 DEF Abstract!Sort, content, phase
  <2> QED BY <2>6 DEF Abstract!Next
<1>5. CASE TerminateWorkers
  <2>1. ~ Sorting /\ ~ Sorting' /\ ~ terminate /\ terminate' /\ buf' = buf
    BY <1>1, <1>5 DEF TerminateWorkers, Sorting, TerminateLast
  <2>2. Abstract!Stop
    BY <2>1 DEF Abstract!Stop
  <2> QED BY <2>2 DEF Abstract!Next
<1>6. CASE \/ UNCHANGED vars
           \/ WindowTaken \/ WindowRefused \/ MainSignals \/ ReturnFromMain
           \/ MainSpuriousWakeup \/ (WaitForAllWorkers /\ pc'[Main] # "sorted")
  <2>1. Sorting' = Sorting /\ UNCHANGED <<buf, loaded, terminate>>
    BY <1>1, <1>6 DEF vars, WindowTaken, WindowRefused, MainSignals, Signal, Publish,
       ReturnFromMain, MainSpuriousWakeup, WaitForAllWorkers, Sorting, Taken, GoOn, AllFree
  <2> QED BY <2>1
(* A step of a worker changes the window only while main waits. *)
<1>7. ASSUME NEW w \in Worker, WorkerStep(w) \/ SpuriousWakeup(w)
      PROVE  UNCHANGED <<content, phase>>
  <2>1. w # Main /\ w \in Thread /\ Targets
    BY WorkerFacts DEF PoolInv, Thread
  <2>2. Sorting' = Sorting /\ UNCHANGED <<loaded, terminate>>
    <3>1. CASE LoopHead(w) \/ LockWorker(w) \/ FindNoJob(w) \/ FindJob(w)
               \/ FallAsleep(w) \/ SpuriousWakeup(w)
      BY <1>1, <2>1, <3>1 DEF LoopHead, LockWorker, FindNoJob, FindJob, FallAsleep,
         SpuriousWakeup, Sorting, GoOn
    <3>2. CASE \E part \in work[w] : \/ GiveAway(w, part) \/ KeepPart(w, part)
                                    \/ PartSorted(w, part) \/ Partition(w, part)
      BY <1>1, <2>1, <3>2 DEF GiveAway, Publish, KeepPart, PartSorted, Partition, Sorting
    <3>3. CASE WorkerSignals(w)
      BY <1>1, <2>1, <3>3, WorkerFacts DEF WorkerSignals, Signal, Targets, Sorting, Taken
    <3>4. CASE Finish(w)
      BY <1>1, <2>1, <3>4 DEF Finish, Sorting, Woken
    <3> QED BY <1>7, <3>1, <3>2, <3>3, <3>4 DEF WorkerStep
  <2>3. buf' = buf \/ pc[w] = "run"
    BY <1>7 DEF WorkerStep, LoopHead, LockWorker, FindNoJob, FindJob,
       FallAsleep, SpuriousWakeup, GiveAway, KeepPart, PartSorted, Partition, Current,
       WorkerSignals, Signal, Finish, Taken, Woken, Rest, GoOn
  <2>4. pc[w] = "run" => Sorting
    BY <1>1, BusyMain DEF Sorting, QuietPC, TypeOK, MainPC
  <2> QED BY <2>2, <2>3, <2>4
<1> QED BY <1>3, <1>4, <1>5, <1>6, <1>7, ScheduleSplit DEF Next, MainStep, Spurious, Exited

(* The program that runs the pool is an implementation of one that sorts   *)
(* each window in a single step and goes on only when it is sorted.        *)
THEOREM PoolSortsWindows == ASSUME NumThreads # 0 PROVE Spec => SortsWindows
<1>1. PoolInv /\ SortedAtBarrier' /\ TypeOK' /\ [Next]_vars
        => [Abstract!Next]_(Abstract!vars)
  BY AbstractStep
<1>2. PoolInv => TypeOK
  BY DEF PoolInv
<1> QED BY <1>1, <1>2, AbstractInit, SortCorrect, BarrierIsCorrect, PTL
        DEF SortsWindows, Abstract!Spec, Spec
=============================================================================
