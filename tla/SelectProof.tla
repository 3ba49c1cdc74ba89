---------------------------- MODULE SelectProof ----------------------------
(***************************************************************************)
(* Proofs about Select, for any number of filters, any number of           *)
(* selections and workers of any speed, and about the Experiment in front  *)
(* of it, whose list of names needs four filters at least                  *)
(* (ExperimentAssumption; no proof about Select cites it).                 *)
(*                                                                         *)
(* The argument about Select: a worker adds one to the counter only as its *)
(* last step, so the counter, and every value read from it on the way to a *)
(* write, is at most the number of ended workers (Behind).  A worker that  *)
(* is still to take its name has not ended, hence the index it finds is in *)
(* range; and a counter that has reached NumFilters leaves no worker       *)
(* running.                                                                *)
(*                                                                         *)
(* The argument about the Experiment: what Select does under it is a step  *)
(* of Select, so what is shown of the files holds there.  As long as the   *)
(* user has not left, no photo is picked: the one the experiment was       *)
(* opened for stays alone in the files, and what is decoded from them is   *)
(* its pictures.                                                           *)
(***************************************************************************)
EXTENDS Experiment, FiniteSetTheorems, SequenceTheorems, TLAPS

Behind ==
  /\ \A s \in Selections : count[s] <= Cardinality(Ended(s))
  /\ \A w \in Workers : wpc[w] = "add" => wtmp[w] <= Cardinality(Ended(w[1]))

NotYetSpawned ==
  \A s \in Selections, f \in Filters : f >= spawned[s] => wpc[<<s, f>>] = "new"

IndInv == TypeOK /\ Behind /\ NotYetSpawned /\ NameInRange /\ NextMeansAllEnded

-----------------------------------------------------------------------------
(* The set of ended workers of a selection is finite, and has all NumFilters *)
(* of them only when it is the whole of Filters (list of Select.kt:130).     *)
LEMMA EndedFinite ==
  ASSUME NEW s \in Selections
  PROVE  /\ IsFiniteSet(Ended(s))
         /\ Cardinality(Ended(s)) \in 0 .. NumFilters
         /\ Cardinality(Ended(s)) = NumFilters => Ended(s) = Filters
<1>1. IsFiniteSet(Filters) /\ Cardinality(Filters) = NumFilters
  BY FS_Interval, SelectAssumption DEF Filters
<1>2. Ended(s) \in SUBSET Filters
  BY DEF Ended
<1>3. IsFiniteSet(Ended(s)) /\ Cardinality(Ended(s)) <= NumFilters
  BY <1>1, <1>2, FS_Subset
<1>4. Cardinality(Ended(s)) \in Nat
  BY <1>3, FS_CardinalityType
<1>5. Cardinality(Ended(s)) = NumFilters => Ended(s) = Filters
  BY <1>1, <1>2, FS_Subset
<1>6. QED
  BY <1>3, <1>4, <1>5, SelectAssumption

(* Removing or adding a worker to the ended ones of its selection.           *)
LEMMA EndedBelow ==
  ASSUME NEW s \in Selections, NEW f \in Filters, f \notin Ended(s)
  PROVE  Cardinality(Ended(s)) < NumFilters
<1>1. Ended(s) # Filters
  OBVIOUS
<1>2. QED
  BY <1>1, EndedFinite, SelectAssumption

LEMMA Typing == Spec => []TypeOK
<1>1. Init => TypeOK
  <2>1. Init => /\ spawned \in [Selections -> 0 .. NumFilters]
                /\ count \in [Selections -> Nat]
                /\ wname \in [Workers -> Nat]
                /\ wtmp \in [Workers -> Nat]
    BY SelectAssumption DEF Init
  <2>2. QED
    BY <2>1, Zenon DEF Init, TypeOK
<1>2. TypeOK /\ [Next]_vars => TypeOK'
  <2> SUFFICES ASSUME TypeOK, [Next]_vars
               PROVE  TypeOK'
    OBVIOUS
  <2> USE SelectAssumption DEF TypeOK
  <2>1. ASSUME NEW s \in Selections, SelectProcess(s)
        PROVE  TypeOK'
    BY <2>1 DEF SelectProcess
  <2>2. ASSUME NEW s \in Selections, Spawn(s)
        PROVE  TypeOK'
    <3>1. spawned' \in [Selections -> 0 .. NumFilters]
      BY <2>2 DEF Spawn
    <3>2. wpc' \in [Workers -> {"new", "name", "open", "save", "spoil", "bump", "add",
                               "end", "throw"}]
      BY <2>2 DEF Spawn
    <3>3. QED
      BY <2>2, <3>1, <3>2 DEF Spawn
  <2>3. ASSUME NEW s \in Selections, LoopDone(s) \/ WaitDone(s) \/ ShowNext(s)
        PROVE  TypeOK'
    BY <2>3 DEF LoopDone, WaitDone, ShowNext
  <2>4. ASSUME NEW w \in Workers, TakeName(w)
        PROVE  TypeOK'
    BY <2>4 DEF TakeName, Workers
  <2>5. ASSUME NEW w \in Workers, OpenFile(w)
        PROVE  TypeOK'
    BY <2>5 DEF OpenFile, Writing
  <2>6. ASSUME NEW w \in Workers, CloseFile(w)
        PROVE  TypeOK'
    BY <2>6 DEF CloseFile, Workers, Saved
  <2>7. ASSUME NEW w \in Workers, ReadCount(w)
        PROVE  TypeOK'
    BY <2>7 DEF ReadCount, Workers
  <2>8. ASSUME NEW w \in Workers, WriteCount(w)
        PROVE  TypeOK'
    BY <2>8 DEF WriteCount, Workers
  <2>9. CASE UNCHANGED vars
    BY <2>9 DEF vars
  <2>10. QED
    BY <2>1, <2>2, <2>3, <2>4, <2>5, <2>6, <2>7, <2>8, <2>9
    DEF Next, Coordinator, Worker
<1>3. QED
  BY <1>1, <1>2, PTL DEF Spec

-----------------------------------------------------------------------------
(* No step un-ends a worker, and only WriteCount ends one (Select.kt:151).   *)
LEMMA EndedGrows ==
  ASSUME TypeOK, NotYetSpawned, [Next]_vars, NEW s \in Selections
  PROVE  /\ Ended(s) \subseteq Ended(s)'
         /\ Cardinality(Ended(s)) <= Cardinality(Ended(s)')
<1> USE DEF TypeOK
<1>1. \A v \in Workers : wpc[v] = "end" => wpc'[v] = "end"
  <2> SUFFICES ASSUME NEW v \in Workers, wpc[v] = "end"
               PROVE  wpc'[v] = "end"
    OBVIOUS
  <2>1. ASSUME NEW r \in Selections, SelectProcess(r)
        PROVE  wpc'[v] = "end"
    BY <2>1 DEF SelectProcess
  <2>2. ASSUME NEW r \in Selections, Spawn(r)
        PROVE  wpc'[v] = "end"
    <3>1. spawned[r] \in Filters /\ wpc[<<r, spawned[r]>>] = "new"
      BY <2>2, SelectAssumption DEF Spawn, NotYetSpawned, Filters
    <3>2. v # <<r, spawned[r]>>
      BY <3>1
    <3>3. QED
      BY <2>2, <3>2 DEF Spawn
  <2>3. ASSUME NEW r \in Selections, LoopDone(r) \/ WaitDone(r) \/ ShowNext(r)
        PROVE  wpc'[v] = "end"
    BY <2>3 DEF LoopDone, WaitDone, ShowNext
  <2>4. ASSUME NEW w \in Workers, TakeName(w) \/ CloseFile(w) \/ ReadCount(w)
                                 \/ WriteCount(w)
        PROVE  wpc'[v] = "end"
    BY <2>4 DEF TakeName, CloseFile, ReadCount, WriteCount
  <2>5. ASSUME NEW w \in Workers, OpenFile(w)
        PROVE  wpc'[v] = "end"
    BY <2>5 DEF OpenFile, Writing
  <2>6. CASE UNCHANGED vars
    BY <2>6 DEF vars
  <2>7. QED
    BY <2>1, <2>2, <2>3, <2>4, <2>5, <2>6 DEF Next, Coordinator, Worker
<1>2. Ended(s) \subseteq Ended(s)'
  BY <1>1 DEF Ended, Workers
<1>3. Ended(s)' \in SUBSET Filters /\ IsFiniteSet(Filters)
  BY FS_Interval, SelectAssumption DEF Ended, Filters
<1>4. IsFiniteSet(Ended(s)')
  BY <1>3, FS_Subset
<1>5. Cardinality(Ended(s)) <= Cardinality(Ended(s)')
  BY <1>2, <1>4, FS_Subset
<1>6. QED
  BY <1>2, <1>5

LEMMA BehindInit == Init => Behind /\ NotYetSpawned /\ NameInRange /\ NextMeansAllEnded
<1> SUFFICES ASSUME Init
             PROVE  Behind /\ NotYetSpawned /\ NameInRange /\ NextMeansAllEnded
  OBVIOUS
<1>1. Behind
  BY EndedFinite, SelectAssumption DEF Init, Behind
<1>2. NotYetSpawned /\ NameInRange /\ NextMeansAllEnded
  BY DEF Init, NotYetSpawned, NameInRange, NextMeansAllEnded, Workers
<1>3. QED
  BY <1>1, <1>2

(* Each action keeps counter and pending increments behind the ended workers. *)
LEMMA BehindStep == IndInv /\ TypeOK' /\ [Next]_vars => Behind'
<1> SUFFICES ASSUME IndInv, TypeOK', [Next]_vars
             PROVE  Behind'
  OBVIOUS
<1> USE DEF IndInv
<1>1. \A s \in Selections : /\ Cardinality(Ended(s)) \in Nat
                           /\ Cardinality(Ended(s))' \in Nat
                           /\ Cardinality(Ended(s)) <= Cardinality(Ended(s))'
  <2>1. \A s \in Selections : Ended(s)' \in SUBSET Filters
    BY DEF Ended
  <2>2. IsFiniteSet(Filters)
    BY FS_Interval, SelectAssumption DEF Filters
  <2>3. \A s \in Selections : Cardinality(Ended(s)') \in Nat
    BY <2>1, <2>2, FS_Subset, FS_CardinalityType
  <2>4. QED
    BY <2>3, EndedFinite, EndedGrows, SelectAssumption
<1> DEFINE Rest == /\ \A s \in Selections : count'[s] = count[s]
                   /\ \A w \in Workers : wpc'[w] = "add" =>
                                         wpc[w] = "add" /\ wtmp'[w] = wtmp[w]
<1>2. Rest => Behind'
  BY <1>1 DEF Behind, TypeOK, Workers
<1>3. ASSUME NEW s \in Selections, SelectProcess(s) \/ Coordinator(s)
      PROVE  Rest
  BY <1>3 DEF SelectProcess, Coordinator, Spawn, LoopDone, WaitDone, ShowNext, TypeOK
<1>4. ASSUME NEW w \in Workers, TakeName(w) \/ CloseFile(w)
      PROVE  Rest
  BY <1>4 DEF TakeName, CloseFile, TypeOK
<1>5. ASSUME NEW w \in Workers, OpenFile(w)
      PROVE  Rest
  BY <1>5 DEF OpenFile, Writing, TypeOK
<1>6. ASSUME NEW w \in Workers, ReadCount(w)
      PROVE  Behind'
  BY <1>1, <1>6 DEF ReadCount, Behind, TypeOK, Workers
<1>7. ASSUME NEW w \in Workers, WriteCount(w)
      PROVE  Behind'
  <2> DEFINE s == w[1]
             f == w[2]
  <2>1. s \in Selections /\ f \in Filters /\ w = <<s, f>>
    BY DEF Workers
  <2>2. f \notin Ended(s) /\ Ended(s)' = Ended(s) \cup {f}
    BY <1>7, <2>1 DEF WriteCount, Ended, TypeOK, Workers
  <2>3. IsFiniteSet(Ended(s))
    BY <2>1, EndedFinite
  <2>4. Cardinality(Ended(s))' = Cardinality(Ended(s)) + 1
    BY <2>2, <2>3, FS_AddElement
  <2>5. count'[s] <= Cardinality(Ended(s))'
    BY <1>1, <1>7, <2>1, <2>4 DEF WriteCount, Behind, TypeOK
  <2>6. \A r \in Selections : count'[r] <= Cardinality(Ended(r))'
    BY <1>1, <1>7, <2>1, <2>5 DEF WriteCount, Behind, TypeOK
  <2>7. \A v \in Workers : wpc'[v] = "add" => wtmp'[v] <= Cardinality(Ended(v[1]))'
    BY <1>1, <1>7 DEF WriteCount, Behind, TypeOK, Workers
  <2>8. QED
    BY <2>6, <2>7 DEF Behind
<1>8. CASE UNCHANGED vars
  BY <1>2, <1>8 DEF vars
<1>9. QED
  BY <1>2, <1>3, <1>4, <1>5, <1>6, <1>7, <1>8 DEF Next, Worker

LEMMA SpawnedStep == IndInv /\ [Next]_vars => NotYetSpawned'
<1> SUFFICES ASSUME IndInv, [Next]_vars,
                    NEW s \in Selections, NEW f \in Filters, f >= spawned'[s]
             PROVE  wpc'[<<s, f>>] = "new"
  BY DEF NotYetSpawned
<1> USE DEF IndInv, NotYetSpawned, TypeOK
<1>1. ASSUME NEW r \in Selections, SelectProcess(r)
      PROVE  wpc'[<<s, f>>] = "new"
  BY <1>1 DEF SelectProcess
<1>2. ASSUME NEW r \in Selections, Spawn(r)
      PROVE  wpc'[<<s, f>>] = "new"
  <2>1. f >= spawned[s] /\ <<s, f>> # <<r, spawned[r]>>
    BY <1>2, SelectAssumption DEF Spawn, Filters
  <2>2. <<s, f>> \in Workers /\ wpc[<<s, f>>] = "new"
    BY <2>1 DEF Workers
  <2>3. QED
    BY <1>2, <2>1, <2>2 DEF Spawn
<1>3. ASSUME NEW r \in Selections, LoopDone(r) \/ WaitDone(r) \/ ShowNext(r)
      PROVE  wpc'[<<s, f>>] = "new"
  BY <1>3 DEF LoopDone, WaitDone, ShowNext
<1>4. ASSUME NEW w \in Workers, TakeName(w) \/ CloseFile(w) \/ ReadCount(w)
                               \/ WriteCount(w)
      PROVE  wpc'[<<s, f>>] = "new"
  BY <1>4 DEF TakeName, CloseFile, ReadCount, WriteCount, Workers
<1>5. ASSUME NEW w \in Workers, OpenFile(w)
      PROVE  wpc'[<<s, f>>] = "new"
  BY <1>5 DEF OpenFile, Writing, Workers
<1>6. CASE UNCHANGED vars
  BY <1>6 DEF vars
<1>7. QED
  BY <1>1, <1>2, <1>3, <1>4, <1>5, <1>6 DEF Next, Coordinator, Worker

LEMMA NameStep == IndInv /\ [Next]_vars => NameInRange'
<1> SUFFICES ASSUME IndInv, [Next]_vars
             PROVE  NameInRange'
  OBVIOUS
<1> USE DEF IndInv, NameInRange, TypeOK
<1>1. ASSUME NEW s \in Selections, SelectProcess(s) \/ Coordinator(s)
      PROVE  NameInRange'
  BY <1>1 DEF SelectProcess, Coordinator, Spawn, LoopDone, WaitDone, ShowNext
<1>2. ASSUME NEW w \in Workers, TakeName(w)
      PROVE  NameInRange'
  <2>1. w[1] \in Selections /\ w[2] \in Filters /\ w[2] \notin Ended(w[1])
    <3>1. w[1] \in Selections /\ w[2] \in Filters /\ w = <<w[1], w[2]>>
      BY DEF Workers
    <3>2. wpc[<<w[1], w[2]>>] # "end"
      BY <1>2, <3>1 DEF TakeName
    <3>3. QED
      BY <3>1, <3>2 DEF Ended
  <2>2. count[w[1]] < NumFilters
    BY <2>1, EndedBelow, EndedFinite, SelectAssumption DEF Behind
  <2>3. QED
    BY <1>2, <2>2 DEF TakeName
<1>3. ASSUME NEW w \in Workers, CloseFile(w) \/ ReadCount(w) \/ WriteCount(w)
      PROVE  NameInRange'
  BY <1>3 DEF CloseFile, ReadCount, WriteCount
<1>4. ASSUME NEW w \in Workers, OpenFile(w)
      PROVE  NameInRange'
  BY <1>4 DEF OpenFile, Writing
<1>5. CASE UNCHANGED vars
  BY <1>5 DEF vars
<1>6. QED
  BY <1>1, <1>2, <1>3, <1>4, <1>5 DEF Next, Worker

LEMMA NextStep == IndInv /\ [Next]_vars => NextMeansAllEnded'
<1> SUFFICES ASSUME IndInv, [Next]_vars,
                    NEW s \in Selections, coord'[s] \in {"post", "end"}
             PROVE  Ended(s)' = Filters
  BY DEF NextMeansAllEnded
<1>1. Ended(s) = Filters
  <2>1. CASE coord[s] \in {"post", "end"}
    BY <2>1 DEF IndInv, NextMeansAllEnded
  <2>2. CASE coord[s] \notin {"post", "end"}
    <3>1. WaitDone(s)
      BY <2>2 DEF Next, vars, IndInv, TypeOK, SelectProcess, Coordinator, Spawn, LoopDone,
                  WaitDone, ShowNext, Worker, TakeName, OpenFile, CloseFile, ReadCount,
                  WriteCount
    <3>2. Cardinality(Ended(s)) >= NumFilters
      BY <3>1, EndedFinite, SelectAssumption DEF WaitDone, IndInv, Behind, TypeOK
    <3>3. QED
      BY <3>2, EndedFinite, SelectAssumption
  <2>3. QED
    BY <2>1, <2>2
<1>2. Ended(s)' \subseteq Filters
  BY DEF Ended
<1>3. QED
  BY <1>1, <1>2, EndedGrows DEF IndInv

-----------------------------------------------------------------------------
LEMMA Inductive == Spec => []IndInv
<1>1. Init => Behind /\ NotYetSpawned /\ NameInRange /\ NextMeansAllEnded
  BY BehindInit
<1>2. IndInv /\ TypeOK' /\ [Next]_vars => IndInv'
  BY BehindStep, SpawnedStep, NameStep, NextStep DEF IndInv
<1>3. Spec => []TypeOK
  BY Typing
<1>4. QED
  BY <1>1, <1>2, <1>3, PTL DEF Spec, IndInv

(* However fast or slow the workers are, listName[count] (Select.kt:142) is  *)
(* never read out of range.                                                  *)
THEOREM NameAlwaysInRange == Spec => []NameInRange
<1>1. IndInv => NameInRange
  BY DEF IndInv
<1>2. QED
  BY <1>1, Inductive, PTL

(* The "next" button is posted (Select.kt:162-167) only when every worker of *)
(* the selection has closed its file.                                        *)
THEOREM NextOnlyAfterAllEnded == Spec => []NextMeansAllEnded
<1>1. IndInv => NextMeansAllEnded
  BY DEF IndInv
<1>2. QED
  BY <1>1, Inductive, PTL

-----------------------------------------------------------------------------
(* Prompt workers take turns: the one that runs is the latest that was     *)
(* started, the counter is its number, and it names the file.              *)
TurnOf(s, f) ==
  /\ wpc[<<s, f>>] \notin {"new", "end"} => spawned[s] = f + 1 /\ count[s] = f
  /\ wpc[<<s, f>>] \in {"open", "save", "spoil", "bump", "add"} => wname[<<s, f>>] = f
  /\ wpc[<<s, f>>] = "add" => wtmp[<<s, f>>] = f
  /\ wpc[<<s, f>>] = "end" /\ spawned[s] = f + 1 => count[s] = f + 1

InTurn ==
  prompt => \A s \in Selections :
    /\ spawned[s] = 0 => count[s] = 0
    /\ \A f \in Filters : TurnOf(s, f)

(* Selections begin one after the other, and one that is alone has no      *)
(* other beside it.                                                        *)
OneByOne ==
  /\ \A s \in Selections : coord[s] = "idle" =>
       /\ spawned[s] = 0
       /\ \A r \in Selections : s < r => coord[r] = "idle"
  /\ \A s \in alone, r \in Selections : r # s => coord[r] \in {"idle", "end"}
  /\ \A s \in alone : coord[s] # "idle"

(* The files of a selection that is alone.                                 *)
OwnFiles ==
  prompt => \A s \in alone, f \in Filters :
    /\ wpc[<<s, f>>] # "spoil"
    /\ wpc[<<s, f>>] \in {"bump", "add", "end"} => files[f] = <<s, f>>

FileInv == InTurn /\ OneByOne /\ OwnFiles

LEMMA FileInvInit == Init => FileInv
<1> SUFFICES ASSUME Init
             PROVE  FileInv
  OBVIOUS
<1>1. InTurn
  BY DEF Init, InTurn, TurnOf, Workers
<1>2. OneByOne
  BY DEF Init, OneByOne
<1>3. OwnFiles
  BY DEF Init, OwnFiles
<1>4. QED
  BY <1>1, <1>2, <1>3 DEF FileInv

(* After the pause, all workers started so far have ended (Select.kt:153). *)
LEMMA AllSlept ==
  ASSUME TypeOK, NotYetSpawned, NEW s \in Selections, prompt, Slept(s)
  PROVE  \A f \in Filters : f < spawned[s] => wpc[<<s, f>>] = "end"
<1> DEFINE Started == 0 .. spawned[s] - 1
<1>1. spawned[s] \in 0 .. NumFilters
  BY DEF TypeOK
<1>2. IsFiniteSet(Started) /\ Cardinality(Started) = spawned[s]
  <2>1. 0 \in Int /\ spawned[s] - 1 \in Int
    BY <1>1
  <2>2. IsFiniteSet(Started) /\ Cardinality(Started) =
          IF 0 > spawned[s] - 1 THEN 0 ELSE spawned[s] - 1 - 0 + 1
    BY <2>1, FS_Interval
  <2>3. QED
    BY <1>1, <2>2
<1>3. Ended(s) \in SUBSET Started
  BY <1>1, SelectAssumption DEF Ended, NotYetSpawned, Filters
<1>4. Cardinality(Ended(s)) = Cardinality(Started)
  BY <1>2 DEF Slept
<1>5. Ended(s) = Started
  BY <1>2, <1>3, <1>4, FS_Subset
<1>6. QED
  BY <1>1, <1>5, SelectAssumption DEF Ended, Filters

LEMMA InTurnStep == IndInv /\ InTurn /\ OneByOne /\ [Next]_vars => InTurn'
<1> SUFFICES ASSUME IndInv, InTurn, OneByOne, [Next]_vars, prompt'
             PROVE  \A s \in Selections :
                      /\ spawned'[s] = 0 => count'[s] = 0
                      /\ \A f \in Filters : TurnOf(s, f)'
  BY DEF InTurn
<1> DEFINE Goal(s) == /\ spawned'[s] = 0 => count'[s] = 0
                      /\ \A f \in Filters : TurnOf(s, f)'
<1>p. prompt
  BY DEF Next, vars, SelectProcess, Coordinator, Spawn, LoopDone, WaitDone, ShowNext, Worker,
         TakeName, OpenFile, CloseFile, ReadCount, WriteCount
<1>t. TypeOK /\ NotYetSpawned
  BY DEF IndInv
<1>i. \A s \in Selections : /\ spawned[s] = 0 => count[s] = 0
                            /\ \A f \in Filters : TurnOf(s, f)
  BY <1>p DEF InTurn
<1>w. \A s \in Selections, f \in Filters : <<s, f>> \in Workers
  BY DEF Workers
<1>1. ASSUME NEW r \in Selections, SelectProcess(r) \/ LoopDone(r) \/ WaitDone(r) \/ ShowNext(r)
      PROVE  \A s \in Selections : Goal(s)
  <2>1. UNCHANGED <<spawned, count, wpc, wname, wtmp>>
    BY <1>1 DEF SelectProcess, LoopDone, WaitDone, ShowNext
  <2>2. QED
    BY <1>i, <2>1 DEF TurnOf
<1>2. ASSUME NEW r \in Selections, Spawn(r)
      PROVE  \A s \in Selections : Goal(s)
  <2> SUFFICES ASSUME NEW s \in Selections
               PROVE  Goal(s)
    OBVIOUS
  <2>1. CASE s # r
    <3>1. spawned'[s] = spawned[s] /\ count' = count /\ wname' = wname /\ wtmp' = wtmp
      BY <1>2, <1>t, <2>1 DEF Spawn, TypeOK
    <3>2. \A f \in Filters : wpc'[<<s, f>>] = wpc[<<s, f>>]
      BY <1>2, <1>t, <1>w, <2>1 DEF Spawn, TypeOK
    <3>3. QED
      BY <1>i, <3>1, <3>2 DEF TurnOf
  <2>2. CASE s = r
    <3> DEFINE n == spawned[s]
    <3>1. n \in 0 .. NumFilters /\ n < NumFilters /\ n \in Filters
      BY <1>2, <1>t, <2>2, SelectAssumption DEF Spawn, TypeOK, Filters
    <3>2. \A f \in Filters : f < n => wpc[<<s, f>>] = "end"
      BY <1>2, <1>t, <1>p, <2>2, AllSlept DEF Spawn
    <3>3. \A f \in Filters : f >= n => wpc[<<s, f>>] = "new"
      BY <1>t DEF NotYetSpawned
    <3>4. count[s] = n
      <4>1. CASE n = 0
        BY <1>i, <4>1
      <4>2. CASE n # 0
        <5>1. n - 1 \in Filters /\ wpc[<<s, n - 1>>] = "end"
          BY <3>1, <3>2, <4>2, SelectAssumption DEF Filters
        <5>2. TurnOf(s, n - 1)
          BY <1>i, <5>1
        <5>3. QED
          BY <3>1, <5>1, <5>2 DEF TurnOf
      <4>3. QED
        BY <4>1, <4>2
    <3>5. /\ spawned'[s] = n + 1 /\ count' = count /\ wname' = wname /\ wtmp' = wtmp
          /\ wpc' = [wpc EXCEPT ![<<s, n>>] = "name"]
      BY <1>2, <1>t, <2>2 DEF Spawn, TypeOK
    <3>6. wpc'[<<s, n>>] = "name"
      BY <1>t, <1>w, <3>1, <3>5 DEF TypeOK
    <3>7. \A f \in Filters : f # n => wpc'[<<s, f>>] = wpc[<<s, f>>]
      BY <1>t, <1>w, <3>1, <3>5 DEF TypeOK
    <3>8. \A f \in Filters : TurnOf(s, f)'
      <4> SUFFICES ASSUME NEW f \in Filters
                   PROVE  TurnOf(s, f)'
        OBVIOUS
      <4>1. CASE f = n
        BY <3>4, <3>5, <3>6, <4>1 DEF TurnOf
      <4>2. CASE f # n
        <5>1. wpc'[<<s, f>>] \in {"new", "end"}
          BY <3>1, <3>2, <3>3, <3>7, <4>2, SelectAssumption DEF Filters
        <5>2. n + 1 # f + 1
          BY <3>1, <4>2, SelectAssumption DEF Filters
        <5>3. QED
          BY <3>5, <5>1, <5>2 DEF TurnOf
      <4>3. QED
        BY <4>1, <4>2
    <3>9. QED
      BY <3>1, <3>5, <3>8
  <2>3. QED
    BY <2>1, <2>2
<1>3. ASSUME NEW w \in Workers, TakeName(w)
      PROVE  \A s \in Selections : Goal(s)
  <2>1. spawned' = spawned /\ count' = count /\ wtmp' = wtmp
    BY <1>3 DEF TakeName
  <2>2. ASSUME NEW s \in Selections, NEW f \in Filters
        PROVE  TurnOf(s, f)'
    BY <1>3, <1>i, <1>t, <1>w, <2>1 DEF TakeName, TurnOf, TypeOK
  <2>3. QED
    BY <1>i, <2>1, <2>2
<1>4. ASSUME NEW w \in Workers, OpenFile(w)
      PROVE  \A s \in Selections : Goal(s)
  <2>1. /\ spawned' = spawned /\ count' = count /\ wtmp' = wtmp /\ wname' = wname
        /\ \A v \in Workers : \/ wpc'[v] = wpc[v]
                               \/ /\ wpc[v] \in {"open", "save", "spoil"}
                                  /\ wpc'[v] \in {"save", "spoil"}
    BY <1>4, <1>t DEF OpenFile, Writing, TypeOK
  <2>2. ASSUME NEW s \in Selections, NEW f \in Filters
        PROVE  TurnOf(s, f)'
    BY <1>i, <1>w, <2>1 DEF TurnOf
  <2>3. QED
    BY <1>i, <2>1, <2>2
<1>5. ASSUME NEW w \in Workers, CloseFile(w) \/ ReadCount(w)
      PROVE  \A s \in Selections : Goal(s)
  <2>1. /\ spawned' = spawned /\ count' = count /\ wname' = wname
        /\ \A v \in Workers : v # w => wpc'[v] = wpc[v] /\ wtmp'[v] = wtmp[v]
        /\ wpc[w] \in {"save", "spoil", "bump"} /\ wpc'[w] \in {"bump", "add"}
        /\ wpc'[w] = "add" => wtmp'[w] = count[w[1]]
    BY <1>5, <1>t DEF CloseFile, ReadCount, TypeOK
  <2>2. ASSUME NEW s \in Selections, NEW f \in Filters
        PROVE  TurnOf(s, f)'
    <3>1. CASE <<s, f>> # w
      BY <1>i, <1>w, <2>1, <3>1 DEF TurnOf
    <3>2. CASE <<s, f>> = w
      <4>1. wpc'[<<s, f>>] = "add" => wtmp'[<<s, f>>] = count[s]
        BY <2>1, <3>2
      <4>2. QED
        BY <1>i, <2>1, <3>2, <4>1 DEF TurnOf
    <3>3. QED
      BY <3>1, <3>2
  <2>3. QED
    BY <1>i, <2>1, <2>2
<1>6. ASSUME NEW w \in Workers, WriteCount(w)
      PROVE  \A s \in Selections : Goal(s)
  <2> DEFINE r == w[1]
             g == w[2]
  <2>1. r \in Selections /\ g \in Filters /\ w = <<r, g>>
    BY DEF Workers
  <2>2. TurnOf(r, g) /\ wpc[<<r, g>>] = "add"
    BY <1>6, <1>i, <2>1 DEF WriteCount
  <2>3. spawned[r] = g + 1 /\ wtmp[w] = g
    BY <2>1, <2>2 DEF TurnOf
  <2>4. /\ spawned' = spawned /\ count'[r] = g + 1 /\ wpc'[w] = "end"
        /\ \A s \in Selections : s # r => count'[s] = count[s]
        /\ \A v \in Workers : v # w =>
             wpc'[v] = wpc[v] /\ wname'[v] = wname[v] /\ wtmp'[v] = wtmp[v]
    BY <1>6, <1>t, <2>1, <2>3 DEF WriteCount, TypeOK
  <2>5. ASSUME NEW s \in Selections, NEW f \in Filters
        PROVE  TurnOf(s, f)'
    <3>1. CASE s # r
      BY <1>i, <1>w, <2>1, <2>4, <3>1 DEF TurnOf
    <3>2. CASE s = r /\ f = g
      BY <2>1, <2>4, <3>2 DEF TurnOf
    <3>3. CASE s = r /\ f # g
      <4>1. wpc'[<<s, f>>] = wpc[<<s, f>>] /\ <<s, f>> # w
        BY <1>w, <2>1, <2>4, <3>3
      <4>2. spawned[s] # f + 1
        BY <2>1, <2>3, <3>3, SelectAssumption DEF Filters
      <4>3. TurnOf(s, f)
        BY <1>i
      <4>4. wpc[<<s, f>>] \in {"new", "end"}
        BY <4>2, <4>3 DEF TurnOf
      <4>5. QED
        BY <2>4, <4>1, <4>2, <4>4 DEF TurnOf
    <3>4. QED
      BY <3>1, <3>2, <3>3
  <2>6. \A s \in Selections : spawned'[s] = 0 => count'[s] = 0
    BY <1>i, <2>1, <2>3, <2>4, SelectAssumption DEF Filters
  <2>7. QED
    BY <2>5, <2>6
<1>7. CASE UNCHANGED vars
  BY <1>7, <1>i DEF vars, TurnOf
<1>8. QED
  BY <1>1, <1>2, <1>3, <1>4, <1>5, <1>6, <1>7 DEF Next, Coordinator, Worker

LEMMA OneByOneStep == IndInv /\ OneByOne /\ [Next]_vars => OneByOne'
<1> SUFFICES ASSUME IndInv, OneByOne, [Next]_vars
             PROVE  OneByOne'
  OBVIOUS
<1> USE DEF IndInv, TypeOK
<1>1. ASSUME NEW r \in Selections, SelectProcess(r)
      PROVE  OneByOne'
  <2>1. /\ spawned' = spawned /\ coord[r] = "idle" /\ coord'[r] = "loop"
        /\ \A s \in Selections : s # r => coord'[s] = coord[s]
        /\ \A s \in Selections : s < r => coord[s] # "idle"
    BY <1>1, SelectAssumption DEF SelectProcess, Selections
  <2>2. \A s \in Selections : r < s => coord[s] = "idle"
    BY <2>1 DEF OneByOne
  <2>3. \A s \in Selections : coord'[s] = "idle" =>
          /\ spawned'[s] = 0
          /\ \A q \in Selections : s < q => coord'[q] = "idle"
    BY <2>1, SelectAssumption DEF OneByOne, Selections
  <2>4. alone' \subseteq {r}
    BY <1>1 DEF SelectProcess
  <2>5. ASSUME r \in alone', NEW s \in Selections, s # r
        PROVE  coord[s] \in {"idle", "end"}
    <3>1. \A q \in 1 .. r - 1 : coord[q] = "end"
      BY <1>1, <2>5 DEF SelectProcess
    <3>2. CASE s < r
      BY <3>1, <3>2, SelectAssumption DEF Selections
    <3>3. CASE r < s
      BY <2>2, <3>3
    <3>4. QED
      BY <2>5, <3>2, <3>3, SelectAssumption DEF Selections
  <2>6. QED
    BY <2>1, <2>3, <2>4, <2>5 DEF OneByOne
<1>2. ASSUME NEW r \in Selections, Coordinator(r)
      PROVE  OneByOne'
  <2>1. /\ alone' = alone /\ coord[r] # "idle" /\ coord[r] # "end" /\ coord'[r] # "idle"
        /\ \A s \in Selections : s # r => coord'[s] = coord[s] /\ spawned'[s] = spawned[s]
    BY <1>2 DEF Coordinator, Spawn, LoopDone, WaitDone, ShowNext
  <2>2. QED
    BY <2>1 DEF OneByOne
<1>3. ASSUME NEW w \in Workers, Worker(w)
      PROVE  OneByOne'
  <2>1. UNCHANGED <<coord, spawned, alone>>
    BY <1>3 DEF Worker, TakeName, OpenFile, CloseFile, ReadCount, WriteCount
  <2>2. QED
    BY <2>1 DEF OneByOne
<1>4. CASE UNCHANGED vars
  BY <1>4 DEF vars, OneByOne
<1>5. QED
  BY <1>1, <1>2, <1>3, <1>4 DEF Next

(* The worker that runs beside a selection that is alone is one of its own, *)
(* and no other has its file open.                                          *)
LEMMA OnlyOne ==
  ASSUME IndInv, FileInv, prompt, NEW s \in alone, NEW w \in Workers,
         wpc[w] \notin {"new", "end"}
  PROVE  /\ w[1] = s
         /\ \A v \in Workers : v # w => wpc[v] \in {"new", "end"}
<1>1. s \in Selections
  BY DEF IndInv, TypeOK
<1>2. ASSUME NEW v \in Workers, wpc[v] \notin {"new", "end"}
      PROVE  /\ v[1] = s /\ v[2] \in Filters /\ v = <<v[1], v[2]>>
             /\ spawned[s] = v[2] + 1
  <2>1. v[1] \in Selections /\ v[2] \in Filters /\ v = <<v[1], v[2]>>
    BY DEF Workers
  <2>2. v[1] = s
    <3> SUFFICES ASSUME v[1] # s
                 PROVE  FALSE
      OBVIOUS
    <3>1. coord[v[1]] \in {"idle", "end"}
      BY <2>1 DEF FileInv, OneByOne
    <3>2. CASE coord[v[1]] = "idle"
      <4>1. spawned[v[1]] = 0
        BY <2>1, <3>2 DEF FileInv, OneByOne
      <4>2. wpc[<<v[1], v[2]>>] = "new"
        BY <2>1, <4>1, SelectAssumption DEF IndInv, NotYetSpawned, Filters
      <4>3. QED
        BY <1>2, <2>1, <4>2
    <3>3. CASE coord[v[1]] = "end"
      <4>1. Ended(v[1]) = Filters
        BY <2>1, <3>3 DEF IndInv, NextMeansAllEnded
      <4>2. wpc[<<v[1], v[2]>>] = "end"
        BY <2>1, <4>1 DEF Ended
      <4>3. QED
        BY <1>2, <2>1, <4>2
    <3>4. QED
      BY <3>1, <3>2, <3>3
  <2>3. TurnOf(s, v[2])
    BY <1>1, <2>1 DEF FileInv, InTurn
  <2>4. QED
    BY <1>2, <2>1, <2>2, <2>3 DEF TurnOf
<1>3. ASSUME NEW v \in Workers, v # w, wpc[v] \notin {"new", "end"}
      PROVE  FALSE
  <2>1. w[2] + 1 = v[2] + 1 /\ v[1] = w[1]
    BY <1>2, <1>3
  <2>2. v[2] = w[2]
    BY <1>2, <1>3, <2>1, SelectAssumption DEF Filters
  <2>3. QED
    BY <1>2, <1>3, <2>1, <2>2
<1>4. QED
  BY <1>2, <1>3

LEMMA OwnFilesStep == IndInv /\ FileInv /\ [Next]_vars => OwnFiles'
<1> SUFFICES ASSUME IndInv, FileInv, [Next]_vars, prompt',
                    NEW s \in alone', NEW f \in Filters
             PROVE  /\ wpc'[<<s, f>>] # "spoil"
                    /\ wpc'[<<s, f>>] \in {"bump", "add", "end"} => files'[f] = <<s, f>>
  BY DEF OwnFiles
<1> DEFINE Goal == /\ wpc'[<<s, f>>] # "spoil"
                   /\ wpc'[<<s, f>>] \in {"bump", "add", "end"} => files'[f] = <<s, f>>
<1>p. prompt
  BY DEF Next, vars, SelectProcess, Coordinator, Spawn, LoopDone, WaitDone, ShowNext, Worker,
         TakeName, OpenFile, CloseFile, ReadCount, WriteCount
<1>t. TypeOK /\ NotYetSpawned
  BY DEF IndInv
<1>o. s \in alone => /\ s \in Selections /\ <<s, f>> \in Workers
                     /\ wpc[<<s, f>>] # "spoil"
                     /\ wpc[<<s, f>>] \in {"bump", "add", "end"} => files[f] = <<s, f>>
  BY <1>p, <1>t DEF FileInv, OwnFiles, Workers, TypeOK
<1>1. ASSUME NEW r \in Selections, SelectProcess(r)
      PROVE  Goal
  <2>1. s = r /\ spawned[r] = 0 /\ wpc' = wpc
    BY <1>1 DEF SelectProcess, FileInv, OneByOne
  <2>2. wpc'[<<s, f>>] = "new"
    BY <1>t, <2>1, SelectAssumption DEF NotYetSpawned, Filters
  <2>3. QED
    BY <2>2
<1>2. ASSUME NEW r \in Selections, Spawn(r)
      PROVE  Goal
  <2>1. s \in alone /\ files' = files
    BY <1>2 DEF Spawn
  <2>2. wpc'[<<s, f>>] = wpc[<<s, f>>] \/ wpc'[<<s, f>>] = "name"
    BY <1>2, <1>t, <1>o, <2>1 DEF Spawn, TypeOK
  <2>3. QED
    BY <1>o, <2>1, <2>2
<1>3. ASSUME NEW r \in Selections, LoopDone(r) \/ WaitDone(r) \/ ShowNext(r)
      PROVE  Goal
  <2>1. s \in alone /\ files' = files /\ wpc' = wpc
    BY <1>3 DEF LoopDone, WaitDone, ShowNext
  <2>2. QED
    BY <1>o, <2>1
<1>4. ASSUME NEW w \in Workers, Worker(w)
      PROVE  Goal
  <2> DEFINE g == w[2]
  <2>1. s \in alone
    BY <1>4 DEF Worker, TakeName, OpenFile, CloseFile, ReadCount, WriteCount
  <2>2. wpc[w] \in {"name", "open", "save", "spoil", "bump", "add"}
    BY <1>4 DEF Worker, TakeName, OpenFile, CloseFile, ReadCount, WriteCount
  <2>3. /\ w[1] = s
        /\ \A v \in Workers : v # w => wpc[v] \in {"new", "end"}
    BY <1>p, <2>1, <2>2, OnlyOne
  <2>4. g \in Filters /\ w = <<s, g>> /\ TurnOf(s, g)
    <3>1. g \in Filters /\ w = <<s, g>>
      BY <2>3 DEF Workers
    <3>2. QED
      BY <1>p, <1>o, <2>1, <3>1 DEF FileInv, InTurn
  <2>5. CASE TakeName(w)
    <3>1. files' = files /\ wpc'[w] \in {"open", "throw"}
          /\ \A v \in Workers : v # w => wpc'[v] = wpc[v]
      BY <1>t, <2>5 DEF TakeName, TypeOK
    <3>2. QED
      BY <1>o, <2>1, <3>1
  <2>6. CASE OpenFile(w)
    <3>1. Writing(wname[w]) = {}
      BY <2>3, <2>6 DEF OpenFile, Writing
    <3>2. wname[w] = g
      BY <2>4, <2>6 DEF OpenFile, TurnOf
    <3>3. /\ wpc'[w] = "save"
          /\ \A v \in Workers : v # w => wpc'[v] = wpc[v]
          /\ \A h \in Filters : h # g => files'[h] = files[h]
      BY <1>t, <2>6, <3>1, <3>2 DEF OpenFile, TypeOK
    <3>4. CASE f = g
      BY <2>4, <3>3, <3>4
    <3>5. CASE f # g
      BY <1>o, <2>1, <2>4, <3>3, <3>5
    <3>6. QED
      BY <3>4, <3>5
  <2>7. CASE CloseFile(w)
    <3>1. wname[w] = g /\ wpc[w] # "spoil"
      BY <1>p, <2>1, <2>4, <2>7 DEF CloseFile, TurnOf, FileInv, OwnFiles
    <3>2. /\ wpc'[w] = "bump" /\ files'[g] = w
          /\ \A v \in Workers : v # w => wpc'[v] = wpc[v]
          /\ \A h \in Filters : h # g => files'[h] = files[h]
      BY <1>t, <2>4, <2>7, <3>1 DEF CloseFile, TypeOK
    <3>3. CASE f = g
      BY <2>4, <3>2, <3>3
    <3>4. CASE f # g
      BY <1>o, <2>1, <2>4, <3>2, <3>4
    <3>5. QED
      BY <3>3, <3>4
  <2>8. CASE ReadCount(w) \/ WriteCount(w)
    <3>1. /\ files' = files /\ wpc[w] \in {"bump", "add"} /\ wpc'[w] \in {"add", "end"}
          /\ \A v \in Workers : v # w => wpc'[v] = wpc[v]
      BY <1>t, <2>8 DEF ReadCount, WriteCount, TypeOK
    <3>2. QED
      BY <1>o, <2>1, <3>1
  <2>9. QED
    BY <1>4, <2>5, <2>6, <2>7, <2>8 DEF Worker
<1>5. CASE UNCHANGED vars
  BY <1>5, <1>o DEF vars
<1>6. QED
  BY <1>1, <1>2, <1>3, <1>4, <1>5 DEF Next, Coordinator

LEMMA Files == Spec => [](IndInv /\ FileInv)
<1>1. Init => FileInv
  BY FileInvInit
<1>2. IndInv /\ FileInv /\ [Next]_vars => FileInv'
  BY InTurnStep, OneByOneStep, OwnFilesStep DEF FileInv
<1>3. Spec => []IndInv
  BY Inductive
<1>4. QED
  BY <1>1, <1>2, <1>3, PTL DEF Spec

LEMMA InItsFile == IndInv /\ FileInv => EachFilterInItsFile
<1> SUFFICES ASSUME IndInv, FileInv, prompt, NEW s \in alone, coord[s] = "end",
                    NEW f \in Filters
             PROVE  files[f] = <<s, f>>
  BY DEF EachFilterInItsFile
<1>1. s \in Selections
  BY DEF IndInv, TypeOK
<1>2. wpc[<<s, f>>] = "end"
  BY <1>1 DEF IndInv, NextMeansAllEnded, Ended
<1>3. QED
  BY <1>2 DEF FileInv, OwnFiles

(* After a selection of prompt workers that had the files to itself, every  *)
(* file holds the picture of its own filter (Select.kt:131, 142-144).       *)
THEOREM EachInItsFile == Spec => []EachFilterInItsFile
<1>1. IndInv /\ FileInv => EachFilterInItsFile
  BY InItsFile
<1>2. QED
  BY <1>1, Files, PTL

-----------------------------------------------------------------------------
(* The experiment.                                                         *)
Shape ==
  /\ stage \in {"none", "create", "ready", "counting", "over", "dead"}
  /\ pictures \in Seq(Saved \cup {Torn, NoBitmap})
  /\ ticks \in Nat /\ viewIndex \in Nat
  /\ opened \in SUBSET Selections
  /\ stage = "none" => opened = {} /\ pictures = <<>>
  /\ stage \in {"none", "create"} => ~away /\ Len(pictures) < NumViews
  /\ stage \in {"none", "create", "ready"} => ticks = 0
  /\ stage = "counting" => viewIndex = ticks

StaysAlone ==
  \A s \in opened : prompt /\ coord[s] = "end" /\ (~away => s \in alone)

ShowInv == Shape /\ StaysAlone /\ ShowsItsSelection

-----------------------------------------------------------------------------
(* Seen from Select, the experiment stutters.                              *)
LEMMA StepOfSelect == [AppNext]_appVars => [Next]_vars
<1> SUFFICES ASSUME [AppNext]_appVars
             PROVE  [Next]_vars
  OBVIOUS
<1>1. ASSUME NEW s \in Selections,
             PickPhoto(s) \/ CoordinatorThread(s) \/ NextButtonPosted(s)
      PROVE  Next
  BY <1>1 DEF PickPhoto, CoordinatorThread, NextButtonPosted, Next, Coordinator
<1>2. ASSUME NEW w \in Workers, WorkerThread(w)
      PROVE  Next
  BY <1>2 DEF WorkerThread, Next
<1>3. CASE OpenExperiment \/ SetImageView \/ StartCountDown \/ CountDown \/ LeaveExperiment
  BY <1>3 DEF OpenExperiment, SetImageView, StartCountDown, CountDown, OnTick, OnFinish,
              LeaveExperiment
<1>4. CASE UNCHANGED appVars
  BY <1>4 DEF appVars
<1>5. QED
  BY <1>1, <1>2, <1>3, <1>4 DEF AppNext

(* Select runs unchanged under the experiment.                             *)
THEOREM ImplementsSelect == AppSpec => Spec
<1>1. AppInit => Init
  BY DEF AppInit
<1>2. QED
  BY <1>1, StepOfSelect, PTL DEF AppSpec, Spec

-----------------------------------------------------------------------------
(* decodeFile on a file that holds a picture (Experiment.kt:93).           *)
LEMMA DecodesOwn ==
  ASSUME NEW s \in Selections, NEW f \in Filters, files[f] = <<s, f>>
  PROVE  Decoded(f) = {<<s, f>>} /\ <<s, f>> # NoBitmap
<1>1. s # 0
  BY SelectAssumption DEF Selections
<1>2. <<s, f>> # Absent /\ <<s, f>> # Torn /\ <<s, f>> # NoBitmap
  BY <1>1 DEF Absent, Torn, NoBitmap
<1>3. QED
  BY <1>2 DEF Decoded

LEMMA FileOfIsFilter ==
  ASSUME NEW v \in 1 .. NumViews
  PROVE  FileOf(v) \in Filters
BY ExperimentAssumption, SelectAssumption DEF FileOf, NumViews, Filters

LEMMA DecodedType ==
  ASSUME TypeOK, NEW f \in Filters
  PROVE  Decoded(f) \subseteq Saved \cup {Torn, NoBitmap}
BY DEF Decoded, TypeOK

(* What a finished photo that is alone leaves to decode.                   *)
LEMMA DecodesSelection ==
  ASSUME IndInv, FileInv, Shape, StaysAlone, NEW s \in opened, ~away, NEW f \in Filters
  PROVE  Decoded(f) = {<<s, f>>} /\ <<s, f>> # NoBitmap
<1>1. s \in Selections /\ s \in alone /\ prompt /\ coord[s] = "end"
  BY DEF Shape, StaysAlone
<1>2. files[f] = <<s, f>>
  BY <1>1, InItsFile DEF EachFilterInItsFile
<1>3. QED
  BY <1>1, <1>2, DecodesOwn

LEMMA ShowInit == AppInit => ShowInv
<1> SUFFICES ASSUME AppInit
             PROVE  ShowInv
  OBVIOUS
<1>1. Shape
  BY ExperimentAssumption, SelectAssumption DEF AppInit, Shape, NumViews
<1>2. StaysAlone /\ ShowsItsSelection
  BY DEF AppInit, StaysAlone, ShowsItsSelection
<1>3. QED
  BY <1>1, <1>2 DEF ShowInv

(* One more picture is decoded, and it is the one of its view.             *)
LEMMA SetImageViewStep ==
  ASSUME IndInv, FileInv, ShowInv, SetImageView
  PROVE  ShowInv'
<1> DEFINE v == Len(pictures) + 1
           Bitmaps == Saved \cup {Torn, NoBitmap}
<1>1. /\ v \in 1 .. NumViews /\ ~away /\ stage = "create" /\ pictures \in Seq(Bitmaps)
      /\ ticks = 0 /\ ticks' = 0
  BY ExperimentAssumption, SelectAssumption DEF SetImageView, ShowInv, Shape, NumViews
<1>2. FileOf(v) \in Filters
  BY <1>1, FileOfIsFilter
<1>3. PICK b \in Decoded(FileOf(v)) :
        /\ pictures' = Append(pictures, b)
        /\ stage' = IF b = NoBitmap THEN "dead"
                    ELSE IF v = NumViews THEN "ready" ELSE stage
  BY DEF SetImageView
<1>4. b \in Bitmaps
  BY <1>2, <1>3, DecodedType DEF IndInv
<1>5. /\ stage' \in {"dead", "ready", "create"}
      /\ stage' = "dead" <=> b = NoBitmap
      /\ stage' = "create" => v # NumViews
  BY <1>1, <1>3
<1>6. /\ pictures' \in Seq(Bitmaps) /\ Len(pictures') = v /\ DOMAIN pictures' = 1 .. v
      /\ pictures'[v] = b
      /\ \A u \in 1 .. v - 1 : pictures'[u] = pictures[u] /\ u \in DOMAIN pictures
  BY <1>1, <1>3, <1>4
<1>7. Shape'
  <2>1. UNCHANGED <<away, ticks, viewIndex, opened>> /\ Len(pictures') \in Nat
    BY <1>1, <1>6 DEF SetImageView
  <2>2. Len(pictures') <= NumViews /\ (stage' = "create" => Len(pictures') < NumViews)
    BY <1>1, <1>5, <1>6, ExperimentAssumption, SelectAssumption DEF NumViews
  <2>3. stage' \notin {"none", "counting", "over"} /\ pictures' \in Seq(Bitmaps)
    BY <1>5, <1>6
  <2>4. QED
    BY <1>1, <1>5, <2>1, <2>2, <2>3 DEF Shape, ShowInv, Saved, Selections, Filters, NumViews
<1>8. StaysAlone'
  BY DEF StaysAlone, ShowInv, SetImageView, vars
<1>9. ASSUME NEW s \in opened'
      PROVE  /\ stage' # "dead"
             /\ \A u \in DOMAIN pictures' : pictures'[u] = <<s, FileOf(u)>>
  <2>1. s \in opened
    BY <1>9 DEF SetImageView
  <2>2. b = <<s, FileOf(v)>> /\ b # NoBitmap
    BY <1>1, <1>2, <1>3, <2>1, DecodesSelection DEF ShowInv
  <2>3. \A u \in DOMAIN pictures : pictures[u] = <<s, FileOf(u)>>
    BY <1>1, <2>1 DEF ShowInv, ShowsItsSelection
  <2>4. ASSUME NEW u \in 1 .. v
        PROVE  pictures'[u] = <<s, FileOf(u)>>
    <3>1. CASE u = v
      BY <1>6, <2>2, <3>1
    <3>2. CASE u # v
      <4>1. u \in 1 .. v - 1
        BY <1>1, <3>2
      <4>2. QED
        BY <1>6, <2>3, <4>1
    <3>3. QED
      BY <3>1, <3>2
  <2>5. QED
    BY <1>5, <1>6, <2>2, <2>4
<1>10. ShowsItsSelection'
  BY <1>5, <1>9 DEF ShowsItsSelection
<1>11. QED
  BY <1>7, <1>8, <1>10 DEF ShowInv

(* The last picture, read again at the end of the count-down.              *)
LEMMA OnFinishStep ==
  ASSUME IndInv, FileInv, ShowInv, OnFinish
  PROVE  ShowInv'
<1> DEFINE Bitmaps == Saved \cup {Torn, NoBitmap}
<1>1. LastName \in Filters
  BY ExperimentAssumption, SelectAssumption DEF LastName, Filters
<1>2. PICK b \in Decoded(LastName) :
        /\ pictures' = [pictures EXCEPT ![2] = b]
        /\ stage' = IF b = NoBitmap THEN "dead" ELSE "over"
  BY DEF OnFinish
<1>3. b \in Bitmaps
  BY <1>1, <1>2, DecodedType DEF IndInv
<1>4. /\ pictures \in Seq(Bitmaps) /\ stage = "counting"
      /\ DOMAIN pictures' = DOMAIN pictures
      /\ 2 \in DOMAIN pictures => pictures'[2] = b
      /\ \A u \in DOMAIN pictures : u # 2 => pictures'[u] = pictures[u]
  BY <1>2 DEF ShowInv, Shape, OnFinish
<1>5. pictures' \in Seq(Bitmaps)
  <2>1. CASE 2 \in 1 .. Len(pictures)
    BY <1>2, <1>3, <1>4, <2>1, ExceptSeq
  <2>2. CASE 2 \notin 1 .. Len(pictures)
    <3>1. DOMAIN pictures = 1 .. Len(pictures)
      BY <1>4
    <3>2. [pictures EXCEPT ![2] = b] = pictures
      BY <1>4, <2>2, <3>1
    <3>3. QED
      BY <1>2, <1>4, <3>2
  <2>3. QED
    BY <2>1, <2>2
<1>6. Shape'
  <2>1. UNCHANGED <<away, ticks, viewIndex, opened>> /\ stage' \in {"dead", "over"}
    BY <1>2 DEF OnFinish
  <2>2. QED
    BY <1>5, <2>1 DEF Shape, ShowInv, Selections, Saved, Filters
<1>7. StaysAlone'
  <2>1. UNCHANGED <<prompt, coord, alone, away, opened>>
    BY DEF OnFinish, vars
  <2>2. QED
    BY <2>1 DEF StaysAlone, ShowInv
<1>8. ASSUME NEW s \in opened'
      PROVE  /\ stage' = "dead" => away' /\ s \notin alone'
             /\ ~away' => \A u \in DOMAIN pictures' : pictures'[u] =
                  <<s, IF stage' = "over" /\ u = 2 THEN LastName ELSE FileOf(u)>>
  <2>1. /\ s \in opened /\ s \in Selections /\ away' = away /\ alone' = alone
        /\ prompt /\ coord[s] = "end"
    BY <1>8 DEF OnFinish, vars, ShowInv, Shape, StaysAlone
  <2>2. CASE s \in alone
    <3>1. files[LastName] = <<s, LastName>>
      BY <1>1, <2>1, <2>2, InItsFile DEF EachFilterInItsFile
    <3>2. b = <<s, LastName>> /\ stage' = "over"
      BY <1>1, <1>2, <2>1, <3>1, DecodesOwn
    <3>3. ~away => \A u \in DOMAIN pictures : pictures[u] = <<s, FileOf(u)>>
      BY <1>4, <2>1 DEF ShowInv, ShowsItsSelection
    <3>4. QED
      BY <1>4, <2>1, <3>2, <3>3
  <2>3. CASE s \notin alone
    <3>1. away
      BY <2>1, <2>3 DEF ShowInv, StaysAlone
    <3>2. QED
      BY <2>1, <2>3, <3>1
  <2>4. QED
    BY <2>2, <2>3
<1>9. ShowsItsSelection'
  BY <1>8 DEF ShowsItsSelection
<1>10. QED
  BY <1>6, <1>7, <1>9 DEF ShowInv

(* A step of Select leaves the experiment as it is; only a photo picked    *)
(* after the user has left takes its place in the files.                   *)
LEMMA SelectStep ==
  ASSUME IndInv, ShowInv,
         \/ \E s \in Selections : PickPhoto(s) \/ CoordinatorThread(s) \/ NextButtonPosted(s)
         \/ \E w \in Workers : WorkerThread(w)
  PROVE  ShowInv'
<1>1. UNCHANGED evars /\ stage # "dead" /\ prompt' = prompt
  BY DEF PickPhoto, CoordinatorThread, NextButtonPosted, WorkerThread, SelectProcess, Spawn,
         LoopDone, WaitDone, ShowNext, Worker, TakeName, OpenFile, CloseFile, ReadCount,
         WriteCount
<1>2. \A s \in Selections : coord[s] = "end" => coord'[s] = "end"
  BY DEF PickPhoto, CoordinatorThread, NextButtonPosted, WorkerThread, SelectProcess, Spawn,
         LoopDone, WaitDone, ShowNext, Worker, TakeName, OpenFile, CloseFile, ReadCount,
         WriteCount, IndInv, TypeOK
<1>3. opened # {} /\ ~away => alone' = alone
  BY DEF PickPhoto, CoordinatorThread, NextButtonPosted, WorkerThread, SelectInFront, Spawn,
         LoopDone, WaitDone, ShowNext, Worker, TakeName, OpenFile, CloseFile, ReadCount,
         WriteCount, ShowInv, Shape
<1>4. Shape'
  BY <1>1 DEF evars, Shape, ShowInv, Saved, Selections, Filters
<1>5. StaysAlone'
  BY <1>1, <1>2, <1>3 DEF evars, StaysAlone, ShowInv, Shape
<1>6. ShowsItsSelection'
  BY <1>1 DEF evars, ShowsItsSelection, ShowInv
<1>7. QED
  BY <1>4, <1>5, <1>6 DEF ShowInv

LEMMA ShowStep == IndInv /\ FileInv /\ ShowInv /\ [AppNext]_appVars => ShowInv'
<1> SUFFICES ASSUME IndInv, FileInv, ShowInv, [AppNext]_appVars
             PROVE  ShowInv'
  OBVIOUS
<1>1. CASE OpenExperiment
  <2>1. Shape'
    BY <1>1 DEF OpenExperiment, ShowInv, Shape, IndInv, TypeOK, Saved, Selections, Filters
  <2>2. StaysAlone'
    BY <1>1 DEF OpenExperiment, StaysAlone, vars
  <2>3. ShowsItsSelection'
    BY <1>1 DEF OpenExperiment, ShowsItsSelection, ShowInv, Shape
  <2>4. QED
    BY <2>1, <2>2, <2>3 DEF ShowInv
<1>2. CASE SetImageView
  BY <1>2, SetImageViewStep
<1>3. CASE StartCountDown
  <2>1. Shape' /\ StaysAlone' /\ ShowsItsSelection'
    BY <1>3 DEF StartCountDown, ShowInv, Shape, StaysAlone, ShowsItsSelection, vars, Saved,
                Selections, Filters
  <2>2. QED
    BY <2>1 DEF ShowInv
<1>4. CASE OnTick
  <2>1. stage = "counting" /\ stage' = "counting"
    BY <1>4, ExperimentAssumption, SelectAssumption DEF OnTick, ShowInv, Shape, NumViews
  <2>2. Shape' /\ StaysAlone' /\ ShowsItsSelection'
    BY <1>4, <2>1 DEF OnTick, ShowInv, Shape, StaysAlone, ShowsItsSelection, vars, Saved,
                      Selections, Filters
  <2>3. QED
    BY <2>2 DEF ShowInv
<1>5. CASE OnFinish
  BY <1>5, OnFinishStep
<1>6. CASE LeaveExperiment
  <2>1. Shape' /\ StaysAlone' /\ ShowsItsSelection'
    BY <1>6 DEF LeaveExperiment, ShowInv, Shape, StaysAlone, ShowsItsSelection, vars, Saved,
                Selections, Filters
  <2>2. QED
    BY <2>1 DEF ShowInv
<1>7. CASE UNCHANGED appVars
  BY <1>7 DEF appVars, vars, evars, ShowInv, Shape, StaysAlone, ShowsItsSelection, Saved,
              Selections, Filters
<1>8. QED
  BY <1>1, <1>2, <1>3, <1>4, <1>5, <1>6, <1>7, SelectStep DEF AppNext, CountDown

(* Opened for a finished photo, the experiment shows that photo's pictures *)
(* (Experiment.kt:51, 85), and the process ends only if the user has gone  *)
(* back and picked another.                                                *)
THEOREM AlwaysShowsItsSelection == AppSpec => []ShowsItsSelection
<1>1. AppSpec => [](IndInv /\ FileInv)
  BY ImplementsSelect, Files, PTL
<1>2. AppInit => ShowInv
  BY ShowInit
<1>3. IndInv /\ FileInv /\ ShowInv /\ [AppNext]_appVars => ShowInv'
  BY ShowStep
<1>4. ShowInv => ShowsItsSelection
  BY DEF ShowInv
<1>5. QED
  BY <1>1, <1>2, <1>3, <1>4, PTL DEF AppSpec
-----------------------------------------------------------------------------
(* Types of the experiment.                                                *)
Counting ==
  /\ away \in BOOLEAN
  /\ ticks \in 0 .. NumViews - 1
  /\ viewIndex \in 0 .. NumViews

LEMMA CountingStep == ShowInv /\ Counting /\ [AppNext]_appVars => Counting'
<1> SUFFICES ASSUME ShowInv, Counting, [AppNext]_appVars
             PROVE  Counting'
  OBVIOUS
<1>1. NumViews \in Nat /\ NumViews >= 3
  BY ExperimentAssumption, SelectAssumption DEF NumViews
<1>2. CASE UNCHANGED <<away, ticks, viewIndex>>
  BY <1>2 DEF Counting, NumViews
<1>3. CASE StartCountDown
  <2>1. 0 \in 0 .. NumViews
    BY <1>1
  <2>2. QED
    BY <1>3, <2>1 DEF StartCountDown, Counting, NumViews
<1>4. CASE OnTick
  <2>1. viewIndex = ticks /\ ticks < NumViews - 1
    BY <1>4 DEF OnTick, ShowInv, Shape
  <2>2. ticks' = ticks + 1 /\ viewIndex' = ticks + 1 /\ away' = away
    BY <1>4, <2>1 DEF OnTick
  <2>3. ticks' \in 0 .. NumViews - 1 /\ viewIndex' \in 0 .. NumViews
    BY <1>1, <2>1, <2>2 DEF Counting
  <2>4. QED
    BY <2>2, <2>3 DEF Counting, NumViews
<1>5. CASE LeaveExperiment
  BY <1>5 DEF LeaveExperiment, Counting, NumViews
<1>6. CASE OpenExperiment \/ SetImageView \/ OnFinish
  BY <1>2, <1>6 DEF OpenExperiment, SetImageView, OnFinish
<1>7. CASE \/ \E s \in Selections :
                PickPhoto(s) \/ CoordinatorThread(s) \/ NextButtonPosted(s)
           \/ \E w \in Workers : WorkerThread(w)
  BY <1>2, <1>7 DEF PickPhoto, CoordinatorThread, NextButtonPosted, WorkerThread, evars
<1>8. CASE UNCHANGED appVars
  BY <1>2, <1>8 DEF appVars, evars
<1>9. QED
  BY <1>3, <1>4, <1>5, <1>6, <1>7, <1>8 DEF AppNext, CountDown

(* Type correctness of the experiment and of Select under it: the count of *)
(* the click listener stays within the list of the views (lines 62-71).    *)
THEOREM ExperimentTypeCorrect == AppSpec => []ExperimentTypeOK
<1>1. AppSpec => [](IndInv /\ FileInv)
  BY ImplementsSelect, Files, PTL
<1>2. AppInit => ShowInv /\ Counting
  <2>1. NumViews \in Nat /\ NumViews >= 3
    BY ExperimentAssumption, SelectAssumption DEF NumViews
  <2>2. 0 \in 0 .. NumViews - 1 /\ 0 \in 0 .. NumViews
    BY <2>1
  <2>3. AppInit => Counting
    BY <2>2 DEF AppInit, Counting
  <2>4. QED
    BY <2>3, ShowInit
<1>3. IndInv /\ ShowInv /\ Counting => ExperimentTypeOK
  BY DEF IndInv, ShowInv, Shape, Counting, ExperimentTypeOK
<1>4. QED
  BY <1>1, <1>2, <1>3, ShowStep, CountingStep, PTL DEF AppSpec
=============================================================================
