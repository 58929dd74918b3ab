----------------------- MODULE PopulationTrainingProofs -----------------------
(* Proofs about PopulationTraining: any number of policies, intervals, faults,   *)
(* objectives, and any setting of cleanup().                                     *)
EXTENDS PopulationTraining, FiniteSetTheorems, TLAPS

USE DEF files, memory, failures

\* what process p does, or what happens to it
Step(p) == Tick(p) \/ OperationFails(p) \/ Crash(p) \/ Launch(p)

--------------------------------------------------------------------------------
(* The inductive invariants *)

\* What a process remembers is what it has loaded in this tick.
Reading ==
    \A p \in Policies :
      /\ pc[p] = "clean" => seen[p] \in [Policies -> {None} \cup Entries]
      /\ pc[p] = "load" =>
           \E n \in 0 .. NumPolicies - 1 : seen[p] \in [0 .. n - 1 -> {None} \cup Entries]
      /\ pc[p] \notin {"clean", "load"} => seen[p] = Nothing
      /\ pc[p] # "clean" => doomed[p] = {} /\ unlinking[p] = None
      /\ pc[p] \in Saving => it[p] \in Its

\* weights without a record, and the one iteration that may have them now
Orphans(p) == {i \in Its : weights[p][i] # None /\ record[p][i] = None}
Excused(p) == IF pc[p] = "weights" THEN it[p] ELSE unlinking[p]

\* Every other orphan was paid for with a fault, and cleanup() leaves max_yaml
\* records.
Budget ==
    \A p \in Policies :
      /\ Cardinality(Orphans(p) \ {Excused(p)}) <= faults
      /\ pc[p] = "clean" => Cardinality(Records(p) \ doomed[p]) <= MaxYaml

IInv == TypeOK /\ Reading /\ Budget

\* What cleanup() may remove.
Gone(q, i) == Old(i) \/ Outrun(q, i)
Surpassed(q, i) == Cardinality({k \in Records(q) \ doomed[q] : k > i}) >= MaxYaml

\* cleanup() removes what all have left behind or what max_yaml others follow, and
\* never the newest record.
DoomedOld ==
    \A q \in Policies : \A i \in doomed[q] :
      /\ Old(i) \/ Surpassed(q, i)
      /\ \E k \in Records(q) \ doomed[q] : k > i

\* what a process has loaded, or restarts from, is not ahead of it
Below ==
    \A p \in Policies :
      /\ \A r \in DOMAIN seen[p] : seen[p][r] # None => seen[p][r].it <= it[p]
      /\ choice[p] # None => choice[p].it <= it[p]

\* The owner of a loaded record still has it or a later one.
Followed ==
    \A p \in Policies : \A r \in DOMAIN seen[p] :
      seen[p][r] # None => \E j \in Records(r) : seen[p][r].it <= j

\* A record with no whole weights is being overwritten, out of date, or follows a
\* failed operation.
RecordsWhole ==
    \A q \in Policies :
      /\ pc[q] = "record" => weights[q][it[q]] = "whole"
      /\ \A i \in Records(q) :
           \/ weights[q][i] = "whole" \/ <<q, i>> \in missed \/ Gone(q, i) \/ Resaved(q, i)

\* A record that is relied upon is there or out of date.
ReliedRecorded ==
    \A r \in Policies : \A c \in Relied(r) :
      record[c[1]][c[2]] # None \/ Gone(c[1], c[2])

Kept == DoomedOld /\ Followed /\ RecordsWhole /\ ReliedRecorded
RInv == IInv /\ Below /\ (KeepBack > 0 => Kept)

--------------------------------------------------------------------------------
(* Finite sets of iterations *)

\* A set of numbers has a least one.
LEMMA LeastIteration ==
    ASSUME NEW T, T \subseteq Nat, T # {}
    PROVE  \E n \in T : \A m \in T : n <= m
<1>1. PICK n \in T : \A m \in T : ~ (<<m, n>> \in OpToRel(<, Nat))
  BY NatLessThanWellFounded, WFMin
<1>2. \A m \in T : ~ (m < n)
  BY <1>1 DEF OpToRel
<1> QED
  BY <1>2

\* Sets of iterations are finite sets of numbers.
LEMMA ItsFinite ==
    ASSUME NEW S, S \subseteq Its
    PROVE  S \subseteq Nat /\ IsFiniteSet(S) /\ Cardinality(S) \in Nat
<1>1. IsFiniteSet(Its) /\ Its \subseteq Nat
  BY FS_Interval, SizesAssumption DEF Its
<1> QED
  BY <1>1, FS_Subset, FS_CardinalityType

\* A part of a set of iterations is not larger than the set.
LEMMA SubsetCount ==
    ASSUME NEW S, S \subseteq Its, NEW T, T \subseteq S
    PROVE  /\ Cardinality(T) \in Nat /\ Cardinality(S) \in Nat
           /\ Cardinality(T) <= Cardinality(S)
BY ItsFinite, FS_Subset, FS_CardinalityType

\* The latest of a set of iterations.
LEMMA MaxType ==
    ASSUME NEW S, S \subseteq Its, S # {}
    PROVE  Max(S) \in S /\ \A y \in S : Max(S) >= y
<1>1. S \subseteq 1 .. MaxIt /\ MaxIt \in Nat
  BY SizesAssumption DEF Its
<1> DEFINE R == {MaxIt - x : x \in S}
<1>2. R \subseteq Nat /\ R # {}
  BY <1>1
<1>3. PICK n \in R : \A m \in R : n <= m
  BY <1>2, LeastIteration
<1>4. PICK x \in S : n = MaxIt - x
  BY <1>3
<1>5. \A y \in S : x >= y
  <2> TAKE y \in S
  <2>1. MaxIt - y \in R
    OBVIOUS
  <2>2. n <= MaxIt - y
    BY <1>3, <2>1
  <2> QED
    BY <1>1, <1>4, <2>2
<1> QED
  BY <1>5 DEF Max

\* The m newest iterations of a set are m at most.
LEMMA FewNewer ==
    ASSUME NEW S, S \subseteq Its, NEW m \in Nat \ {0}
    PROVE  Cardinality({i \in S : ~ Cardinality({j \in S : j > i}) >= m}) <= m
<1> DEFINE N(i) == {j \in S : j > i}
           T == {i \in S : ~ Cardinality(N(i)) >= m}
<1>1. T \subseteq S /\ \A i \in T : ~ Cardinality(N(i)) >= m
  OBVIOUS
<1>2. S \subseteq Nat /\ \A i : N(i) \subseteq S
  BY ItsFinite
<1> SUFFICES Cardinality(T) <= m
  OBVIOUS
<1> HIDE DEF T
<1>3. CASE T = {}
  BY <1>3, FS_EmptySet
<1>4. CASE T # {}
  <2>1. PICK n \in T : \A k \in T : n <= k
    BY <1>1, <1>2, <1>4, LeastIteration
  <2>2. T \subseteq N(n) \cup {n}
    BY <1>1, <1>2, <2>1
  <2>3. ~ Cardinality(N(n)) >= m
    BY <1>1, <2>1
  <2> HIDE DEF N
  <2>4. IsFiniteSet(N(n)) /\ Cardinality(N(n)) \in Nat
    BY <1>2, ItsFinite
  <2>5. IsFiniteSet(N(n) \cup {n}) /\ Cardinality(N(n) \cup {n}) <= Cardinality(N(n)) + 1
    BY <2>4, FS_AddElement
  <2>6. /\ Cardinality(T) <= Cardinality(N(n) \cup {n}) /\ Cardinality(T) \in Nat
        /\ Cardinality(N(n) \cup {n}) \in Nat
    BY <2>2, <2>5, FS_Subset, FS_CardinalityType
  <2> QED
    BY <2>3, <2>4, <2>5, <2>6
<1> QED
  BY <1>3, <1>4

\* If m others of the set are newer than i, so are m of its m newest.
LEMMA TopKept ==
    ASSUME NEW S, S \subseteq Its, NEW m \in Nat \ {0}, NEW i \in S,
           Cardinality({j \in S : j > i}) >= m
    PROVE  Cardinality({k \in S : k > i /\ ~ Cardinality({j \in S : j > k}) >= m}) >= m
<1> DEFINE Q == {k \in S : Cardinality({j \in S : j > k}) >= m}
           T == {k \in S : k > i /\ ~ Cardinality({j \in S : j > k}) >= m}
<1>1. Q \subseteq Its /\ Q # {} /\ i \in Q
  OBVIOUS
<1>2. PICK x \in Q : \A y \in Q : x >= y
  BY <1>1, MaxType
<1>3. S \subseteq Nat
  BY ItsFinite
<1> DEFINE N == {j \in S : j > x}
<1>4. N \subseteq T
  <2> SUFFICES ASSUME NEW j \in S, j > x
               PROVE  j > i /\ j \notin Q
    OBVIOUS
  <2>1. x >= i /\ x \in Nat /\ i \in Nat /\ j \in Nat
    BY <1>1, <1>2, <1>3
  <2>2. j \in Q => x >= j
    BY <1>2
  <2> HIDE DEF Q
  <2> QED
    BY <2>1, <2>2
<1>5. Cardinality(N) >= m
  BY <1>2
<1>6. T \subseteq Its
  OBVIOUS
<1> HIDE DEF N, T
<1>7. /\ Cardinality(N) \in Nat /\ Cardinality(T) \in Nat
      /\ Cardinality(N) <= Cardinality(T)
  BY <1>4, <1>6, SubsetCount
<1>8. Cardinality(T) >= m
  BY <1>5, <1>7
<1> QED
  BY <1>8 DEF T

\* A directory holds iterations.
LEMMA RecordsIts ==
    ASSUME NEW q
    PROVE  Records(q) \subseteq Its /\ Groups(q) \subseteq Its /\ Orphans(q) \subseteq Its
BY DEF Records, Groups, Orphans

\* What load_pbt_ckpts() finds is a record of an iteration not after its own.
LEMMA LoadedType ==
    ASSUME TypeOK, NEW p \in Policies, NEW q \in Policies
    PROVE  /\ Loaded(p, q) \in {None} \cup Entries
           /\ Loaded(p, q) # None =>
                /\ Loaded(p, q).it \in Records(q)
                /\ Loaded(p, q).it <= it[p]
<1> DEFINE past == {i \in Records(q) : i <= it[p]}
<1>1. past \subseteq Its
  BY RecordsIts
<1>2. CASE past = {} \/ record[q][Max(past)] = Empty
  BY <1>2 DEF Loaded
<1>3. CASE ~(past = {} \/ record[q][Max(past)] = Empty)
  <2>1. Max(past) \in past
    BY <1>1, <1>3, MaxType
  <2>2. Max(past) \in Its /\ Max(past) \in Records(q) /\ Max(past) <= it[p]
    BY <1>1, <2>1
  <2>3. record[q][Max(past)] \in {None, Empty} \cup Scores
    BY <2>2 DEF TypeOK
  <2>4. record[q][Max(past)] # None
    BY <2>2 DEF Records
  <2>5. Loaded(p, q) = [it |-> Max(past), score |-> record[q][Max(past)]]
    BY <1>3 DEF Loaded
  <2> HIDE DEF past
  <2> QED
    BY <1>3, <2>2, <2>3, <2>4, <2>5 DEF Entries
<1> QED
  BY <1>2, <1>3

\* The marks are none of the data.
LEMMA Marks ==
    /\ None \notin Its /\ None \notin Entries /\ None # Empty
    /\ None # "part" /\ None # "whole" /\ None \notin Scores
    /\ None \notin [policy : Policies, it : Its]
BY MarksAssumption DEF Entries

\* The sizes, as the proofs use them.
LEMMA Finite ==
    /\ NumPolicies \in Nat /\ NumPolicies > 0 /\ MaxYaml \in Nat /\ MaxYaml > 0
    /\ KeepBack \in Nat /\ MaxIt \in Nat /\ MaxFaults \in Nat
    /\ IsFiniteSet(Policies)
BY SizesAssumption, FS_Interval DEF Policies

\* What cleanup() computes is a number.
LEMMA ThresholdType ==
    ASSUME NEW ckpts \in [Policies -> {None} \cup Entries]
    PROVE  /\ Threshold(ckpts) \in Nat
           /\ \A i \in Its : i <= Threshold(ckpts) =>
                \A q \in Policies : ckpts[q] # None /\ i + KeepBack <= ckpts[q].it
<1> DEFINE age(q) == IF ckpts[q] = None THEN 0 ELSE ckpts[q].it
           A == {age(q) : q \in Policies}
<1>1. \A q \in Policies : age(q) \in Nat
  BY Finite DEF Entries, Its
<1>2. 0 \in Policies
  BY Finite DEF Policies
<1> HIDE DEF age
<1>3. A \subseteq Nat /\ A # {}
  BY <1>1, <1>2
<1>4. PICK n \in A : \A m \in A : n <= m
  BY <1>3, LeastIteration
<1>5. Min(A) \in A /\ \A m \in A : Min(A) <= m
  <2> HIDE DEF A
  <2> QED
    BY <1>4 DEF Min
<1>6. /\ Oldest(ckpts) \in Nat
      /\ \A q \in Policies : Oldest(ckpts) <= age(q)
  BY <1>3, <1>5 DEF Oldest, age
<1> DEFINE o == Oldest(ckpts)
           t == IF o >= KeepBack THEN o - KeepBack ELSE 0
<1>7. t \in {0, o - KeepBack} /\ \A y \in {0, o - KeepBack} : t >= y
  BY <1>6, Finite
<1>8. \A y \in {0, o - KeepBack} : (\A z \in {0, o - KeepBack} : y >= z) => y = t
  BY <1>6, <1>7, Finite
<1>9. Threshold(ckpts) = t
  BY <1>7, <1>8 DEF Threshold, Max
<1>10. t \in Nat
  BY <1>6, Finite
<1>11. ASSUME NEW i \in Its, i <= t, NEW q \in Policies
       PROVE  ckpts[q] # None /\ i + KeepBack <= ckpts[q].it
  <2>1. i \in Nat /\ i > 0
    BY Finite DEF Its
  <2>2. o >= KeepBack /\ i <= o - KeepBack
    BY <1>6, <1>11, <2>1, Finite
  <2>3. o <= age(q) /\ age(q) \in Nat
    BY <1>1, <1>6
  <2> HIDE DEF o
  <2>4. i + KeepBack <= age(q) /\ age(q) # 0
    BY <1>6, <2>1, <2>2, <2>3, Finite DEF o
  <2> QED
    BY <2>4 DEF age
<1> QED
  BY <1>9, <1>10, <1>11

\* cleanup() leaves max_yaml records.
LEMMA RemovedEnough ==
    ASSUME NEW p \in Policies, NEW ckpts \in [Policies -> {None} \cup Entries]
    PROVE  /\ Removed(p, ckpts) \subseteq Its
           /\ Cardinality(Records(p) \ Removed(p, ckpts)) <= MaxYaml
<1> DEFINE S == {i \in Groups(p) : i > Threshold(ckpts)} \cap Records(p)
           N(i) == {j \in S : j > i}
           T == {i \in S : ~ Cardinality(N(i)) >= MaxYaml}
<1>1. S \subseteq Its /\ Records(p) \subseteq Groups(p) /\ Groups(p) \subseteq Its
  BY RecordsIts DEF Groups, Records
<1>2. Its \subseteq Nat /\ Threshold(ckpts) \in Nat
  BY ItsFinite, ThresholdType
<1>3. Removed(p, ckpts) = {i \in Groups(p) : i <= Threshold(ckpts)}
                            \cup {i \in S : Cardinality(N(i)) >= MaxYaml}
  BY DEF Removed
<1>4. Records(p) \ Removed(p, ckpts) \subseteq T
  <2> SUFFICES ASSUME NEW i \in Records(p), i \notin Removed(p, ckpts)
               PROVE  i \in T
    OBVIOUS
  <2>1. i \in Groups(p) /\ i \in Nat
    BY <1>1, <1>2
  <2>2. i > Threshold(ckpts)
    BY <1>2, <1>3, <2>1
  <2>3. i \in S
    BY <2>1, <2>2
  <2> HIDE DEF S, N
  <2> QED
    BY <1>3, <2>3
<1>5. Cardinality(T) <= MaxYaml
  <2>1. MaxYaml \in Nat \ {0}
    BY Finite
  <2> HIDE DEF S
  <2> QED
    BY <1>1, <2>1, FewNewer
<1>6. T \subseteq Its
  BY <1>1
<1>7. Removed(p, ckpts) \subseteq Its
  BY <1>1, <1>3
<1> HIDE DEF T, S
<1>8. /\ Cardinality(T) \in Nat /\ Cardinality(Records(p) \ Removed(p, ckpts)) \in Nat
      /\ Cardinality(Records(p) \ Removed(p, ckpts)) <= Cardinality(T)
  BY <1>4, <1>6, SubsetCount
<1> QED
  BY <1>5, <1>7, <1>8, Finite

--------------------------------------------------------------------------------
(* The types *)

\* One more checkpoint has been loaded.
LEMMA LoadNextSeen ==
    ASSUME TypeOK, Reading, NEW p \in Policies, LoadNext(p),
           NEW q, q = Cardinality(DOMAIN seen[p])
    PROVE  /\ q \in Policies /\ DOMAIN seen[p] = 0 .. q - 1
           /\ seen' = [seen EXCEPT ![p] = seen'[p]]
           /\ seen'[p] = [r \in 0 .. q |-> IF r = q THEN Loaded(p, q) ELSE seen[p][r]]
           /\ seen'[p] \in [0 .. q -> {None} \cup Entries]
           /\ \A r \in 0 .. q - 1 : seen'[p][r] = seen[p][r]
           /\ seen'[p][q] = Loaded(p, q)
<1>1. PICK n \in 0 .. NumPolicies - 1 : seen[p] \in [0 .. n - 1 -> {None} \cup Entries]
  BY DEF Reading, LoadNext
<1>2. n \in Nat /\ DOMAIN seen[p] = 0 .. n - 1
  BY <1>1, Finite
<1>3. Cardinality(0 .. n - 1) = n
  BY <1>2, FS_Interval
<1>4. q = n /\ q \in Policies
  BY <1>1, <1>2, <1>3 DEF Policies
<1>5. Loaded(p, q) \in {None} \cup Entries
  BY <1>4, LoadedType
<1>6. seen' = [seen EXCEPT ![p] =
                 [r \in 0 .. q |-> IF r = q THEN Loaded(p, q) ELSE seen[p][r]]]
  BY DEF LoadNext
<1>7. seen'[p] = [r \in 0 .. q |-> IF r = q THEN Loaded(p, q) ELSE seen[p][r]]
  BY <1>6 DEF TypeOK
<1>8. seen' = [seen EXCEPT ![p] = seen'[p]]
  BY <1>6, <1>7
<1>9. q \in Nat /\ q \in 0 .. q /\ \A r \in 0 .. q - 1 : r \in 0 .. q /\ r # q
  BY <1>2, <1>4
<1>10. \A r \in 0 .. q : r # q => r \in 0 .. q - 1
  BY <1>9
<1>11. \A r \in 0 .. q - 1 : seen[p][r] \in {None} \cup Entries
  BY <1>1, <1>4
<1>12. seen'[p] \in [0 .. q -> {None} \cup Entries]
  BY <1>5, <1>7, <1>10, <1>11
<1>13. /\ \A r \in 0 .. q - 1 : seen'[p][r] = seen[p][r]
       /\ seen'[p][q] = Loaded(p, q)
  BY <1>7, <1>9
<1> QED
  BY <1>2, <1>4, <1>7, <1>8, <1>12, <1>13

\* A process that has loaded nothing remembers nothing.
LEMMA NothingType ==
    Nothing \in UNION {[0 .. n - 1 -> {None} \cup Entries] : n \in 0 .. NumPolicies}
<1>1. Nothing \in [0 .. 0 - 1 -> {None} \cup Entries] /\ 0 \in 0 .. NumPolicies
  BY Finite DEF Nothing
<1> QED
  BY <1>1

\* Nothing has been saved, loaded or doomed when training begins.
LEMMA InitTypes == Init => TypeOK /\ Reading
<1> SUFFICES ASSUME Init PROVE TypeOK /\ Reading
  OBVIOUS
<1>1. TypeOK
  BY NothingType, Finite, Marks DEF Init, TypeOK, Saving
<1>2. Reading
  BY Marks DEF Init, Reading, Saving
<1> QED
  BY <1>1, <1>2

\* What every step of p leaves of the others.
LEMMA OnlyOwn ==
    ASSUME TypeOK, Reading, NEW p \in Policies,
           Step(p)
    PROVE  \A q \in Policies : q # p =>
             /\ pc'[q] = pc[q] /\ it'[q] = it[q]
             /\ weights'[q] = weights[q] /\ record'[q] = record[q]
             /\ seen'[q] = seen[q] /\ doomed'[q] = doomed[q]
             /\ unlinking'[q] = unlinking[q] /\ choice'[q] = choice[q]
BY DEF TypeOK, Step, Tick, OperationFails, Crash, Launch, SaveWeights, OpenRecord,
       WriteRecord, LoadNext, RecordVanishes, Unlink, Continue, SetRestartFlag, Restart, Goto,
       Forget

\* Saving a checkpoint.
LEMMA SaveTypes ==
    ASSUME TypeOK, Reading, NEW p \in Policies,
           SaveWeights(p) \/ OpenRecord(p) \/ WriteRecord(p)
    PROVE  TypeOK' /\ Reading'
<1>1. CASE SaveWeights(p)
  <2>1. it[p] + 1 \in Its /\ it[p] + 1 \in 0 .. MaxIt
    BY <1>1, Finite DEF TypeOK, SaveWeights, Its
  <2> QED
    BY <1>1, <2>1 DEF TypeOK, Reading, SaveWeights, Goto, Saving
<1>2. CASE OpenRecord(p)
  <2>1. missed' \subseteq Policies \X Its
    BY <1>2 DEF TypeOK, OpenRecord
  <2> QED
    BY <1>2, <2>1 DEF TypeOK, Reading, OpenRecord, Goto, Saving
<1>3. CASE WriteRecord(p)
  <2>1. PICK score \in Scores : record' = [record EXCEPT ![p][it[p]] = score]
    BY <1>3 DEF WriteRecord
  <2>2. it[p] \in Its /\ pc[p] = "record"
    BY <1>3 DEF Reading, WriteRecord, Saving
  <2>3. record' \in [Policies -> [Its -> {None, Empty} \cup Scores]]
    BY <2>1, <2>2 DEF TypeOK
  <2>4. TypeOK'
    BY <1>3, <2>3 DEF TypeOK, WriteRecord, Goto
  <2>5. Reading'
    <3>1. Nothing \in [0 .. 0 - 1 -> {None} \cup Entries] /\ 0 \in 0 .. NumPolicies - 1
      BY Finite DEF Nothing
    <3>2. seen[p] = Nothing
      BY <2>2 DEF Reading
    <3> QED
      BY <1>3, <3>1, <3>2 DEF TypeOK, Reading, WriteRecord, Goto, Saving
  <2> QED
    BY <2>4, <2>5
<1> QED
  BY <1>1, <1>2, <1>3

\* Loading one more checkpoint, and listing the own directory after the last.
LEMMA LoadTypes ==
    ASSUME TypeOK, Reading, NEW p \in Policies, LoadNext(p)
    PROVE  TypeOK' /\ Reading'
<1> DEFINE q == Cardinality(DOMAIN seen[p])
<1>1. /\ q \in Policies
      /\ seen' = [seen EXCEPT ![p] = seen'[p]]
      /\ seen'[p] \in [0 .. q -> {None} \cup Entries]
  BY LoadNextSeen
<1>2. q + 1 \in 1 .. NumPolicies /\ (q + 1) - 1 = q
  BY <1>1, Finite DEF Policies
<1> HIDE DEF q
<1>3. seen'[p] \in [0 .. (q + 1) - 1 -> {None} \cup Entries]
  BY <1>1, <1>2
<1>4. seen' \in [Policies ->
                   UNION {[0 .. n - 1 -> {None} \cup Entries] : n \in 0 .. NumPolicies}]
  <2> DEFINE U == UNION {[0 .. n - 1 -> {None} \cup Entries] : n \in 0 .. NumPolicies}
  <2>1. seen'[p] \in U
    BY <1>2, <1>3
  <2>2. seen \in [Policies -> U]
    BY DEF TypeOK
  <2> HIDE DEF U
  <2>3. seen' \in [Policies -> U]
    BY <1>1, <2>1, <2>2
  <2> QED
    BY <2>3 DEF U
<1>5. pc[p] = "load" /\ UNCHANGED <<it, weights, record, unlinking, choice, faults, missed>>
  BY DEF LoadNext
<1>6. CASE q + 1 < NumPolicies
  <2>1. UNCHANGED <<pc, doomed>>
    BY <1>6 DEF LoadNext, q
  <2>2. q + 1 \in 0 .. NumPolicies - 1
    BY <1>2, <1>6, Finite
  <2> QED
    BY <1>1, <1>3, <1>4, <1>5, <2>1, <2>2 DEF TypeOK, Reading
<1>7. CASE ~(q + 1 < NumPolicies)
  <2>1. /\ doomed' = [doomed EXCEPT ![p] = Removed(p, seen'[p])]
        /\ pc' = [pc EXCEPT ![p] = "clean"]
    BY <1>7 DEF LoadNext, q, Goto
  <2>2. 0 .. q = Policies
    BY <1>2, <1>7, Finite DEF Policies
  <2>3. Removed(p, seen'[p]) \subseteq Its
    BY <1>1, <2>2, RemovedEnough
  <2>4. TypeOK'
    <3>1. unlinking[p] = None
      BY <1>5 DEF Reading
    <3>2. /\ doomed' \in [Policies -> SUBSET Its]
          /\ \A r \in Policies : r # p => doomed'[r] = doomed[r]
      BY <2>1, <2>3 DEF TypeOK
    <3>3. pc' \in [Policies -> {"train", "load", "clean", "restart", "down"} \cup Saving]
      BY <2>1 DEF TypeOK
    <3>4. \A r \in Policies : pc'[r] = "restart" <=> choice'[r] # None
      BY <1>5, <2>1 DEF TypeOK
    <3> QED
      BY <1>4, <1>5, <3>1, <3>2, <3>3, <3>4 DEF TypeOK
  <2>5. Reading'
    <3> SUFFICES ASSUME NEW r \in Policies
                 PROVE  /\ pc'[r] = "clean" => seen'[r] \in [Policies -> {None} \cup Entries]
                        /\ pc'[r] = "load" =>
                             \E n \in 0 .. NumPolicies - 1 :
                               seen'[r] \in [0 .. n - 1 -> {None} \cup Entries]
                        /\ pc'[r] \notin {"clean", "load"} => seen'[r] = Nothing
                        /\ pc'[r] # "clean" => doomed'[r] = {} /\ unlinking'[r] = None
                        /\ pc'[r] \in Saving => it'[r] \in Its
      BY DEF Reading
    <3>1. CASE r = p
      <4>1. pc'[p] = "clean"
        BY <2>1 DEF TypeOK
      <4> QED
        BY <1>1, <2>2, <3>1, <4>1 DEF Saving
    <3>2. CASE r # p
      <4>1. /\ pc'[r] = pc[r] /\ seen'[r] = seen[r] /\ doomed'[r] = doomed[r]
            /\ unlinking'[r] = unlinking[r] /\ it'[r] = it[r]
        BY <3>2, OnlyOwn DEF Step, Tick
      <4> QED
        BY <4>1 DEF Reading
    <3> QED
      BY <3>1, <3>2
  <2> QED
    BY <2>4, <2>5
<1> QED
  BY <1>6, <1>7

\* Unlinking one file.
LEMMA UnlinkTypes ==
    ASSUME TypeOK, Reading, NEW p \in Policies, Unlink(p)
    PROVE  TypeOK' /\ Reading'
<1>1. PICK i \in doomed[p] :
        /\ unlinking[p] \in {None, i}
        /\ weights' \in {weights, [weights EXCEPT ![p][i] = None]}
        /\ record' \in {record, [record EXCEPT ![p][i] = None]}
        /\ \/ /\ doomed' = [doomed EXCEPT ![p] = @ \ {i}]
              /\ unlinking' = [unlinking EXCEPT ![p] = None]
           \/ unlinking' = [unlinking EXCEPT ![p] = i] /\ UNCHANGED doomed
  BY DEF Unlink
<1>2. pc[p] = "clean" /\ UNCHANGED <<pc, it, seen, choice, faults, missed>>
  BY DEF Unlink
<1>3. i \in Its
  BY <1>1 DEF TypeOK
<1>4. weights' \in [Policies -> [Its -> {None, "part", "whole"}]]
  <2>1. weights \in [Policies -> [Its -> {None, "part", "whole"}]]
    BY DEF TypeOK
  <2>2. [weights EXCEPT ![p][i] = None] \in [Policies -> [Its -> {None, "part", "whole"}]]
    BY <1>3, <2>1
  <2> QED
    BY <1>1, <2>1, <2>2
<1>5. record' \in [Policies -> [Its -> {None, Empty} \cup Scores]]
  <2>1. record \in [Policies -> [Its -> {None, Empty} \cup Scores]]
    BY DEF TypeOK
  <2>2. [record EXCEPT ![p][i] = None] \in [Policies -> [Its -> {None, Empty} \cup Scores]]
    BY <1>3, <2>1
  <2> QED
    BY <1>1, <2>1, <2>2
<1>6. /\ doomed' \in [Policies -> SUBSET Its]
      /\ unlinking' \in [Policies -> {None} \cup Its]
      /\ \A q \in Policies : unlinking'[q] # None => unlinking'[q] \in doomed'[q]
      /\ \A q \in Policies : q # p => doomed'[q] = doomed[q] /\ unlinking'[q] = unlinking[q]
  <2>1. CASE doomed' = [doomed EXCEPT ![p] = @ \ {i}]
               /\ unlinking' = [unlinking EXCEPT ![p] = None]
    BY <1>1, <2>1 DEF TypeOK
  <2>2. CASE unlinking' = [unlinking EXCEPT ![p] = i] /\ UNCHANGED doomed
    BY <1>1, <1>3, <2>2 DEF TypeOK
  <2> QED
    BY <1>1, <2>1, <2>2
<1>7. TypeOK'
  BY <1>2, <1>4, <1>5, <1>6 DEF TypeOK
<1>8. Reading'
  BY <1>2, <1>6 DEF Reading
<1> QED
  BY <1>7, <1>8

\* A tick that is over, however it ended, is forgotten.
LEMMA ForgetTypes ==
    ASSUME TypeOK, Reading, NEW p \in Policies, Forget(p), NEW place, Goto(p, place),
           place \in {"train", "down"}, UNCHANGED <<weights, record>>,
           it' \in [Policies -> 0 .. MaxIt], \A q \in Policies \ {p} : it'[q] = it[q],
           faults' \in 0 .. MaxFaults, missed' \subseteq Policies \X Its
    PROVE  TypeOK' /\ Reading'
<1>1. /\ seen' = [seen EXCEPT ![p] = Nothing] /\ doomed' = [doomed EXCEPT ![p] = {}]
      /\ unlinking' = [unlinking EXCEPT ![p] = None]
      /\ choice' = [choice EXCEPT ![p] = None] /\ pc' = [pc EXCEPT ![p] = place]
  BY DEF Forget, Goto
<1>2. TypeOK'
  BY <1>1, NothingType DEF TypeOK
<1>3. Reading'
  BY <1>1 DEF TypeOK, Reading, Saving
<1> QED
  BY <1>2, <1>3

\* What ends a tick, or the process.
LEMMA DecisionTypes ==
    ASSUME TypeOK, Reading, NEW p \in Policies,
           RecordVanishes(p) \/ Continue(p) \/ SetRestartFlag(p) \/ Restart(p)
             \/ OperationFails(p) \/ Crash(p) \/ Launch(p)
    PROVE  TypeOK' /\ Reading'
<1>1. CASE RecordVanishes(p)
  BY <1>1, ForgetTypes DEF RecordVanishes, TypeOK
<1>2. CASE Continue(p)
  BY <1>2, ForgetTypes DEF Continue, TypeOK
<1>3. CASE SetRestartFlag(p)
  <2>1. PICK q \in Candidates(p) :
          choice' = [choice EXCEPT ![p] = [policy |-> q, it |-> seen[p][q].it]]
    BY <1>3 DEF SetRestartFlag
  <2>2. q \in Policies /\ seen[p][q] # None
    BY <2>1 DEF Candidates, Leaders, Underperformers, Initialized
  <2>3. seen[p][q] \in Entries
    BY <1>3, <2>2 DEF SetRestartFlag, Reading
  <2>4. [policy |-> q, it |-> seen[p][q].it] \in [policy : Policies, it : Its]
    BY <2>2, <2>3 DEF Entries
  <2>5. [policy |-> q, it |-> seen[p][q].it] # None
    BY <2>4, Marks
  <2> QED
    <3>1. TypeOK'
      BY <1>3, <2>1, <2>4, <2>5, NothingType, Marks DEF SetRestartFlag, TypeOK, Goto, Saving
    <3>2. Reading'
      BY <1>3, <2>1 DEF SetRestartFlag, TypeOK, Reading, Goto, Saving
    <3> QED
      BY <3>1, <3>2
<1>4. CASE Restart(p)
  <2>1. choice[p] \in [policy : Policies, it : Its]
    BY <1>4 DEF TypeOK, Restart
  <2>2. choice[p].it \in 0 .. MaxIt /\ 0 \in 0 .. MaxIt
    BY <2>1, Finite DEF Its
  <2>3. it' \in [Policies -> 0 .. MaxIt] /\ \A q \in Policies \ {p} : it'[q] = it[q]
    BY <1>4, <2>2 DEF TypeOK, Restart
  <2> QED
    BY <1>4, <2>3, ForgetTypes DEF Restart, TypeOK
<1>5. CASE OperationFails(p)
  <2>1. faults' \in 0 .. MaxFaults
    BY <1>5, Finite DEF TypeOK, OperationFails
  <2>2. missed' \subseteq Policies \X Its
    BY <1>5 DEF TypeOK, Reading, OperationFails
  <2> QED
    BY <1>5, <2>1, <2>2, ForgetTypes DEF OperationFails, TypeOK
<1>6. CASE Crash(p)
  <2>1. faults' \in 0 .. MaxFaults /\ 0 \in 0 .. MaxIt
    BY <1>6, Finite DEF TypeOK, Crash
  <2> QED
    BY <1>6, <2>1, ForgetTypes DEF Crash, TypeOK
<1>7. CASE Launch(p)
  BY <1>7 DEF Launch, TypeOK, Reading, Goto, Saving
<1> QED
  BY <1>1, <1>2, <1>3, <1>4, <1>5, <1>6, <1>7

\* Nothing happens.
LEMMA StutterTypes ==
    ASSUME TypeOK, Reading, UNCHANGED vars
    PROVE  TypeOK' /\ Reading'
BY DEF TypeOK, Reading, vars

\* Every step.
LEMMA NextTypes ==
    ASSUME TypeOK, Reading, [Next]_vars
    PROVE  TypeOK' /\ Reading'
BY SaveTypes, LoadTypes, UnlinkTypes, DecisionTypes, StutterTypes DEF Next, Tick

\* A process's memory and files have the shapes that the code relies on.
THEOREM TypeCorrect == Spec => []TypeOK
<1>1. Init => TypeOK /\ Reading
  BY InitTypes
<1>2. TypeOK /\ Reading /\ [Next]_vars => (TypeOK /\ Reading)'
  BY NextTypes
<1> QED
  BY <1>1, <1>2, PTL DEF Spec

--------------------------------------------------------------------------------
(* The size of the directory *)

\* A part of a small set is small.
LEMMA FewerOrphans ==
    ASSUME NEW S, NEW T, S \subseteq Its, T \subseteq S, NEW n \in Nat, Cardinality(S) <= n
    PROVE  Cardinality(T) <= n
BY SubsetCount

\* A set is larger by one at most than without one of its elements.
LEMMA OneMore ==
    ASSUME NEW S, S \subseteq Its, NEW e, NEW n \in Nat, Cardinality(S \ {e}) <= n
    PROVE  Cardinality(S) <= n + 1
<1>1. IsFiniteSet(S) /\ Cardinality(S) \in Nat
  BY ItsFinite
<1>2. Cardinality(S \ {e}) \in {Cardinality(S), Cardinality(S) - 1}
  BY <1>1, FS_RemoveElement
<1> QED
  BY <1>1, <1>2

\* A step that pays with no fault leaves no orphan unexcused, and cleanup() the
\* records it has left.
LEMMA NoFault ==
    ASSUME TypeOK, Reading, Budget, TypeOK', NEW p \in Policies, Step(p),
           faults' >= faults,
           \/ (Orphans(p) \ {Excused(p)})' \subseteq Orphans(p) \ {Excused(p)}
           \/ faults' = faults + 1 /\ Orphans(p)' \subseteq Orphans(p),
           pc'[p] = "clean" =>
             \/ pc[p] = "clean" /\ (Records(p) \ doomed[p])' \subseteq Records(p) \ doomed[p]
             \/ Cardinality(Records(p) \ doomed[p])' <= MaxYaml
    PROVE  Budget'
<1>1. faults \in Nat /\ faults' \in Nat
  BY Finite DEF TypeOK
<1>2. \A q \in Policies : Orphans(q) \subseteq Its /\ Records(q) \subseteq Its
  BY RecordsIts
<1>3. ASSUME NEW q \in Policies, q # p
      PROVE  /\ (Orphans(q) \ {Excused(q)})' = Orphans(q) \ {Excused(q)}
             /\ pc'[q] = pc[q]
             /\ (Records(q) \ doomed[q])' = Records(q) \ doomed[q]
  <2>1. /\ pc'[q] = pc[q] /\ it'[q] = it[q] /\ weights'[q] = weights[q]
        /\ record'[q] = record[q] /\ doomed'[q] = doomed[q] /\ unlinking'[q] = unlinking[q]
    BY <1>3, OnlyOwn
  <2> QED
    BY <2>1 DEF Orphans, Excused, Records
<1>4. ASSUME NEW q \in Policies, q # p
      PROVE  /\ Cardinality(Orphans(q) \ {Excused(q)})' <= faults'
             /\ pc'[q] = "clean" => Cardinality(Records(q) \ doomed[q])' <= MaxYaml
  <2>1. /\ Cardinality(Orphans(q) \ {Excused(q)}) <= faults
        /\ pc[q] = "clean" => Cardinality(Records(q) \ doomed[q]) <= MaxYaml
    BY DEF Budget
  <2>2. Cardinality(Orphans(q) \ {Excused(q)}) \in Nat
    BY <1>2, ItsFinite
  <2>3. /\ Cardinality(Orphans(q) \ {Excused(q)})' = Cardinality(Orphans(q) \ {Excused(q)})
        /\ Cardinality(Records(q) \ doomed[q])' = Cardinality(Records(q) \ doomed[q])
        /\ pc'[q] = pc[q]
    BY <1>3, <1>4
  <2>4. Cardinality(Orphans(q) \ {Excused(q)}) <= faults'
    BY <1>1, <2>1, <2>2
  <2> QED
    BY <2>1, <2>3, <2>4
<1>5. Cardinality(Orphans(p) \ {Excused(p)})' <= faults'
  <2>1. Cardinality(Orphans(p) \ {Excused(p)}) <= faults
    BY DEF Budget
  <2>2. Orphans(p) \ {Excused(p)} \subseteq Its
    BY <1>2
  <2>3. CASE (Orphans(p) \ {Excused(p)})' \subseteq Orphans(p) \ {Excused(p)}
    <3>1. Cardinality(Orphans(p) \ {Excused(p)})' <= faults
      BY <1>1, <2>1, <2>2, <2>3, FewerOrphans
    <3>2. Cardinality(Orphans(p) \ {Excused(p)})' \in Nat
      BY <2>2, <2>3, ItsFinite
    <3> QED
      BY <1>1, <3>1, <3>2
  <2>4. CASE faults' = faults + 1 /\ Orphans(p)' \subseteq Orphans(p)
    <3>1. Cardinality(Orphans(p)) <= faults + 1
      BY <1>1, <1>2, <2>1, OneMore
    <3>2. (Orphans(p) \ {Excused(p)})' \subseteq Orphans(p)
      BY <2>4
    <3> QED
      BY <1>1, <1>2, <2>4, <3>1, <3>2, FewerOrphans
  <2> QED
    BY <2>3, <2>4
<1>6. pc'[p] = "clean" => Cardinality(Records(p) \ doomed[p])' <= MaxYaml
  <2>1. ASSUME pc[p] = "clean", (Records(p) \ doomed[p])' \subseteq Records(p) \ doomed[p]
        PROVE  Cardinality(Records(p) \ doomed[p])' <= MaxYaml
    <3>1. Cardinality(Records(p) \ doomed[p]) <= MaxYaml
      BY <2>1 DEF Budget
    <3>2. Records(p) \ doomed[p] \subseteq Its
      BY <1>2
    <3> QED
      BY <2>1, <3>1, <3>2, FewerOrphans, Finite
  <2> QED
    BY <2>1
<1> QED
  BY <1>4, <1>5, <1>6 DEF Budget

\* The weights being saved are the one excused orphan until their record is opened.
LEMMA SaveBudget ==
    ASSUME IInv, TypeOK', NEW p \in Policies,
           SaveWeights(p) \/ OpenRecord(p) \/ WriteRecord(p)
    PROVE  Budget'
<1>1. faults' = faults /\ faults \in Nat
  BY Finite DEF IInv, TypeOK, SaveWeights, OpenRecord, WriteRecord
<1>2. pc'[p] # "clean"
  BY DEF IInv, TypeOK, SaveWeights, OpenRecord, WriteRecord, Goto
<1>3. (Orphans(p) \ {Excused(p)})' \subseteq Orphans(p) \ {Excused(p)}
  <2>1. unlinking[p] = None /\ unlinking' = unlinking
    BY DEF IInv, Reading, SaveWeights, OpenRecord, WriteRecord
  <2>2. CASE SaveWeights(p)
    <3>1. /\ weights' = [weights EXCEPT ![p][it[p] + 1] = "part"] /\ record' = record
          /\ pc'[p] = "weights" /\ it'[p] = it[p] + 1 /\ pc[p] = "train"
      BY <2>2 DEF IInv, TypeOK, SaveWeights, Goto
    <3>2. \A i \in Its : i # it[p] + 1 => weights'[p][i] = weights[p][i]
      BY <3>1 DEF IInv, TypeOK
    <3>3. Excused(p) = None /\ Excused(p)' = it[p] + 1
      BY <2>1, <3>1 DEF Excused
    <3> QED
      BY <3>1, <3>2, <3>3, Marks DEF Orphans
  <2>3. CASE OpenRecord(p)
    <3>1. /\ weights' = [weights EXCEPT ![p][it[p]] = "whole"]
          /\ record' = [record EXCEPT ![p][it[p]] = Empty]
          /\ pc'[p] = "record" /\ pc[p] = "weights"
      BY <2>3 DEF IInv, TypeOK, OpenRecord, Goto
    <3>2. it[p] \in Its
      BY <3>1 DEF IInv, Reading, Saving
    <3>3. /\ record'[p][it[p]] = Empty
          /\ \A i \in Its : i # it[p] => weights'[p][i] = weights[p][i]
                                           /\ record'[p][i] = record[p][i]
      BY <3>1, <3>2 DEF IInv, TypeOK
    <3>4. Excused(p) = it[p] /\ Excused(p)' = None
      BY <2>1, <3>1 DEF Excused
    <3> QED
      BY <3>2, <3>3, <3>4, Marks DEF Orphans
  <2>4. CASE WriteRecord(p)
    <3>1. PICK score \in Scores : record' = [record EXCEPT ![p][it[p]] = score]
      BY <2>4 DEF WriteRecord
    <3>2. weights' = weights /\ pc'[p] = "load" /\ pc[p] = "record" /\ it' = it
      BY <2>4 DEF IInv, TypeOK, WriteRecord, Goto
    <3>3. it[p] \in Its
      BY <3>2 DEF IInv, Reading, Saving
    <3>4. /\ record'[p][it[p]] = score
          /\ \A i \in Its : i # it[p] => record'[p][i] = record[p][i]
      BY <3>1, <3>3 DEF IInv, TypeOK
    <3>5. Excused(p) = None /\ Excused(p)' = None
      BY <2>1, <3>2 DEF Excused
    <3> QED
      BY <3>2, <3>3, <3>4, <3>5, Marks DEF Orphans
  <2> QED
    BY <2>2, <2>3, <2>4
<1> QED
  <2>1. faults' >= faults /\ Step(p)
    BY <1>1 DEF Step, Tick
  <2> QED
    BY <1>2, <1>3, <2>1, NoFault DEF IInv

\* cleanup() lists all but max_yaml of the records for removal.
LEMMA LoadBudget ==
    ASSUME IInv, TypeOK', NEW p \in Policies, LoadNext(p)
    PROVE  Budget'
<1> DEFINE q == Cardinality(DOMAIN seen[p])
<1>1. /\ q \in Policies /\ seen'[p] \in [0 .. q -> {None} \cup Entries]
  BY LoadNextSeen DEF IInv
<1>2. UNCHANGED <<it, weights, record, unlinking, faults>> /\ pc[p] = "load"
  BY DEF LoadNext
<1>3. faults \in Nat
  BY Finite DEF IInv, TypeOK
<1>4. pc'[p] \in {"load", "clean"}
  BY <1>2 DEF IInv, TypeOK, LoadNext, Goto
<1>5. (Orphans(p) \ {Excused(p)})' = Orphans(p) \ {Excused(p)}
  BY <1>2, <1>4 DEF Orphans, Excused
<1>6. ASSUME pc'[p] = "clean"
      PROVE  Cardinality(Records(p) \ doomed[p])' <= MaxYaml
  <2>1. ~(q + 1 < NumPolicies) /\ doomed' = [doomed EXCEPT ![p] = Removed(p, seen'[p])]
    BY <1>2, <1>6 DEF LoadNext
  <2>2. 0 .. q = Policies
    BY <1>1, <2>1, Finite DEF Policies
  <2>3. doomed'[p] = Removed(p, seen'[p])
    BY <2>1 DEF IInv, TypeOK
  <2>4. Cardinality(Records(p) \ Removed(p, seen'[p])) <= MaxYaml
    BY <1>1, <2>2, RemovedEnough
  <2>5. (Records(p) \ doomed[p])' = Records(p) \ Removed(p, seen'[p])
    BY <1>2, <2>3 DEF Records
  <2> QED
    BY <2>4, <2>5
<1> QED
  BY <1>2, <1>3, <1>5, <1>6, NoFault DEF IInv, Step, Tick

\* cleanup() removes one file of one doomed iteration, and the iteration from its
\* list with the last of them.
LEMMA Unlinked ==
    ASSUME TypeOK, NEW p \in Policies, Unlink(p)
    PROVE  \E i \in doomed[p] :
             /\ i \in Its /\ unlinking[p] \in {None, i}
             /\ \A j \in Its : j # i => weights'[p][j] = weights[p][j]
                                         /\ record'[p][j] = record[p][j]
             /\ \/ weights'[p][i] = None /\ record'[p][i] = record[p][i]
                \/ record'[p][i] = None /\ weights'[p][i] = weights[p][i]
             /\ \/ /\ doomed'[p] = doomed[p] \ {i} /\ unlinking'[p] = None
                   /\ weights'[p][i] = None /\ record'[p][i] = None
                \/ doomed'[p] = doomed[p] /\ unlinking'[p] = i
<1>1. PICK i \in doomed[p] :
         /\ unlinking[p] \in {None, i}
         /\ \/ /\ weights' = [weights EXCEPT ![p][i] = None]
               /\ UNCHANGED record
            \/ /\ record' = [record EXCEPT ![p][i] = None]
               /\ UNCHANGED weights
         /\ IF weights'[p][i] = None /\ record'[p][i] = None
              THEN /\ doomed' = [doomed EXCEPT ![p] = @ \ {i}]
                   /\ unlinking' = [unlinking EXCEPT ![p] = None]
              ELSE unlinking' = [unlinking EXCEPT ![p] = i] /\ UNCHANGED doomed
  BY DEF Unlink
<1>2. i \in Its
  BY <1>1 DEF TypeOK
<1>3. /\ \A j \in Its : j # i => weights'[p][j] = weights[p][j]
                                  /\ record'[p][j] = record[p][j]
      /\ \/ weights'[p][i] = None /\ record'[p][i] = record[p][i]
         \/ record'[p][i] = None /\ weights'[p][i] = weights[p][i]
  BY <1>1, <1>2 DEF TypeOK
<1>4. \/ /\ doomed'[p] = doomed[p] \ {i} /\ unlinking'[p] = None
         /\ weights'[p][i] = None /\ record'[p][i] = None
      \/ doomed'[p] = doomed[p] /\ unlinking'[p] = i
  BY <1>1 DEF TypeOK
<1> QED
  BY <1>1, <1>2, <1>3, <1>4

\* Only the iteration being unlinked may be half removed.
LEMMA UnlinkBudget ==
    ASSUME IInv, TypeOK', NEW p \in Policies, Unlink(p)
    PROVE  Budget'
<1>1. PICK i \in doomed[p] :
             /\ i \in Its /\ unlinking[p] \in {None, i}
             /\ \A j \in Its : j # i => weights'[p][j] = weights[p][j]
                                         /\ record'[p][j] = record[p][j]
             /\ \/ weights'[p][i] = None /\ record'[p][i] = record[p][i]
                \/ record'[p][i] = None /\ weights'[p][i] = weights[p][i]
             /\ \/ /\ doomed'[p] = doomed[p] \ {i} /\ unlinking'[p] = None
                   /\ weights'[p][i] = None /\ record'[p][i] = None
                \/ doomed'[p] = doomed[p] /\ unlinking'[p] = i
  BY Unlinked DEF IInv
<1>2. pc[p] = "clean" /\ pc' = pc /\ faults' = faults /\ faults \in Nat
  BY Finite DEF Unlink, IInv, TypeOK
<1>3. Excused(p) = unlinking[p] /\ Excused(p)' = unlinking'[p]
  BY <1>2 DEF Excused
<1>4. (Orphans(p) \ {Excused(p)})' \subseteq Orphans(p) \ {Excused(p)}
  BY <1>1, <1>3, Marks DEF Orphans
<1>5. (Records(p) \ doomed[p])' \subseteq Records(p) \ doomed[p]
  BY <1>1 DEF Records
<1> QED
  <2>1. faults' >= faults /\ Step(p)
    BY <1>2 DEF Step, Tick
  <2> QED
    BY <1>2, <1>4, <1>5, <2>1, NoFault DEF IInv

\* Whatever ends the tick halfway is a fault.
LEMMA DecisionBudget ==
    ASSUME IInv, TypeOK', NEW p \in Policies,
           RecordVanishes(p) \/ Continue(p) \/ SetRestartFlag(p) \/ Restart(p)
             \/ OperationFails(p) \/ Crash(p) \/ Launch(p)
    PROVE  Budget'
<1>1. pc'[p] # "clean" /\ pc'[p] # "weights"
  BY DEF IInv, TypeOK, RecordVanishes, Continue, SetRestartFlag, Restart, OperationFails,
         Crash, Launch, Goto
<1>2. Orphans(p)' = Orphans(p)
  BY DEF Orphans, RecordVanishes, Continue, SetRestartFlag, Restart, OperationFails,
         Crash, Launch
<1>3. faults \in Nat
  BY Finite DEF IInv, TypeOK
<1>4. CASE OperationFails(p) \/ Crash(p)
  <2>1. faults' = faults + 1
    BY <1>4 DEF OperationFails, Crash
  <2> QED
    <3>1. faults' >= faults
      BY <1>3, <2>1
    <3>2. Orphans(p)' \subseteq Orphans(p)
      BY <1>2
    <3> QED
      BY <1>1, <1>4, <2>1, <3>1, <3>2, NoFault DEF IInv, Step
<1>5. CASE ~(OperationFails(p) \/ Crash(p))
  <2>1. faults' = faults
    BY <1>5 DEF RecordVanishes, Continue, SetRestartFlag, Restart, Launch
  <2>2. Excused(p) \notin Orphans(p)
    <3>1. pc[p] # "weights"
      BY <1>5 DEF RecordVanishes, Continue, SetRestartFlag, Restart, Launch
    <3>2. unlinking[p] = None
      BY <1>5 DEF IInv, TypeOK, Reading, RecordVanishes, Continue, SetRestartFlag, Restart,
                  Launch
    <3> QED
      BY <3>1, <3>2, Marks DEF Excused, Orphans
  <2>3. (Orphans(p) \ {Excused(p)})' \subseteq Orphans(p) \ {Excused(p)}
    BY <1>2, <2>2
  <2> QED
    <3>1. faults' >= faults
      BY <1>3, <2>1
    <3>2. Step(p)
      BY DEF Step, Tick
    <3> QED
      BY <1>1, <2>3, <3>1, <3>2, NoFault DEF IInv
<1> QED
  BY <1>4, <1>5

\* The directories are empty when training begins.
LEMMA InitInvariant == Init => IInv
<1> SUFFICES ASSUME Init PROVE Budget
  BY InitTypes DEF IInv
<1>1. \A p \in Policies : pc[p] # "clean" /\ Orphans(p) \ {Excused(p)} = {}
  BY DEF Init, Orphans
<1>2. Cardinality({}) = 0 /\ faults = 0
  BY FS_EmptySet DEF Init
<1> QED
  BY <1>1, <1>2 DEF Budget

\* Every step keeps the invariant.
LEMMA NextInvariant == IInv /\ [Next]_vars => IInv'
<1> SUFFICES ASSUME IInv, [Next]_vars PROVE IInv'
  OBVIOUS
<1>1. TypeOK' /\ Reading'
  BY NextTypes DEF IInv
<1>2. Budget'
  <2>1. CASE UNCHANGED vars
    BY <2>1 DEF IInv, Budget, Orphans, Excused, Records, vars
  <2>2. ASSUME NEW p \in Policies, Step(p)
        PROVE  Budget'
    BY <1>1, <2>2, SaveBudget, LoadBudget, UnlinkBudget, DecisionBudget
      DEF Step, Tick
  <2> QED
    BY <2>1, <2>2 DEF Next, Step
<1> QED
  BY <1>1, <1>2 DEF IInv

\* The types and the budget hold for good.
LEMMA Invariance == Spec => []IInv
BY InitInvariant, NextInvariant, PTL DEF Spec

\* However many policies, intervals and faults there are and whatever objectives
\* they reach: a cleanup that has run to its end leaves the files of max_yaml
\* iterations, and weights without a record once for every fault.
THEOREM DirectoryAlwaysBounded == Spec => []DirectoryBounded
<1>1. IInv => DirectoryBounded
  <2> SUFFICES ASSUME IInv, NEW p \in Policies, pc[p] = "clean", doomed[p] = {}
               PROVE  Cardinality(Groups(p)) <= MaxYaml + faults
    BY DEF DirectoryBounded
  <2>1. Excused(p) = None
    BY DEF IInv, TypeOK, Excused
  <2>2. Orphans(p) \ {Excused(p)} = Orphans(p) /\ Records(p) \ doomed[p] = Records(p)
    BY <2>1, Marks DEF Orphans
  <2>3. Cardinality(Orphans(p)) <= faults /\ Cardinality(Records(p)) <= MaxYaml
    BY <2>2 DEF IInv, Budget
  <2>4. Groups(p) = Records(p) \cup Orphans(p)
    BY DEF Groups, Records, Orphans
  <2>5. /\ IsFiniteSet(Records(p)) /\ IsFiniteSet(Orphans(p))
        /\ Cardinality(Records(p)) \in Nat /\ Cardinality(Orphans(p)) \in Nat
        /\ Cardinality(Records(p) \cap Orphans(p)) \in Nat
    BY RecordsIts, ItsFinite
  <2>6. Cardinality(Groups(p)) = Cardinality(Records(p)) + Cardinality(Orphans(p))
                                   - Cardinality(Records(p) \cap Orphans(p))
    BY <2>4, <2>5, FS_Union
  <2>7. faults \in Nat
    BY Finite DEF IInv, TypeOK
  <2> QED
    BY <2>3, <2>5, <2>6, <2>7, Finite
<1> QED
  BY <1>1, Invariance, PTL

--------------------------------------------------------------------------------
(* Records disappear only when they are out of date *)

\* What holds max_yaml records still does with more of them.
LEMMA CountGrows ==
    ASSUME NEW T, T \subseteq Its, NEW S, S \subseteq T, Cardinality(S) >= MaxYaml
    PROVE  Cardinality(T) >= MaxYaml
BY SubsetCount, Finite

\* The loaded checkpoints are those of policies.
LEMMA SeenType ==
    ASSUME TypeOK, NEW p \in Policies
    PROVE  /\ DOMAIN seen[p] \subseteq Policies
           /\ \A r \in DOMAIN seen[p] : seen[p][r] \in {None} \cup Entries
<1> DEFINE F(n) == [0 .. n - 1 -> {None} \cup Entries]
<1>1. PICK n \in 0 .. NumPolicies : seen[p] \in F(n)
  <2>1. seen \in [Policies -> UNION {F(n) : n \in 0 .. NumPolicies}]
    BY DEF TypeOK
  <2> HIDE DEF F
  <2> QED
    BY <2>1
<1>2. 0 .. n - 1 \subseteq Policies
  BY Finite DEF Policies
<1> QED
  BY <1>1, <1>2

\* What is relied upon is a checkpoint that was loaded or chosen.
LEMMA ReliedType ==
    ASSUME TypeOK, NEW r \in Policies, NEW c \in Relied(r)
    PROVE  /\ c[1] \in Policies /\ c[2] \in Its
           /\ \/ c[1] \in DOMAIN seen[r] /\ seen[r][c[1]] # None /\ c[2] = seen[r][c[1]].it
              \/ choice[r] # None /\ c[1] = choice[r].policy /\ c[2] = choice[r].it
<1>1. CASE c \in {<<q, seen[r][q].it>> : q \in {s \in DOMAIN seen[r] : seen[r][s] # None}}
  <2>1. PICK q \in DOMAIN seen[r] : seen[r][q] # None /\ c = <<q, seen[r][q].it>>
    BY <1>1
  <2>2. q \in Policies /\ seen[r][q] \in Entries
    BY <2>1, SeenType
  <2> QED
    BY <2>1, <2>2 DEF Entries
<1>2. CASE choice[r] # None /\ c = <<choice[r].policy, choice[r].it>>
  <2>1. choice[r] \in [policy : Policies, it : Its]
    BY <1>2 DEF TypeOK
  <2> QED
    BY <1>2, <2>1
<1> QED
  BY <1>1, <1>2 DEF Relied

\* A step that is not one of its cleanup() removes none of a policy's records.
LEMMA RecordsGrow ==
    ASSUME TypeOK, Reading, NEW p \in Policies, Step(p), NEW q \in Policies,
           ~(q = p /\ Unlink(p))
    PROVE  Records(q) \subseteq Records(q)'
<1>1. CASE q # p
  <2>1. record'[q] = record[q]
    BY <1>1, OnlyOwn
  <2> QED
    BY <2>1 DEF Records
<1>2. CASE OpenRecord(p) /\ q = p
  <2>1. record' = [record EXCEPT ![p][it[p]] = Empty]
    BY <1>2 DEF OpenRecord
  <2>2. \A i \in Its : record'[q][i] \in {record[q][i], Empty}
    BY <1>2, <2>1 DEF TypeOK
  <2> QED
    BY <2>2, Marks DEF Records
<1>3. CASE WriteRecord(p) /\ q = p
  <2>1. PICK score \in Scores : record' = [record EXCEPT ![p][it[p]] = score]
    BY <1>3 DEF WriteRecord
  <2>2. \A i \in Its : record'[q][i] \in {record[q][i], score}
    BY <1>3, <2>1 DEF TypeOK
  <2> QED
    BY <2>2, Marks DEF Records
<1>4. CASE q = p /\ ~OpenRecord(p) /\ ~WriteRecord(p)
  <2>1. record' = record
    BY <1>4 DEF Step, Tick, OperationFails, Crash, Launch, SaveWeights, LoadNext,
                RecordVanishes, Continue, SetRestartFlag, Restart
  <2> QED
    BY <2>1 DEF Records
<1> QED
  BY <1>1, <1>2, <1>3, <1>4

\* What is doomed may go; what is not, stays.
LEMMA RecordsStay ==
    ASSUME TypeOK, Reading, NEW p \in Policies, Step(p), NEW q \in Policies
    PROVE  /\ Records(q) \ doomed[q] \subseteq Records(q)'
           /\ Unlink(p) => Records(p) \ doomed[p] \subseteq (Records(p) \ doomed[p])'
<1>1. CASE q = p /\ Unlink(p)
  <2>1. PICK i \in doomed[p] :
          /\ \A j \in Its : j # i => record'[p][j] = record[p][j]
          /\ doomed'[p] \subseteq doomed[p]
    BY <1>1, Unlinked
  <2> QED
    BY <1>1, <2>1 DEF Records
<1>2. CASE ~(q = p /\ Unlink(p))
  <2>1. Records(q) \subseteq Records(q)'
    BY <1>2, RecordsGrow
  <2>2. ASSUME Unlink(p)
        PROVE  Records(p) \ doomed[p] \subseteq (Records(p) \ doomed[p])'
    <3>1. PICK i \in doomed[p] :
            /\ \A j \in Its : j # i => record'[p][j] = record[p][j]
            /\ doomed'[p] \subseteq doomed[p]
      BY <2>2, Unlinked
    <3> QED
      BY <3>1 DEF Records
  <2> QED
    BY <2>1, <2>2
<1> QED
  BY <1>1, <1>2

\* A policy keeps a record at least as new as any that it had.
LEMMA LaterStays ==
    ASSUME TypeOK, Reading, DoomedOld, NEW p \in Policies, Step(p),
           NEW q \in Policies, NEW j \in Records(q)
    PROVE  \E k \in Records(q)' : j <= k
<1>1. Records(q) \subseteq Nat
  BY RecordsIts, ItsFinite
<1>2. CASE j \in doomed[q]
  <2>1. PICK k \in Records(q) \ doomed[q] : k > j
    BY <1>2 DEF DoomedOld
  <2> QED
    BY <1>1, <2>1, RecordsStay
<1>3. CASE j \notin doomed[q]
  BY <1>1, <1>3, RecordsStay
<1> QED
  BY <1>2, <1>3

\* What all have left behind stays behind.
LEMMA OldStays ==
    ASSUME TypeOK, Reading, DoomedOld, NEW p \in Policies, Step(p), NEW i \in Its, Old(i)
    PROVE  Old(i)'
<1> SUFFICES ASSUME NEW r \in Policies PROVE \E k \in Records(r)' : i + KeepBack <= k
  BY DEF Old
<1>1. PICK j \in Records(r) : i + KeepBack <= j
  BY DEF Old
<1>2. PICK k \in Records(r)' : j <= k
  BY <1>1, LaterStays
<1>3. i \in Nat /\ j \in Nat /\ k \in Nat
  BY ItsFinite, RecordsIts DEF Records
<1> QED
  BY <1>1, <1>2, <1>3, Finite

\* What is out of date remains so.
LEMMA GoneStays ==
    ASSUME TypeOK, Reading, DoomedOld, NEW p \in Policies, Step(p),
           NEW q \in Policies, NEW i \in Its, Gone(q, i)
    PROVE  Gone(q, i)'
<1> DEFINE later == {j \in Records(q) : j > i}
<1>1. /\ Records(q) \subseteq Its /\ Records(q) \subseteq Nat
      /\ later' \subseteq Its /\ i \in Nat
  BY RecordsIts, ItsFinite DEF Records
<1>2. CASE Old(i)
  BY <1>2, OldStays DEF Gone
<1>3. CASE Outrun(q, i) /\ later \subseteq Records(q)'
  <2>1. later \subseteq later'
    BY <1>3
  <2>2. Cardinality(later) >= MaxYaml
    BY <1>3 DEF Outrun
  <2>3. Cardinality(later') >= MaxYaml
    BY <1>1, <2>1, <2>2, CountGrows
  <2> QED
    BY <2>3 DEF Gone, Outrun
<1>4. CASE ~(later \subseteq Records(q)')
  <2>1. PICK j \in Records(q) : j > i /\ j \in doomed[q]
    BY <1>4, RecordsStay
  <2>2. CASE Old(j)
    <3>1. Old(i)
      <4> SUFFICES ASSUME NEW r \in Policies PROVE \E k \in Records(r) : i + KeepBack <= k
        BY DEF Old
      <4>1. PICK k \in Records(r) : j + KeepBack <= k
        BY <2>2 DEF Old
      <4>2. k \in Nat /\ j \in Nat /\ i \in Nat
        BY <1>1, RecordsIts, ItsFinite
      <4> QED
        BY <2>1, <4>1, <4>2, Finite
    <3> QED
      BY <3>1, OldStays DEF Gone
  <2>3. CASE Surpassed(q, j)
    <3> DEFINE K == {k \in Records(q) \ doomed[q] : k > j}
    <3>1. K \subseteq later'
      <4> SUFFICES ASSUME NEW k \in Records(q) \ doomed[q], k > j
                   PROVE  k \in Records(q)' /\ k > i
        OBVIOUS
      <4>1. k \in Nat /\ j \in Nat
        BY <1>1
      <4> QED
        BY <1>1, <2>1, <4>1, RecordsStay
    <3>2. Cardinality(K) >= MaxYaml
      BY <2>3 DEF Surpassed
    <3>3. Cardinality(later') >= MaxYaml
      BY <1>1, <3>1, <3>2, CountGrows
    <3> QED
      BY <3>3 DEF Gone, Outrun
  <2> QED
    BY <2>1, <2>2, <2>3 DEF DoomedOld
<1> QED
  BY <1>2, <1>3, <1>4 DEF Gone

\* What cleanup() is about to remove is out of date.
LEMMA DoomedGone ==
    ASSUME TypeOK, DoomedOld, NEW q \in Policies, NEW i \in doomed[q]
    PROVE  Gone(q, i)
<1> DEFINE K == {k \in Records(q) \ doomed[q] : k > i}
           L == {k \in Records(q) : k > i}
<1>1. K \subseteq L /\ L \subseteq Its
  BY DEF Records
<1>2. CASE Surpassed(q, i)
  <2>1. Cardinality(K) >= MaxYaml
    BY <1>2 DEF Surpassed
  <2>2. Cardinality(L) >= MaxYaml
    BY <1>1, <2>1, CountGrows
  <2> QED
    BY <2>2 DEF Gone, Outrun
<1> QED
  BY <1>2 DEF DoomedOld, Gone

--------------------------------------------------------------------------------
(* What is relied upon is kept *)

\* What cleanup() is about to remove, all policies have left behind, or max_yaml
\* records that it will keep follow.
LEMMA RemovedOld ==
    ASSUME TypeOK, NEW p \in Policies, NEW ckpts \in [Policies -> {None} \cup Entries],
           KeepBack > 0,
           \A r \in Policies : ckpts[r] # None =>
             \E j \in Records(r) : ckpts[r].it <= j,
           NEW i \in Removed(p, ckpts)
    PROVE  /\ \/ Old(i)
              \/ Cardinality({k \in Records(p) \ Removed(p, ckpts) : k > i}) >= MaxYaml
           /\ \E k \in Records(p) \ Removed(p, ckpts) : k > i
<1> DEFINE th == Threshold(ckpts)
           S == {j \in Groups(p) : j > th} \cap Records(p)
           N(j) == {k \in S : k > j}
           kept == {k \in Records(p) \ Removed(p, ckpts) : k > i}
<1>1. S \subseteq Its /\ Records(p) \subseteq Groups(p) /\ Groups(p) \subseteq Its
  BY RecordsIts DEF Groups, Records
<1>2. Its \subseteq Nat /\ th \in Nat
  BY ItsFinite, ThresholdType
<1>3. Removed(p, ckpts) = {j \in Groups(p) : j <= th}
                            \cup {j \in S : Cardinality(N(j)) >= MaxYaml}
  BY DEF Removed
<1>4. i \in Its /\ i \in Nat /\ kept \subseteq Its
  BY <1>1, <1>2, <1>3
<1>5. CASE i <= th
  <2>1. \A q \in Policies : ckpts[q] # None /\ i + KeepBack <= ckpts[q].it
    BY <1>4, <1>5, ThresholdType
  <2>2. Old(i)
    <3> SUFFICES ASSUME NEW r \in Policies PROVE \E j \in Records(r) : i + KeepBack <= j
      BY DEF Old
    <3>1. PICK j \in Records(r) : ckpts[r].it <= j
      BY <2>1
    <3>2. ckpts[r].it \in Nat /\ j \in Nat /\ i + KeepBack <= ckpts[r].it
      BY <2>1, <1>2, RecordsIts DEF Entries
    <3> QED
      BY <1>4, <3>1, <3>2, Finite
  <2>3. Records(p) # {} /\ Records(p) \subseteq Its
    BY <2>2, RecordsIts DEF Old
  <2>4. PICK k \in Records(p) : \A j \in Records(p) : k >= j
    BY <2>3, MaxType
  <2>5. k \in Nat /\ k \in Its
    BY <1>2, <2>3
  <2>6. k > th
    <3> SUFFICES ASSUME k <= th PROVE FALSE
      BY <1>2, <2>5
    <3>1. k + KeepBack <= ckpts[p].it /\ ckpts[p] # None
      BY <2>5, ThresholdType
    <3>2. PICK j \in Records(p) : ckpts[p].it <= j
      BY <3>1
    <3>3. ckpts[p].it \in Nat /\ j \in Nat /\ k >= j
      BY <1>2, <2>3, <2>4, <3>1 DEF Entries
    <3> QED
      BY <2>5, <3>1, <3>2, <3>3, Finite
  <2>7. N(k) = {}
    <3> SUFFICES ASSUME NEW j \in S, j > k PROVE FALSE
      OBVIOUS
    <3>1. j \in Nat /\ k >= j
      BY <1>1, <1>2, <2>4
    <3> QED
      BY <2>5, <3>1
  <2>8. ~(Cardinality(N(k)) >= MaxYaml)
    <3> HIDE DEF N
    <3>1. Cardinality(N(k)) = 0
      BY <2>7, FS_EmptySet
    <3> QED
      BY <3>1, Finite
  <2>9. k \notin Removed(p, ckpts)
    <3>1. ~(k <= th)
      BY <1>2, <2>5, <2>6
    <3> HIDE DEF N, S, th
    <3> QED
      BY <1>3, <2>8, <3>1
  <2>10. k > i
    BY <1>2, <1>4, <1>5, <2>5, <2>6
  <2> QED
    BY <2>2, <2>9, <2>10
<1>6. CASE i \in S /\ Cardinality(N(i)) >= MaxYaml
  <2> DEFINE top == {k \in S : k > i /\ ~ Cardinality(N(k)) >= MaxYaml}
  <2>1. Cardinality(top) >= MaxYaml
    <3>1. MaxYaml \in Nat \ {0}
      BY Finite
    <3> HIDE DEF S
    <3> QED
      BY <1>1, <1>6, <3>1, TopKept
  <2>2. top \subseteq kept
    <3> SUFFICES ASSUME NEW k \in S, k > i, ~ Cardinality(N(k)) >= MaxYaml
                 PROVE  k \in Records(p) /\ k \notin Removed(p, ckpts)
      OBVIOUS
    <3>1. k \in Records(p) /\ k > th /\ k \in Nat
      BY <1>1, <1>2
    <3>2. ~(k <= th)
      BY <1>2, <3>1
    <3> HIDE DEF N, S, th
    <3> QED
      BY <1>3, <3>1, <3>2
  <2> HIDE DEF top, kept
  <2>3. Cardinality(kept) >= MaxYaml
    BY <1>4, <2>1, <2>2, CountGrows
  <2>4. kept # {}
    BY <2>3, FS_EmptySet, Finite
  <2> QED
    BY <2>3, <2>4 DEF kept
<1>7. i <= th \/ (i \in S /\ Cardinality(N(i)) >= MaxYaml)
  <2> HIDE DEF N, S, th
  <2> QED
    BY <1>3
<1> QED
  BY <1>5, <1>6, <1>7

\* What a process has just loaded is a record of its owner, and no step takes that
\* away without a later one.
LEMMA FollowedStep ==
    ASSUME TypeOK, Reading, DoomedOld, Followed, NEW p \in Policies, Step(p)
    PROVE  Followed'
<1> SUFFICES ASSUME NEW q \in Policies, NEW r \in DOMAIN seen'[q], seen'[q][r] # None
             PROVE  \E j \in Records(r)' : seen'[q][r].it <= j
  BY DEF Followed
<1>1. CASE r \in DOMAIN seen[q] /\ seen'[q][r] = seen[q][r]
  <2>1. r \in Policies /\ seen[q][r] \in Entries
    BY <1>1, SeenType
  <2>2. PICK j \in Records(r) : seen[q][r].it <= j
    BY <1>1 DEF Followed
  <2>3. PICK k \in Records(r)' : j <= k
    BY <2>1, LaterStays
  <2>4. seen[q][r].it \in Nat /\ j \in Nat /\ k \in Nat
    BY <2>1, ItsFinite, RecordsIts DEF Entries, Records
  <2> QED
    BY <1>1, <2>2, <2>3, <2>4
<1>2. CASE q # p
  BY <1>1, <1>2, OnlyOwn
<1>3. CASE q = p /\ LoadNext(p)
  <2> DEFINE n == Cardinality(DOMAIN seen[p])
  <2>1. /\ n \in Policies /\ DOMAIN seen[p] = 0 .. n - 1 /\ DOMAIN seen'[p] = 0 .. n
        /\ \A s \in 0 .. n - 1 : seen'[p][s] = seen[p][s]
        /\ seen'[p][n] = Loaded(p, n)
    BY <1>3, LoadNextSeen
  <2> HIDE DEF n
  <2>2. CASE r = n
    <3>1. seen'[q][r].it \in Records(r)
      BY <1>3, <2>1, <2>2, LoadedType
    <3>2. Records(r)' = Records(r)
      BY <1>3 DEF LoadNext, Records
    <3>3. seen'[q][r].it \in Nat
      BY <3>1, RecordsIts, ItsFinite
    <3> QED
      BY <3>1, <3>2, <3>3
  <2>3. CASE r # n
    <3>1. r \in 0 .. n - 1
      BY <1>3, <2>1, <2>3 DEF Policies
    <3> QED
      BY <1>1, <1>3, <2>1, <3>1
  <2> QED
    BY <2>2, <2>3
<1>4. CASE q = p /\ ~LoadNext(p)
  <2>1. seen'[p] \in {seen[p], Nothing}
    BY <1>4 DEF TypeOK, Step, Tick, OperationFails, Crash, Launch, SaveWeights, OpenRecord,
                WriteRecord, RecordVanishes, Unlink, Continue, SetRestartFlag, Restart, Forget
  <2> QED
    BY <1>1, <1>4, <2>1 DEF Nothing
<1> QED
  BY <1>2, <1>3, <1>4

\* What cleanup() is about to remove stays out of date while it does.
LEMMA DoomedStep ==
    ASSUME TypeOK, Reading, DoomedOld, Followed', NEW p \in Policies, Step(p),
           TypeOK', Reading', KeepBack > 0
    PROVE  DoomedOld'
<1> SUFFICES ASSUME NEW q \in Policies, NEW i \in doomed'[q]
             PROVE  /\ Old(i)' \/ Surpassed(q, i)'
                    /\ \E k \in (Records(q) \ doomed[q])' : k > i
  BY DEF DoomedOld
<1>1. ASSUME i \in doomed[q], Records(q) \ doomed[q] \subseteq (Records(q) \ doomed[q])'
      PROVE  /\ Old(i)' \/ Surpassed(q, i)'
             /\ \E k \in (Records(q) \ doomed[q])' : k > i
  <2>1. i \in Its
    BY <1>1 DEF TypeOK
  <2>2. \E k \in (Records(q) \ doomed[q])' : k > i
    BY <1>1 DEF DoomedOld
  <2>3. CASE Old(i)
    BY <2>1, <2>2, <2>3, OldStays
  <2>4. CASE Surpassed(q, i)
    <3> DEFINE K == {k \in Records(q) \ doomed[q] : k > i}
    <3>1. K \subseteq K' /\ K' \subseteq Its
      BY <1>1 DEF Records
    <3>2. Cardinality(K) >= MaxYaml
      BY <2>4 DEF Surpassed
    <3>3. Cardinality(K') >= MaxYaml
      BY <3>1, <3>2, CountGrows
    <3> QED
      BY <2>2, <3>3 DEF Surpassed
  <2> QED
    BY <1>1, <2>3, <2>4 DEF DoomedOld
<1>2. CASE q # p
  <2>1. record'[q] = record[q] /\ doomed'[q] = doomed[q]
    BY <1>2, OnlyOwn
  <2> QED
    BY <1>1, <2>1 DEF Records
<1>3. CASE q = p /\ Unlink(p)
  <2>1. doomed'[p] \subseteq doomed[p]
    BY <1>3, Unlinked
  <2> QED
    BY <1>1, <1>3, <2>1, RecordsStay
<1>4. CASE q = p /\ LoadNext(p) /\ pc'[p] = "clean"
  <2>1. ~(Cardinality(DOMAIN seen[p]) + 1 < NumPolicies)
    BY <1>4 DEF LoadNext
  <2>2. doomed'[p] = Removed(p, seen'[p])
    BY <1>4, <2>1 DEF TypeOK, LoadNext
  <2>3. seen'[p] \in [Policies -> {None} \cup Entries]
    BY <1>4 DEF Reading
  <2>4. UNCHANGED <<it, record>>
    BY <1>4 DEF LoadNext
  <2>5. \A r \in Policies : seen'[p][r] # None => \E j \in Records(r) : seen'[p][r].it <= j
    BY <2>3, <2>4 DEF Followed, Records
  <2>6. /\ \/ Old(i)
           \/ Cardinality({k \in Records(p) \ Removed(p, seen'[p]) : k > i}) >= MaxYaml
        /\ \E k \in Records(p) \ Removed(p, seen'[p]) : k > i
    BY <1>4, <2>2, <2>3, <2>5, RemovedOld
  <2> QED
    BY <1>4, <2>2, <2>4, <2>6 DEF Old, Surpassed, Records
<1>5. CASE q = p /\ pc'[p] # "clean"
  BY <1>5 DEF Reading
<1>6. CASE q = p /\ ~Unlink(p) /\ ~LoadNext(p)
  <2>1. pc'[p] # "clean"
    BY <1>6 DEF TypeOK, Step, Tick, OperationFails, Crash, Launch, SaveWeights, OpenRecord,
                WriteRecord, RecordVanishes, Continue, SetRestartFlag, Restart, Goto
  <2> QED
    BY <1>5, <1>6, <2>1
<1> QED
  BY <1>2, <1>3, <1>4, <1>5, <1>6

\* A process knows no checkpoint ahead of its own interval.
LEMMA BelowStep ==
    ASSUME TypeOK, Reading, Below, NEW p \in Policies, Step(p)
    PROVE  Below'
<1> SUFFICES ASSUME NEW q \in Policies
             PROVE  /\ \A r \in DOMAIN seen'[q] :
                         seen'[q][r] # None => seen'[q][r].it <= it'[q]
                    /\ choice'[q] # None => choice'[q].it <= it'[q]
  BY DEF Below
<1>1. CASE q # p
  <2>1. seen'[q] = seen[q] /\ choice'[q] = choice[q] /\ it'[q] = it[q]
    BY <1>1, OnlyOwn
  <2> QED
    BY <2>1 DEF Below
<1>2. CASE q = p /\ seen'[p] = Nothing /\ choice'[p] = None
  BY <1>2 DEF Nothing
<1>3. CASE q = p /\ seen'[p] = seen[p] /\ choice'[p] = choice[p] /\ it'[p] = it[p]
  BY <1>3 DEF Below
<1>4. CASE q = p /\ (RecordVanishes(p) \/ Continue(p) \/ Restart(p) \/ OperationFails(p)
                       \/ Crash(p))
  BY <1>2, <1>4 DEF TypeOK, RecordVanishes, Continue, Restart, OperationFails, Crash, Forget
<1>5. CASE q = p /\ SaveWeights(p)
  <2>1. seen[p] = Nothing /\ choice[p] = None /\ UNCHANGED <<seen, choice>>
    BY <1>5 DEF TypeOK, Reading, SaveWeights
  <2> QED
    BY <1>2, <1>5, <2>1
<1>6. CASE q = p /\ (OpenRecord(p) \/ WriteRecord(p) \/ Unlink(p) \/ Launch(p))
  BY <1>3, <1>6 DEF OpenRecord, WriteRecord, Unlink, Launch
<1>7. CASE q = p /\ LoadNext(p)
  <2> DEFINE n == Cardinality(DOMAIN seen[p])
  <2>1. /\ n \in Policies /\ DOMAIN seen[p] = 0 .. n - 1 /\ DOMAIN seen'[p] = 0 .. n
        /\ \A s \in 0 .. n - 1 : seen'[p][s] = seen[p][s]
        /\ seen'[p][n] = Loaded(p, n)
    BY <1>7, LoadNextSeen
  <2>2. it' = it /\ choice' = choice
    BY <1>7 DEF LoadNext
  <2> HIDE DEF n
  <2>3. ASSUME NEW r \in 0 .. n, seen'[p][r] # None
        PROVE  seen'[p][r].it <= it[p]
    <3>1. CASE r = n
      BY <2>1, <2>3, <3>1, LoadedType
    <3>2. CASE r # n
      <4>1. r \in 0 .. n - 1
        BY <2>1, <2>3, <3>2 DEF Policies
      <4> QED
        BY <2>1, <2>3, <4>1 DEF Below
    <3> QED
      BY <3>1, <3>2
  <2> QED
    BY <1>7, <2>1, <2>2, <2>3 DEF Below
<1>8. CASE q = p /\ SetRestartFlag(p)
  <2>1. PICK c \in Candidates(p) :
          choice' = [choice EXCEPT ![p] = [policy |-> c, it |-> seen[p][c].it]]
    BY <1>8 DEF SetRestartFlag
  <2>2. c \in Policies /\ seen[p][c] # None
    BY <2>1 DEF Candidates, Leaders, Underperformers, Initialized
  <2>3. c \in DOMAIN seen[p]
    BY <1>8, <2>2 DEF SetRestartFlag, Reading
  <2>4. choice'[p].it = seen[p][c].it /\ it' = it /\ seen'[p] = Nothing
    BY <1>8, <2>1 DEF TypeOK, SetRestartFlag
  <2>5. seen[p][c].it <= it[p]
    BY <2>2, <2>3 DEF Below
  <2> QED
    BY <1>8, <2>4, <2>5 DEF Nothing
<1> QED
  BY <1>1, <1>4, <1>5, <1>6, <1>7, <1>8 DEF Step, Tick

\* A checkpoint comes to be relied upon when it is loaded.
LEMMA NewlyRelied ==
    ASSUME TypeOK, Reading, NEW p \in Policies, Step(p),
           NEW r \in Policies, NEW c \in Relied(r)'
    PROVE  /\ c[1] \in Policies /\ c[2] \in Its
           /\ \/ c \in Relied(r)
              \/ r = p /\ LoadNext(p) /\ c[2] \in Records(c[1]) /\ c[2] <= it[p]
<1>1. c \in Relied(r) => c[1] \in Policies /\ c[2] \in Its
  BY ReliedType
<1>2. CASE seen'[r] = seen[r] /\ choice'[r] = choice[r]
  BY <1>1, <1>2 DEF Relied
<1>3. CASE r # p
  BY <1>2, <1>3, OnlyOwn
<1>4. CASE seen'[r] = Nothing /\ choice'[r] = None
  BY <1>4 DEF Relied, Nothing
<1>5. CASE r = p /\ (RecordVanishes(p) \/ Continue(p) \/ Restart(p) \/ OperationFails(p)
                       \/ Crash(p))
  BY <1>4, <1>5 DEF TypeOK, RecordVanishes, Continue, Restart, OperationFails, Crash, Forget
<1>6. CASE r = p /\ (SaveWeights(p) \/ OpenRecord(p) \/ WriteRecord(p) \/ Unlink(p)
                       \/ Launch(p))
  BY <1>2, <1>6 DEF SaveWeights, OpenRecord, WriteRecord, Unlink, Launch
<1>7. CASE r = p /\ LoadNext(p)
  <2> DEFINE n == Cardinality(DOMAIN seen[p])
  <2>1. /\ n \in Policies /\ DOMAIN seen[p] = 0 .. n - 1 /\ DOMAIN seen'[p] = 0 .. n
        /\ \A s \in 0 .. n - 1 : seen'[p][s] = seen[p][s]
        /\ seen'[p][n] = Loaded(p, n)
    BY <1>7, LoadNextSeen
  <2>2. choice[p] = None /\ choice' = choice
    BY <1>7 DEF LoadNext, TypeOK
  <2> HIDE DEF n
  <2>3. PICK q \in 0 .. n : seen'[p][q] # None /\ c = <<q, seen'[p][q].it>>
    BY <1>7, <2>1, <2>2 DEF Relied
  <2>4. CASE q = n
    <3>1. c[1] = n /\ c[2] = Loaded(p, n).it
      BY <2>1, <2>3, <2>4
    <3>2. c[2] \in Records(n) /\ c[2] <= it[p]
      BY <2>1, <2>3, <2>4, <3>1, LoadedType
    <3> QED
      BY <1>7, <2>1, <3>1, <3>2, RecordsIts
  <2>5. CASE q # n
    <3>1. q \in 0 .. n - 1
      BY <2>1, <2>3, <2>5 DEF Policies
    <3> QED
      BY <1>1, <1>7, <2>1, <2>2, <2>3, <3>1 DEF Relied
  <2> QED
    BY <2>4, <2>5
<1>8. CASE r = p /\ SetRestartFlag(p)
  <2>1. PICK q \in Candidates(p) :
          choice' = [choice EXCEPT ![p] = [policy |-> q, it |-> seen[p][q].it]]
    BY <1>8 DEF SetRestartFlag
  <2>2. q \in Policies /\ seen[p][q] # None
    BY <2>1 DEF Candidates, Leaders, Underperformers, Initialized
  <2>3. q \in DOMAIN seen[p]
    BY <1>8, <2>2 DEF SetRestartFlag, Reading
  <2>4. choice'[p] = [policy |-> q, it |-> seen[p][q].it] /\ seen'[p] = Nothing
    BY <1>8, <2>1 DEF TypeOK, SetRestartFlag
  <2>5. c = <<q, seen[p][q].it>>
    BY <1>8, <2>4 DEF Relied, Nothing
  <2> QED
    BY <1>1, <1>8, <2>2, <2>3, <2>5 DEF Relied
<1> QED
  BY <1>1, <1>3, <1>5, <1>6, <1>7, <1>8 DEF Step, Tick

\* A record that is relied upon disappears only when it is out of date.
LEMMA ReliedStep ==
    ASSUME TypeOK, Reading, DoomedOld, ReliedRecorded, NEW p \in Policies, Step(p)
    PROVE  ReliedRecorded'
<1> SUFFICES ASSUME NEW r \in Policies, NEW c \in Relied(r)'
             PROVE  record'[c[1]][c[2]] # None \/ Gone(c[1], c[2])'
  BY DEF ReliedRecorded
<1>1. c[1] \in Policies /\ c[2] \in Its
  BY NewlyRelied
<1>2. c[2] \in Records(c[1]) \/ Gone(c[1], c[2])
  BY <1>1, NewlyRelied DEF ReliedRecorded, Records
<1>3. CASE Gone(c[1], c[2])
  BY <1>1, <1>3, GoneStays
<1>4. CASE c[2] \in Records(c[1]) \ doomed[c[1]]
  <2>1. c[2] \in Records(c[1])'
    BY <1>1, <1>4, RecordsStay
  <2> QED
    BY <2>1 DEF Records
<1>5. CASE c[2] \in Records(c[1]) /\ c[2] \in doomed[c[1]]
  <2>1. Gone(c[1], c[2])
    BY <1>1, <1>5, DoomedGone
  <2> QED
    BY <1>3, <2>1
<1> QED
  BY <1>2, <1>3, <1>4, <1>5

\* While a process trains or is in its cleanup, its records have whole weights,
\* but for the exceptions.
LEMMA WholeStep ==
    ASSUME TypeOK, Reading, Below, DoomedOld, RecordsWhole, TypeOK', Reading',
           NEW p \in Policies, Step(p)
    PROVE  RecordsWhole'
<1> USE DEF Records, Resaved
<1> SUFFICES ASSUME NEW q \in Policies
             PROVE  /\ pc'[q] = "record" => weights'[q][it'[q]] = "whole"
                    /\ \A i \in Records(q)' :
                         \/ weights'[q][i] = "whole" \/ <<q, i>> \in missed' \/ Gone(q, i)'
                         \/ Resaved(q, i)'
  BY DEF RecordsWhole
<1>2. \A i \in Its : Gone(q, i) => Gone(q, i)'
  BY GoneStays
<1>3. /\ pc[q] = "record" => weights[q][it[q]] = "whole"
      /\ \A i \in Records(q) :
           \/ weights[q][i] = "whole" \/ <<q, i>> \in missed \/ Gone(q, i) \/ Resaved(q, i)
  BY DEF RecordsWhole
<1>4. it[q] \in Nat /\ it'[q] \in Nat /\ \A i \in Its : i \in Nat /\ i > 0
  BY Finite DEF TypeOK, Its
<1>5. CASE q # p
  <2>1. /\ pc'[q] = pc[q] /\ it'[q] = it[q]
        /\ weights'[q] = weights[q] /\ record'[q] = record[q]
    BY <1>5, OnlyOwn
  <2>2. \A i \in Its : <<q, i>> \in missed => <<q, i>> \in missed'
    BY <1>5 DEF Step, Tick, OperationFails, Crash, Launch, SaveWeights, OpenRecord, WriteRecord,
                LoadNext, RecordVanishes, Unlink, Continue, SetRestartFlag, Restart
  <2> QED
    BY <1>2, <1>3, <2>1, <2>2
<1>6. CASE q = p /\ SaveWeights(p)
  <2>0. missed \subseteq missed'
    BY <1>6 DEF SaveWeights
  <2>1. /\ weights' = [weights EXCEPT ![p][it[p] + 1] = "part"] /\ record' = record
        /\ pc'[p] = "weights" /\ it'[p] = it[p] + 1 /\ pc[p] = "train"
    BY <1>6 DEF TypeOK, SaveWeights, Goto
  <2>2. \A i \in Its : i # it[p] + 1 => weights'[p][i] = weights[p][i]
    BY <2>1 DEF TypeOK
  <2>3. \A i \in Its : i > it[p] /\ i # it[p] + 1 => i > it[p] + 1
    BY <1>4, <1>6
  <2> QED
    BY <1>2, <1>3, <1>6, <2>1, <2>2, <2>3, <2>0
<1>7. CASE q = p /\ OpenRecord(p)
  <2>1. /\ weights' = [weights EXCEPT ![p][it[p]] = "whole"]
        /\ record' = [record EXCEPT ![p][it[p]] = Empty]
        /\ pc'[p] = "record" /\ pc[p] = "weights" /\ it' = it
    BY <1>7 DEF TypeOK, OpenRecord, Goto
  <2>2. it[p] \in Its
    BY <2>1 DEF Reading, Saving
  <2>3. /\ weights'[p][it[p]] = "whole"
        /\ \A i \in Its : i # it[p] => weights'[p][i] = weights[p][i]
                                         /\ record'[p][i] = record[p][i]
    BY <2>1, <2>2 DEF TypeOK
  <2>4. \A i \in Its : i # it[p] /\ <<p, i>> \in missed => <<p, i>> \in missed'
    BY <1>7 DEF OpenRecord
  <2> QED
    BY <1>2, <1>3, <1>7, <2>1, <2>2, <2>3, <2>4
<1>8. CASE q = p /\ WriteRecord(p)
  <2>0. missed \subseteq missed'
    BY <1>8 DEF WriteRecord
  <2>1. PICK score \in Scores : record' = [record EXCEPT ![p][it[p]] = score]
    BY <1>8 DEF WriteRecord
  <2>2. weights' = weights /\ pc'[p] = "load" /\ pc[p] = "record" /\ it' = it
    BY <1>8 DEF TypeOK, WriteRecord, Goto
  <2>3. \A i \in Its : i # it[p] => record'[p][i] = record[p][i]
    BY <2>1 DEF TypeOK
  <2> QED
    BY <1>2, <1>3, <1>8, <2>2, <2>3, <2>0
<1>9. CASE q = p /\ Unlink(p)
  <2>0. missed \subseteq missed'
    BY <1>9 DEF Unlink
  <2>1. PICK i \in doomed[p] :
          /\ \A j \in Its : j # i => weights'[p][j] = weights[p][j]
                                      /\ record'[p][j] = record[p][j]
          /\ i \in Its
    BY <1>9, Unlinked
  <2>2. Gone(p, i)
    BY <2>1, DoomedGone
  <2>3. pc'[p] = "clean" /\ pc[p] = "clean" /\ it' = it
    BY <1>9 DEF Unlink
  <2> QED
    BY <1>2, <1>3, <1>9, <2>1, <2>2, <2>3, <2>0
<1>10. CASE q = p /\ (LoadNext(p) \/ RecordVanishes(p) \/ Continue(p) \/ SetRestartFlag(p)
                        \/ Launch(p))
  <2>0. missed \subseteq missed'
    BY <1>10 DEF LoadNext, RecordVanishes, Continue, SetRestartFlag, Launch
  <2>1. pc'[p] # "record" /\ pc[p] # "weights" /\ it' = it /\ UNCHANGED <<weights, record>>
    BY <1>10 DEF TypeOK, LoadNext, RecordVanishes, Continue, SetRestartFlag, Launch, Goto
  <2> QED
    BY <1>2, <1>3, <1>10, <2>1, <2>0
<1>11. CASE q = p /\ Restart(p)
  <2>0. missed \subseteq missed'
    BY <1>11 DEF Restart
  <2>1. choice[p] \in [policy : Policies, it : Its] /\ choice[p].it <= it[p]
    BY <1>11, Marks DEF TypeOK, Below, Restart
  <2>2. it'[p] <= it[p]
    <3>1. it'[p] = choice[p].it \/ it'[p] = 0
      BY <1>11 DEF TypeOK, Restart
    <3> QED
      BY <1>4, <1>11, <2>1, <3>1
  <2>3. pc'[p] # "record" /\ pc[p] # "weights" /\ UNCHANGED <<weights, record>>
    BY <1>11 DEF TypeOK, Restart, Goto
  <2>4. \A i \in Its : i > it[p] => i > it'[p]
    BY <1>4, <1>11, <2>2
  <2> QED
    BY <1>2, <1>3, <1>11, <2>3, <2>4, <2>0
<1>12. CASE q = p /\ OperationFails(p)
  <2>0. missed \subseteq missed'
    BY <1>12 DEF OperationFails
  <2>1. /\ pc'[p] = "train" /\ it' = it /\ UNCHANGED <<weights, record>>
        /\ pc[p] = "weights" => <<p, it[p]>> \in missed'
    BY <1>12 DEF TypeOK, OperationFails, Goto, Saving
  <2> QED
    BY <1>2, <1>3, <1>12, <2>1, <2>0
<1>13. CASE q = p /\ Crash(p)
  <2>1. pc'[p] = "down" /\ it'[p] = 0
    BY <1>13 DEF TypeOK, Crash, Goto
  <2> QED
    BY <1>4, <1>13, <2>1
<1> QED
  BY <1>5, <1>6, <1>7, <1>8, <1>9, <1>10, <1>11, <1>12, <1>13 DEF Step, Tick

\* Whole weights are lost to a new save of the same iteration, or to cleanup().
LEMMA WholeLost ==
    ASSUME TypeOK, Reading, NEW p \in Policies, Step(p),
           NEW q \in Policies, NEW i \in Its,
           weights[q][i] = "whole", weights'[q][i] # "whole"
    PROVE  \/ i = it[q] + 1
           \/ i \in doomed[q]
<1>1. q = p
  BY OnlyOwn
<1>2. CASE SaveWeights(p)
  <2>1. weights' = [weights EXCEPT ![p][it[p] + 1] = "part"]
    BY <1>2 DEF SaveWeights
  <2> QED
    BY <1>1, <2>1 DEF TypeOK
<1>3. CASE OpenRecord(p)
  <2>1. weights' = [weights EXCEPT ![p][it[p]] = "whole"]
    BY <1>3 DEF OpenRecord
  <2> QED
    BY <1>1, <2>1 DEF TypeOK
<1>4. CASE Unlink(p)
  <2>1. PICK j \in doomed[p] : \A k \in Its : k # j => weights'[p][k] = weights[p][k]
    BY <1>4, Unlinked
  <2> QED
    BY <1>1, <2>1
<1>5. CASE UNCHANGED weights
  BY <1>5
<1> QED
  BY <1>2, <1>3, <1>4, <1>5
  DEF Step, Tick, OperationFails, Crash, Launch, WriteRecord, LoadNext, RecordVanishes,
      Continue, SetRestartFlag, Restart

\* What the theorem promises of a checkpoint c that r relies upon after the step.
Safe(r, c) ==
    \/ Whole(c)'
    \/ c \in Relied(r) /\ ~Whole(c)
    \/ Resaved(c[1], c[2]) \/ c \in missed
    \/ Outrun(c[1], c[2]) \/ Old(c[2])

\* Every step keeps what is relied upon, if cleanup() keeps back an interval.
LEMMA StepKeeps ==
    ASSUME RInv, NEW p \in Policies, Step(p), KeepBack > 0,
           NEW r \in Policies, NEW c \in Relied(r)'
    PROVE  Safe(r, c)
<1> USE DEF RInv, IInv, Kept
<1>1. c[1] \in Policies /\ c[2] \in Its
  BY NewlyRelied
<1>2. CASE c \in Relied(r)
  <2>1. CASE ~Whole(c) \/ Whole(c)'
    BY <1>2, <2>1 DEF Safe
  <2>2. CASE Whole(c) /\ ~Whole(c)'
    <3>1. c[2] = it[c[1]] + 1 \/ c[2] \in doomed[c[1]]
      BY <1>1, <2>2, WholeLost DEF Whole
    <3>2. CASE c[2] \in doomed[c[1]]
      <4>1. Gone(c[1], c[2])
        BY <1>1, <3>2, DoomedGone
      <4> QED
        BY <4>1 DEF Gone, Safe
    <3>3. CASE c[2] = it[c[1]] + 1
      <4>1. c[2] > it[c[1]]
        BY <1>1, <3>3 DEF TypeOK
      <4>2. c[2] \in Records(c[1]) \/ Gone(c[1], c[2])
        BY <1>1, <1>2 DEF ReliedRecorded, Records
      <4>3. CASE c[2] \in Records(c[1])
        BY <4>1 DEF Resaved, Safe
      <4> QED
        BY <4>2, <4>3 DEF Gone, Safe
    <3> QED
      BY <3>1, <3>2, <3>3
  <2> QED
    BY <2>1, <2>2
<1>3. CASE c \notin Relied(r)
  <2>1. r = p /\ LoadNext(p) /\ c[2] \in Records(c[1]) /\ c[2] <= it[p]
    BY <1>3, NewlyRelied
  <2>2. weights' = weights
    BY <2>1 DEF LoadNext
  <2>3. \/ weights[c[1]][c[2]] = "whole" \/ <<c[1], c[2]>> \in missed
        \/ Gone(c[1], c[2]) \/ Resaved(c[1], c[2])
    BY <1>1, <2>1 DEF RecordsWhole
  <2>4. c = <<c[1], c[2]>>
    BY DEF Relied
  <2>5. CASE weights[c[1]][c[2]] = "whole"
    BY <2>2, <2>5 DEF Whole, Safe
  <2> QED
    BY <2>3, <2>4, <2>5 DEF Gone, Safe
<1> QED
  BY <1>2, <1>3

\* What the promise rests on holds for good.
LEMMA ReliedInvariance == Spec => []RInv
<1>1. Init => RInv
  <2> SUFFICES ASSUME Init PROVE RInv
    OBVIOUS
  <2>1. IInv
    BY InitInvariant
  <2>2. /\ \A q \in Policies : /\ DOMAIN seen[q] = {} /\ choice[q] = None /\ doomed[q] = {}
                               /\ pc[q] = "train" /\ Records(q) = {}
        /\ \A r \in Policies : Relied(r) = {}
    BY DEF Init, Nothing, Records, Relied
  <2>3. Below /\ Kept
    BY <2>2 DEF Below, Kept, DoomedOld, Followed, RecordsWhole, ReliedRecorded
  <2> QED
    BY <2>1, <2>3 DEF RInv
<1>2. RInv /\ [Next]_vars => RInv'
  <2> SUFFICES ASSUME RInv, [Next]_vars PROVE RInv'
    OBVIOUS
  <2>1. IInv'
    BY NextInvariant DEF RInv
  <2>2. CASE UNCHANGED vars
    <3> USE <2>2 DEF vars, RInv, Kept, Records
    <3>1. Below'
      BY DEF Below
    <3>2. ASSUME Kept PROVE Kept'
      <4>1. DoomedOld'
        BY <3>2 DEF DoomedOld, Old, Surpassed
      <4>2. Followed'
        BY <3>2 DEF Followed
      <4>3. RecordsWhole'
        BY <3>2 DEF RecordsWhole, Gone, Old, Outrun, Resaved
      <4>4. ReliedRecorded'
        BY <3>2 DEF ReliedRecorded, Relied, Gone, Old, Outrun
      <4> QED
        BY <4>1, <4>2, <4>3, <4>4
    <3> QED
      BY <2>1, <3>1, <3>2
  <2>3. ASSUME NEW p \in Policies, Step(p) PROVE RInv'
    <3>1. TypeOK /\ Reading /\ TypeOK' /\ Reading' /\ Below
      BY <2>1 DEF RInv, IInv
    <3>2. Below'
      BY <2>3, <3>1, BelowStep
    <3>3. ASSUME KeepBack > 0 PROVE Kept'
      <4>1. DoomedOld /\ Followed /\ RecordsWhole /\ ReliedRecorded
        BY <3>3 DEF RInv, Kept
      <4>2. Followed'
        BY <2>3, <3>1, <4>1, FollowedStep
      <4>3. DoomedOld'
        BY <2>3, <3>1, <3>3, <4>1, <4>2, DoomedStep
      <4>4. RecordsWhole'
        BY <2>3, <3>1, <4>1, WholeStep
      <4>5. ReliedRecorded'
        BY <2>3, <3>1, <4>1, ReliedStep
      <4> QED
        BY <4>2, <4>3, <4>4, <4>5 DEF Kept
    <3> QED
      BY <2>1, <3>2, <3>3 DEF RInv
  <2> QED
    BY <2>2, <2>3 DEF Next, Step
<1> QED
  BY <1>1, <1>2, PTL DEF Spec

\* The weights that a policy has found, and may restart from, stay whole until it
\* has, whatever their owner saves and removes meanwhile, however many policies
\* there are and whatever else cleanup() is told to keep: unless the owner saves
\* that very interval again, failed to save it or is max_yaml records ahead of it, or
\* all policies are keep_back intervals ahead of it.
THEOREM ReliedUponAlwaysKept ==
    ASSUME KeepBack > 0
    PROVE  Spec => ReliedUponKept
<1>1. RInv /\ [Next]_vars =>
        [\A r \in Policies : \A c \in Relied(r)' :
           \/ Whole(c)'
           \/ c \in Relied(r) /\ ~Whole(c)
           \/ Resaved(c[1], c[2]) \/ c \in missed
           \/ Outrun(c[1], c[2]) \/ Old(c[2])]_vars
  <2> SUFFICES ASSUME RInv, Next, NEW r \in Policies, NEW c \in Relied(r)'
               PROVE  Safe(r, c)
    BY DEF Safe
  <2>1. PICK p \in Policies : Step(p)
    BY DEF Next, Step
  <2> QED
    BY <2>1, StepKeeps
<1> QED
  BY <1>1, ReliedInvariance, PTL DEF Spec, ReliedUponKept
================================================================================
