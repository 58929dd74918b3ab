-------------------------- MODULE PopulationTraining --------------------------
(***************************************************************************)
(* Population based training (isaaclab_rl/rl_games/pbt).  Every policy is   *)
(* an operating-system process of its own.  The processes have nothing in   *)
(* common but a directory, into which each saves, once per interval, its    *)
(* weights (NNNNNN.pth) and after them a record of them (NNNNNN.yaml) with  *)
(* the objective reached.  A policy that falls behind the others restarts   *)
(* from a checkpoint it has found there: it replaces itself by a new        *)
(* process, one training step later, and that process reads the weights.    *)
(*                                                                         *)
(* An action is what a process does between two accesses to the directory. *)
(* Weights are known by their file only; objectives are small integers.     *)
(* The objective is known at every tick: process_infos sets it after every  *)
(* environment step.  Of a distributed policy this is rank 0: the other     *)
(* ranks only exit when it is about to restart.                            *)
(***************************************************************************)
EXTENDS Integers, FiniteSets, FiniteSetsExt

CONSTANTS
    NumPolicies,        \* num_policies
    Scores,             \* objectives that the environment may report
    ThresholdStd,       \* threshold_std as a fraction <<numerator, denominator>>
    ThresholdAbs,       \* threshold_abs
    KeepBack, MaxYaml,  \* keep_back and max_yaml of cleanup()
    MaxIt,              \* bound: the interval in which training ends
    MayFail,            \* the policies whose process or file operations may fail
    MaxFaults,          \* bound: crashes and failed file operations
    None,               \* no such file; a policy without a checkpoint
    Empty               \* a record opened for writing and not yet written

Policies == 0 .. NumPolicies - 1
Its == 1 .. MaxIt

ASSUME SizesAssumption ==
    /\ NumPolicies \in Nat \ {0}
    /\ KeepBack \in Nat /\ MaxYaml \in Nat \ {0}
    /\ MaxIt \in Nat /\ MaxFaults \in Nat
ASSUME ScoresAssumption == Scores \subseteq Nat /\ ThresholdAbs \in Nat
ASSUME StdAssumption == ThresholdStd \in Nat \X (Nat \ {0})
ASSUME MayFailAssumption == MayFail \subseteq Policies
\* The marks are not among the data that they stand beside.
ASSUME MarksAssumption ==
    /\ None # Empty /\ None \notin {"part", "whole"}
    /\ None \notin Scores /\ None \notin Its
    /\ None \notin [it : Its, score : Scores] /\ None \notin [policy : Policies, it : Its]

VARIABLES
    pc,         \* where a process is in after_steps()
    it,         \* its interval: algo.frame // interval_steps, pbt_it while it ticks
    weights,    \* the .pth files of each policy: None, "part", "whole"
    record,     \* the .yaml files: None, Empty or the objective
    seen,       \* ckpts as far as loaded: policy to its record or None
    doomed,     \* iterations whose files cleanup() has yet to unlink
    unlinking,  \* the one of them whose files it has begun to unlink, or None
    choice,     \* restart_from_checkpoint, while restart_flag is set
    faults,     \* crashes and failed operations so far
    missed      \* the weights whose saving failed, and that were not saved since

files == <<weights, record>>
memory == <<seen, doomed, unlinking, choice>>
failures == <<faults, missed>>
vars == <<pc, it, files, memory, failures>>

Saving == {"weights", "record"}
Entries == [it : Its, score : Scores]
Nothing == [q \in {} |-> None]

TypeOK ==
    /\ pc \in [Policies -> {"train", "load", "clean", "restart", "down"} \cup Saving]
    /\ it \in [Policies -> 0 .. MaxIt]
    /\ weights \in [Policies -> [Its -> {None, "part", "whole"}]]
    /\ record \in [Policies -> [Its -> {None, Empty} \cup Scores]]
    /\ seen \in [Policies ->
                  UNION {[0 .. n - 1 -> {None} \cup Entries] : n \in 0 .. NumPolicies}]
    /\ doomed \in [Policies -> SUBSET Its]
    /\ unlinking \in [Policies -> {None} \cup Its]
    /\ choice \in [Policies -> {None} \cup [policy : Policies, it : Its]]
    /\ \A p \in Policies :
         /\ unlinking[p] # None => unlinking[p] \in doomed[p]
         /\ pc[p] = "restart" <=> choice[p] # None
    /\ faults \in 0 .. MaxFaults
    /\ missed \subseteq Policies \X Its

Init ==
    /\ pc = [p \in Policies |-> "train"]
    /\ it = [p \in Policies |-> 0]
    /\ weights = [p \in Policies |-> [i \in Its |-> None]]
    /\ record = [p \in Policies |-> [i \in Its |-> None]]
    /\ seen = [p \in Policies |-> Nothing]
    /\ doomed = [p \in Policies |-> {}]
    /\ unlinking = [p \in Policies |-> None]
    /\ choice = [p \in Policies |-> None]
    /\ faults = 0
    /\ missed = {}


(***************************************************************************)
(* What a process computes from the directory                              *)
(***************************************************************************)
Records(q) == {i \in Its : record[q][i] # None}
Groups(q) == {i \in Its : record[q][i] # None \/ weights[q][i] # None}

\* Mutant: an empty record is taken for one.
LoadedRaw(p, q) ==
    LET past == {i \in Records(q) : i <= it[p]}
    IN IF past = {} THEN None ELSE [it |-> Max(past), score |-> record[q][Max(past)]]

\* The entry load_pbt_ckpts() finds for policy q: the newest record of an
\* iteration not after its own; one that is just being written loads as None.
Loaded(p, q) ==
    LET past == {i \in Records(q) : i <= it[p]}
    IN IF past = {} \/ record[q][Max(past)] = Empty
         THEN None
         ELSE [it |-> Max(past), score |-> record[q][Max(past)]]

\* The iterations that cleanup() removes from the policy's own directory, given
\* the checkpoints it has loaded.
Oldest(ckpts) == Min({IF ckpts[q] = None THEN 0 ELSE ckpts[q].it : q \in Policies})
\* Mutant: keep_back is forgotten.
ThresholdAtOldest(ckpts) == Oldest(ckpts)
Threshold(ckpts) == Max({0, Oldest(ckpts) - KeepBack})
\* Mutant: one record too many stays.
RemovedOneLess(p, ckpts) ==
    LET left == {i \in Groups(p) : i > Threshold(ckpts)}
    IN {i \in Groups(p) : i <= Threshold(ckpts)}
         \cup {i \in left \cap Records(p) :
                 Cardinality({j \in left \cap Records(p) : j > i}) > MaxYaml}
Removed(p, ckpts) ==
    LET left == {i \in Groups(p) : i > Threshold(ckpts)}
    IN {i \in Groups(p) : i <= Threshold(ckpts)}
         \cup {i \in left \cap Records(p) :
                 Cardinality({j \in left \cap Records(p) : j > i}) >= MaxYaml}

\* Mean and standard deviation over the policies with an objective, without
\* fractions: with sum S and sum of squares Q of n objectives,
\* o - mean = (n o - S) / n and std^2 = (n Q - S^2) / n^2.
Initialized(p) == {q \in Policies : seen[p][q] # None}
Above(p, q) == Cardinality(Initialized(p)) * seen[p][q].score
                 - MapThenSumSet(LAMBDA r : seen[p][r].score, Initialized(p))
Variance(p) ==
    Cardinality(Initialized(p)) * MapThenSumSet(LAMBDA r : seen[p][r].score ^ 2, Initialized(p))
      - MapThenSumSet(LAMBDA r : seen[p][r].score, Initialized(p)) ^ 2
Beyond(p, distance) ==
    /\ distance > Cardinality(Initialized(p)) * ThresholdAbs
    /\ distance ^ 2 * ThresholdStd[2] ^ 2 > ThresholdStd[1] ^ 2 * Variance(p)
Leaders(p) == {q \in Initialized(p) : Beyond(p, Above(p, q))}
Underperformers(p) == {q \in Initialized(p) : Beyond(p, -Above(p, q))}

\* An underperformer takes a random leader, or itself if there is none.
Candidates(p) ==
    IF p \notin Underperformers(p) THEN {}
    ELSE IF Leaders(p) = {} THEN {p} ELSE Leaders(p)

(***************************************************************************)
(* after_steps() of policy p                                               *)
(***************************************************************************)
Goto(p, place) == pc' = [pc EXCEPT ![p] = place]
Forget(p) ==
    /\ seen' = [seen EXCEPT ![p] = Nothing]
    /\ doomed' = [doomed EXCEPT ![p] = {}]
    /\ unlinking' = [unlinking EXCEPT ![p] = None]
    /\ choice' = [choice EXCEPT ![p] = None]

\* save_pbt_checkpoint(): at the first training step of a new interval the
\* weights are written in place, then the record.
SaveWeights(p) ==
    /\ pc[p] = "train" /\ it[p] < MaxIt
    /\ it' = [it EXCEPT ![p] = @ + 1]
    /\ weights' = [weights EXCEPT ![p][it[p] + 1] = "part"]
    /\ Goto(p, "weights")
    /\ UNCHANGED <<record, memory, failures>>

\* The weights are complete, and open(..., "w") truncates the record.
OpenRecord(p) ==
    /\ pc[p] = "weights"
    /\ weights' = [weights EXCEPT ![p][it[p]] = "whole"]
    /\ record' = [record EXCEPT ![p][it[p]] = Empty]
    /\ missed' = missed \ {<<p, it[p]>>}
    /\ Goto(p, "record")
    /\ UNCHANGED <<it, memory, faults>>

WriteRecord(p) ==
    /\ pc[p] = "record"
    /\ \E score \in Scores :
         record' = [record EXCEPT ![p][it[p]] = score]
    /\ Goto(p, "load")
    /\ UNCHANGED <<it, weights, memory, failures>>

\* load_pbt_ckpts(), one policy after the other; after the last one cleanup()
\* lists the policy's own directory.
LoadNext(p) ==
    LET q == Cardinality(DOMAIN seen[p]) IN
    /\ pc[p] = "load"
    /\ seen' = [seen EXCEPT ![p] =
                  [r \in 0 .. q |-> IF r = q THEN Loaded(p, q) ELSE seen[p][r]]]
    /\ IF q + 1 < NumPolicies
         THEN UNCHANGED <<pc, doomed>>
         ELSE /\ doomed' = [doomed EXCEPT ![p] = Removed(p, seen'[p])]
              /\ Goto(p, "clean")
    /\ UNCHANGED <<it, files, unlinking, choice, failures>>

\* The owner unlinks a record between the reader's listing of the directory and
\* its access to the file: the exception is caught, and the tick is over.
RecordVanishes(p) ==
    LET q == Cardinality(DOMAIN seen[p])
        past == {i \in Records(q) : i <= it[p]}
    IN /\ pc[p] = "load" /\ q # p /\ pc[q] = "clean"
       /\ \E i \in doomed[q] \cap Records(q) : \A j \in past : j <= i
       /\ Goto(p, "train")
       /\ Forget(p)
       /\ UNCHANGED <<it, files, failures>>

\* cleanup() unlinks file by file, both files of an iteration before those of the
\* next; in which order the iterations come is left open.
Unlink(p) ==
    /\ pc[p] = "clean"
    /\ \E i \in doomed[p] :
         /\ unlinking[p] \in {None, i}
         /\ \/ /\ weights[p][i] # None
               /\ weights' = [weights EXCEPT ![p][i] = None]
               /\ UNCHANGED record
            \/ /\ record[p][i] # None
               /\ record' = [record EXCEPT ![p][i] = None]
               /\ UNCHANGED weights
         /\ IF weights'[p][i] = None /\ record'[p][i] = None
              THEN /\ doomed' = [doomed EXCEPT ![p] = @ \ {i}]
                   /\ unlinking' = [unlinking EXCEPT ![p] = None]
              ELSE unlinking' = [unlinking EXCEPT ![p] = i] /\ UNCHANGED doomed
    /\ UNCHANGED <<pc, it, seen, choice, failures>>

Continue(p) ==
    /\ pc[p] = "clean" /\ doomed[p] = {} /\ Candidates(p) = {}
    /\ Goto(p, "train")
    /\ Forget(p)
    /\ UNCHANGED <<it, files, failures>>

SetRestartFlag(p) ==
    /\ pc[p] = "clean" /\ doomed[p] = {}
    /\ \E q \in Candidates(p) :
         choice' = [choice EXCEPT ![p] = [policy |-> q, it |-> seen[p][q].it]]
    /\ seen' = [seen EXCEPT ![p] = Nothing]
    /\ Goto(p, "restart")
    /\ UNCHANGED <<it, files, doomed, unlinking, failures>>

\* Mutant: the new process has the weights, but counts its frames from zero.
RestartFromScratch(p) ==
    LET c == choice[p] IN
    /\ pc[p] = "restart"
    /\ it' = [it EXCEPT ![p] = 0]
    /\ Goto(p, IF weights[c.policy][c.it] = "whole" THEN "train" ELSE "down")
    /\ Forget(p)
    /\ UNCHANGED <<files, failures>>

\* The process replaces itself by one with --checkpoint=...; rl_games restores
\* weights and frame counter from that file, or raises.
Restart(p) ==
    LET c == choice[p] IN
    /\ pc[p] = "restart"
    /\ IF weights[c.policy][c.it] = "whole"
         THEN it' = [it EXCEPT ![p] = c.it] /\ Goto(p, "train")
         ELSE it' = [it EXCEPT ![p] = 0] /\ Goto(p, "down")
    /\ Forget(p)
    /\ UNCHANGED <<files, failures>>

(***************************************************************************)
(* What may happen to it                                                   *)
(***************************************************************************)
\* An exception while saving, loading or cleaning up is caught and printed.
OperationFails(p) ==
    /\ p \in MayFail /\ faults < MaxFaults /\ pc[p] \in Saving \cup {"load", "clean"}
    /\ faults' = faults + 1
    /\ missed' = IF pc[p] = "weights" THEN missed \cup {<<p, it[p]>>} ELSE missed
    /\ Goto(p, "train")
    /\ Forget(p)
    /\ UNCHANGED <<it, files>>

\* The process is killed; somebody may launch it again, from the first frame.
Crash(p) ==
    /\ p \in MayFail /\ faults < MaxFaults /\ pc[p] # "down"
    /\ faults' = faults + 1
    /\ it' = [it EXCEPT ![p] = 0]
    /\ Goto(p, "down")
    /\ Forget(p)
    /\ UNCHANGED <<files, missed>>

Launch(p) ==
    /\ pc[p] = "down"
    /\ Goto(p, "train")
    /\ UNCHANGED <<it, files, memory, failures>>

Tick(p) ==
    \/ SaveWeights(p) \/ OpenRecord(p) \/ WriteRecord(p)
    \/ LoadNext(p) \/ RecordVanishes(p) \/ Unlink(p)
    \/ Continue(p) \/ SetRestartFlag(p) \/ Restart(p)
Next == \E p \in Policies : Tick(p) \/ OperationFails(p) \/ Crash(p) \/ Launch(p)

Spec == Init /\ [][Next]_vars
\* Every process keeps running until its training ends.
FairSpec == Spec /\ \A p \in Policies : WF_vars(Tick(p))

(***************************************************************************)
(* Properties                                                              *)
(***************************************************************************)
\* What a process relies upon may be lost to four things only.
\* Its owner was sent back or launched anew, to before it: it will save that
\* interval once more, or is writing its weights.
Resaved(q, i) == i > it[q] \/ (i = it[q] /\ pc[q] = "weights")
\* cleanup() keeps max_yaml records of a policy: this one is no longer among them.
Outrun(q, i) == Cardinality({j \in Records(q) : j > i}) >= MaxYaml
\* cleanup() deletes what is older than the oldest iteration less keep_back: every
\* policy has a record keep_back intervals later, or more.
Old(i) == \A q \in Policies : \E j \in Records(q) : i + KeepBack <= j
\* The fourth: its owner failed to save its weights (missed).

\* The checkpoints a process has loaded or is about to restart from.
Relied(r) ==
    {<<q, seen[r][q].it>> : q \in {s \in DOMAIN seen[r] : seen[r][s] # None}}
      \cup IF choice[r] = None THEN {} ELSE {<<choice[r].policy, choice[r].it>>}
Whole(c) == weights[c[1]][c[2]] = "whole"

\* From the moment a checkpoint is loaded until the restart from it, its weights
\* are there, whole, and not written over, whatever its owner saves and
\* removes meanwhile: unless the owner saves that very interval again, failed to
\* save it or is max_yaml records ahead of it, or all policies are keep_back
\* intervals ahead of it.  How far the reader is, and whether it was sent back,
\* does not matter.
ReliedUponKept ==
    [][\A r \in Policies : \A c \in Relied(r)' :
         \/ Whole(c)'
         \/ c \in Relied(r) /\ ~Whole(c)
         \/ Resaved(c[1], c[2]) \/ c \in missed
         \/ Outrun(c[1], c[2]) \/ Old(c[2])]_vars

\* However often a policy is sent back, killed or kept from cleaning up: when
\* cleanup() has run, its directory holds the checkpoints of max_yaml iterations
\* at most, and weights without a record for every fault.
DirectoryBounded ==
    \A p \in Policies :
      (pc[p] = "clean" /\ doomed[p] = {}) => Cardinality(Groups(p)) <= MaxYaml + faults

\* All policies complete their training, however often they send one another
\* back, unless one is killed, fails or cannot be restarted.
PopulationAdvances ==
    <>(\/ \A p \in Policies : pc[p] = "train" /\ it[p] = MaxIt
       \/ faults > 0 \/ \E p \in Policies : pc[p] = "down")
================================================================================
