------------------------ MODULE SubtaskConstraintsProofs ------------------------

(***************************************************************************)
(* Proofs about SubtaskConstraints for any number of end effectors and     *)
(* subtasks, any constraints and trajectories of any length.               *)
(***************************************************************************)
EXTENDS SubtaskConstraints, FiniteSetTheorems, WellFoundedInduction, TLAPS

(***************************************************************************)
(* Turns and passes                                                        *)
(***************************************************************************)
\* e comes before turn t
Past(order, t, e) == \E i \in 1 .. t - 1 : order[i] = e

\* There is a waypoint for e to execute in this iteration.
Planned(e) ==
    \/ pass = "plan" /\ Past(key_order, turn, e)
    \/ pass = "constrain"
    \/ pass = "advance" /\ ~Past(key_order, turn, e)

\* It is the one that the constraints of this iteration leave.
Constrained(e) ==
    \/ pass = "constrain" /\ Past(SortedOrder, turn, e)
    \/ pass = "advance" /\ ~Past(key_order, turn, e)

\* The last waypoint was counted, and the next is yet to be planned.
Between(e) ==
    \/ pass = "plan" /\ ~Past(key_order, turn, e)
    \/ pass = "advance" /\ Past(key_order, turn, e)

\* An order names every end effector once.
LEMMA OrderFacts ==
    ASSUME NEW order \in KeyOrders \cup {SortedOrder}
    PROVE  /\ Len(order) \in Nat /\ Len(order) = Len(SortedOrder)
           /\ \A i \in 1 .. Len(order) : order[i] \in Eefs
           /\ \A e \in Eefs : \E i \in 1 .. Len(order) : order[i] = e
           /\ \A i, j \in 1 .. Len(order) : order[i] = order[j] => i = j
<1>1. order \in Seq(Eefs) /\ ToSet(order) = Eefs /\ IsInjective(order)
  BY OrderAssumption
<1>2. /\ Len(order) \in Nat /\ DOMAIN order = 1 .. Len(order)
      /\ \A i \in 1 .. Len(order) : order[i] \in Eefs
  BY <1>1
<1>3. \A e \in Eefs : \E i \in 1 .. Len(order) : order[i] = e
  BY <1>1, <1>2 DEF ToSet
<1>4. \A i, j \in 1 .. Len(order) : order[i] = order[j] => i = j
  BY <1>1, <1>2 DEF IsInjective
<1>5. Len(order) = Len(SortedOrder)
  BY SameLengthAssumption
<1> QED
  BY <1>2, <1>3, <1>4, <1>5

\* After the turn of e, those before and e have had theirs.
LEMMA PastNext ==
    ASSUME NEW order \in KeyOrders \cup {SortedOrder}, NEW t \in 1 .. Len(order)
    PROVE  /\ ~Past(order, t, order[t])
           /\ \A e \in Eefs : Past(order, t + 1, e) <=> Past(order, t, e) \/ e = order[t]
<1>1. Len(order) \in Nat
  BY OrderFacts
<1>2. ~Past(order, t, order[t])
  BY <1>1, OrderFacts DEF Past
<1>3. ASSUME NEW e \in Eefs
      PROVE  Past(order, t + 1, e) <=> Past(order, t, e) \/ e = order[t]
  <2>1. 1 .. t + 1 - 1 = (1 .. t - 1) \cup {t}
    BY <1>1
  <2> QED
    BY <2>1 DEF Past
<1> QED
  BY <1>2, <1>3

\* Nobody is past at first, and all are in the end.
LEMMA PastEnds ==
    ASSUME NEW order \in KeyOrders \cup {SortedOrder}, NEW e \in Eefs
    PROVE  ~Past(order, 1, e) /\ Past(order, Len(order) + 1, e)
<1>1. PICK i \in 1 .. Len(order) : order[i] = e
  BY OrderFacts
<1>2. i \in 1 .. Len(order) + 1 - 1
  BY <1>1, OrderFacts
<1> QED
  BY <1>1, <1>2 DEF Past

\* A turn of the pass plan.
LEMMA PlanTurn ==
    ASSUME TypeOK, NEW e \in Eefs, Turn("plan", key_order, e), NextTurn, UNCHANGED key_order
    PROVE  /\ pass = "plan" /\ pass' = "plan"
           /\ ~Planned(e) /\ Between(e)
           /\ \A f \in Eefs : /\ Planned(f)' <=> Planned(f) \/ f = e
                              /\ Between(f)' <=> Between(f) /\ f # e
                              /\ ~Constrained(f) /\ ~Constrained(f)'
<1>1. key_order \in KeyOrders /\ turn \in 1 .. Len(key_order)
  BY OrderFacts DEF TypeOK, Turn
<1>2. \A f \in Eefs : Past(key_order, turn + 1, f) <=> Past(key_order, turn, f) \/ f = e
  BY <1>1, PastNext DEF Turn
<1>3. ~Past(key_order, turn, e)
  BY <1>1, PastNext DEF Turn
<1> QED
  BY <1>2, <1>3 DEF Turn, NextTurn, Planned, Between, Constrained

\* A turn of the pass constrain.
LEMMA ConstrainTurn ==
    ASSUME TypeOK, NEW e \in Eefs, Turn("constrain", SortedOrder, e), NextTurn,
           UNCHANGED key_order
    PROVE  /\ pass = "constrain" /\ pass' = "constrain" /\ ~Constrained(e)
           /\ \A f \in Eefs : /\ Planned(f) /\ Planned(f)' /\ ~Between(f) /\ ~Between(f)'
                              /\ Constrained(f)' <=> Constrained(f) \/ f = e
<1>1. turn \in 1 .. Len(SortedOrder)
  BY OrderFacts DEF TypeOK, Turn
<1>2. \A f \in Eefs : Past(SortedOrder, turn + 1, f) <=> Past(SortedOrder, turn, f) \/ f = e
  BY <1>1, PastNext DEF Turn
<1>3. ~Past(SortedOrder, turn, e)
  BY <1>1, PastNext DEF Turn
<1> QED
  BY <1>2, <1>3 DEF Turn, NextTurn, Planned, Between, Constrained

\* A turn of the pass advance.
LEMMA AdvanceTurn ==
    ASSUME TypeOK, NEW e \in Eefs, Turn("advance", key_order, e), NextTurn, UNCHANGED key_order
    PROVE  /\ pass = "advance" /\ pass' = "advance"
           /\ Planned(e) /\ Constrained(e) /\ ~Between(e)
           /\ \A f \in Eefs : /\ Planned(f)' <=> Planned(f) /\ f # e
                              /\ Constrained(f)' <=> Constrained(f) /\ f # e
                              /\ Between(f)' <=> Between(f) \/ f = e
<1>1. key_order \in KeyOrders /\ turn \in 1 .. Len(key_order)
  BY OrderFacts DEF TypeOK, Turn
<1>2. \A f \in Eefs : Past(key_order, turn + 1, f) <=> Past(key_order, turn, f) \/ f = e
  BY <1>1, PastNext DEF Turn
<1>3. ~Past(key_order, turn, e)
  BY <1>1, PastNext DEF Turn
<1> QED
  BY <1>2, <1>3 DEF Turn, NextTurn, Planned, Between, Constrained

\* The end of the pass plan.
LEMMA PlanOver ==
    ASSUME TypeOK, PlanDone
    PROVE  \A f \in Eefs : /\ Planned(f) /\ Planned(f)' /\ ~Between(f) /\ ~Between(f)'
                           /\ ~Constrained(f) /\ ~Constrained(f)'
<1>1. key_order \in KeyOrders /\ turn = Len(key_order) + 1
  BY OrderFacts DEF TypeOK, PlanDone
<1> QED
  BY <1>1, PastEnds DEF PlanDone, Planned, Between, Constrained

\* The end of the pass constrain.
LEMMA ConstrainOver ==
    ASSUME TypeOK, Execute
    PROVE  \A f \in Eefs : /\ Planned(f) /\ Planned(f)' /\ ~Between(f) /\ ~Between(f)'
                           /\ Constrained(f) /\ Constrained(f)'
<1>1. key_order \in KeyOrders /\ turn = Len(SortedOrder) + 1
  BY OrderFacts DEF TypeOK, Execute
<1> QED
  BY <1>1, PastEnds DEF Execute, Planned, Between, Constrained, inputs

\* The end of the pass advance.
LEMMA AdvanceOver ==
    ASSUME TypeOK, AdvanceDone
    PROVE  \A f \in Eefs : /\ ~Planned(f) /\ ~Planned(f)' /\ Between(f)
                           /\ pass' = "plan" => Between(f)'
                           /\ pass' # "plan" => ~Between(f)'
                           /\ ~Constrained(f) /\ ~Constrained(f)'
<1>1. key_order \in KeyOrders /\ turn = Len(key_order) + 1
  BY OrderFacts DEF TypeOK, AdvanceDone
<1> QED
  BY <1>1, PastEnds DEF AdvanceDone, Planned, Between, Constrained, inputs

\* Where the attempt is over there are no turns.
LEMMA NoTurns ==
    ASSUME pass \notin {"plan", "constrain", "advance"}
    PROVE  \A f \in Eefs : ~Planned(f) /\ ~Between(f) /\ ~Constrained(f)
  BY DEF Planned, Between, Constrained

(***************************************************************************)
(* Types                                                                   *)
(***************************************************************************)
\* In every pass the step index of an end effector with a waypoint is within its
\* trajectory, or one before it where the navigation controller took one step
\* back from those whose turn is still to come.
Waypoints ==
    /\ mode # "navigation" => ~nav.processed
    /\ \A e \in Eefs :
         /\ Planned(e) =>
              /\ step[e] \in -1 .. length[e] - 1 /\ length[e] > 0
              /\ step[e] >= 0 \/ (pass = "advance" /\ nav.processed)
         /\ Between(e) =>
              \/ step[e] = NONE
              \/ step[e] \in 1 .. length[e] - 1
              \/ /\ step[e] = 0 /\ length[e] > 0 /\ mode = "navigation"
                 /\ pass = "advance" => nav.processed

\* Which subtask an end effector is at, or on its way to.
Place(e) ==
    /\ resume[e] \in 0 .. NumSubtasks[e] - 1 \cup {NONE}
    /\ resume[e] = NONE => subtask[e] # Transit
    /\ resume[e] # NONE => subtask[e] = Transit \/ (subtask[e] = 0 /\ step[e] = NONE)
    /\ subtasks_done[e] =>
         subtask[e] = NumSubtasks[e] - 1 /\ resume[e] = NONE /\ step[e] # NONE
Places == \A e \in Eefs : Place(e)

TInv == TypeOK /\ Waypoints /\ Places

\* Subtasks are numbered from 0.
LEMMA KeysAre ==
    ASSUME NEW e \in Eefs, NEW i \in 0 .. NumSubtasks[e] - 1
    PROVE  <<e, i>> \in Keys
  BY DEF Keys

\* The parts of a key.
LEMMA KeysOnly ==
    ASSUME NEW k \in Keys
    PROVE  /\ k = <<k[1], k[2]>> /\ k[1] \in Eefs
           /\ k[2] \in 0 .. NumSubtasks[k[1]] - 1 /\ NumSubtasks[k[1]] \in Nat \ {0}
  BY SubtasksAssumption DEF Keys

\* The length of a trajectory is a positive number.
LEMMA LengthType ==
    ASSUME TypeOK, NEW k \in Keys
    PROVE  /\ TrajectoryLength(k) \in Nat \ {0}
           /\ segment[k] \in Nat \ {0} /\ TrajectoryLength(k) >= segment[k]
  BY LengthsAssumption DEF TypeOK, TrajectoryLength

\* Where no transition is under way, an end effector is at a subtask of its own.
LEMMA KeyType ==
    ASSUME TInv, NEW e \in Eefs, resume[e] = NONE
    PROVE  Key(e) \in Keys /\ subtask[e] \in 0 .. NumSubtasks[e] - 1
<1>1. subtask[e] \in 0 .. NumSubtasks[e] - 1
  BY DEF TInv, TypeOK, Places, Place
<1> QED
  BY <1>1, KeysAre DEF Key

\* The rule of a constraint that names k.
LEMMA RuntimeRulesType ==
    ASSUME NEW c \in Constraint, c.first # c.second, NEW k \in Named(c)
    PROVE  /\ RuntimeRules(c)[k] \in RuleRecord
           /\ RuntimeRules(c)[k].partner = IF k = c.first THEN c.second ELSE c.first
           /\ RuntimeRules(c)[k].type =
                IF c.type = "sequential" THEN IF k = c.first THEN "former" ELSE "latter"
                ELSE "coordination"
           /\ RuntimeRules(c)[k].sync_start = c.sync_start
           /\ ~RuntimeRules(c)[k].fulfilled /\ ~RuntimeRules(c)[k].finished
  BY DEF RuntimeRules, Rule, RuleRecord, Constraint, Named

\* A set of numbers up to n that is not empty has a greatest one.
LEMMA Greatest ==
    ASSUME NEW n \in Nat, NEW S \in SUBSET (1 .. n), S # {}
    PROVE  Max(S) \in S /\ \A i \in S : i <= Max(S)
<1> DEFINE T == {n - i : i \in S}
<1>0. \A i \in S : i \in 1 .. n
  OBVIOUS
<1>1. T \subseteq Nat /\ T # {}
  <2>1. \A i \in S : n - i \in Nat
    BY <1>0
  <2> QED
    BY <2>1
<1> HIDE DEF T
<1>2. PICK m \in T : \A x \in T : ~ (<<x, m>> \in OpToRel(<, Nat))
  BY <1>1, NatLessThanWellFounded, WFMin
<1>3. \A x \in T : ~ (x < m)
  BY <1>1, <1>2 DEF OpToRel
<1> USE DEF T
<1>4. PICK g \in S : m = n - g
  BY <1>2
<1>5. \A i \in S : g >= i
  <2> TAKE i \in S
  <2>1. n - i \in T /\ ~ (n - i < n - g)
    BY <1>3, <1>4
  <2> QED
    BY <1>0, <2>1
<1> QED
  BY <1>4, <1>5 DEF Max

\* The initial rules are one for each subtask that a constraint names.
LEMMA InitialRulesType ==
    ASSUME NEW cs \in ConstraintSets
    PROVE  LET R == InitialRules(cs)
           IN  /\ DOMAIN R \subseteq Keys /\ R \in [DOMAIN R -> RuleRecord]
               /\ \A k \in DOMAIN R : /\ R[k].partner \in DOMAIN R
                                      /\ R[k].partner[1] # k[1]
                                      /\ ~R[k].fulfilled /\ ~R[k].finished
<1> DEFINE D == UNION {Named(cs[i]) : i \in DOMAIN cs}
           S(k) == {i \in DOMAIN cs : k \in Named(cs[i])}
<1>1. cs \in Seq(Constraint) /\ DOMAIN cs = 1 .. Len(cs) /\ Len(cs) \in Nat
  BY ConstraintsAssumption
<1>2. \A i \in DOMAIN cs : cs[i] \in Constraint /\ cs[i].first[1] # cs[i].second[1]
  BY <1>1, ConstraintsAssumption
<1>3. ASSUME NEW k \in D PROVE Max(S(k)) \in DOMAIN cs /\ k \in Named(cs[Max(S(k))])
  <2>1. S(k) \subseteq 1 .. Len(cs) /\ S(k) # {}
    BY <1>1, <1>3
  <2>2. Max(S(k)) \in S(k)
    BY <1>1, <2>1, Greatest
  <2> QED
    BY <2>2
<1>4. InitialRules(cs) = [k \in D |-> RuntimeRules(cs[Max(S(k))])[k]]
  BY DEF InitialRules
<1>5. ASSUME NEW k \in D
      PROVE  /\ k \in Keys /\ RuntimeRules(cs[Max(S(k))])[k] \in RuleRecord
             /\ RuntimeRules(cs[Max(S(k))])[k].partner \in D
             /\ RuntimeRules(cs[Max(S(k))])[k].partner[1] # k[1]
             /\ ~RuntimeRules(cs[Max(S(k))])[k].fulfilled
             /\ ~RuntimeRules(cs[Max(S(k))])[k].finished
  <2> DEFINE c == cs[Max(S(k))]
  <2>1. c \in Constraint /\ c.first[1] # c.second[1] /\ k \in Named(c) /\ Named(c) \subseteq D
    BY <1>2, <1>3, <1>5
  <2> HIDE DEF c, D
  <2>2. k \in Keys
    BY <2>1 DEF Named, Constraint
  <2>3. RuntimeRules(c)[k].partner \in Named(c) /\ RuntimeRules(c)[k].partner[1] # k[1]
    BY <2>1, RuntimeRulesType DEF Named
  <2> QED
    BY <2>1, <2>2, <2>3, RuntimeRulesType DEF c
<1> QED
  BY <1>4, <1>5

(***************************************************************************)
(* What the actions make of the rules                                      *)
(***************************************************************************)
\* Kind, partner and parameters of a rule are never changed.
SameRules(old, new) ==
    /\ DOMAIN new = DOMAIN old /\ new \in [DOMAIN old -> RuleRecord]
    /\ \A k \in DOMAIN old :
         /\ new[k].type = old[k].type /\ new[k].partner = old[k].partner
         /\ new[k].min_time_diff = old[k].min_time_diff
         /\ new[k].sync_start = old[k].sync_start

\* the steps that a coordinated subtask has in common with its partner
Shared(k) ==
    LET own == segment[k]
        other == segment[rules[k].partner]
    IN IF own < other THEN own ELSE other

\* Rules that are left alone.
LEMMA UnchangedSame ==
    ASSUME TypeOK, UNCHANGED rules
    PROVE  SameRules(rules, rules')
  BY DEF TypeOK, SameRules

\* Planning a subtask counts the steps it shares.
LEMMA MeasuredSame ==
    ASSUME TypeOK, NEW e \in Eefs
    PROVE  LET new == MeasuredRules(e)
           IN  /\ SameRules(rules, new)
               /\ \A k \in DOMAIN rules :
                    /\ new[k].fulfilled = rules[k].fulfilled
                    /\ new[k].finished = rules[k].finished
                    /\ k # Key(e) => new[k].synchronous_steps = rules[k].synchronous_steps
                    /\ k = Key(e) /\ rules[k].type = "coordination" =>
                         new[k].synchronous_steps = Shared(k)
<1>1. rules \in [DOMAIN rules -> RuleRecord]
  BY DEF TypeOK
<1>2. CASE HasRule(e) /\ rules[Key(e)].type = "coordination"
  <2>1. Key(e) \in DOMAIN rules
    BY <1>2 DEF HasRule
  <2>2. Shared(Key(e)) \in Nat
    <3>1. Key(e) \in Keys /\ rules[Key(e)].partner \in Keys
      BY <2>1 DEF TypeOK
    <3> QED
      BY <3>1, LengthType DEF Shared
  <2>3. MeasuredRules(e) = [rules EXCEPT ![Key(e)].synchronous_steps = Shared(Key(e))]
    BY <1>2 DEF MeasuredRules, Shared
  <2> QED
    BY <1>1, <2>1, <2>2, <2>3 DEF SameRules, RuleRecord
<1>3. CASE ~(HasRule(e) /\ rules[Key(e)].type = "coordination")
  <2>1. MeasuredRules(e) = rules
    BY <1>3 DEF MeasuredRules
  <2> QED
    BY <1>1, <1>3, <2>1 DEF SameRules, HasRule
<1> QED
  BY <1>2, <1>3

\* A coordinated subtask that is at the rendezvous releases its partner.
LEMMA ConstrainSame ==
    ASSUME TypeOK, NEW e \in Eefs, Constrain(e)
    PROVE  /\ SameRules(rules, rules')
           /\ AtRendezvous(e) => Partner(e) \in DOMAIN rules
           /\ \A k \in DOMAIN rules :
                /\ rules'[k].fulfilled <=>
                     rules[k].fulfilled \/ (AtRendezvous(e) /\ k = Partner(e))
                /\ rules'[k].finished = rules[k].finished
                /\ rules'[k].synchronous_steps = rules[k].synchronous_steps
<1>1. rules \in [DOMAIN rules -> RuleRecord]
  BY DEF TypeOK
<1>2. CASE AtRendezvous(e)
  <2>1. Partner(e) \in DOMAIN rules
    BY <1>2 DEF AtRendezvous, Is, HasRule, Partner, TypeOK
  <2>2. rules' = [rules EXCEPT ![Partner(e)].fulfilled = TRUE]
    BY <1>2 DEF Constrain
  <2> QED
    BY <1>1, <1>2, <2>1, <2>2 DEF SameRules, RuleRecord
<1>3. CASE ~AtRendezvous(e)
  <2>1. rules' = rules
    BY <1>3 DEF Constrain
  <2> QED
    BY <1>1, <1>3, <2>1 DEF SameRules
<1> QED
  BY <1>2, <1>3

\* A completed subtask releases its latter, or is reported as finished.
LEMMA ReportedSame ==
    ASSUME TypeOK, NEW e \in Eefs
    PROVE  LET new == Reported(e)
           IN  /\ SameRules(rules, new)
               /\ \A k \in DOMAIN rules :
                    /\ new[k].fulfilled <=>
                         rules[k].fulfilled \/ (Is(e, "former") /\ k = Partner(e))
                    /\ new[k].finished <=>
                         rules[k].finished \/ (Is(e, "coordination") /\ k = Key(e))
                    /\ new[k].synchronous_steps = rules[k].synchronous_steps
<1>1. rules \in [DOMAIN rules -> RuleRecord]
  BY DEF TypeOK
<1>2. CASE Is(e, "former")
  <2>1. Partner(e) \in DOMAIN rules /\ ~Is(e, "coordination")
    BY <1>2 DEF Is, HasRule, Partner, TypeOK
  <2>2. Reported(e) = [rules EXCEPT ![Partner(e)].fulfilled = TRUE]
    BY <1>2 DEF Reported
  <2> DEFINE p == Partner(e)
  <2> HIDE DEF p
  <2>3. SameRules(rules, [rules EXCEPT ![p].fulfilled = TRUE])
    BY <1>1, <2>1 DEF SameRules, RuleRecord, p
  <2>4. \A k \in DOMAIN rules :
          /\ Reported(e)[k].fulfilled = (IF k = Partner(e) THEN TRUE ELSE rules[k].fulfilled)
          /\ Reported(e)[k].finished = rules[k].finished
          /\ Reported(e)[k].synchronous_steps = rules[k].synchronous_steps
    BY <1>1, <2>1, <2>2 DEF RuleRecord
  <2> QED
    BY <1>2, <2>1, <2>2, <2>3, <2>4 DEF p
<1>3. CASE ~Is(e, "former") /\ Is(e, "coordination")
  <2>1. Key(e) \in DOMAIN rules
    BY <1>3 DEF Is, HasRule
  <2>2. Reported(e) = [rules EXCEPT ![Key(e)].finished = TRUE]
    BY <1>3 DEF Reported
  <2> DEFINE p == Key(e)
  <2> HIDE DEF p
  <2>3. SameRules(rules, [rules EXCEPT ![p].finished = TRUE])
    BY <1>1, <2>1 DEF SameRules, RuleRecord, p
  <2>4. \A k \in DOMAIN rules :
          /\ Reported(e)[k].finished = (IF k = Key(e) THEN TRUE ELSE rules[k].finished)
          /\ Reported(e)[k].fulfilled = rules[k].fulfilled
          /\ Reported(e)[k].synchronous_steps = rules[k].synchronous_steps
    BY <1>1, <2>1, <2>2 DEF RuleRecord
  <2> QED
    BY <1>3, <2>1, <2>2, <2>3, <2>4 DEF p
<1>4. CASE ~Is(e, "former") /\ ~Is(e, "coordination")
  <2>1. Reported(e) = rules
    BY <1>4 DEF Reported
  <2> QED
    BY <1>1, <1>4, <2>1 DEF SameRules
<1> QED
  BY <1>2, <1>3, <1>4

\* Rules of the same kind are as well typed as the old ones.
LEMMA SameTyped ==
    ASSUME TypeOK, NEW new, SameRules(rules, new)
    PROVE  /\ DOMAIN new \subseteq Keys /\ new \in [DOMAIN new -> RuleRecord]
           /\ \A k \in DOMAIN new : new[k].partner \in DOMAIN new
  BY DEF TypeOK, SameRules

(***************************************************************************)
(* Types are kept                                                          *)
(***************************************************************************)
\* The initial states.
LEMMA TypesInit == Init => TInv
<1> SUFFICES ASSUME Init PROVE TInv
  OBVIOUS
<1>1. TypeOK
  <2>1. DOMAIN rules \subseteq Keys /\ rules \in [DOMAIN rules -> RuleRecord]
        /\ \A k \in DOMAIN rules : rules[k].partner \in DOMAIN rules
    BY InitialRulesType DEF Init
  <2>2. 1 \in 1 .. Len(key_order) + 1
    BY OrderFacts DEF Init
  <2>3. \A e \in Eefs : subtask[e] \in 0 .. NumSubtasks[e] - 1
    BY SubtasksAssumption DEF Init
  <2> QED
    BY <2>1, <2>2, <2>3 DEF Init, TypeOK, Exceptions, NONE
<1>2. Waypoints
  <2>1. \A e \in Eefs : ~Planned(e)
    BY PastEnds DEF Planned, Init
  <2> QED
    BY <2>1 DEF Init, Waypoints
<1>3. Places
  BY SubtasksAssumption DEF Init, Places, Place, NONE, Transit
<1> QED
  BY <1>1, <1>2, <1>3 DEF TInv

\* A turn is followed by another one, or by the end of the pass.
LEMMA TurnType ==
    ASSUME TypeOK, NEW p, NEW order \in KeyOrders \cup {SortedOrder}, NEW e,
           Turn(p, order, e), NextTurn, UNCHANGED key_order
    PROVE  turn' \in 1 .. Len(key_order') + 1 /\ pass' = pass
<1>1. Len(order) \in Nat /\ Len(key_order) = Len(order) /\ turn \in 1 .. Len(key_order) + 1
  BY OrderFacts DEF TypeOK
<1> QED
  BY <1>1 DEF Turn, NextTurn

\* An end effector in the middle of a trajectory.
LEMMA StillExecutingTypes ==
    ASSUME TInv, NEW e \in Eefs, StillExecuting(e)
    PROVE  TInv'
<1>1. TypeOK
  BY DEF TInv
<1>2. /\ Turn("plan", key_order, e) /\ NextTurn /\ step[e] # NONE
      /\ UNCHANGED <<inputs, rules, eefVars, nav, crash>>
  BY DEF StillExecuting
<1>3. TypeOK'
  BY <1>1, <1>2, TurnType DEF TypeOK, inputs, eefVars
<1>4. Waypoints'
  <2>1. /\ pass = "plan" /\ pass' = "plan" /\ Between(e)
        /\ \A f \in Eefs : /\ Planned(f)' <=> Planned(f) \/ f = e
                           /\ Between(f)' <=> Between(f) /\ f # e
    BY <1>1, <1>2, PlanTurn DEF inputs
  <2> QED
    BY <1>1, <1>2, <2>1 DEF TInv, Waypoints, TypeOK, inputs, eefVars, NONE
<1>5. Places'
  BY <1>2 DEF TInv, Places, Place, eefVars
<1> QED
  BY <1>3, <1>4, <1>5 DEF TInv

\* A new trajectory, or with skillgen the planned motion before it.
LEMMA BeginSubtaskTypes ==
    ASSUME TInv, NEW e \in Eefs, BeginSubtask(e)
    PROVE  TInv'
<1>1. TypeOK
  BY DEF TInv
<1>2. /\ Turn("plan", key_order, e) /\ NextTurn /\ step[e] = NONE /\ resume[e] = NONE
      /\ rules' = MeasuredRules(e) /\ step' = [step EXCEPT ![e] = 0]
      /\ UNCHANGED <<inputs, subtasks_done, nav, crash>>
  BY DEF BeginSubtask
<1>3. Key(e) \in Keys /\ subtask[e] \in 0 .. NumSubtasks[e] - 1
  BY <1>2, KeyType
<1>4. \/ /\ resume' = [resume EXCEPT ![e] = subtask[e]]
         /\ subtask' = [subtask EXCEPT ![e] = Transit]
         /\ \E n \in MotionLengths : length' = [length EXCEPT ![e] = n]
      \/ /\ length' = [length EXCEPT ![e] = TrajectoryLength(Key(e))]
         /\ UNCHANGED <<subtask, resume>>
  BY DEF BeginSubtask
<1>5. \E n \in Nat \ {0} : length' = [length EXCEPT ![e] = n]
  BY <1>1, <1>3, <1>4, LengthType, LengthsAssumption
<1>6. TypeOK'
  <2>1. DOMAIN rules' \subseteq Keys /\ rules' \in [DOMAIN rules' -> RuleRecord]
        /\ \A k \in DOMAIN rules' : rules'[k].partner \in DOMAIN rules'
    BY <1>1, <1>2, MeasuredSame, SameTyped
  <2>2. turn' \in 1 .. Len(key_order') + 1 /\ pass' = pass
    BY <1>1, <1>2, TurnType DEF inputs, TypeOK
  <2>3. resume' \in [Eefs -> Nat \cup {NONE}] /\ subtask' \in [Eefs -> Int]
        /\ \A f \in Eefs : subtask'[f] \in 0 .. NumSubtasks[f] - 1 \cup {Transit}
    <3>1. CASE resume' = [resume EXCEPT ![e] = subtask[e]]
               /\ subtask' = [subtask EXCEPT ![e] = Transit]
      BY <1>1, <1>3, <3>1 DEF TypeOK, Transit
    <3>2. CASE UNCHANGED <<subtask, resume>>
      BY <1>1, <3>2 DEF TypeOK
    <3> QED
      BY <1>4, <3>1, <3>2
  <2>4. step' \in [Eefs -> Nat \cup {NONE, -1}] /\ length' \in [Eefs -> Nat]
    BY <1>1, <1>2, <1>5 DEF TypeOK
  <2> QED
    BY <1>1, <1>2, <2>1, <2>2, <2>3, <2>4 DEF TypeOK, inputs
<1>7. Waypoints'
  <2>1. /\ pass = "plan" /\ pass' = "plan"
        /\ \A f \in Eefs : /\ Planned(f)' <=> Planned(f) \/ f = e
                           /\ Between(f)' <=> Between(f) /\ f # e
    BY <1>1, <1>2, PlanTurn DEF inputs
  <2>2. /\ step'[e] = 0 /\ length'[e] \in Nat \ {0}
        /\ \A f \in Eefs \ {e} : step'[f] = step[f] /\ length'[f] = length[f]
    BY <1>1, <1>2, <1>5 DEF TypeOK
  <2> QED
    BY <1>1, <1>2, <2>1, <2>2 DEF TInv, Waypoints, inputs
<1>8. Places'
  <2>1. \A f \in Eefs \ {e} : /\ step'[f] = step[f] /\ resume'[f] = resume[f]
                              /\ subtask'[f] = subtask[f]
    BY <1>1, <1>2, <1>4 DEF TypeOK
  <2>2. ~subtasks_done[e]
    BY <1>2 DEF TInv, Places, Place
  <2>3. Place(e)'
    BY <1>1, <1>2, <1>3, <1>4, <2>2 DEF TypeOK, Place, NONE, Transit
  <2> QED
    BY <1>2, <2>1, <2>3 DEF TInv, Places, Place
<1> QED
  BY <1>6, <1>7, <1>8 DEF TInv

\* The trajectory after a planned motion.
LEMMA ResumeSubtaskTypes ==
    ASSUME TInv, NEW e \in Eefs, ResumeSubtask(e)
    PROVE  TInv'
<1>1. TypeOK
  BY DEF TInv
<1>2. /\ Turn("plan", key_order, e) /\ NextTurn /\ step[e] = NONE /\ resume[e] # NONE
      /\ step' = [step EXCEPT ![e] = 0] /\ resume' = [resume EXCEPT ![e] = NONE]
      /\ subtask' = [subtask EXCEPT ![e] = resume[e]]
      /\ length' = [length EXCEPT ![e] = TrajectoryLength(<<e, resume[e]>>)]
      /\ UNCHANGED <<inputs, rules, subtasks_done, nav, crash>>
  BY DEF ResumeSubtask
<1>3. resume[e] \in 0 .. NumSubtasks[e] - 1
  BY <1>2 DEF TInv, Places, Place
<1>4. TrajectoryLength(<<e, resume[e]>>) \in Nat \ {0}
  BY <1>1, <1>3, KeysAre, LengthType
<1>5. TypeOK'
  <2>1. turn' \in 1 .. Len(key_order') + 1 /\ pass' = pass
    BY <1>1, <1>2, TurnType DEF inputs, TypeOK
  <2>2. resume' \in [Eefs -> Nat \cup {NONE}] /\ subtask' \in [Eefs -> Int]
        /\ \A f \in Eefs : subtask'[f] \in 0 .. NumSubtasks[f] - 1 \cup {Transit}
    BY <1>1, <1>2, <1>3 DEF TypeOK
  <2>3. step' \in [Eefs -> Nat \cup {NONE, -1}] /\ length' \in [Eefs -> Nat]
    BY <1>1, <1>2, <1>4 DEF TypeOK
  <2> QED
    BY <1>1, <1>2, <2>1, <2>2, <2>3 DEF TypeOK, inputs
<1>6. Waypoints'
  <2>1. /\ pass = "plan" /\ pass' = "plan"
        /\ \A f \in Eefs : /\ Planned(f)' <=> Planned(f) \/ f = e
                           /\ Between(f)' <=> Between(f) /\ f # e
    BY <1>1, <1>2, PlanTurn DEF inputs
  <2>2. /\ step'[e] = 0 /\ length'[e] \in Nat \ {0}
        /\ \A f \in Eefs \ {e} : step'[f] = step[f] /\ length'[f] = length[f]
    BY <1>1, <1>2, <1>4 DEF TypeOK
  <2> QED
    BY <1>1, <1>2, <2>1, <2>2 DEF TInv, Waypoints, inputs
<1>7. Places'
  <2>1. \A f \in Eefs \ {e} : /\ step'[f] = step[f] /\ resume'[f] = resume[f]
                              /\ subtask'[f] = subtask[f]
    BY <1>1, <1>2 DEF TypeOK
  <2>2. ~subtasks_done[e]
    BY <1>2 DEF TInv, Places, Place
  <2>3. Place(e)'
    BY <1>1, <1>2, <1>3, <2>2 DEF TypeOK, Place, NONE, Transit
  <2> QED
    BY <1>2, <2>1, <2>3 DEF TInv, Places, Place
<1> QED
  BY <1>5, <1>6, <1>7 DEF TInv

\* The exceptions and the attempt given up.
LEMMA EndsTypes ==
    ASSUME TInv, NEW e \in Eefs, BeginSubtaskFails(e) \/ PlanningFails(e) \/ AdvanceFails(e)
    PROVE  TInv'
<1>1. TypeOK
  BY DEF TInv
<1>2. /\ UNCHANGED <<inputs, turn, eefVars, nav>>
      /\ pass' \in {"aborted", "crashed"} /\ crash' \in Exceptions
  BY <1>1
     DEF BeginSubtaskFails, PlanningFails, AdvanceFails, Raise, CoordinationFailure,
         Exceptions, TypeOK
<1>3. DOMAIN rules' \subseteq Keys /\ rules' \in [DOMAIN rules' -> RuleRecord]
      /\ \A k \in DOMAIN rules' : rules'[k].partner \in DOMAIN rules'
  <2>1. rules' = rules \/ rules' = MeasuredRules(e)
    BY DEF BeginSubtaskFails, PlanningFails, AdvanceFails, Raise
  <2> QED
    BY <1>1, <2>1, MeasuredSame, SameTyped DEF TypeOK
<1>4. TypeOK'
  BY <1>1, <1>2, <1>3 DEF TypeOK, inputs, eefVars
<1>5. \A f \in Eefs : ~Planned(f)' /\ ~Between(f)'
  BY <1>2 DEF Planned, Between
<1>6. Waypoints'
  BY <1>2, <1>5 DEF TInv, Waypoints, inputs
<1>7. Places'
  BY <1>2 DEF TInv, Places, Place, eefVars
<1> QED
  BY <1>4, <1>6, <1>7 DEF TInv

\* The end of the pass plan.
LEMMA PlanDoneTypes ==
    ASSUME TInv, PlanDone
    PROVE  TInv'
<1>1. TypeOK
  BY DEF TInv
<1>2. /\ pass = "plan" /\ pass' = "constrain" /\ turn' = 1
      /\ UNCHANGED <<inputs, rules, eefVars, nav, crash>>
  BY DEF PlanDone
<1>3. TypeOK'
  BY <1>1, <1>2, OrderFacts DEF TypeOK, inputs, eefVars
<1>4. Waypoints'
  BY <1>1, <1>2, PlanOver DEF TInv, Waypoints, inputs, eefVars
<1>5. Places'
  BY <1>2 DEF TInv, Places, Place, eefVars
<1> QED
  BY <1>3, <1>4, <1>5 DEF TInv

\* A constraint leaves a step where it is, one back, or at the first.
LEMMA ConstrainedStepBounds ==
    ASSUME TInv, NEW e \in Eefs, pass = "constrain"
    PROVE  /\ step[e] \in 0 .. length[e] - 1
           /\ ConstrainedStep(e) \in 0 .. step[e]
<1>1. Planned(e)
  BY DEF Planned
<1>2. step[e] \in 0 .. length[e] - 1 /\ length[e] \in Nat
  BY <1>1 DEF TInv, Waypoints, TypeOK
<1> QED
  BY <1>2 DEF ConstrainedStep, Back

\* A constrained step index is still one of the trajectory.
LEMMA ConstrainTypes ==
    ASSUME TInv, NEW e \in Eefs, Constrain(e)
    PROVE  TInv'
<1>1. TypeOK
  BY DEF TInv
<1>2. /\ Turn("constrain", SortedOrder, e) /\ NextTurn
      /\ step' = [step EXCEPT ![e] = ConstrainedStep(e)]
      /\ UNCHANGED <<inputs, subtask, length, resume, subtasks_done, nav, crash>>
  BY DEF Constrain
<1>3. /\ pass = "constrain" /\ pass' = "constrain"
      /\ \A f \in Eefs : Planned(f) /\ ~Between(f)'
  BY <1>1, <1>2, ConstrainTurn DEF inputs
<1>4. step[e] \in 0 .. length[e] - 1 /\ ConstrainedStep(e) \in 0 .. step[e] /\ length[e] \in Nat
  BY <1>1, <1>3, ConstrainedStepBounds DEF TypeOK
<1>5. TypeOK'
  <2>1. DOMAIN rules' \subseteq Keys /\ rules' \in [DOMAIN rules' -> RuleRecord]
        /\ \A k \in DOMAIN rules' : rules'[k].partner \in DOMAIN rules'
    BY <1>1, ConstrainSame, SameTyped
  <2>2. turn' \in 1 .. Len(key_order') + 1 /\ pass' = pass
    BY <1>1, <1>2, TurnType DEF inputs
  <2> QED
    BY <1>1, <1>2, <1>4, <2>1, <2>2 DEF TypeOK, inputs
<1>6. Waypoints'
  <2>1. step'[e] \in 0 .. length[e] - 1 /\ \A f \in Eefs \ {e} : step'[f] = step[f]
    BY <1>1, <1>2, <1>4 DEF TypeOK
  <2>2. \A f \in Eefs : step[f] \in 0 .. length[f] - 1 /\ length[f] > 0
    BY <1>1, <1>3 DEF TInv, Waypoints, TypeOK
  <2> QED
    BY <1>1, <1>2, <1>3, <2>1, <2>2 DEF TInv, TypeOK, Waypoints, inputs
<1>7. Places'
  <2>1. step'[e] # NONE /\ \A f \in Eefs \ {e} : step'[f] = step[f]
    BY <1>1, <1>2, <1>4 DEF TypeOK, NONE
  <2>2. step[e] # NONE
    BY <1>4 DEF NONE
  <2> QED
    BY <1>2, <2>1, <2>2 DEF TInv, Places, Place
<1> QED
  BY <1>5, <1>6, <1>7 DEF TInv

\* The step of the environment.
LEMMA ExecuteTypes ==
    ASSUME TInv, Execute
    PROVE  TInv'
<1>1. TypeOK
  BY DEF TInv
<1>2. /\ pass = "constrain" /\ pass' = "advance" /\ turn' = 1
      /\ UNCHANGED <<inputs, rules, eefVars, crash>>
  BY DEF Execute
<1>3. nav' \in [was : BOOLEAN, is : BOOLEAN, reached : BOOLEAN, processed : BOOLEAN]
      /\ nav'.processed = FALSE
  <2>1. PICK is \in BOOLEAN, reached \in BOOLEAN :
          nav' = [nav EXCEPT !.is = is, !.reached = reached, !.processed = FALSE]
    BY DEF Execute
  <2> QED
    BY <1>1, <2>1 DEF TypeOK
<1>4. TypeOK'
  BY <1>1, <1>2, <1>3, OrderFacts DEF TypeOK, inputs, eefVars
<1>5. Waypoints'
  BY <1>1, <1>2, <1>3, ConstrainOver DEF TInv, Waypoints, inputs, eefVars
<1>6. Places'
  BY <1>2 DEF TInv, Places, Place, eefVars
<1> QED
  BY <1>4, <1>5, <1>6 DEF TInv

\* What counting a step, and the navigation controller, make of the step indices.
LEMMA AdvancedBounds ==
    ASSUME TInv, NEW e \in Eefs, Turn("advance", key_order, e), Planned(e), ~NavigationFails(e)
    PROVE  /\ Advanced(e) \in [Eefs -> Int]
           /\ ~NavigationActs(e) => Advanced(e) = [step EXCEPT ![e] = step[e] + 1]
           /\ NavigationActs(e) =>
                /\ mode = "navigation" /\ ~nav.processed
                /\ Advanced(e)[e] \in 0 .. length[e] - 1
                /\ \A f \in Eefs : /\ Planned(f) => Advanced(e)[f] \in -1 .. length[f] - 1
                                   /\ Between(f) => Advanced(e)[f] \in 0 .. length[f] - 1
<1> DEFINE s == Counted(e)
<1>1. TypeOK /\ pass = "advance" /\ Body \in Eefs
  BY ModesAssumption DEF TInv, Turn
<1>2. /\ s \in [Eefs -> Int] /\ s = [step EXCEPT ![e] = step[e] + 1]
      /\ length \in [Eefs -> Nat] /\ step \in [Eefs -> Int]
  <2>1. step \in [Eefs -> Int] /\ length \in [Eefs -> Nat]
    <3>1. step \in [Eefs -> Nat \cup {NONE, -1}] /\ length \in [Eefs -> Nat]
      BY <1>1 DEF TypeOK
    <3>2. \A i \in Nat \cup {NONE, -1} : i \in Int
      BY DEF NONE
    <3> HIDE DEF NONE
    <3> QED
      BY <3>1, <3>2
  <2> QED
    BY <2>1 DEF Counted
<1>3. CASE ~NavigationActs(e)
  <2>1. Advanced(e) = s
    BY <1>3 DEF Advanced, Navigated, NavigationActs
  <2> QED
    BY <1>2, <1>3, <2>1
<1>4. CASE NavigationActs(e)
  <2>1. mode = "navigation" /\ ~nav.processed
    BY <1>4 DEF NavigationActs, RepeatsBodyStep, SkipsBodySteps
  <2>2. \A f \in Eefs : s[f] # NONE
    BY <1>4 DEF NavigationFails
  <2>3. \A f \in Eefs : Planned(f) \/ Between(f)
    BY <1>1 DEF Planned, Between
  <2>4. ASSUME NEW f \in Eefs
        PROVE  /\ length[f] \in Nat \ {0}
               /\ f # e => s[f] = step[f]
               /\ f = e => s[f] = step[f] + 1
               /\ Planned(f) => step[f] \in 0 .. length[f] - 1
               /\ Between(f) => step[f] \in 1 .. length[f] - 1
    <3>1. (f # e => s[f] = step[f]) /\ (f = e => s[f] = step[f] + 1)
      BY <1>2
    <3>2. CASE Planned(f)
      <4>1. step[f] \in 0 .. length[f] - 1 /\ length[f] > 0
        BY <1>1, <1>2, <2>1, <3>2 DEF TInv, Waypoints
      <4>2. ~Between(f)
        BY <1>1, <3>2 DEF Planned, Between
      <4> QED
        BY <1>2, <3>1, <4>1, <4>2
    <3>3. CASE Between(f)
      <4>1. ~Planned(f)
        BY <1>1, <3>3 DEF Planned, Between
      <4>2. f # e
        BY <4>1
      <4>3. step[f] # NONE
        BY <2>2, <3>1, <4>2
      <4>4. step[f] \in 1 .. length[f] - 1
        BY <1>1, <2>1, <3>3, <4>3 DEF TInv, Waypoints
      <4> QED
        BY <1>2, <3>1, <4>1, <4>4
    <3> QED
      BY <2>3, <3>2, <3>3
  <2>5. CASE RepeatsBodyStep(s)
    <3>1. Advanced(e) = [f \in Eefs |-> s[f] - 1]
      BY <2>5 DEF Advanced, Navigated
    <3>2. \A f \in Eefs : Advanced(e)[f] = s[f] - 1
      BY <3>1
    <3>3. Advanced(e) \in [Eefs -> Int]
      BY <1>2, <3>1
    <3> HIDE DEF s
    <3>4. \A f \in Eefs : /\ Planned(f) => Advanced(e)[f] \in -1 .. length[f] - 1
                          /\ Between(f) => Advanced(e)[f] \in 0 .. length[f] - 1
      <4> TAKE f \in Eefs
      <4>1. Advanced(e)[f] = s[f] - 1 /\ length[f] \in Nat \ {0}
        BY <2>4, <3>2
      <4>2. CASE f = e
        BY <2>4, <4>1, <4>2, <1>1 DEF Planned, Between
      <4>3. CASE f # e
        <5>1. s[f] = step[f]
          BY <2>4, <4>3
        <5> QED
          BY <2>4, <4>1, <5>1
      <4> QED
        BY <4>2, <4>3
    <3>5. Advanced(e)[e] \in 0 .. length[e] - 1
      BY <2>4, <3>2
    <3> QED
      BY <1>4, <2>1, <3>3, <3>4, <3>5
  <2>6. CASE ~RepeatsBodyStep(s)
    <3> DEFINE skip == length[Body] - (s[Body] + 1)
    <3>1. Advanced(e) = [f \in Eefs |-> IF s[f] + skip < length[f] THEN s[f] + skip
                                                                    ELSE length[f] - 1]
      BY <1>4, <2>6 DEF Advanced, Navigated, NavigationActs
    <3>2. skip \in Int /\ skip >= -1
      <4>1. s[Body] <= length[Body]
        BY <1>1, <1>2, <2>3, <2>4
      <4> QED
        BY <1>1, <1>2, <4>1
    <3> HIDE DEF s, skip
    <3>3. Advanced(e) \in [Eefs -> Int]
      BY <1>2, <3>1, <3>2
    <3>4. \A f \in Eefs : Advanced(e)[f] = IF s[f] + skip < length[f] THEN s[f] + skip
                                                                     ELSE length[f] - 1
      BY <3>1
    <3>5. \A f \in Eefs : /\ Planned(f) => Advanced(e)[f] \in -1 .. length[f] - 1
                          /\ Between(f) => Advanced(e)[f] \in 0 .. length[f] - 1
      <4> TAKE f \in Eefs
      <4>1. length[f] \in Nat \ {0} /\ s[f] \in Int
        BY <1>2, <2>4
      <4>2. CASE f = e
        BY <2>4, <3>2, <3>4, <4>1, <4>2, <1>1 DEF Planned, Between
      <4>3. CASE f # e
        <5>1. s[f] = step[f]
          BY <2>4, <4>3
        <5> QED
          BY <2>4, <3>2, <3>4, <4>1, <5>1
      <4> QED
        BY <4>2, <4>3
    <3>6. Advanced(e)[e] \in 0 .. length[e] - 1
      <4>1. length[e] \in Nat \ {0} /\ s[e] = step[e] + 1 /\ step[e] \in 0 .. length[e] - 1
        BY <2>4
      <4> QED
        BY <3>2, <3>4, <4>1
    <3> QED
      BY <1>4, <2>1, <3>3, <3>5, <3>6
  <2> QED
    BY <2>5, <2>6
<1> QED
  BY <1>3, <1>4

\* Counting a step that does not complete the subtask.
LEMMA AdvanceWithinTypes ==
    ASSUME TInv, NEW e \in Eefs, AdvanceWithin(e)
    PROVE  TInv'
<1>1. TypeOK
  BY DEF TInv
<1>2. /\ Turn("advance", key_order, e) /\ NextTurn
      /\ ~NavigationFails(e) /\ ~SubtaskDone(e)
      /\ step' = Advanced(e) /\ nav' = [nav EXCEPT !.processed = @ \/ NavigationActs(e)]
      /\ UNCHANGED <<inputs, rules, subtask, length, resume, subtasks_done, crash>>
  BY DEF AdvanceWithin
<1>3. /\ pass = "advance" /\ pass' = "advance"
      /\ Planned(e) /\ Constrained(e) /\ ~Between(e)
      /\ \A f \in Eefs : /\ Planned(f)' <=> Planned(f) /\ f # e
                         /\ Between(f)' <=> Between(f) \/ f = e
  BY <1>1, <1>2, AdvanceTurn DEF inputs
<1>4. Advanced(e)[e] # length[e]
  BY <1>2 DEF SubtaskDone
<1>5. nav' \in [was : BOOLEAN, is : BOOLEAN, reached : BOOLEAN, processed : BOOLEAN]
      /\ (nav'.processed <=> nav.processed \/ NavigationActs(e))
  BY <1>1, <1>2 DEF TypeOK, NavigationActs, RepeatsBodyStep, SkipsBodySteps
<1>6. \A f \in Eefs :
        /\ Planned(f) => step[f] \in -1 .. length[f] - 1 /\ length[f] \in Nat \ {0}
        /\ Between(f) =>
             step[f] = NONE \/ (step[f] \in 0 .. length[f] - 1 /\ length[f] \in Nat \ {0})
  <2> TAKE f \in Eefs
  <2>1. length[f] \in Nat
    BY <1>1 DEF TypeOK
  <2>2. Planned(f) => step[f] \in -1 .. length[f] - 1 /\ length[f] > 0
    BY DEF TInv, Waypoints
  <2>3. Between(f) => step[f] = NONE \/ (step[f] \in 0 .. length[f] - 1 /\ length[f] > 0)
    <3>1. CASE step[f] \in 1 .. length[f] - 1
      BY <2>1, <3>1
    <3>2. CASE ~(step[f] \in 1 .. length[f] - 1)
      BY <2>1, <3>2 DEF TInv, Waypoints
    <3> QED
      BY <3>1, <3>2
  <2>4. length[f] > 0 => length[f] \in Nat \ {0}
    BY <2>1
  <2> QED
    BY <2>2, <2>3, <2>4, Zenon
<1>7. turn' \in 1 .. Len(key_order') + 1 /\ pass' = pass
  BY <1>1, <1>2, TurnType DEF inputs, TypeOK
<1>8. CASE ~NavigationActs(e)
  <2>1. step' = [step EXCEPT ![e] = step[e] + 1]
    BY <1>2, <1>3, <1>8, AdvancedBounds
  <2>2. step'[e] = step[e] + 1 /\ \A f \in Eefs \ {e} : step'[f] = step[f]
    BY <1>1, <2>1 DEF TypeOK
  <2>3. step'[e] \in 0 .. length[e] - 1 /\ (step'[e] = 0 => nav.processed)
    BY <1>2, <1>3, <1>4, <1>6, <2>2 DEF TInv, Waypoints
  <2>4. step' \in [Eefs -> Nat \cup {NONE, -1}]
    BY <1>1, <2>1, <2>2, <2>3 DEF TypeOK
  <2>5. TypeOK'
    BY <1>1, <1>2, <1>5, <1>7, <2>4 DEF TypeOK, inputs
  <2>6. Waypoints'
    BY <1>1, <1>2, <1>3, <1>5, <1>6, <1>8, <2>2, <2>3 DEF TInv, Waypoints, inputs
  <2>7. Places'
    <3>1. step'[e] # NONE
      BY <2>3 DEF NONE
    <3>2. step[e] # NONE
      BY <1>3, <1>6 DEF NONE
    <3> QED
      BY <1>2, <2>2, <3>1, <3>2 DEF TInv, Places, Place
  <2> QED
    BY <2>5, <2>6, <2>7 DEF TInv
<1>9. CASE NavigationActs(e)
  <2>1. /\ step' \in [Eefs -> Int] /\ mode = "navigation" /\ nav'.processed
        /\ step'[e] \in 0 .. length[e] - 1
        /\ \A f \in Eefs : /\ Planned(f) => step'[f] \in -1 .. length[f] - 1
                           /\ Between(f) => step'[f] \in 0 .. length[f] - 1
    BY <1>2, <1>3, <1>5, <1>9, AdvancedBounds
  <2>2. \A f \in Eefs : Planned(f) \/ Between(f)
    BY <1>3 DEF Planned, Between
  <2>3. \A f \in Eefs : step'[f] \in Nat \cup {-1} /\ step'[f] # NONE
    BY <2>1, <2>2 DEF NONE
  <2>4. step' \in [Eefs -> Nat \cup {NONE, -1}]
    BY <2>1, <2>3
  <2>5. TypeOK'
    BY <1>1, <1>2, <1>5, <1>7, <2>4 DEF TypeOK, inputs
  <2>6. Waypoints'
    <3>1. \A f \in Eefs : length'[f] > 0
      <4> TAKE f \in Eefs
      <4>1. length'[f] = length[f] /\ length[f] \in Nat
        BY <1>1, <1>2 DEF TypeOK
      <4>2. CASE Planned(f)
        BY <1>6, <4>1, <4>2
      <4>3. CASE Between(f)
        <5>1. step'[f] \in 0 .. length[f] - 1
          BY <2>1, <4>3
        <5> QED
          BY <4>1, <5>1
      <4> QED
        BY <2>2, <4>2, <4>3
    <3> QED
      BY <1>1, <1>2, <1>3, <2>1, <3>1 DEF Waypoints, inputs
  <2>7. Places'
    <3>1. \A f \in Eefs : step[f] # NONE
      <4>1. \A f \in Eefs : Counted(e)[f] # NONE
        BY <1>2, <1>9 DEF NavigationFails
      <4>2. step[e] # NONE
        BY <1>3, <1>6 DEF NONE
      <4> QED
        BY <1>1, <4>1, <4>2 DEF Counted, TypeOK
    <3> QED
      BY <1>2, <2>3, <3>1 DEF TInv, Places, Place
  <2> QED
    BY <2>5, <2>6, <2>7 DEF TInv
<1> QED
  BY <1>8, <1>9

\* Completing a subtask: the next one, or the last waypoint once more.
LEMMA CompleteSubtaskTypes ==
    ASSUME TInv, NEW e \in Eefs, CompleteSubtask(e)
    PROVE  TInv'
<1>1. TypeOK
  BY DEF TInv
<1>2. /\ Turn("advance", key_order, e) /\ NextTurn
      /\ ~NavigationFails(e) /\ Advanced(e)[e] = length[e]
      /\ rules' = Reported(e)
      /\ nav' = [nav EXCEPT !.processed = @ \/ NavigationActs(e)]
      /\ UNCHANGED <<inputs, resume, crash>>
  BY DEF CompleteSubtask, SubtaskDone
<1>3. /\ pass = "advance" /\ pass' = "advance"
      /\ Planned(e) /\ ~Between(e)
      /\ \A f \in Eefs : /\ Planned(f)' <=> Planned(f) /\ f # e
                         /\ Between(f)' <=> Between(f) \/ f = e
  BY <1>1, <1>2, AdvanceTurn DEF inputs
<1>4. step[e] \in -1 .. length[e] - 1 /\ length[e] \in Nat \ {0}
  BY <1>1, <1>3 DEF TInv, Waypoints, TypeOK
<1>5. ~NavigationActs(e)
  BY <1>2, <1>3, <1>4, AdvancedBounds
<1>6. Advanced(e) = [step EXCEPT ![e] = step[e] + 1]
  BY <1>2, <1>3, <1>5, AdvancedBounds
<1>7. step[e] = length[e] - 1 /\ step[e] # NONE
  BY <1>1, <1>2, <1>4, <1>6 DEF TypeOK, NONE
<1>8. nav' = nav
  BY <1>1, <1>2, <1>5 DEF TypeOK, NavigationActs, RepeatsBodyStep, SkipsBodySteps
<1>9. turn' \in 1 .. Len(key_order') + 1 /\ pass' = pass
  BY <1>1, <1>2, TurnType DEF inputs, TypeOK
<1>10. DOMAIN rules' \subseteq Keys /\ rules' \in [DOMAIN rules' -> RuleRecord]
       /\ \A k \in DOMAIN rules' : rules'[k].partner \in DOMAIN rules'
  BY <1>1, <1>2, ReportedSame, SameTyped
<1>11. CASE LastSubtask(e)
  <2>1. /\ subtasks_done' = [subtasks_done EXCEPT ![e] = TRUE] /\ subtask' = subtask
        /\ RepeatLastWaypoint(e)
    BY <1>11 DEF CompleteSubtask
  <2>2. /\ step' = [step EXCEPT ![e] = IF length[e] < MaxLength THEN length[e] ELSE length[e] - 1]
        /\ length' = [length EXCEPT ![e] = IF length[e] < MaxLength THEN @ + 1 ELSE @]
    <3>1. CASE length[e] < MaxLength
      BY <1>1, <1>4, <1>6, <1>7, <2>1, <3>1 DEF RepeatLastWaypoint, TypeOK
    <3>2. CASE ~(length[e] < MaxLength)
      <4>1. step' = [[step EXCEPT ![e] = step[e] + 1] EXCEPT ![e] = @ - 1] /\ length' = length
        BY <1>6, <2>1, <3>2 DEF RepeatLastWaypoint
      <4>2. step' = [step EXCEPT ![e] = length[e] - 1]
        BY <1>1, <1>4, <1>7, <4>1 DEF TypeOK
      <4> QED
        BY <1>1, <3>2, <4>1, <4>2 DEF TypeOK
    <3> QED
      BY <3>1, <3>2
  <2>3. step'[e] \in 1 .. length'[e] - 1
    BY <1>1, <1>4, <2>2, LengthsAssumption DEF TypeOK
  <2>4. \A f \in Eefs \ {e} : step'[f] = step[f] /\ length'[f] = length[f]
    BY <1>1, <2>2 DEF TypeOK
  <2>5. step' \in [Eefs -> Nat \cup {NONE, -1}] /\ length' \in [Eefs -> Nat]
    BY <1>1, <1>4, <2>2 DEF TypeOK
  <2>6. TypeOK'
    BY <1>1, <1>2, <1>8, <1>9, <1>10, <2>1, <2>5 DEF TypeOK, inputs
  <2>7. Waypoints'
    BY <1>1, <1>2, <1>3, <1>8, <2>3, <2>4 DEF TInv, Waypoints, inputs
  <2>8. Places'
    <3>1. resume[e] = NONE
      BY <1>1, <1>7, <1>11, SubtasksAssumption DEF TInv, Places, Place, LastSubtask, Transit
    <3>2. step'[e] # NONE
      BY <2>3 DEF NONE
    <3> QED
      BY <1>1, <1>2, <1>11, <2>1, <2>4, <3>1, <3>2 DEF TInv, Places, Place, LastSubtask, TypeOK
  <2> QED
    BY <2>6, <2>7, <2>8 DEF TInv
<1>12. CASE ~LastSubtask(e)
  <2>1. /\ step' = [step EXCEPT ![e] = NONE]
        /\ subtask' = [subtask EXCEPT ![e] = @ + 1]
        /\ UNCHANGED <<subtasks_done, length>>
    BY <1>1, <1>6, <1>12 DEF CompleteSubtask, TypeOK
  <2>2. /\ step'[e] = NONE /\ subtask'[e] = subtask[e] + 1
        /\ \A f \in Eefs \ {e} : step'[f] = step[f] /\ subtask'[f] = subtask[f]
    BY <1>1, <2>1 DEF TypeOK
  <2>3. subtask[e] + 1 \in 0 .. NumSubtasks[e] - 1
    <3>1. NumSubtasks[e] \in Nat \ {0}
      BY SubtasksAssumption
    <3>2. subtask[e] \in 0 .. NumSubtasks[e] - 1 \/ subtask[e] = -1
      BY <1>1 DEF TypeOK, Transit
    <3>3. subtask[e] # NumSubtasks[e] - 1
      BY <1>12 DEF LastSubtask
    <3> QED
      BY <3>1, <3>2, <3>3
  <2>4. TypeOK'
    <3>1. step' \in [Eefs -> Nat \cup {NONE, -1}]
      BY <1>1, <2>1 DEF TypeOK
    <3>2. subtask' \in [Eefs -> Int]
          /\ \A f \in Eefs : subtask'[f] \in 0 .. NumSubtasks[f] - 1 \cup {Transit}
      BY <1>1, <2>1, <2>2, <2>3 DEF TypeOK
    <3> QED
      BY <1>1, <1>2, <1>8, <1>9, <1>10, <2>1, <3>1, <3>2 DEF TypeOK, inputs
  <2>5. Waypoints'
    BY <1>1, <1>2, <1>3, <1>8, <2>1, <2>2 DEF TInv, Waypoints, inputs
  <2>6. Places'
    <3>1. ~subtasks_done[e]
      BY <1>12 DEF TInv, Places, Place, LastSubtask
    <3>2. resume[e] # NONE => subtask[e] = Transit
      BY <1>7 DEF TInv, Places, Place
    <3>3. Place(e)'
      BY <1>2, <2>1, <2>2, <2>3, <3>1, <3>2 DEF TInv, Places, Place, Transit
    <3> QED
      BY <1>2, <2>1, <2>2, <3>3 DEF TInv, Places, Place
  <2> QED
    BY <2>4, <2>5, <2>6 DEF TInv
<1> QED
  BY <1>11, <1>12

\* The end of the pass advance.
LEMMA AdvanceDoneTypes ==
    ASSUME TInv, AdvanceDone
    PROVE  TInv'
<1>1. TypeOK
  BY DEF TInv
<1>2. /\ pass = "advance" /\ pass' \in {"finished", "plan"} /\ turn' = 1
      /\ nav' = [nav EXCEPT !.was = nav.is]
      /\ UNCHANGED <<inputs, rules, eefVars, crash>>
  BY DEF AdvanceDone
<1>3. nav' \in [was : BOOLEAN, is : BOOLEAN, reached : BOOLEAN, processed : BOOLEAN]
      /\ nav'.processed = nav.processed
  BY <1>1, <1>2 DEF TypeOK
<1>4. TypeOK'
  BY <1>1, <1>2, <1>3, OrderFacts DEF TypeOK, inputs, eefVars
<1>5. Waypoints'
  BY <1>1, <1>2, <1>3, AdvanceOver DEF TInv, Waypoints, inputs, eefVars
<1>6. Places'
  BY <1>2 DEF TInv, Places, Place, eefVars
<1> QED
  BY <1>4, <1>5, <1>6 DEF TInv

\* Every step keeps types and places.
LEMMA TypesNext == TInv /\ [Next]_vars => TInv'
<1> SUFFICES ASSUME TInv, [Next]_vars PROVE TInv'
  OBVIOUS
<1>1. ASSUME NEW e \in Eefs, StillExecuting(e) PROVE TInv'
  BY <1>1, StillExecutingTypes
<1>2. ASSUME NEW e \in Eefs, BeginSubtask(e) PROVE TInv'
  BY <1>2, BeginSubtaskTypes
<1>3. ASSUME NEW e \in Eefs, BeginSubtaskFails(e) \/ PlanningFails(e) \/ AdvanceFails(e)
      PROVE  TInv'
  BY <1>3, EndsTypes
<1>4. ASSUME NEW e \in Eefs, ResumeSubtask(e) PROVE TInv'
  BY <1>4, ResumeSubtaskTypes
<1>5. ASSUME NEW e \in Eefs, Constrain(e) PROVE TInv'
  BY <1>5, ConstrainTypes
<1>6. ASSUME NEW e \in Eefs, AdvanceWithin(e) PROVE TInv'
  BY <1>6, AdvanceWithinTypes
<1>7. ASSUME NEW e \in Eefs, CompleteSubtask(e) PROVE TInv'
  BY <1>7, CompleteSubtaskTypes
<1>8. CASE PlanDone
  BY <1>8, PlanDoneTypes
<1>9. CASE Execute
  BY <1>9, ExecuteTypes
<1>10. CASE AdvanceDone
  BY <1>10, AdvanceDoneTypes
<1>11. CASE UNCHANGED vars
  BY <1>11 DEF TInv, TypeOK, Waypoints, Places, Place, Planned, Between, vars, inputs, eefVars
<1> QED
  BY <1>1, <1>2, <1>3, <1>4, <1>5, <1>6, <1>7, <1>8, <1>9, <1>10, <1>11 DEF Next

\* TypeOK, for any end effectors, subtasks, constraints and lengths: step indices
\* stay within bounds whatever constraints and navigation controller make of them.
THEOREM TypeCorrect == Spec => []TypeOK
<1>1. Spec => []TInv
  BY TypesInit, TypesNext, PTL DEF Spec
<1>2. TInv => TypeOK
  BY DEF TInv
<1> QED
  BY <1>1, <1>2, PTL

(***************************************************************************)
(* Pairs of rules                                                          *)
(***************************************************************************)
Opposite(type) ==
    IF type = "former" THEN "latter" ELSE IF type = "latter" THEN "former" ELSE "coordination"

\* The rules of two subtasks tied together name each other.
Paired ==
    OneConstraintPerSubtask =>
      \A k \in DOMAIN rules :
        LET p == rules[k].partner
        IN /\ p[1] # k[1]
           /\ rules[p].partner = k
           /\ rules[p].type = Opposite(rules[k].type)
           /\ rules[p].sync_start = rules[k].sync_start

\* They do so at first.
LEMMA PairedInit == Init => Paired
<1> SUFFICES ASSUME Init, OneConstraintPerSubtask, NEW k \in DOMAIN rules
             PROVE  LET p == rules[k].partner
                    IN /\ p[1] # k[1]
                       /\ rules[p].partner = k
                       /\ rules[p].type = Opposite(rules[k].type)
                       /\ rules[p].sync_start = rules[k].sync_start
  BY DEF Paired
<1> DEFINE cs == constraints
           D == UNION {Named(cs[i]) : i \in DOMAIN cs}
           S(x) == {i \in DOMAIN cs : x \in Named(cs[i])}
           c(x) == cs[Max(S(x))]
           p == rules[k].partner
<1>1. cs \in ConstraintSets /\ rules = InitialRules(cs)
  BY DEF Init
<1>2. cs \in Seq(Constraint) /\ DOMAIN cs = 1 .. Len(cs) /\ Len(cs) \in Nat
  BY <1>1, ConstraintsAssumption
<1>3. \A i \in DOMAIN cs : cs[i] \in Constraint /\ cs[i].first[1] # cs[i].second[1]
  BY <1>1, <1>2, ConstraintsAssumption
<1>4. DOMAIN rules = D /\ \A x \in D : rules[x] = RuntimeRules(c(x))[x]
  BY <1>1 DEF InitialRules
<1>5. ASSUME NEW x \in D PROVE Max(S(x)) \in DOMAIN cs /\ x \in Named(c(x))
  <2>1. S(x) \subseteq 1 .. Len(cs) /\ S(x) # {}
    BY <1>2, <1>5
  <2>2. Max(S(x)) \in S(x)
    BY <1>2, <2>1, Greatest
  <2> QED
    BY <2>2
<1>6. p \in Named(c(k)) /\ p \in D
  <2>1. c(k) \in Constraint /\ c(k).first # c(k).second /\ k \in Named(c(k))
    BY <1>3, <1>4, <1>5
  <2>2. p = RuntimeRules(c(k))[k].partner
    BY <1>4
  <2> HIDE DEF c, p
  <2>3. p \in Named(c(k))
    BY <2>1, <2>2, RuntimeRulesType DEF Named
  <2> QED
    BY <1>4, <1>5, <2>3 DEF c
<1>7. c(p) = c(k)
  <2>1. Max(S(k)) \in 1 .. Len(cs) /\ Max(S(p)) \in 1 .. Len(cs)
    BY <1>2, <1>4, <1>5, <1>6
  <2>2. p \in Named(cs[Max(S(k))]) /\ p \in Named(cs[Max(S(p))])
    BY <1>5, <1>6
  <2> DEFINE i == Max(S(k))  j == Max(S(p))
  <2> HIDE DEF i, j, p, S
  <2>3. i = j
    BY <2>1, <2>2 DEF OneConstraintPerSubtask, Named, i, j
  <2> QED
    BY <2>3 DEF i, j
<1> DEFINE d == c(k)
<1>8. d \in Constraint /\ d.first[1] # d.second[1] /\ k \in Named(d) /\ p \in Named(d)
  BY <1>3, <1>4, <1>5, <1>6
<1>9. rules[k] = RuntimeRules(d)[k] /\ rules[p] = RuntimeRules(d)[p]
  BY <1>4, <1>6, <1>7
<1>10. p = IF k = d.first THEN d.second ELSE d.first
  <2> HIDE DEF c
  <2> QED
    BY <1>8, <1>9, RuntimeRulesType
<1> HIDE DEF d, p
<1>11. rules[p].partner = k /\ p[1] # k[1]
  BY <1>8, <1>9, <1>10, RuntimeRulesType DEF Named
<1>12. rules[p].type = Opposite(rules[k].type) /\ rules[p].sync_start = rules[k].sync_start
  BY <1>8, <1>9, <1>10, RuntimeRulesType DEF Named, Opposite, Constraint
<1> QED
  BY <1>11, <1>12 DEF p

\* No step changes the inputs of the attempt, or kind, partner and parameters of a rule.
LEMMA RulesSame ==
    ASSUME TypeOK, [Next]_vars
    PROVE  SameRules(rules, rules') /\ UNCHANGED inputs
<1>1. ASSUME NEW e \in Eefs, Constrain(e) PROVE SameRules(rules, rules') /\ UNCHANGED inputs
  BY <1>1, ConstrainSame DEF Constrain
<1>2. ASSUME NEW e \in Eefs, CompleteSubtask(e)
      PROVE  SameRules(rules, rules') /\ UNCHANGED inputs
  BY <1>2, ReportedSame DEF CompleteSubtask
<1>3. ASSUME NEW e \in Eefs, BeginSubtask(e) \/ PlanningFails(e)
      PROVE  SameRules(rules, rules') /\ UNCHANGED inputs
  BY <1>3, MeasuredSame DEF BeginSubtask, PlanningFails
<1>4. CASE UNCHANGED <<inputs, rules>>
  BY <1>4, UnchangedSame
<1> QED
  BY <1>1, <1>2, <1>3, <1>4
  DEF Next, StillExecuting, BeginSubtaskFails, ResumeSubtask, AdvanceWithin, AdvanceFails,
      Raise, PlanDone, Execute, AdvanceDone, vars

\* Pairs are kept.
LEMMA PairedNext == TypeOK /\ Paired /\ [Next]_vars => Paired'
<1> SUFFICES ASSUME TypeOK, Paired, SameRules(rules, rules'), UNCHANGED inputs PROVE Paired'
  BY RulesSame
<1>1. OneConstraintPerSubtask' <=> OneConstraintPerSubtask
  BY DEF OneConstraintPerSubtask, inputs
<1>2. \A k \in DOMAIN rules : rules[k].partner \in DOMAIN rules
  BY DEF TypeOK
<1>3. DOMAIN rules' = DOMAIN rules
  BY DEF SameRules
<1>4. \A k \in DOMAIN rules : /\ rules'[k].type = rules[k].type
                              /\ rules'[k].partner = rules[k].partner
                              /\ rules'[k].sync_start = rules[k].sync_start
  BY DEF SameRules
<1> QED
  BY <1>1, <1>2, <1>3, <1>4 DEF Paired

(***************************************************************************)
(* Where the end effectors are                                             *)
(***************************************************************************)
Running == pass \in {"plan", "constrain", "advance"}

\* What step a subtask is at, and where its trajectory ends.
LEMMA AtFacts ==
    ASSUME TInv, NEW k \in Keys, IsAt(k)
    PROVE  /\ k[1] \in Eefs /\ Key(k[1]) = k /\ resume[k[1]] = NONE
           /\ Position(k[1]) = k[2] /\ ~Passed(k)
           /\ mode # "navigation" /\ Running =>
                step[k[1]] \in 0 .. length[k[1]] - 1 /\ length[k[1]] \in Nat
<1> DEFINE e == k[1]
<1>1. k = <<e, k[2]>> /\ e \in Eefs /\ k[2] \in 0 .. NumSubtasks[e] - 1 /\ NumSubtasks[e] \in Nat
  BY KeysOnly
<1>2. subtask[e] = k[2] /\ step[e] # NONE /\ ~subtasks_done[e]
  BY DEF IsAt
<1>3. resume[e] = NONE
  <2>1. subtask[e] # Transit
    BY <1>1, <1>2 DEF Transit
  <2> QED
    BY <1>1, <1>2, <2>1 DEF TInv, Places, Place
<1>4. Position(e) = k[2] /\ ~Passed(k)
  BY <1>1, <1>2, <1>3 DEF Position, Passed
<1>5. ASSUME mode # "navigation", Running
      PROVE  step[e] \in 0 .. length[e] - 1 /\ length[e] \in Nat
  <2>1. ~nav.processed /\ length[e] \in Nat
    BY <1>1, <1>5 DEF TInv, Waypoints, TypeOK
  <2>2. Planned(e) \/ Between(e)
    BY <1>5 DEF Running, Planned, Between
  <2>3. CASE Planned(e)
    BY <1>1, <2>1, <2>3 DEF TInv, Waypoints
  <2>4. CASE Between(e)
    <3>1. step[e] \in 1 .. length[e] - 1
      BY <1>1, <1>2, <1>5, <2>4 DEF TInv, Waypoints
    <3> QED
      BY <2>1, <3>1
  <2> QED
    BY <2>1, <2>2, <2>3, <2>4
<1> QED
  BY <1>1, <1>2, <1>3, <1>4, <1>5 DEF Key

\* Whoever starts a subtask is at its first step and was at none.
LEMMA StartView ==
    ASSUME TInv, NEW g \in Eefs, BeginSubtask(g) \/ ResumeSubtask(g)
    PROVE  /\ step[g] = NONE /\ step'[g] = 0
           /\ \A f \in Eefs \ {g} : step'[f] = step[f] /\ length'[f] = length[f]
           /\ \A k \in Keys : /\ Passed(k)' <=> Passed(k)
                              /\ IsAt(k) => k[1] # g /\ IsAt(k)'
                              /\ IsAt(k)' /\ k[1] # g => IsAt(k)
                              /\ IsAt(k)' /\ k[1] = g =>
                                   /\ ~Passed(k) /\ length'[g] = TrajectoryLength(k)
                                   /\ resume[g] # NONE => resume[g] = k[2]
                                   /\ resume[g] = NONE => k = Key(g)
<1>1. TypeOK
  BY DEF TInv
<1>2. /\ step[g] = NONE /\ step' = [step EXCEPT ![g] = 0]
      /\ UNCHANGED <<inputs, subtasks_done>>
  BY DEF BeginSubtask, ResumeSubtask
<1>3. ~subtasks_done[g]
  BY <1>2 DEF TInv, Places, Place
<1>4. ASSUME NEW f \in Eefs \ {g}
      PROVE  /\ step'[f] = step[f] /\ length'[f] = length[f]
             /\ subtask'[f] = subtask[f] /\ resume'[f] = resume[f]
  BY <1>1, <1>2, <1>4 DEF BeginSubtask, ResumeSubtask, TypeOK
<1>5. step'[g] = 0 /\ step'[g] # NONE
  BY <1>1, <1>2 DEF TypeOK, NONE
<1>6. CASE BeginSubtask(g) /\ mode = "skillgen"
  <2>1. /\ resume[g] = NONE /\ resume' = [resume EXCEPT ![g] = subtask[g]]
        /\ subtask' = [subtask EXCEPT ![g] = Transit]
    BY <1>6 DEF BeginSubtask
  <2>2. resume'[g] = subtask[g] /\ subtask'[g] = Transit /\ subtask[g] # NONE
    BY <1>1, <2>1, KeyType DEF TypeOK, NONE
  <2>3. ASSUME NEW k \in Keys
        PROVE  /\ Passed(k)' <=> Passed(k)
               /\ IsAt(k) => k[1] # g /\ IsAt(k)'
               /\ IsAt(k)' => k[1] # g /\ IsAt(k)
    <3>1. k[1] \in Eefs /\ k[2] # Transit
      BY KeysOnly DEF Transit
    <3>2. CASE k[1] = g
      BY <1>2, <1>3, <2>1, <2>2, <3>1, <3>2 DEF Passed, Position, IsAt
    <3>3. CASE k[1] # g
      BY <1>2, <1>4, <3>1, <3>3 DEF Passed, Position, IsAt
    <3> QED
      BY <3>2, <3>3
  <2> QED
    BY <1>2, <1>4, <1>5, <2>3
<1>7. CASE BeginSubtask(g) /\ mode # "skillgen"
  <2>1. /\ resume[g] = NONE /\ length' = [length EXCEPT ![g] = TrajectoryLength(Key(g))]
        /\ UNCHANGED <<subtask, resume>>
    BY <1>7 DEF BeginSubtask
  <2>2. length'[g] = TrajectoryLength(Key(g))
    BY <1>1, <2>1 DEF TypeOK
  <2>3. ASSUME NEW k \in Keys
        PROVE  /\ Passed(k)' <=> Passed(k)
               /\ IsAt(k) => k[1] # g /\ IsAt(k)'
               /\ IsAt(k)' /\ k[1] # g => IsAt(k)
               /\ IsAt(k)' /\ k[1] = g => ~Passed(k) /\ k = Key(g)
    <3>1. k[1] \in Eefs /\ k[2] \in Int /\ k = <<k[1], k[2]>>
      BY KeysOnly
    <3>2. CASE k[1] = g
      BY <1>2, <1>3, <2>1, <3>1, <3>2 DEF Passed, Position, IsAt, Key
    <3>3. CASE k[1] # g
      BY <1>2, <1>4, <2>1, <3>1, <3>3 DEF Passed, Position, IsAt
    <3> QED
      BY <3>2, <3>3
  <2> QED
    BY <1>2, <1>4, <1>5, <2>1, <2>2, <2>3
<1>8. CASE ResumeSubtask(g)
  <2>1. /\ resume[g] # NONE /\ resume' = [resume EXCEPT ![g] = NONE]
        /\ subtask' = [subtask EXCEPT ![g] = resume[g]]
        /\ length' = [length EXCEPT ![g] = TrajectoryLength(<<g, resume[g]>>)]
    BY <1>8 DEF ResumeSubtask
  <2>2. resume'[g] = NONE /\ subtask'[g] = resume[g]
        /\ length'[g] = TrajectoryLength(<<g, resume[g]>>)
    BY <1>1, <2>1 DEF TypeOK
  <2>3. ASSUME NEW k \in Keys
        PROVE  /\ Passed(k)' <=> Passed(k)
               /\ IsAt(k) => k[1] # g /\ IsAt(k)'
               /\ IsAt(k)' /\ k[1] # g => IsAt(k)
               /\ IsAt(k)' /\ k[1] = g => ~Passed(k) /\ k = <<g, resume[g]>>
    <3>1. k[1] \in Eefs /\ k[2] \in Int /\ k = <<k[1], k[2]>>
      BY KeysOnly
    <3>2. CASE k[1] = g
      BY <1>2, <1>3, <2>1, <2>2, <3>1, <3>2 DEF Passed, Position, IsAt
    <3>3. CASE k[1] # g
      BY <1>2, <1>4, <3>1, <3>3 DEF Passed, Position, IsAt
    <3> QED
      BY <3>2, <3>3
  <2> QED
    BY <1>2, <1>4, <1>5, <2>1, <2>2, <2>3, KeysOnly
<1> QED
  BY <1>6, <1>7, <1>8

\* Without the navigation controller a turn of the pass advance counts one step.
LEMMA CountedAlone ==
    ASSUME TInv, NEW g \in Eefs, Turn("advance", key_order, g), mode # "navigation"
    PROVE  /\ ~NavigationFails(g) /\ Advanced(g) = [step EXCEPT ![g] = step[g] + 1]
           /\ step[g] \in 0 .. length[g] - 1 /\ length[g] \in Nat
<1>1. ~NavigationActs(g)
  BY DEF NavigationActs, RepeatsBodyStep, SkipsBodySteps
<1>2. Planned(g)
  <2>1. key_order \in KeyOrders /\ turn \in 1 .. Len(key_order)
    BY OrderFacts DEF TInv, TypeOK, Turn
  <2> QED
    BY <2>1, PastNext DEF Turn, Planned
<1>3. Advanced(g) = [step EXCEPT ![g] = step[g] + 1]
  BY <1>1, <1>2, AdvancedBounds DEF NavigationFails
<1>4. step[g] \in 0 .. length[g] - 1 /\ length[g] \in Nat
  <2>1. ~nav.processed /\ length[g] \in Nat
    BY DEF TInv, Waypoints, TypeOK
  <2> QED
    BY <1>2, <2>1 DEF TInv, Waypoints
<1> QED
  BY <1>1, <1>3, <1>4 DEF NavigationFails

\* A step within a trajectory.
LEMMA WithinView ==
    ASSUME TInv, NEW g \in Eefs, AdvanceWithin(g), mode # "navigation"
    PROVE  /\ step[g] \in 0 .. length[g] - 2 /\ step'[g] = step[g] + 1 /\ length' = length
           /\ \A f \in Eefs \ {g} : step'[f] = step[f]
           /\ \A k \in Keys : /\ Passed(k)' <=> Passed(k)
                              /\ IsAt(k)' <=> IsAt(k)
<1>1. TypeOK
  BY DEF TInv
<1>2. /\ Turn("advance", key_order, g) /\ ~SubtaskDone(g) /\ step' = Advanced(g)
      /\ UNCHANGED <<inputs, rules, subtask, length, resume, subtasks_done, crash>>
  BY DEF AdvanceWithin
<1>3. /\ ~NavigationFails(g) /\ step' = [step EXCEPT ![g] = step[g] + 1]
      /\ step[g] \in 0 .. length[g] - 1 /\ length[g] \in Nat
  BY <1>2, CountedAlone
<1>4. step'[g] = step[g] + 1 /\ \A f \in Eefs \ {g} : step'[f] = step[f]
  BY <1>1, <1>3 DEF TypeOK
<1>5. step[g] + 1 # length[g]
  BY <1>2, <1>3, <1>4 DEF SubtaskDone
<1>6. step[g] # NONE /\ step'[g] # NONE
  BY <1>3, <1>4 DEF NONE
<1>7. ASSUME NEW k \in Keys PROVE (Passed(k)' <=> Passed(k)) /\ (IsAt(k)' <=> IsAt(k))
  <2>1. k[1] \in Eefs
    BY KeysOnly
  <2> QED
    BY <1>2, <1>4, <1>6, <2>1 DEF Passed, Position, IsAt
<1> QED
  BY <1>2, <1>3, <1>4, <1>5, <1>7

\* The end of a subtask.
LEMMA CompleteView ==
    ASSUME TInv, NEW g \in Eefs, CompleteSubtask(g), mode # "navigation"
    PROVE  /\ step[g] = length[g] - 1 /\ length[g] \in Nat \ {0}
           /\ \A f \in Eefs \ {g} : step'[f] = step[f] /\ length'[f] = length[f]
           /\ \A k \in Keys : /\ Passed(k)' <=> Passed(k) \/ k = Key(g)
                              /\ IsAt(k)' <=> IsAt(k) /\ k # Key(g)
                              /\ k = Key(g) => IsAt(k) \/ subtasks_done[g]
<1>1. TypeOK
  BY DEF TInv
<1>2. /\ Turn("advance", key_order, g) /\ SubtaskDone(g)
      /\ UNCHANGED <<inputs, resume>>
  BY DEF CompleteSubtask
<1>3. /\ Advanced(g) = [step EXCEPT ![g] = step[g] + 1]
      /\ step[g] \in 0 .. length[g] - 1 /\ length[g] \in Nat
  BY <1>2, CountedAlone
<1>4. step[g] = length[g] - 1 /\ length[g] \in Nat \ {0} /\ step[g] # NONE
  BY <1>1, <1>2, <1>3 DEF SubtaskDone, TypeOK, NONE
<1>5. CASE LastSubtask(g)
  <2>1. /\ subtasks_done' = [subtasks_done EXCEPT ![g] = TRUE] /\ subtask' = subtask
        /\ RepeatLastWaypoint(g)
    BY <1>5 DEF CompleteSubtask
  <2>2. \A f \in Eefs \ {g} : step'[f] = step[f] /\ length'[f] = length[f]
    BY <1>1, <1>3, <2>1 DEF RepeatLastWaypoint, TypeOK
  <2>3. subtask[g] = NumSubtasks[g] - 1 /\ NumSubtasks[g] \in Nat \ {0} /\ resume[g] = NONE
    <3>1. subtask[g] = NumSubtasks[g] - 1 /\ NumSubtasks[g] \in Nat \ {0}
      BY <1>5, SubtasksAssumption DEF LastSubtask
    <3> QED
      BY <1>4, <3>1 DEF TInv, Places, Place, Transit
  <2>4. ASSUME NEW k \in Keys
        PROVE  /\ Passed(k)' <=> Passed(k) \/ k = Key(g)
               /\ IsAt(k)' <=> IsAt(k) /\ k # Key(g)
               /\ k = Key(g) => IsAt(k) \/ subtasks_done[g]
    <3>1. /\ k[1] \in Eefs /\ k = <<k[1], k[2]>>
          /\ k[2] \in 0 .. NumSubtasks[k[1]] - 1
      BY KeysOnly
    <3>2. CASE k[1] = g
      <4>1. subtasks_done'[g]
        BY <1>1, <2>1 DEF TypeOK
      <4>2. Passed(k)' /\ ~IsAt(k)'
        BY <3>2, <4>1 DEF Passed, IsAt
      <4>3. k # Key(g) => Passed(k) /\ k[2] # subtask[g]
        BY <2>3, <3>1, <3>2 DEF Passed, Position, Key
      <4>4. k = Key(g) => IsAt(k) \/ subtasks_done[g]
        BY <1>4, <3>2 DEF IsAt, Key
      <4>5. k # Key(g) => ~IsAt(k)
        BY <3>2, <4>3 DEF IsAt
      <4> QED
        BY <4>2, <4>3, <4>4, <4>5
    <3>3. CASE k[1] # g
      <4>1. k # Key(g)
        BY <3>3 DEF Key
      <4>2. subtasks_done'[k[1]] = subtasks_done[k[1]]
        BY <1>1, <2>1, <3>1, <3>3 DEF TypeOK
      <4> QED
        BY <1>2, <2>1, <2>2, <3>1, <3>3, <4>1, <4>2 DEF Passed, Position, IsAt
    <3> QED
      BY <3>2, <3>3
  <2> QED
    BY <1>4, <2>2, <2>4
<1>6. CASE ~LastSubtask(g)
  <2>1. /\ step' = [step EXCEPT ![g] = NONE] /\ subtask' = [subtask EXCEPT ![g] = @ + 1]
        /\ UNCHANGED <<subtasks_done, length>>
    BY <1>1, <1>3, <1>6 DEF CompleteSubtask, TypeOK
  <2>2. /\ step'[g] = NONE /\ subtask'[g] = subtask[g] + 1
        /\ \A f \in Eefs \ {g} : step'[f] = step[f] /\ subtask'[f] = subtask[f]
    BY <1>1, <2>1 DEF TypeOK
  <2>3. ~subtasks_done[g]
    BY <1>6 DEF TInv, Places, Place, LastSubtask
  <2>4. resume[g] # NONE => subtask[g] = Transit
    BY <1>4 DEF TInv, Places, Place
  <2>5. ASSUME NEW k \in Keys
        PROVE  /\ Passed(k)' <=> Passed(k) \/ k = Key(g)
               /\ IsAt(k)' <=> IsAt(k) /\ k # Key(g)
               /\ k = Key(g) => IsAt(k)
    <3>1. /\ k[1] \in Eefs /\ k = <<k[1], k[2]>> /\ k[2] \in Nat
      BY KeysOnly
    <3>2. CASE k[1] = g
      <4>1. ~IsAt(k)'
        BY <2>2, <3>2 DEF IsAt
      <4>2. IsAt(k) => k = Key(g)
        BY <3>1, <3>2 DEF IsAt, Key
      <4>3. k = Key(g) => IsAt(k)
        BY <1>4, <2>3, <3>2 DEF IsAt, Key
      <4>4. subtask[g] \in Int
        BY <1>1 DEF TypeOK
      <4>5. CASE resume[g] = NONE
        <5>1. Passed(k)' <=> subtask[g] + 1 > k[2]
          BY <1>2, <2>1, <2>2, <2>3, <3>2, <4>5 DEF Passed, Position
        <5>2. Passed(k) <=> subtask[g] > k[2]
          BY <2>3, <3>2, <4>5 DEF Passed, Position
        <5>3. k = Key(g) <=> subtask[g] = k[2]
          BY <3>1, <3>2 DEF Key
        <5>4. subtask[g] + 1 > k[2] <=> subtask[g] > k[2] \/ subtask[g] = k[2]
          BY <3>1, <4>4
        <5> QED
          BY <4>1, <4>2, <4>3, <5>1, <5>2, <5>3, <5>4
      <4>6. CASE resume[g] # NONE
        <5>1. Passed(k)' <=> Passed(k)
          BY <1>2, <2>1, <2>3, <3>2, <4>6 DEF Passed, Position
        <5>2. k # Key(g)
          BY <2>4, <3>1, <4>6 DEF Key, Transit
        <5> QED
          BY <4>1, <4>2, <4>3, <5>1, <5>2
      <4> QED
        BY <4>5, <4>6
    <3>3. CASE k[1] # g
      <4>1. k # Key(g)
        BY <3>3 DEF Key
      <4> QED
        BY <1>2, <2>1, <2>2, <3>1, <3>3, <4>1 DEF Passed, Position, IsAt
    <3> QED
      BY <3>2, <3>3
  <2> QED
    BY <1>4, <2>1, <2>2, <2>5
<1> QED
  BY <1>5, <1>6

\* The constraint of an end effector moves it nowhere.
LEMMA ConstrainView ==
    ASSUME TInv, NEW g \in Eefs, Constrain(g)
    PROVE  /\ step'[g] = ConstrainedStep(g) /\ ConstrainedStep(g) \in 0 .. step[g]
           /\ step[g] \in 0 .. length[g] - 1 /\ length' = length
           /\ \A f \in Eefs \ {g} : step'[f] = step[f]
           /\ \A k \in Keys : /\ Passed(k)' <=> Passed(k)
                              /\ IsAt(k)' <=> IsAt(k)
<1>1. /\ TypeOK /\ Turn("constrain", SortedOrder, g) /\ pass = "constrain"
      /\ step' = [step EXCEPT ![g] = ConstrainedStep(g)]
      /\ UNCHANGED <<inputs, subtask, length, resume, subtasks_done, nav, crash>>
  BY DEF Constrain, TInv, Turn
<1>2. step[g] \in 0 .. length[g] - 1 /\ ConstrainedStep(g) \in 0 .. step[g]
  BY <1>1, ConstrainedStepBounds
<1>3. step'[g] = ConstrainedStep(g) /\ \A f \in Eefs \ {g} : step'[f] = step[f]
  BY <1>1 DEF TypeOK
<1>4. step[g] # NONE /\ step'[g] # NONE
  BY <1>2, <1>3 DEF NONE
<1>5. ASSUME NEW k \in Keys PROVE (Passed(k)' <=> Passed(k)) /\ (IsAt(k)' <=> IsAt(k))
  <2>1. k[1] \in Eefs
    BY KeysOnly
  <2> QED
    BY <1>1, <1>3, <1>4, <2>1 DEF Passed, Position, IsAt
<1> QED
  BY <1>1, <1>2, <1>3, <1>5

\* Where nothing else happens everybody stays where he is.
LEMMA QuietView ==
    ASSUME UNCHANGED eefVars
    PROVE  \A k : (Passed(k)' <=> Passed(k)) /\ (IsAt(k)' <=> IsAt(k))
  BY DEF eefVars, Passed, Position, IsAt

\* The trajectory of a subtask that is not done yet is the one it began with, and a
\* coordinated subtask knows the steps it shares.
Lengths ==
    mode # "navigation" => \A k \in Keys : IsAt(k) => length[k[1]] = TrajectoryLength(k)
Measured ==
    mode # "navigation" =>
      \A k \in DOMAIN rules :
        rules[k].type = "coordination" /\ (IsAt(k) \/ resume[k[1]] = k[2]) =>
          rules[k].synchronous_steps = Shared(k)

\* Only with planned transitions is an end effector on its way to a subtask.
Direct == mode # "skillgen" => \A e \in Eefs : resume[e] = NONE

Base == TInv /\ Paired /\ Lengths /\ Measured /\ Direct

\* Nobody is at a subtask at first.
LEMMA BaseInit == Init => Base
<1> SUFFICES ASSUME Init PROVE Base
  OBVIOUS
<1>1. TInv /\ Paired
  BY TypesInit, PairedInit
<1>2. \A k \in Keys : ~IsAt(k) /\ resume[k[1]] # k[2]
  BY KeysOnly DEF Init, IsAt, NONE
<1>3. DOMAIN rules \subseteq Keys
  BY <1>1 DEF TInv, TypeOK
<1> QED
  BY <1>1, <1>2, <1>3 DEF Base, Lengths, Measured, Direct, Init

\* Every step keeps the lengths.
LEMMA LengthsNext == Base /\ [Next]_vars => Lengths'
<1> SUFFICES ASSUME Base, [Next]_vars, mode' # "navigation", NEW k \in Keys, IsAt(k)'
             PROVE  length'[k[1]] = TrajectoryLength(k)'
  BY DEF Lengths
<1>1. TInv /\ TypeOK /\ UNCHANGED inputs /\ mode # "navigation"
  BY RulesSame DEF Base, TInv, inputs
<1>2. IsAt(k) => length[k[1]] = TrajectoryLength(k)
  BY <1>1 DEF Base, Lengths
<1>3. TrajectoryLength(k)' = TrajectoryLength(k)
  BY <1>1 DEF TrajectoryLength, inputs
<1>4. k[1] \in Eefs
  BY KeysOnly
<1>5. CASE UNCHANGED eefVars
  BY <1>2, <1>3, <1>5, QuietView DEF eefVars
<1>6. ASSUME NEW g \in Eefs, BeginSubtask(g) \/ ResumeSubtask(g)
      PROVE  length'[k[1]] = TrajectoryLength(k)'
  BY <1>1, <1>2, <1>3, <1>4, <1>6, StartView
<1>7. ASSUME NEW g \in Eefs, Constrain(g) PROVE length'[k[1]] = TrajectoryLength(k)'
  BY <1>1, <1>2, <1>3, <1>7, ConstrainView
<1>8. ASSUME NEW g \in Eefs, AdvanceWithin(g) PROVE length'[k[1]] = TrajectoryLength(k)'
  BY <1>1, <1>2, <1>3, <1>8, WithinView
<1>9. ASSUME NEW g \in Eefs, CompleteSubtask(g) PROVE length'[k[1]] = TrajectoryLength(k)'
  <2>1. IsAt(k) /\ k # Key(g)
    BY <1>1, <1>9, CompleteView
  <2>2. k[1] # g
    BY <1>1, <2>1, AtFacts
  <2> QED
    BY <1>1, <1>2, <1>3, <1>4, <1>9, <2>1, <2>2, CompleteView
<1> QED
  BY <1>5, <1>6, <1>7, <1>8, <1>9
  DEF Next, StillExecuting, BeginSubtaskFails, PlanningFails, AdvanceFails,
      Raise, PlanDone, Execute, AdvanceDone, vars

\* Every step keeps what was measured.
LEMMA MeasuredNext == Base /\ [Next]_vars => Measured'
<1> SUFFICES ASSUME Base, [Next]_vars, mode' # "navigation", NEW k \in DOMAIN rules',
                    rules'[k].type = "coordination", IsAt(k)' \/ resume'[k[1]] = k[2]
             PROVE  rules'[k].synchronous_steps = Shared(k)'
  BY DEF Measured
<1>1. TInv /\ TypeOK /\ UNCHANGED inputs /\ mode # "navigation" /\ SameRules(rules, rules')
  BY RulesSame DEF Base, TInv, inputs
<1>2. k \in DOMAIN rules /\ rules[k].type = "coordination" /\ rules'[k].partner = rules[k].partner
  BY <1>1 DEF SameRules
<1>3. IsAt(k) \/ resume[k[1]] = k[2] => rules[k].synchronous_steps = Shared(k)
  BY <1>1, <1>2 DEF Base, Measured
<1>4. Shared(k)' = Shared(k)
  BY <1>1, <1>2 DEF Shared, inputs
<1>5. k \in Keys /\ k[1] \in Eefs /\ k = <<k[1], k[2]>> /\ k[2] # NONE
  <2>1. k \in Keys
    BY <1>1, <1>2 DEF TypeOK
  <2> QED
    BY <2>1, KeysOnly DEF NONE
<1>6. CASE UNCHANGED <<rules, eefVars>>
  BY <1>3, <1>4, <1>6, QuietView DEF eefVars
<1>7. ASSUME NEW g \in Eefs, PlanningFails(g)
      PROVE  rules'[k].synchronous_steps = Shared(k)'
  <2>1. rules' = MeasuredRules(g) /\ UNCHANGED eefVars
    BY <1>7 DEF PlanningFails
  <2>2. IsAt(k) \/ resume[k[1]] = k[2]
    BY <2>1, QuietView DEF eefVars
  <2> QED
    BY <1>1, <1>2, <1>3, <1>4, <2>1, <2>2, MeasuredSame
<1>8. ASSUME NEW g \in Eefs, BeginSubtask(g) PROVE rules'[k].synchronous_steps = Shared(k)'
  <2>1. rules' = MeasuredRules(g) /\ resume[g] = NONE
    BY <1>8 DEF BeginSubtask
  <2>2. CASE k = Key(g)
    BY <1>1, <1>2, <1>4, <2>1, <2>2, MeasuredSame
  <2>3. CASE k # Key(g)
    <3>1. IsAt(k)' => IsAt(k)
      BY <1>1, <1>5, <1>8, <2>1, <2>3, StartView
    <3>2. resume'[k[1]] = k[2] => resume[k[1]] = k[2]
      <4>1. \/ UNCHANGED resume
            \/ resume' = [resume EXCEPT ![g] = subtask[g]]
        BY <1>8 DEF BeginSubtask
      <4>2. k[1] = g => k[2] # subtask[g]
        BY <1>5, <2>3 DEF Key
      <4> QED
        BY <1>1, <1>5, <4>1, <4>2 DEF TypeOK
    <3> QED
      BY <1>1, <1>2, <1>3, <1>4, <2>1, <2>3, <3>1, <3>2, MeasuredSame
  <2> QED
    BY <2>2, <2>3
<1>9. ASSUME NEW g \in Eefs, ResumeSubtask(g) PROVE rules'[k].synchronous_steps = Shared(k)'
  <2>1. rules' = rules /\ resume' = [resume EXCEPT ![g] = NONE] /\ resume[g] # NONE
    BY <1>9 DEF ResumeSubtask
  <2>2. IsAt(k)' => IsAt(k) \/ resume[k[1]] = k[2]
    BY <1>1, <1>5, <1>9, <2>1, StartView
  <2>3. resume'[k[1]] = k[2] => resume[k[1]] = k[2]
    BY <1>1, <1>5, <2>1 DEF TypeOK
  <2> QED
    BY <1>3, <1>4, <2>1, <2>2, <2>3
<1>10. ASSUME NEW g \in Eefs, Constrain(g) PROVE rules'[k].synchronous_steps = Shared(k)'
  <2>1. IsAt(k) \/ resume[k[1]] = k[2]
    BY <1>1, <1>5, <1>10, ConstrainView DEF Constrain
  <2> QED
    BY <1>1, <1>2, <1>3, <1>4, <1>10, <2>1, ConstrainSame
<1>11. ASSUME NEW g \in Eefs, AdvanceWithin(g) PROVE rules'[k].synchronous_steps = Shared(k)'
  BY <1>1, <1>3, <1>4, <1>5, <1>11, WithinView DEF AdvanceWithin
<1>12. ASSUME NEW g \in Eefs, CompleteSubtask(g) PROVE rules'[k].synchronous_steps = Shared(k)'
  <2>1. IsAt(k) \/ resume[k[1]] = k[2]
    BY <1>1, <1>5, <1>12, CompleteView DEF CompleteSubtask
  <2>2. rules' = Reported(g)
    BY <1>12 DEF CompleteSubtask
  <2> QED
    BY <1>1, <1>2, <1>3, <1>4, <2>1, <2>2, ReportedSame
<1> QED
  BY <1>6, <1>7, <1>8, <1>9, <1>10, <1>11, <1>12
  DEF Next, StillExecuting, BeginSubtaskFails, AdvanceFails, Raise, PlanDone, Execute,
      AdvanceDone, vars

\* Every step keeps who is on his way.
LEMMA DirectNext == Base /\ [Next]_vars => Direct'
<1> SUFFICES ASSUME Base, [Next]_vars, mode' # "skillgen", NEW e \in Eefs
             PROVE  resume'[e] = NONE
  BY DEF Direct
<1>1. mode # "skillgen" /\ resume[e] = NONE /\ TypeOK
  BY RulesSame DEF Base, Direct, TInv, inputs
<1>2. ASSUME NEW g \in Eefs, BeginSubtask(g) \/ ResumeSubtask(g) PROVE resume'[e] = NONE
  BY <1>1, <1>2 DEF BeginSubtask, ResumeSubtask, TypeOK
<1> QED
  BY <1>1, <1>2
  DEF Next, StillExecuting, BeginSubtaskFails, PlanningFails, Constrain, AdvanceWithin,
      CompleteSubtask, AdvanceFails, Raise, PlanDone, Execute, AdvanceDone, vars, eefVars

\* Every step keeps all of these.
LEMMA BaseNext == Base /\ [Next]_vars => Base'
  BY TypesNext, PairedNext, LengthsNext, MeasuredNext, DirectNext DEF Base, TInv

(***************************************************************************)
(* Sequential subtasks                                                     *)
(***************************************************************************)
Simple == OneConstraintPerSubtask /\ mode # "navigation" /\ Running

\* An attempt to which this applies now was one before.
LEMMA SimpleBefore ==
    ASSUME TypeOK, [Next]_vars, Simple'
    PROVE  Simple
<1>1. UNCHANGED inputs
  BY RulesSame
<1>2. Running
  BY DEF Simple, Running, Next, StillExecuting, BeginSubtask, BeginSubtaskFails, ResumeSubtask,
         PlanningFails, Constrain, AdvanceWithin, CompleteSubtask, AdvanceFails, Turn,
         Raise, PlanDone, Execute, AdvanceDone, Over, vars
<1> QED
  BY <1>1, <1>2 DEF Simple, OneConstraintPerSubtask, inputs

\* one, when the constraint of this iteration has been applied
Had(e) == IF Constrained(e) THEN 1 ELSE 0

\* A latter subtask that min_time_diff holds back, and the step where it waits.
Waits(k) == MayWait(k) /\ (rules[k].min_time_diff = -1 \/ rules[k].min_time_diff > 0)
Limit(k) ==
    LET kept == rules[k].min_time_diff
    IN IF kept = -1 \/ kept >= TrajectoryLength(k) THEN 1 ELSE TrajectoryLength(k) - kept

LatterInv ==
    Simple =>
      \A k \in DOMAIN rules : rules[k].type = "latter" =>
        /\ rules[k].fulfilled <=> Passed(rules[k].partner)
        /\ ~rules[k].fulfilled /\ Waits(k) =>
             ~Passed(k) /\ (IsAt(k) => step[k[1]] <= Limit(k) - Had(k[1]))

\* The step where it waits is not the last one.
LEMMA LimitFacts ==
    ASSUME TypeOK, NEW k \in DOMAIN rules, Waits(k)
    PROVE  Limit(k) \in Nat /\ 1 <= Limit(k) /\ Limit(k) <= TrajectoryLength(k) - 1
<1>1. k \in Keys /\ rules[k].min_time_diff \in Int
  BY DEF TypeOK, RuleRecord
<1>2. TrajectoryLength(k) \in Nat /\ TrajectoryLength(k) > 1
  BY <1>1, LengthType DEF Waits, MayWait
<1> QED
  BY <1>1, <1>2 DEF Waits, Limit

\* A constraint holds an unreleased latter subtask back.
LEMMA PrecedesHolds ==
    ASSUME Base, NEW k \in DOMAIN rules, rules[k].type = "latter", ~rules[k].fulfilled,
           Waits(k), IsAt(k), mode # "navigation",
           step[k[1]] \in Nat, step[k[1]] <= Limit(k)
    PROVE  ConstrainedStep(k[1]) <= Limit(k) - 1
<1> DEFINE e == k[1]  kept == rules[k].min_time_diff  L == TrajectoryLength(k)
<1>1. TInv /\ TypeOK /\ k \in Keys /\ kept \in Int
  BY DEF Base, TInv, TypeOK, RuleRecord
<1>2. Key(e) = k /\ length[e] = L /\ L \in Nat
  BY <1>1, AtFacts, LengthType DEF Base, Lengths
<1>3. HasRule(e) /\ Is(e, "latter") /\ ~Is(e, "coordination")
  BY <1>2 DEF HasRule, Is
<1>4. ~AwaitsStart(e) /\ ~AtRendezvous(e)
  BY <1>3 DEF AwaitsStart, AtRendezvous
<1>5. Precedes(e) <=> kept = -1 \/ step[e] >= L - kept
  BY <1>2, <1>3 DEF Precedes
<1>6. Limit(k) = IF kept = -1 \/ kept >= L THEN 1 ELSE L - kept
  BY DEF Limit
<1>7. Limit(k) \in Nat /\ 1 <= Limit(k)
  BY <1>1, LimitFacts
<1>8. CASE Precedes(e)
  <2>1. ConstrainedStep(e) = Back(step[e])
    BY <1>4, <1>8 DEF ConstrainedStep
  <2> QED
    BY <1>7, <2>1 DEF Back
<1>9. CASE ~Precedes(e)
  <2>1. ConstrainedStep(e) = step[e]
    BY <1>4, <1>9 DEF ConstrainedStep
  <2>2. kept # -1 /\ step[e] < L - kept
    BY <1>1, <1>2, <1>5, <1>9
  <2> QED
    BY <1>1, <1>2, <1>6, <2>1, <2>2
<1> QED
  BY <1>8, <1>9

\* Who was released, and by whom.
LEMMA LatterReleased ==
    ASSUME Base, [Next]_vars, Simple, NEW k \in DOMAIN rules, rules[k].type = "latter",
           NEW p, p = rules[k].partner, rules[k].fulfilled <=> Passed(p)
    PROVE  rules'[k].fulfilled <=> Passed(p)'
<1>1. TInv /\ TypeOK /\ p \in DOMAIN rules /\ p \in Keys /\ mode # "navigation"
  BY DEF Base, TInv, TypeOK, Simple
<1>2. rules[p].partner = k /\ rules[p].type = "former"
  BY DEF Base, Paired, Simple, Opposite
<1>3. CASE UNCHANGED <<rules, eefVars>>
  BY <1>3, QuietView
<1>4. ASSUME NEW g \in Eefs, BeginSubtask(g) \/ ResumeSubtask(g)
      PROVE  rules'[k].fulfilled <=> Passed(p)'
  <2>1. Passed(p)' <=> Passed(p)
    BY <1>1, <1>4, StartView
  <2>2. rules'[k].fulfilled = rules[k].fulfilled
    BY <1>1, <1>4, MeasuredSame DEF BeginSubtask, ResumeSubtask
  <2> QED
    BY <2>1, <2>2
<1>5. ASSUME NEW g \in Eefs, PlanningFails(g) PROVE rules'[k].fulfilled <=> Passed(p)'
  BY <1>1, <1>5, MeasuredSame, QuietView DEF PlanningFails
<1>6. ASSUME NEW g \in Eefs, Constrain(g) PROVE rules'[k].fulfilled <=> Passed(p)'
  <2>1. Passed(p)' <=> Passed(p)
    BY <1>1, <1>6, ConstrainView
  <2>2. ~(AtRendezvous(g) /\ k = Partner(g))
    <3>1. ASSUME AtRendezvous(g), k = Partner(g) PROVE FALSE
      <4>1. Key(g) \in DOMAIN rules /\ rules[Key(g)].type = "coordination"
        BY <3>1 DEF AtRendezvous, Is, HasRule
      <4>2. rules[k].type = "coordination"
        BY <3>1, <4>1 DEF Base, Paired, Simple, Partner, Opposite
      <4> QED
        BY <4>2
    <3> QED
      BY <3>1
  <2> QED
    BY <1>1, <1>6, <2>1, <2>2, ConstrainSame
<1>7. ASSUME NEW g \in Eefs, AdvanceWithin(g) PROVE rules'[k].fulfilled <=> Passed(p)'
  BY <1>1, <1>7, WithinView DEF AdvanceWithin
<1>8. ASSUME NEW g \in Eefs, CompleteSubtask(g) PROVE rules'[k].fulfilled <=> Passed(p)'
  <2>1. Passed(p)' <=> Passed(p) \/ p = Key(g)
    BY <1>1, <1>8, CompleteView
  <2>2. rules'[k].fulfilled <=> rules[k].fulfilled \/ (Is(g, "former") /\ k = Partner(g))
    BY <1>1, <1>8, ReportedSame DEF CompleteSubtask
  <2>3. ASSUME Is(g, "former"), k = Partner(g) PROVE p = Key(g)
    BY <2>3 DEF Base, Paired, Simple, Is, HasRule, Partner
  <2>4. ASSUME p = Key(g) PROVE Is(g, "former") /\ k = Partner(g)
    BY <1>1, <1>2, <2>4 DEF Is, HasRule, Partner
  <2> QED
    BY <2>1, <2>2, <2>3, <2>4
<1> QED
  BY <1>3, <1>4, <1>5, <1>6, <1>7, <1>8
  DEF Next, StillExecuting, BeginSubtaskFails, AdvanceFails, Raise, PlanDone, Execute,
      AdvanceDone, vars

\* Nobody has his turn and was constrained before in the passes that change Had.
LEMMA HadQuiet ==
    ASSUME TypeOK, NEW e \in Eefs,
           \/ PlanDone \/ Execute \/ AdvanceDone
           \/ \E g \in Eefs : StillExecuting(g) \/ BeginSubtask(g) \/ ResumeSubtask(g)
    PROVE  Had(e)' = Had(e)
<1>1. CASE PlanDone
  BY <1>1, PlanOver DEF Had
<1>2. CASE Execute
  BY <1>2, ConstrainOver DEF Had
<1>3. CASE AdvanceDone
  BY <1>3, AdvanceOver DEF Had
<1>4. ASSUME NEW g \in Eefs, StillExecuting(g) \/ BeginSubtask(g) \/ ResumeSubtask(g)
      PROVE  Had(e)' = Had(e)
  <2>1. Turn("plan", key_order, g) /\ NextTurn /\ UNCHANGED key_order
    BY <1>4 DEF StillExecuting, BeginSubtask, ResumeSubtask, inputs
  <2> QED
    BY <2>1, PlanTurn DEF Had
<1> QED
  BY <1>1, <1>2, <1>3, <1>4

\* A turn of the pass constrain, or advance.
LEMMA HadTurn ==
    ASSUME TypeOK, NEW g \in Eefs, NEW e \in Eefs
    PROVE  /\ Constrain(g) => Had(e)' = IF e = g THEN 1 ELSE Had(e)
           /\ AdvanceWithin(g) \/ CompleteSubtask(g) =>
                Had(g) = 1 /\ Had(e)' = IF e = g THEN 0 ELSE Had(e)
<1>1. ASSUME Constrain(g) PROVE Had(e)' = IF e = g THEN 1 ELSE Had(e)
  <2>1. Turn("constrain", SortedOrder, g) /\ NextTurn /\ UNCHANGED key_order
    BY <1>1 DEF Constrain, inputs
  <2> QED
    BY <2>1, ConstrainTurn DEF Had
<1>2. ASSUME AdvanceWithin(g) \/ CompleteSubtask(g)
      PROVE  Had(g) = 1 /\ Had(e)' = IF e = g THEN 0 ELSE Had(e)
  <2>1. Turn("advance", key_order, g) /\ NextTurn /\ UNCHANGED key_order
    BY <1>2 DEF AdvanceWithin, CompleteSubtask, inputs
  <2> QED
    BY <2>1, AdvanceTurn DEF Had
<1> QED
  BY <1>1, <1>2

\* Until it is released a latter subtask waits: it is not through.
LEMMA LatterHeld ==
    ASSUME Base, [Next]_vars, Simple, Simple', NEW k \in DOMAIN rules,
           rules[k].type = "latter", ~rules[k].fulfilled, ~rules'[k].fulfilled, Waits(k),
           ~Passed(k), IsAt(k) => step[k[1]] <= Limit(k) - Had(k[1])
    PROVE  ~Passed(k)' /\ (IsAt(k)' => step'[k[1]] <= Limit(k) - Had(k[1])')
<1>1. TInv /\ TypeOK /\ k \in Keys /\ mode # "navigation" /\ k[1] \in Eefs
  BY KeysOnly DEF Base, TInv, TypeOK, Simple
<1>2. Limit(k) \in Nat /\ 1 <= Limit(k) /\ Limit(k) <= TrajectoryLength(k) - 1
  BY <1>1, LimitFacts
<1>3. Had(k[1]) \in {0, 1}
  BY DEF Had
<1>4. IsAt(k) => step[k[1]] \in Nat /\ length[k[1]] = TrajectoryLength(k)
  BY <1>1, AtFacts DEF Base, Lengths, Simple
<1>5. CASE /\ UNCHANGED eefVars
           /\ \/ PlanDone \/ Execute \/ AdvanceDone \/ UNCHANGED vars
              \/ \E g \in Eefs : StillExecuting(g)
  <2>1. Had(k[1])' = Had(k[1])
    <3>1. CASE UNCHANGED vars
      BY <3>1 DEF vars, inputs, Had, Constrained
    <3> QED
      BY <1>1, <1>5, <3>1, HadQuiet
  <2> QED
    BY <1>5, <2>1, QuietView DEF eefVars
<1>6. ASSUME NEW g \in Eefs, BeginSubtask(g) \/ ResumeSubtask(g)
      PROVE  ~Passed(k)' /\ (IsAt(k)' => step'[k[1]] <= Limit(k) - Had(k[1])')
  <2>1. Had(k[1])' = Had(k[1])
    BY <1>1, <1>6, HadQuiet
  <2>2. Had(k[1]) = 0
    <3>1. Turn("plan", key_order, g)
      BY <1>6 DEF BeginSubtask, ResumeSubtask
    <3> QED
      BY <3>1 DEF Turn, Had, Constrained
  <2>3. ~Passed(k)'
    BY <1>1, <1>6, StartView
  <2>4. ASSUME IsAt(k)' PROVE step'[k[1]] <= Limit(k)
    <3>1. CASE k[1] = g
      BY <1>1, <1>2, <1>6, <3>1, StartView
    <3>2. CASE k[1] # g
      BY <1>1, <1>2, <1>6, <2>2, <2>4, <3>2, <1>4, StartView
    <3> QED
      BY <3>1, <3>2
  <2> QED
    BY <1>2, <2>1, <2>2, <2>3, <2>4
<1>7. ASSUME NEW g \in Eefs, Constrain(g)
      PROVE  ~Passed(k)' /\ (IsAt(k)' => step'[k[1]] <= Limit(k) - Had(k[1])')
  <2>1. Had(k[1])' = IF k[1] = g THEN 1 ELSE Had(k[1])
    BY <1>1, <1>7, HadTurn
  <2>2. ~Passed(k)' /\ (IsAt(k)' <=> IsAt(k))
    BY <1>1, <1>7, ConstrainView
  <2>3. CASE k[1] = g /\ IsAt(k)
    <3>1. ConstrainedStep(g) <= Limit(k) - 1
      <4>1. step[k[1]] \in Nat /\ step[k[1]] <= Limit(k)
        BY <1>2, <1>3, <1>4, <2>3
      <4> QED
        BY <1>1, <2>3, <4>1, PrecedesHolds
    <3>2. step'[g] = ConstrainedStep(g)
      BY <1>1, <1>7, ConstrainView
    <3> QED
      BY <2>1, <2>2, <2>3, <3>1, <3>2
  <2>4. CASE k[1] # g
    BY <1>1, <1>7, <2>1, <2>2, <2>4, ConstrainView
  <2> QED
    BY <2>2, <2>3, <2>4
<1>8. ASSUME NEW g \in Eefs, AdvanceWithin(g)
      PROVE  ~Passed(k)' /\ (IsAt(k)' => step'[k[1]] <= Limit(k) - Had(k[1])')
  <2>1. Had(g) = 1 /\ Had(k[1])' = IF k[1] = g THEN 0 ELSE Had(k[1])
    BY <1>1, <1>8, HadTurn
  <2>2. ~Passed(k)' /\ (IsAt(k)' <=> IsAt(k))
    BY <1>1, <1>8, WithinView
  <2>3. CASE k[1] = g
    BY <1>1, <1>2, <1>4, <1>8, <2>1, <2>2, <2>3, WithinView
  <2>4. CASE k[1] # g
    BY <1>1, <1>8, <2>1, <2>2, <2>4, WithinView
  <2> QED
    BY <2>3, <2>4
<1>9. ASSUME NEW g \in Eefs, CompleteSubtask(g)
      PROVE  ~Passed(k)' /\ (IsAt(k)' => step'[k[1]] <= Limit(k) - Had(k[1])')
  <2>1. Had(g) = 1 /\ Had(k[1])' = IF k[1] = g THEN 0 ELSE Had(k[1])
    BY <1>1, <1>9, HadTurn
  <2>2. k # Key(g)
    <3>1. ASSUME k = Key(g) PROVE FALSE
      <4>1. k[1] = g
        BY <3>1 DEF Key
      <4>2. IsAt(k)
        <5>1. ~subtasks_done[g]
          BY <4>1 DEF Passed
        <5> QED
          BY <1>1, <1>9, <3>1, <5>1, CompleteView
      <4>3. step[g] = length[g] - 1 /\ step[g] <= Limit(k) - 1
        BY <1>1, <1>9, <2>1, <4>1, <4>2, CompleteView
      <4> QED
        BY <1>2, <1>4, <4>1, <4>2, <4>3
    <3> QED
      BY <3>1
  <2>3. ~Passed(k)' /\ (IsAt(k)' <=> IsAt(k))
    BY <1>1, <1>9, <2>2, CompleteView
  <2>4. IsAt(k) => k[1] # g
    BY <1>1, <2>2, AtFacts
  <2> QED
    BY <1>1, <1>9, <2>1, <2>3, <2>4, CompleteView
<1> QED
  BY <1>5, <1>6, <1>7, <1>8, <1>9
  DEF Next, StillExecuting, BeginSubtaskFails, PlanningFails, AdvanceFails, Raise, PlanDone,
      Execute, AdvanceDone, vars, Simple, Running

\* The initial rules release nobody.
LEMMA LatterInit == Init => LatterInv
<1> SUFFICES ASSUME Init, NEW k \in DOMAIN rules, rules[k].type = "latter"
             PROVE  /\ rules[k].fulfilled <=> Passed(rules[k].partner)
                    /\ ~Passed(k) /\ ~IsAt(k)
  BY DEF LatterInv
<1>1. /\ TypeOK /\ k \in Keys /\ rules[k].partner \in Keys /\ ~rules[k].fulfilled
  BY TypesInit, InitialRulesType DEF TInv, TypeOK, Init
<1>2. ASSUME NEW c \in Keys PROVE ~Passed(c) /\ ~IsAt(c)
  BY KeysOnly DEF Init, Passed, Position, IsAt
<1> QED
  BY <1>1, <1>2

\* Every step keeps the sequential constraints.
LEMMA LatterNext == Base /\ LatterInv /\ [Next]_vars => LatterInv'
<1> SUFFICES ASSUME Base, LatterInv, [Next]_vars, Simple', NEW k \in DOMAIN rules',
                    rules'[k].type = "latter"
             PROVE  /\ rules'[k].fulfilled <=> Passed(rules[k].partner)'
                    /\ ~rules'[k].fulfilled /\ Waits(k)' =>
                         ~Passed(k)' /\ (IsAt(k)' => step'[k[1]] <= Limit(k)' - Had(k[1])')
  BY DEF LatterInv
<1>1. TInv /\ TypeOK /\ UNCHANGED inputs /\ Simple /\ SameRules(rules, rules')
  BY RulesSame, SimpleBefore DEF Base, TInv
<1>2. /\ k \in DOMAIN rules /\ rules[k].type = "latter"
      /\ rules'[k].partner = rules[k].partner
      /\ rules'[k].min_time_diff = rules[k].min_time_diff
  BY <1>1 DEF SameRules
<1>3. (Waits(k)' <=> Waits(k)) /\ Limit(k)' = Limit(k)
  BY <1>1, <1>2 DEF Waits, MayWait, Limit, TrajectoryLength, inputs
<1>4. PICK p : p = rules[k].partner
  OBVIOUS
<1>5. rules[k].fulfilled <=> Passed(p)
  BY <1>1, <1>2, <1>4 DEF LatterInv
<1>6. rules'[k].fulfilled <=> Passed(p)'
  BY <1>1, <1>2, <1>4, <1>5, LatterReleased
<1>7. ~rules'[k].fulfilled => ~rules[k].fulfilled
  <2>1. p \in Keys
    BY <1>1, <1>2, <1>4 DEF TypeOK
  <2>2. Passed(p) => Passed(p)'
    BY <1>1, <2>1, StartView, ConstrainView, WithinView, CompleteView, QuietView
    DEF Next, StillExecuting, BeginSubtaskFails, PlanningFails, AdvanceFails, Raise,
        PlanDone, Execute, AdvanceDone, vars, Simple
  <2> QED
    BY <1>5, <1>6, <2>2
<1>8. ASSUME ~rules'[k].fulfilled, Waits(k)
      PROVE  ~Passed(k)' /\ (IsAt(k)' => step'[k[1]] <= Limit(k) - Had(k[1])')
  <2>1. ~Passed(k) /\ (IsAt(k) => step[k[1]] <= Limit(k) - Had(k[1]))
    BY <1>1, <1>2, <1>7, <1>8 DEF LatterInv
  <2> QED
    BY <1>1, <1>2, <1>7, <1>8, <2>1, LatterHeld
<1>9. Passed(rules[k].partner)' <=> Passed(p)'
  BY <1>2, <1>4
<1> QED
  BY <1>3, <1>6, <1>8, <1>9

\* LatterHeldBack, for any end effectors, subtasks, constraints and lengths: a latter
\* subtask is released by its former one alone, and keeps min_time_diff steps till then.
THEOREM LatterAlwaysHeldBack == Spec => []LatterHeldBack
<1>1. Init => Base /\ LatterInv
  BY BaseInit, LatterInit
<1>2. Base /\ LatterInv /\ [Next]_vars => (Base /\ LatterInv)'
  BY BaseNext, LatterNext
<1>3. Base /\ LatterInv => LatterHeldBack
  <2> SUFFICES ASSUME Base, LatterInv, OneConstraintPerSubtask, pass = "plan",
                      mode # "navigation", NEW k \in DOMAIN rules, rules[k].type = "latter"
               PROVE  LET all == length[k[1]] - 1
                          kept == rules[k].min_time_diff
                      IN /\ rules[k].fulfilled = Passed(rules[k].partner)
                         /\ ~rules[k].fulfilled /\ MayWait(k) /\ (kept = -1 \/ kept > 0) =>
                              /\ ~Passed(k)
                              /\ IsAt(k) => Remaining(k) >=
                                              IF kept = -1 \/ kept > all THEN all ELSE kept
    BY DEF LatterHeldBack
  <2>1. Simple /\ TInv /\ TypeOK /\ k \in Keys
    BY DEF Simple, Running, Base, TInv, TypeOK
  <2>2. rules[k].fulfilled <=> Passed(rules[k].partner)
    BY <2>1 DEF LatterInv
  <2>3. rules[k].fulfilled \in BOOLEAN /\ Passed(rules[k].partner) \in BOOLEAN
    <3>1. rules[k].partner[1] \in Eefs
      BY <2>1, KeysOnly DEF TypeOK
    <3> QED
      BY <2>1, <3>1 DEF TypeOK, RuleRecord, Passed
  <2>4. ASSUME ~rules[k].fulfilled, Waits(k)
        PROVE  /\ ~Passed(k)
               /\ IsAt(k) => Remaining(k) >=
                    IF rules[k].min_time_diff = -1 \/ rules[k].min_time_diff > length[k[1]] - 1
                      THEN length[k[1]] - 1 ELSE rules[k].min_time_diff
    <3>1. ~Passed(k) /\ (IsAt(k) => step[k[1]] <= Limit(k))
      <4>1. Had(k[1]) = 0
        BY DEF Had, Constrained
      <4>2. ~Passed(k) /\ (IsAt(k) => step[k[1]] <= Limit(k) - 0)
        BY <2>1, <2>4, <4>1 DEF LatterInv
      <4> QED
        BY <2>1, <2>4, <4>2, LimitFacts
    <3>2. ASSUME IsAt(k)
          PROVE  Remaining(k) >=
                    IF rules[k].min_time_diff = -1 \/ rules[k].min_time_diff > length[k[1]] - 1
                      THEN length[k[1]] - 1 ELSE rules[k].min_time_diff
      <4>1. step[k[1]] \in Nat /\ length[k[1]] = TrajectoryLength(k) /\ length[k[1]] \in Nat
        BY <2>1, <3>2, AtFacts DEF Base, Lengths, Running
      <4>2. step[k[1]] <= Limit(k) /\ rules[k].min_time_diff \in Int
        BY <2>1, <3>1, <3>2 DEF TypeOK, RuleRecord
      <4> QED
        BY <4>1, <4>2 DEF Remaining, Limit
    <3> QED
      BY <3>1, <3>2
  <2> QED
    BY <2>2, <2>3, <2>4 DEF Waits
<1> QED
  BY <1>1, <1>2, <1>3, PTL DEF Spec

(***************************************************************************)
(* Coordinated subtasks                                                    *)
(***************************************************************************)
\* the step at which a coordinated subtask meets its partner, the one at which it
\* waits for it, and how many steps it has left
Meeting(k) == TrajectoryLength(k) - Shared(k)
Wait(k) == IF Meeting(k) = 0 THEN 1 ELSE Meeting(k)
Left(e) ==
    length[e] - step[e] + (IF pass = "advance" /\ Past(key_order, turn, e) THEN 1 ELSE 0)

\* The constraints are applied to e first.
Earlier(e, f) ==
    \E i, j \in 1 .. Len(SortedOrder) : i < j /\ SortedOrder[i] = e /\ SortedOrder[j] = f

\* k is coordinated with p, and both may be held back.
Couple(k, p) ==
    /\ k \in DOMAIN rules /\ rules[k].type = "coordination" /\ rules[k].partner = p
    /\ MayWait(k) /\ MayWait(p)

Both(k, p) == rules[k].fulfilled /\ rules[p].fulfilled

\* Nobody is released before the partner is there, or through before both are released.
Status(k, p) ==
    /\ rules[k].finished <=> Passed(k)
    /\ rules[k].fulfilled => IsAt(p) \/ Passed(p)
    /\ Passed(k) => Both(k, p)

\* Until both are released neither gets past the step where it waits.
Held(k, p) == IsAt(k) /\ ~Both(k, p) => step[k[1]] <= Wait(k) - Had(k[1])

\* Who released the partner waits for it.
Awaits(k, p) ==
    rules[p].fulfilled /\ ~rules[k].fulfilled =>
      /\ IsAt(k) /\ step[k[1]] = Wait(k) - Had(k[1])
      /\ rules[k].sync_start => IsAt(p)

\* With a synchronized start neither gets past its first step alone.
Started(k, p) ==
    rules[k].sync_start /\ IsAt(k) /\ step[k[1]] > 1 - Had(k[1]) => IsAt(p) \/ Passed(p)

\* A subtask that meets its partner at once releases it with its first constraint after
\* the partner has begun.
Prompt(k, p) ==
    IsAt(k) /\ IsAt(p) /\ Meeting(p) = 0 /\ ~rules[k].fulfilled =>
      /\ ~Constrained(p[1])
      /\ step[p[1]] > 0 => step[k[1]] = 0 /\ pass # "advance" /\ Planned(k[1])
Fresh(k, p) ==
    /\ rules[p].fulfilled /\ ~rules[k].fulfilled /\ IsAt(p)
    /\ Meeting(p) = 0 /\ Meeting(k) > 0
    => step[p[1]] = 0

\* Once both are released they have as many steps left, or one more is left to the one
\* that is constrained first.
SideBySide(k, p) ==
    IsAt(k) /\ IsAt(p) /\ Both(k, p) /\ Earlier(k[1], p[1]) =>
      Left(p[1]) <= Left(k[1]) /\ Left(k[1]) <= Left(p[1]) + 1

\* When one is through the other is at its last step.
LastStep(k, p) ==
    /\ Passed(k) /\ ~Passed(p)
    /\ mode = "plain" \/ (subtasks_done[k[1]] /\ subtask[k[1]] = k[2])
    => step[p[1]] = length[p[1]] - 1

Duo(k, p) ==
    /\ Status(k, p) /\ Held(k, p) /\ Awaits(k, p) /\ Started(k, p)
    /\ Prompt(k, p) /\ Fresh(k, p) /\ SideBySide(k, p) /\ LastStep(k, p)

Together == Simple => \A k, p \in Keys : Couple(k, p) => Duo(k, p)

\* A couple is one both ways, and meets before the last step of either.
LEMMA CoupleFacts ==
    ASSUME Base, Simple, NEW k \in Keys, NEW p \in Keys, Couple(k, p)
    PROVE  /\ Couple(p, k) /\ k[1] \in Eefs /\ p[1] \in Eefs /\ k[1] # p[1]
           /\ rules[p].sync_start = rules[k].sync_start
           /\ Shared(k) \in Nat \ {0} /\ Shared(p) = Shared(k)
           /\ TrajectoryLength(k) \in Nat /\ TrajectoryLength(p) \in Nat
           /\ Meeting(k) \in 0 .. TrajectoryLength(k) - 1
           /\ Meeting(p) \in 0 .. TrajectoryLength(p) - 1
           /\ Wait(k) \in 1 .. TrajectoryLength(k) - 1
           /\ Wait(p) \in 1 .. TrajectoryLength(p) - 1
<1>1. TypeOK /\ k[1] \in Eefs /\ p[1] \in Eefs
  BY KeysOnly DEF Base, TInv
<1>2. /\ rules[p].partner = k /\ rules[p].type = "coordination" /\ p[1] # k[1]
      /\ rules[p].sync_start = rules[k].sync_start /\ p \in DOMAIN rules
  BY <1>1 DEF Base, Paired, Simple, Couple, Opposite, TypeOK
<1>3. Couple(p, k) /\ rules[k].partner = p
  BY <1>2 DEF Couple
<1>4. /\ segment[k] \in Nat \ {0} /\ segment[p] \in Nat \ {0}
      /\ TrajectoryLength(k) \in Nat /\ TrajectoryLength(k) >= segment[k]
      /\ TrajectoryLength(p) \in Nat /\ TrajectoryLength(p) >= segment[p]
      /\ TrajectoryLength(k) > 1 /\ TrajectoryLength(p) > 1
  BY <1>1, LengthType DEF Couple, MayWait
<1>5. Shared(k) \in Nat \ {0} /\ Shared(p) = Shared(k) /\ Shared(k) <= segment[k]
      /\ Shared(k) <= segment[p]
  BY <1>2, <1>3, <1>4 DEF Shared
<1>6. /\ Meeting(k) \in 0 .. TrajectoryLength(k) - 1
      /\ Meeting(p) \in 0 .. TrajectoryLength(p) - 1
  BY <1>4, <1>5 DEF Meeting
<1>7. /\ Wait(k) \in 1 .. TrajectoryLength(k) - 1
      /\ Wait(p) \in 1 .. TrajectoryLength(p) - 1
  BY <1>4, <1>6 DEF Wait
<1> QED
  BY <1>1, <1>2, <1>3, <1>4, <1>5, <1>6, <1>7

\* What the inputs and the parameters of the rules say of a couple stays as it is.
LEMMA CoupleSame ==
    ASSUME SameRules(rules, rules'), UNCHANGED inputs, TypeOK, NEW k \in DOMAIN rules
    PROVE  /\ rules'[k].sync_start = rules[k].sync_start
           /\ Meeting(k)' = Meeting(k) /\ Wait(k)' = Wait(k)
<1>1. rules'[k].partner = rules[k].partner /\ rules'[k].sync_start = rules[k].sync_start
  BY DEF SameRules
<1>2. Shared(k)' = Shared(k) /\ TrajectoryLength(k)' = TrajectoryLength(k)
  BY <1>1 DEF Shared, TrajectoryLength, inputs
<1> QED
  BY <1>1, <1>2 DEF Meeting, Wait

\* When the constraints have been applied nobody who meets his partner at once has
\* failed to release it.
LEMMA PromptOver ==
    ASSUME Base, Simple, NEW k \in Keys, NEW p \in Keys, Couple(k, p), Duo(k, p),
           pass = "advance"
    PROVE  ~(IsAt(k) /\ IsAt(p) /\ Meeting(p) = 0 /\ ~rules[k].fulfilled)
<1> SUFFICES ASSUME IsAt(k), IsAt(p), Meeting(p) = 0, ~rules[k].fulfilled PROVE FALSE
  OBVIOUS
<1>1. TInv /\ TypeOK /\ p[1] \in Eefs /\ mode # "navigation"
  BY KeysOnly DEF Base, TInv, Simple
<1>2. ~Constrained(p[1]) /\ ~(step[p[1]] > 0)
  BY DEF Duo, Prompt
<1>3. Between(p[1])
  BY <1>2 DEF Constrained, Between
<1>4. step[p[1]] # NONE /\ length[p[1]] \in Nat
  BY <1>1 DEF IsAt, TypeOK
<1>5. step[p[1]] \in 1 .. length[p[1]] - 1
  BY <1>1, <1>3, <1>4 DEF TInv, Waypoints
<1> QED
  BY <1>2, <1>4, <1>5

\* Steps at which no end effector moves.
LEMMA DuoQuiet ==
    ASSUME Base, Simple, Simple', NEW k \in Keys, NEW p \in Keys, Couple(k, p), Duo(k, p),
           UNCHANGED <<inputs, rules, eefVars>>,
           \/ PlanDone \/ Execute \/ AdvanceDone \/ UNCHANGED vars
           \/ \E g \in Eefs : StillExecuting(g)
    PROVE  Duo(k, p)'
<1>1. /\ TInv /\ TypeOK /\ k[1] \in Eefs /\ p[1] \in Eefs /\ p \in DOMAIN rules
      /\ k \in DOMAIN rules /\ mode # "navigation"
  BY CoupleFacts DEF Base, TInv, Couple, Simple
<1>2. /\ Meeting(k)' = Meeting(k) /\ Wait(k)' = Wait(k)
      /\ Meeting(p)' = Meeting(p)
  BY <1>1, UnchangedSame, CoupleSame
<1>3. /\ IsAt(k)' <=> IsAt(k)
      /\ IsAt(p)' <=> IsAt(p)
      /\ Passed(k)' <=> Passed(k)
      /\ Passed(p)' <=> Passed(p)
  BY QuietView
<1>4. Had(k[1])' = Had(k[1])
  <2>1. CASE UNCHANGED vars
    BY <2>1 DEF vars, inputs, Had, Constrained
  <2> QED
    BY <1>1, <2>1, HadQuiet
<1>5. rules' = rules /\ step' = step /\ length' = length /\ mode' = mode
      /\ subtask' = subtask /\ subtasks_done' = subtasks_done
  BY DEF eefVars, inputs
<1>6. (Both(k, p)' <=> Both(k, p)) /\ (Earlier(k[1], p[1])' <=> Earlier(k[1], p[1]))
  BY <1>5 DEF Both, Earlier
<1>7. Status(k, p)'
  BY <1>3, <1>5, <1>6 DEF Duo, Status
<1>8. Held(k, p)' /\ Awaits(k, p)' /\ Started(k, p)'
  BY <1>2, <1>3, <1>4, <1>5, <1>6 DEF Duo, Held, Awaits, Started
<1>9. Fresh(k, p)' /\ LastStep(k, p)'
  BY <1>2, <1>3, <1>5 DEF Duo, Fresh, LastStep
<1>10. Prompt(k, p)'
  <2> SUFFICES ASSUME IsAt(k), IsAt(p), Meeting(p) = 0, ~rules[k].fulfilled
               PROVE  /\ ~Constrained(p[1])'
                      /\ step[p[1]] > 0 =>
                           step[k[1]] = 0 /\ pass' # "advance" /\ Planned(k[1])'
    BY <1>2, <1>3, <1>5 DEF Prompt
  <2>1. /\ ~Constrained(p[1])
        /\ step[p[1]] > 0 => step[k[1]] = 0 /\ pass # "advance" /\ Planned(k[1])
    BY DEF Duo, Prompt
  <2>2. CASE PlanDone
    BY <1>1, <2>1, <2>2, PlanOver DEF PlanDone
  <2>3. CASE Execute
    BY <1>1, <2>1, <2>3, ConstrainOver
  <2>4. CASE AdvanceDone
    BY <2>4, PromptOver DEF AdvanceDone
  <2>5. CASE UNCHANGED vars
    BY <2>1, <2>5 DEF vars, inputs, Planned, Constrained
  <2>6. ASSUME NEW g \in Eefs, StillExecuting(g)
        PROVE  /\ ~Constrained(p[1])'
               /\ step[p[1]] > 0 =>
                    step[k[1]] = 0 /\ pass' # "advance" /\ Planned(k[1])'
    <3>1. Turn("plan", key_order, g) /\ NextTurn /\ UNCHANGED key_order
      BY <2>6 DEF StillExecuting, inputs
    <3> QED
      BY <1>1, <2>1, <3>1, PlanTurn
  <2> QED
    BY <2>2, <2>3, <2>4, <2>5, <2>6
<1>11. SideBySide(k, p)'
  <2> SUFFICES ASSUME IsAt(k), IsAt(p), Both(k, p), Earlier(k[1], p[1])
               PROVE  Left(p[1])' <= Left(k[1])' /\ Left(k[1])' <= Left(p[1])' + 1
    BY <1>3, <1>6 DEF SideBySide
  <2>1. Left(p[1]) <= Left(k[1]) /\ Left(k[1]) <= Left(p[1]) + 1
    BY DEF Duo, SideBySide
  <2>2. \/ \A e \in Eefs : Left(e)' = Left(e)
        \/ \A e \in Eefs : /\ Left(e) = length[e] - step[e] + 1
                           /\ Left(e)' = length[e] - step[e] + 0
    <3>1. CASE PlanDone \/ UNCHANGED vars \/ \E g \in Eefs : StillExecuting(g)
      <4>1. \A e \in Eefs : Left(e)' = Left(e)
        BY <1>5, <3>1 DEF PlanDone, StillExecuting, NextTurn, Turn, vars, inputs, Left
      <4> QED
        BY <4>1
    <3>2. CASE Execute
      <4>1. pass = "constrain" /\ key_order' \in KeyOrders /\ turn' = 1
        BY <1>1, <3>2 DEF Execute, inputs, TypeOK
      <4>2. \A e \in Eefs : Left(e)' = Left(e)
        BY <1>5, <4>1, PastEnds DEF Left
      <4> QED
        BY <4>2
    <3>3. CASE AdvanceDone
      <4>1. /\ pass = "advance" /\ pass' # "advance"
            /\ \A e \in Eefs : Past(key_order, turn, e)
        BY <1>1, <3>3, AdvanceOver DEF AdvanceDone, Between
      <4>2. \A e \in Eefs : /\ Left(e) = length[e] - step[e] + 1
                            /\ Left(e)' = length[e] - step[e] + 0
        BY <1>5, <4>1 DEF Left
      <4> QED
        BY <4>2
    <3> QED
      BY <3>1, <3>2, <3>3
  <2>3. /\ length[k[1]] \in Nat /\ length[p[1]] \in Nat
        /\ step[k[1]] \in Int /\ step[p[1]] \in Int
    BY <1>1, AtFacts DEF Simple
  <2>4. CASE \A e \in Eefs : Left(e)' = Left(e)
    BY <1>1, <2>1, <2>4
  <2>5. CASE \A e \in Eefs : /\ Left(e) = length[e] - step[e] + 1
                             /\ Left(e)' = length[e] - step[e] + 0
    BY <1>1, <2>1, <2>3, <2>5
  <2> QED
    BY <2>2, <2>4, <2>5
<1> QED
  BY <1>7, <1>8, <1>9, <1>10, <1>11 DEF Duo

\* Somebody starts a subtask.
LEMMA DuoStart ==
    ASSUME Base, Simple, NEW k \in Keys, NEW p \in Keys, Couple(k, p),
           Duo(k, p), Duo(p, k), UNCHANGED inputs,
           NEW g \in Eefs, BeginSubtask(g) \/ ResumeSubtask(g)
    PROVE  Duo(k, p)'
<1>1. /\ TInv /\ TypeOK /\ k[1] \in Eefs /\ p[1] \in Eefs /\ p \in DOMAIN rules
      /\ k \in DOMAIN rules /\ mode # "navigation" /\ k[1] # p[1]
      /\ Wait(k) \in Nat
  BY CoupleFacts DEF Base, TInv, Couple, Simple
<1>2. /\ SameRules(rules, rules')
      /\ rules'[k].fulfilled = rules[k].fulfilled /\ rules'[k].finished = rules[k].finished
      /\ rules'[p].fulfilled = rules[p].fulfilled
  BY <1>1, MeasuredSame, UnchangedSame DEF BeginSubtask, ResumeSubtask
<1>3. /\ Meeting(k)' = Meeting(k) /\ Wait(k)' = Wait(k) /\ Meeting(p)' = Meeting(p)
      /\ rules'[k].sync_start = rules[k].sync_start
  BY <1>1, <1>2, CoupleSame
<1>4. /\ Turn("plan", key_order, g) /\ NextTurn /\ UNCHANGED key_order
      /\ pass = "plan" /\ pass' = "plan"
  BY DEF BeginSubtask, ResumeSubtask, inputs, Turn, NextTurn
<1>5. Had(k[1]) = 0 /\ Had(k[1])' = 0
  BY <1>4 DEF Had, Constrained
<1>6. /\ step[g] = NONE /\ step'[g] = 0
      /\ \A f \in Eefs \ {g} : step'[f] = step[f] /\ length'[f] = length[f]
      /\ Passed(k)' <=> Passed(k)
      /\ Passed(p)' <=> Passed(p)
      /\ IsAt(k) => k[1] # g /\ IsAt(k)'
      /\ IsAt(p) => p[1] # g /\ IsAt(p)'
      /\ IsAt(k)' /\ k[1] # g => IsAt(k)
      /\ IsAt(p)' /\ p[1] # g => IsAt(p)
      /\ IsAt(k)' /\ k[1] = g => ~Passed(k)
      /\ IsAt(p)' /\ p[1] = g => ~Passed(p)
  BY <1>1, StartView
<1>7. Both(k, p)' <=> Both(k, p)
  BY <1>2 DEF Both
<1>8. Status(k, p)'
  BY <1>2, <1>6, <1>7 DEF Duo, Status
<1>9. Held(k, p)'
  BY <1>1, <1>3, <1>5, <1>6, <1>7 DEF Duo, Held
<1>10. Awaits(k, p)'
  BY <1>1, <1>2, <1>3, <1>5, <1>6 DEF Duo, Awaits
<1>11. Started(k, p)'
  <2> SUFFICES ASSUME rules[k].sync_start, IsAt(k)', step'[k[1]] > 1
               PROVE  IsAt(p)' \/ Passed(p)'
    BY <1>3, <1>5 DEF Started
  <2>1. k[1] # g
    BY <1>6
  <2> QED
    BY <1>1, <1>5, <1>6, <2>1 DEF Duo, Started
<1>12. Prompt(k, p)'
  <2> SUFFICES ASSUME IsAt(k)', IsAt(p)', Meeting(p) = 0, ~rules[k].fulfilled
               PROVE  /\ ~Constrained(p[1])'
                      /\ step'[p[1]] > 0 =>
                           step'[k[1]] = 0 /\ pass' # "advance" /\ Planned(k[1])'
    BY <1>2, <1>3 DEF Prompt
  <2>1. ~Constrained(p[1])' /\ (Planned(k[1])' <=> Planned(k[1]) \/ k[1] = g)
    BY <1>1, <1>4, PlanTurn
  <2>2. CASE p[1] = g
    BY <1>6, <2>1, <2>2
  <2>3. CASE k[1] = g
    BY <1>4, <1>6, <2>1, <2>3
  <2>4. CASE p[1] # g /\ k[1] # g
    BY <1>1, <1>4, <1>6, <2>1, <2>4 DEF Duo, Prompt
  <2> QED
    BY <2>2, <2>3, <2>4
<1>13. Fresh(k, p)'
  <2> SUFFICES ASSUME rules[p].fulfilled, ~rules[k].fulfilled, IsAt(p)', Meeting(p) = 0,
                      Meeting(k) > 0
               PROVE  step'[p[1]] = 0
    BY <1>2, <1>3 DEF Fresh
  <2> QED
    BY <1>1, <1>6 DEF Duo, Fresh
<1>14. SideBySide(k, p)'
  <2> SUFFICES ASSUME IsAt(k)', IsAt(p)', Both(k, p), Earlier(k[1], p[1])
               PROVE  Left(p[1])' <= Left(k[1])' /\ Left(k[1])' <= Left(p[1])' + 1
    BY <1>7 DEF SideBySide, Earlier
  <2>1. (IsAt(p) \/ Passed(p)) /\ (IsAt(k) \/ Passed(k))
    BY DEF Duo, Status, Both
  <2>2. k[1] # g /\ p[1] # g /\ IsAt(k) /\ IsAt(p)
    BY <1>6, <2>1
  <2>3. Left(k[1])' = Left(k[1]) /\ Left(p[1])' = Left(p[1])
    BY <1>1, <1>4, <1>6, <2>2 DEF Left
  <2> QED
    BY <2>2, <2>3 DEF Duo, SideBySide
<1>15. LastStep(k, p)'
  <2> SUFFICES ASSUME Passed(k), ~Passed(p),
                      mode = "plain" \/ (subtasks_done'[k[1]] /\ subtask'[k[1]] = k[2])
               PROVE  step'[p[1]] = length'[p[1]] - 1
    BY <1>6 DEF LastStep, inputs
  <2>1. IsAt(p)
    BY DEF Duo, Status, Both
  <2>2. p[1] # g
    BY <1>6, <2>1
  <2>3. mode = "plain" \/ (subtasks_done[k[1]] /\ subtask[k[1]] = k[2])
    <3>1. subtasks_done' = subtasks_done /\ ~subtasks_done[g]
      BY <1>1, <1>6 DEF BeginSubtask, ResumeSubtask, TInv, Places, Place
    <3>2. k[1] # g => subtask'[k[1]] = subtask[k[1]]
      BY <1>1 DEF BeginSubtask, ResumeSubtask, TypeOK
    <3> QED
      BY <3>1, <3>2
  <2> QED
    BY <1>1, <1>6, <2>1, <2>2, <2>3 DEF Duo, LastStep
<1> QED
  BY <1>8, <1>9, <1>10, <1>11, <1>12, <1>13, <1>14, <1>15 DEF Duo

\* Somebody executes a step within his trajectory.
LEMMA DuoWithin ==
    ASSUME Base, Simple, NEW k \in Keys, NEW p \in Keys, Couple(k, p),
           Duo(k, p), Duo(p, k), UNCHANGED inputs, NEW g \in Eefs, AdvanceWithin(g)
    PROVE  Duo(k, p)'
<1>1. /\ TInv /\ TypeOK /\ k[1] \in Eefs /\ p[1] \in Eefs /\ p \in DOMAIN rules
      /\ k \in DOMAIN rules /\ mode # "navigation" /\ k[1] # p[1]
      /\ Wait(k) \in Nat
  BY CoupleFacts DEF Base, TInv, Couple, Simple
<1>2. rules' = rules /\ length' = length /\ subtask' = subtask /\ subtasks_done' = subtasks_done
  BY DEF AdvanceWithin
<1>3. /\ Meeting(k)' = Meeting(k) /\ Wait(k)' = Wait(k) /\ Meeting(p)' = Meeting(p)
  BY <1>1, <1>2, CoupleSame, UnchangedSame
<1>4. /\ Turn("advance", key_order, g) /\ NextTurn /\ UNCHANGED key_order
      /\ pass = "advance" /\ pass' = "advance"
  BY DEF AdvanceWithin, inputs, Turn, NextTurn
<1>5. Had(g) = 1 /\ \A e \in Eefs : Had(e)' = IF e = g THEN 0 ELSE Had(e)
  BY <1>1, HadTurn
<1>6. /\ step[g] \in 0 .. length[g] - 2 /\ step'[g] = step[g] + 1
      /\ \A f \in Eefs \ {g} : step'[f] = step[f]
      /\ Passed(k)' <=> Passed(k)
      /\ Passed(p)' <=> Passed(p)
      /\ IsAt(k)' <=> IsAt(k)
      /\ IsAt(p)' <=> IsAt(p)
  BY <1>1, WithinView
<1>7. Both(k, p)' <=> Both(k, p)
  BY <1>2 DEF Both
<1>8. Status(k, p)'
  BY <1>2, <1>6, <1>7 DEF Duo, Status
<1>9. /\ IsAt(k) => step[k[1]] \in Int /\ step'[k[1]] + Had(k[1])' = step[k[1]] + Had(k[1])
      /\ IsAt(k) => step'[k[1]] \in Int /\ Had(k[1]) \in Int /\ Had(k[1])' \in Int
  <2>1. Had(k[1]) \in Int /\ Had(k[1])' \in Int
    BY DEF Had
  <2>2. ASSUME IsAt(k)
        PROVE  step[k[1]] \in Int /\ step'[k[1]] + Had(k[1])' = step[k[1]] + Had(k[1])
    <3>1. step[k[1]] \in Int
      BY <1>1, <2>2, AtFacts DEF Simple
    <3>2. CASE k[1] = g
      BY <1>1, <1>5, <1>6, <3>1, <3>2
    <3>3. CASE k[1] # g
      BY <1>1, <1>5, <1>6, <3>1, <3>3
    <3> QED
      BY <3>1, <3>2, <3>3
  <2>3. IsAt(k) => step'[k[1]] \in Int
    BY <1>1, <1>6, <2>2
  <2> QED
    BY <2>1, <2>2, <2>3
<1>10. Held(k, p)' /\ Awaits(k, p)' /\ Started(k, p)'
  BY <1>1, <1>2, <1>3, <1>6, <1>7, <1>9 DEF Duo, Held, Awaits, Started
<1>11. ~(IsAt(k) /\ IsAt(p) /\ Meeting(p) = 0 /\ ~rules[k].fulfilled)
  BY <1>4, PromptOver
<1>12. Prompt(k, p)'
  BY <1>2, <1>3, <1>6, <1>11 DEF Prompt
<1>13. Fresh(k, p)'
  BY <1>2, <1>3, <1>6, <1>11 DEF Duo, Awaits, Fresh
<1>14. SideBySide(k, p)'
  <2> SUFFICES ASSUME IsAt(k), IsAt(p), Both(k, p), Earlier(k[1], p[1])
               PROVE  Left(p[1])' <= Left(k[1])' /\ Left(k[1])' <= Left(p[1])' + 1
    BY <1>6, <1>7 DEF SideBySide, Earlier
  <2>1. /\ ~Past(key_order, turn, g)
        /\ \A f \in Eefs : Past(key_order, turn, f)' <=> Past(key_order, turn, f) \/ f = g
    BY <1>1, <1>4, AdvanceTurn DEF Between
  <2>2. length[k[1]] \in Int /\ length[p[1]] \in Int /\ step[k[1]] \in Int /\ step[p[1]] \in Int
    BY <1>1, AtFacts DEF Simple
  <2>3. ASSUME NEW f \in {k[1], p[1]} PROVE Left(f)' = Left(f)
    <3>1. CASE f = g
      BY <1>1, <1>2, <1>4, <1>6, <2>1, <2>2, <3>1 DEF Left
    <3>2. CASE f # g
      BY <1>1, <1>2, <1>4, <1>6, <2>1, <3>2 DEF Left
    <3> QED
      BY <3>1, <3>2
  <2> QED
    BY <2>3 DEF Duo, SideBySide
<1>15. LastStep(k, p)'
  <2> SUFFICES ASSUME Passed(k), ~Passed(p),
                      mode = "plain" \/ (subtasks_done[k[1]] /\ subtask[k[1]] = k[2])
               PROVE  step'[p[1]] = length[p[1]] - 1
    BY <1>2, <1>6 DEF LastStep, inputs
  <2>1. step[p[1]] = length[p[1]] - 1
    BY DEF Duo, LastStep
  <2>2. p[1] # g
    BY <1>1, <1>6, <2>1 DEF TypeOK
  <2> QED
    BY <1>1, <1>6, <2>1, <2>2
<1> QED
  BY <1>8, <1>10, <1>12, <1>13, <1>14, <1>15 DEF Duo

\* Somebody completes a subtask.
LEMMA DuoComplete ==
    ASSUME Base, Simple, NEW k \in Keys, NEW p \in Keys, Couple(k, p),
           Duo(k, p), Duo(p, k), UNCHANGED inputs, NEW g \in Eefs, CompleteSubtask(g)
    PROVE  Duo(k, p)'
<1>1. /\ TInv /\ TypeOK /\ k[1] \in Eefs /\ p[1] \in Eefs /\ p \in DOMAIN rules
      /\ k \in DOMAIN rules /\ mode # "navigation" /\ k[1] # p[1] /\ Couple(p, k)
      /\ rules[k].type = "coordination" /\ rules[p].type = "coordination"
      /\ rules[k].partner = p /\ rules[p].partner = k
      /\ Wait(k) \in 1 .. TrajectoryLength(k) - 1 /\ Wait(p) \in 1 .. TrajectoryLength(p) - 1
      /\ TrajectoryLength(k) \in Nat /\ TrajectoryLength(p) \in Nat
  BY CoupleFacts DEF Base, TInv, Couple, Simple
<1>2. /\ Turn("advance", key_order, g) /\ NextTurn /\ UNCHANGED key_order
      /\ pass = "advance" /\ pass' = "advance"
  BY DEF CompleteSubtask, inputs, Turn, NextTurn
<1>3. Had(g) = 1 /\ \A e \in Eefs : Had(e)' = IF e = g THEN 0 ELSE Had(e)
  BY <1>1, HadTurn
<1>4. /\ step[g] = length[g] - 1 /\ length[g] \in Nat \ {0}
      /\ \A f \in Eefs \ {g} : step'[f] = step[f] /\ length'[f] = length[f]
      /\ Passed(k)' <=> Passed(k) \/ k = Key(g)
      /\ Passed(p)' <=> Passed(p) \/ p = Key(g)
      /\ IsAt(k)' <=> IsAt(k) /\ k # Key(g)
      /\ IsAt(p)' <=> IsAt(p) /\ p # Key(g)
      /\ k = Key(g) => IsAt(k) \/ subtasks_done[g]
      /\ p = Key(g) => IsAt(p) \/ subtasks_done[g]
  BY <1>1, CompleteView
<1>5. /\ SameRules(rules, rules')
      /\ rules'[k].fulfilled <=> rules[k].fulfilled
      /\ rules'[p].fulfilled <=> rules[p].fulfilled
      /\ rules'[k].finished <=> rules[k].finished \/ k = Key(g)
  <2>1. /\ SameRules(rules, rules')
        /\ \A x \in DOMAIN rules :
             /\ rules'[x].fulfilled <=>
                  rules[x].fulfilled \/ (Is(g, "former") /\ x = Partner(g))
             /\ rules'[x].finished <=>
                  rules[x].finished \/ (Is(g, "coordination") /\ x = Key(g))
    BY <1>1, ReportedSame DEF CompleteSubtask
  <2>2. ASSUME Is(g, "former") PROVE rules[Partner(g)].type = "latter"
    BY <2>2 DEF Base, Paired, Simple, Is, HasRule, Partner, Opposite
  <2>3. k = Key(g) => Is(g, "coordination")
    BY <1>1 DEF Is, HasRule
  <2> QED
    BY <1>1, <2>1, <2>2, <2>3
<1>6. /\ Meeting(k)' = Meeting(k) /\ Wait(k)' = Wait(k) /\ Meeting(p)' = Meeting(p)
      /\ rules'[k].sync_start = rules[k].sync_start
  BY <1>1, <1>5, CoupleSame
<1>7. Both(k, p)' <=> Both(k, p)
  BY <1>5 DEF Both
<1>8. (IsAt(k) /\ k # Key(g) => k[1] # g) /\ (IsAt(p) /\ p # Key(g) => p[1] # g)
  BY <1>1, AtFacts
<1>9. k = Key(g) => Both(k, p)
  <2> SUFFICES ASSUME k = Key(g), ~Both(k, p) PROVE FALSE
    OBVIOUS
  <2>1. k[1] = g
    BY DEF Key
  <2>2. IsAt(k)
    BY <1>4, <2>1 DEF Duo, Status, Passed
  <2>3. length[g] = TrajectoryLength(k) /\ step[g] <= Wait(k) - 1
    BY <1>1, <1>3, <2>1, <2>2 DEF Duo, Held, Base, Lengths
  <2> QED
    BY <1>1, <1>4, <2>3
<1>10. p = Key(g) => Both(k, p)
  <2> SUFFICES ASSUME p = Key(g), ~Both(k, p) PROVE FALSE
    OBVIOUS
  <2>1. p[1] = g /\ ~Both(p, k)
    BY DEF Key, Both
  <2>2. IsAt(p)
    BY <1>4, <2>1 DEF Duo, Status, Passed
  <2>3. length[g] = TrajectoryLength(p) /\ step[g] <= Wait(p) - 1
    BY <1>1, <1>3, <2>1, <2>2 DEF Duo, Held, Base, Lengths
  <2> QED
    BY <1>1, <1>4, <2>3
<1>11. Status(k, p)'
  BY <1>4, <1>5, <1>7, <1>9 DEF Duo, Status
<1>12. Held(k, p)'
  BY <1>1, <1>3, <1>4, <1>6, <1>7, <1>8 DEF Duo, Held
<1>13. Awaits(k, p)'
  <2> SUFFICES ASSUME rules[p].fulfilled, ~rules[k].fulfilled
               PROVE  /\ IsAt(k)' /\ step'[k[1]] = Wait(k) - Had(k[1])'
                      /\ rules[k].sync_start => IsAt(p)'
    BY <1>5, <1>6 DEF Awaits
  <2>1. ~Both(k, p)
    BY DEF Both
  <2>2. /\ IsAt(k) /\ step[k[1]] = Wait(k) - Had(k[1])
        /\ rules[k].sync_start => IsAt(p)
    BY DEF Duo, Awaits
  <2>3. k # Key(g) /\ p # Key(g)
    BY <1>9, <1>10, <2>1
  <2> QED
    BY <1>1, <1>3, <1>4, <1>8, <2>2, <2>3
<1>14. Started(k, p)'
  <2> SUFFICES ASSUME rules[k].sync_start, IsAt(k), k # Key(g), step'[k[1]] > 1 - Had(k[1])'
               PROVE  IsAt(p)' \/ Passed(p)'
    BY <1>4, <1>6 DEF Started
  <2>1. step[k[1]] > 1 - Had(k[1])
    BY <1>1, <1>3, <1>4, <1>8
  <2>2. IsAt(p) \/ Passed(p)
    BY <2>1 DEF Duo, Started
  <2> QED
    BY <1>4, <2>2
<1>15. ~(IsAt(k) /\ IsAt(p) /\ Meeting(p) = 0 /\ ~rules[k].fulfilled)
  BY <1>2, PromptOver
<1>16. Prompt(k, p)'
  BY <1>4, <1>5, <1>6, <1>15 DEF Prompt
<1>17. Fresh(k, p)'
  BY <1>4, <1>5, <1>6, <1>15 DEF Duo, Awaits, Fresh
<1>18. SideBySide(k, p)'
  <2> SUFFICES ASSUME IsAt(k), k # Key(g), IsAt(p), p # Key(g), Both(k, p),
                      Earlier(k[1], p[1])
               PROVE  Left(p[1])' <= Left(k[1])' /\ Left(k[1])' <= Left(p[1])' + 1
    BY <1>4, <1>7 DEF SideBySide, Earlier
  <2>1. \A f \in Eefs : Past(key_order, turn, f)' <=> Past(key_order, turn, f) \/ f = g
    BY <1>1, <1>2, AdvanceTurn DEF Between
  <2>2. Left(k[1])' = Left(k[1]) /\ Left(p[1])' = Left(p[1])
    BY <1>1, <1>2, <1>4, <1>8, <2>1 DEF Left
  <2> QED
    BY <2>2 DEF Duo, SideBySide
<1>19. LastStep(k, p)'
  <2> SUFFICES ASSUME Passed(k) \/ k = Key(g), ~Passed(p), p # Key(g),
                      mode = "plain" \/ (subtasks_done'[k[1]] /\ subtask'[k[1]] = k[2])
               PROVE  step'[p[1]] = length'[p[1]] - 1
    BY <1>4 DEF LastStep, inputs
  <2>1. IsAt(p)
    BY <1>9 DEF Duo, Status, Both
  <2>2. p[1] # g
    BY <1>8, <2>1
  <2>3. step[p[1]] \in 0 .. length[p[1]] - 1 /\ length[p[1]] \in Nat
    BY <1>1, <2>1, AtFacts DEF Simple
  <2>4. CASE k = Key(g)
    <3>1. Is(g, "coordination") /\ Partner(g) = p
      BY <1>1, <2>4 DEF Is, HasRule, Partner
    <3>2. ~rules[p].finished
      BY DEF Duo, Status
    <3>3. PartnerUnfinished(g)
      BY <3>1, <3>2 DEF PartnerUnfinished
    <3>4. ~(Advanced(g)[p[1]] < length[p[1]] - 1)
      BY <3>1, <3>3 DEF CompleteSubtask, CoordinationFailure
    <3>5. Advanced(g)[p[1]] = step[p[1]]
      BY <1>1, <1>2, <2>2, CountedAlone DEF TypeOK
    <3> QED
      BY <1>1, <1>4, <2>2, <2>3, <3>4, <3>5
  <2>5. CASE k # Key(g)
    <3>1. mode = "plain" \/ (subtasks_done[k[1]] /\ subtask[k[1]] = k[2])
      <4>1. CASE k[1] = g
        <5>1. CASE LastSubtask(g)
          <6>1. subtask' = subtask
            BY <5>1 DEF CompleteSubtask
          <6>2. subtask[g] # k[2]
            BY <2>5, <4>1, KeysOnly DEF Key
          <6> QED
            BY <4>1, <6>1, <6>2
        <5>2. CASE ~LastSubtask(g)
          <6>1. subtasks_done' = subtasks_done /\ ~subtasks_done[g]
            BY <1>1, <5>2 DEF CompleteSubtask, LastSubtask, TInv, Places, Place
          <6> QED
            BY <4>1, <6>1
        <5> QED
          BY <5>1, <5>2
      <4>2. CASE k[1] # g
        <5>1. subtasks_done'[k[1]] = subtasks_done[k[1]] /\ subtask'[k[1]] = subtask[k[1]]
          BY <1>1, <4>2 DEF CompleteSubtask, TypeOK
        <5> QED
          BY <5>1
      <4> QED
        BY <4>1, <4>2
    <3> QED
      BY <1>1, <1>4, <2>2, <2>5, <3>1 DEF Duo, LastStep
  <2> QED
    BY <2>4, <2>5
<1> QED
  BY <1>11, <1>12, <1>13, <1>14, <1>16, <1>17, <1>18, <1>19 DEF Duo

\* What the constraint of a coordinated subtask does to the one who is at it.
LEMMA CoupleStep ==
    ASSUME Base, Simple, NEW k \in Keys, NEW p \in Keys, Couple(k, p), IsAt(k),
           pass = "constrain"
    PROVE  /\ IsAt(p) => ~AwaitsStart(k[1])
           /\ ~AwaitsStart(k[1]) /\ rules[k].sync_start => IsAt(p) \/ Passed(p)
           /\ ~rules[k].sync_start => ~AwaitsStart(k[1])
           /\ AtRendezvous(k[1]) <=> ~AwaitsStart(k[1]) /\ step[k[1]] >= Meeting(k)
           /\ ConstrainedStep(k[1]) =
                IF AwaitsStart(k[1]) THEN 0
                ELSE IF AtRendezvous(k[1]) /\ ~rules[k].fulfilled THEN Back(step[k[1]])
                ELSE step[k[1]]
<1> DEFINE e == k[1]  f == p[1]
<1>1. /\ TInv /\ TypeOK /\ e \in Eefs /\ f \in Eefs /\ k \in DOMAIN rules
      /\ rules[k].type = "coordination" /\ rules[k].partner = p /\ mode # "navigation"
  BY CoupleFacts DEF Base, TInv, Couple, Simple
<1>2. Key(e) = k /\ length[e] = TrajectoryLength(k)
  BY <1>1, AtFacts DEF Base, Lengths
<1>3. Is(e, "coordination") /\ ~Is(e, "latter") /\ Partner(e) = p
  BY <1>1, <1>2 DEF Is, HasRule, Partner
<1>4. AwaitsStart(e) <=> rules[k].sync_start /\ subtask[f] < p[2]
  BY <1>2, <1>3 DEF AwaitsStart
<1>5. rules[k].synchronous_steps = Shared(k)
  BY <1>1 DEF Base, Measured
<1>6. AtRendezvous(e) <=> ~AwaitsStart(e) /\ step[e] >= Meeting(k)
  BY <1>2, <1>3, <1>5 DEF AtRendezvous, Meeting
<1>7. ConstrainedStep(e) = IF AwaitsStart(e) THEN 0
                           ELSE IF AtRendezvous(e) /\ ~rules[k].fulfilled THEN Back(step[e])
                           ELSE step[e]
  BY <1>2, <1>3 DEF ConstrainedStep, Precedes
<1>8. IsAt(p) => ~AwaitsStart(e)
  <2>1. p[2] \in Int
    BY KeysOnly
  <2> QED
    BY <1>4, <2>1 DEF IsAt
<1>9. ~AwaitsStart(e) /\ rules[k].sync_start => IsAt(p) \/ Passed(p)
  <2> SUFFICES ASSUME ~AwaitsStart(e), rules[k].sync_start, ~Passed(p) PROVE IsAt(p)
    OBVIOUS
  <2>1. ~(subtask[f] < p[2]) /\ subtask[f] \in Int /\ p[2] \in Nat
    BY <1>1, <1>4, KeysOnly DEF TypeOK
  <2>2. step[f] # NONE
    <3>1. Planned(f)
      BY DEF Planned
    <3>2. step[f] \in -1 .. length[f] - 1
      BY <1>1, <3>1 DEF TInv, Waypoints
    <3> QED
      BY <3>2 DEF NONE
  <2>3. resume[f] = NONE
    <3>1. subtask[f] # Transit
      BY <2>1 DEF Transit
    <3> QED
      BY <1>1, <2>2, <3>1 DEF TInv, Places, Place
  <2>4. ~(subtask[f] > p[2]) /\ ~subtasks_done[f]
    BY <2>3 DEF Passed, Position
  <2>5. subtask[f] = p[2]
    BY <2>1, <2>4
  <2> QED
    BY <2>2, <2>4, <2>5 DEF IsAt
<1> QED
  BY <1>3, <1>4, <1>6, <1>7, <1>8, <1>9

\* Whoever is at a rendezvous is at the coordinated subtask, or through.
LEMMA RendezvousAt ==
    ASSUME Base, Simple, NEW k \in Keys, pass = "constrain", Key(k[1]) = k
    PROVE  IsAt(k) \/ Passed(k)
<1>1. /\ TInv /\ k[1] \in Eefs /\ subtask[k[1]] = k[2]
  BY KeysOnly DEF Base, Key
<1>2. Planned(k[1])
  BY DEF Planned
<1>3. step[k[1]] \in -1 .. length[k[1]] - 1
  BY <1>1, <1>2 DEF TInv, Waypoints
<1>4. step[k[1]] # NONE
  BY <1>3 DEF NONE
<1> QED
  BY <1>1, <1>4 DEF IsAt, Passed

\* Who had his turn in the pass constrain, when it is the turn of g.
LEMMA TurnOrder ==
    ASSUME TypeOK, NEW e \in Eefs, NEW f \in Eefs, Earlier(e, f), pass = "constrain"
    PROVE  /\ Turn("constrain", SortedOrder, e) => Had(f) = 0
           /\ Turn("constrain", SortedOrder, f) => Had(e) = 1
<1>1. PICK i, j \in 1 .. Len(SortedOrder) : i < j /\ SortedOrder[i] = e /\ SortedOrder[j] = f
  BY DEF Earlier
<1>2. turn \in Nat /\ turn >= 1
  BY OrderFacts DEF TypeOK
<1>3. ASSUME Turn("constrain", SortedOrder, e) PROVE Had(f) = 0
  <2>1. turn = i
    BY <1>1, <1>2, <1>3, OrderFacts DEF Turn
  <2>2. ~Past(SortedOrder, turn, f)
    BY <1>1, <2>1, OrderFacts DEF Past
  <2> QED
    BY <2>2 DEF Had, Constrained
<1>4. ASSUME Turn("constrain", SortedOrder, f) PROVE Had(e) = 1
  <2>1. turn = j
    BY <1>1, <1>2, <1>4, OrderFacts DEF Turn
  <2>2. Past(SortedOrder, turn, e)
    BY <1>1, <2>1, OrderFacts DEF Past
  <2> QED
    BY <2>2 DEF Had, Constrained
<1> QED
  BY <1>3, <1>4

\* Somebody has his constraint applied.
LEMMA DuoConstrain ==
    ASSUME Base, Simple, NEW k \in Keys, NEW p \in Keys, Couple(k, p),
           Duo(k, p), Duo(p, k), UNCHANGED inputs, NEW g \in Eefs, Constrain(g)
    PROVE  Duo(k, p)'
<1> DEFINE e == k[1]  f == p[1]
<1>1. /\ TInv /\ TypeOK /\ e \in Eefs /\ f \in Eefs /\ p \in DOMAIN rules
      /\ k \in DOMAIN rules /\ mode # "navigation" /\ e # f /\ Couple(p, k)
      /\ rules[k].type = "coordination" /\ rules[p].type = "coordination"
      /\ rules[k].partner = p /\ rules[p].partner = k
      /\ rules[p].sync_start = rules[k].sync_start
  BY CoupleFacts DEF Base, TInv, Couple, Simple
<1>2. /\ Turn("constrain", SortedOrder, g) /\ NextTurn /\ UNCHANGED key_order
      /\ pass = "constrain" /\ pass' = "constrain"
      /\ UNCHANGED <<subtask, length, resume, subtasks_done>>
  BY DEF Constrain, inputs, Turn, NextTurn
<1>3. Had(g) = 0 /\ \A x \in Eefs : Had(x)' = IF x = g THEN 1 ELSE Had(x)
  BY <1>1, <1>2, HadTurn, ConstrainTurn DEF Had
<1>4. /\ step'[g] = ConstrainedStep(g) /\ ConstrainedStep(g) \in 0 .. step[g]
      /\ step[g] \in 0 .. length[g] - 1
      /\ \A x \in Eefs \ {g} : step'[x] = step[x]
      /\ Passed(k)' <=> Passed(k)
      /\ Passed(p)' <=> Passed(p)
      /\ IsAt(k)' <=> IsAt(k)
      /\ IsAt(p)' <=> IsAt(p)
  BY <1>1, ConstrainView
<1>5. /\ SameRules(rules, rules')
      /\ rules'[k].fulfilled <=> rules[k].fulfilled \/ (AtRendezvous(g) /\ Key(g) = p)
      /\ rules'[p].fulfilled <=> rules[p].fulfilled \/ (AtRendezvous(g) /\ Key(g) = k)
      /\ rules'[k].finished = rules[k].finished
  <2>1. /\ SameRules(rules, rules')
        /\ \A x \in DOMAIN rules :
             /\ rules'[x].fulfilled <=>
                  rules[x].fulfilled \/ (AtRendezvous(g) /\ x = Partner(g))
             /\ rules'[x].finished = rules[x].finished
    BY <1>1, ConstrainSame
  <2>2. ASSUME AtRendezvous(g)
        PROVE  (k = Partner(g) <=> Key(g) = p) /\ (p = Partner(g) <=> Key(g) = k)
    <3>1. Key(g) \in DOMAIN rules
      BY <2>2 DEF AtRendezvous, Is, HasRule
    <3>2. rules[Partner(g)].partner = Key(g)
      BY <3>1 DEF Base, Paired, Simple, Partner
    <3> QED
      BY <1>1, <3>2 DEF Partner
  <2> QED
    BY <1>1, <2>1, <2>2
<1>6. /\ Meeting(k)' = Meeting(k) /\ Wait(k)' = Wait(k) /\ Meeting(p)' = Meeting(p)
      /\ rules'[k].sync_start = rules[k].sync_start
  BY <1>1, <1>5, CoupleSame
<1>7. /\ Key(g) = k => g = e
      /\ Key(g) = p => g = f
      /\ Key(g) = k => IsAt(k) \/ Passed(k)
      /\ Key(g) = p => IsAt(p) \/ Passed(p)
      /\ IsAt(k) /\ g = e => Key(g) = k
      /\ IsAt(p) /\ g = f => Key(g) = p
  <2>1. (Key(g) = k => g = e) /\ (Key(g) = p => g = f)
    BY DEF Key
  <2>2. (IsAt(k) => Key(e) = k) /\ (IsAt(p) => Key(f) = p)
    BY <1>1, AtFacts
  <2>3. (Key(e) = k => IsAt(k) \/ Passed(k)) /\ (Key(f) = p => IsAt(p) \/ Passed(p))
    BY <1>2, RendezvousAt
  <2> QED
    BY <2>1, <2>2, <2>3
<1>8. /\ Meeting(k) \in Nat /\ Wait(k) \in Nat /\ Wait(k) >= 1
      /\ Meeting(p) \in Nat /\ Wait(p) \in Nat /\ Wait(p) >= 1
      /\ Meeting(k) = 0 => Wait(k) = 1
      /\ Meeting(k) # 0 => Wait(k) = Meeting(k)
      /\ Meeting(p) = 0 => Wait(p) = 1
      /\ Meeting(p) # 0 => Wait(p) = Meeting(p)
  BY CoupleFacts DEF Wait
<1>9. IsAt(k) =>
        /\ IsAt(p) => ~AwaitsStart(e)
        /\ ~AwaitsStart(e) /\ rules[k].sync_start => IsAt(p) \/ Passed(p)
        /\ ~rules[k].sync_start => ~AwaitsStart(e)
        /\ AtRendezvous(e) <=> ~AwaitsStart(e) /\ step[e] >= Meeting(k)
        /\ ConstrainedStep(e) =
             IF AwaitsStart(e) THEN 0
             ELSE IF AtRendezvous(e) /\ ~rules[k].fulfilled THEN Back(step[e]) ELSE step[e]
  BY <1>2, CoupleStep
<1>10. IsAt(p) =>
        /\ IsAt(k) => ~AwaitsStart(f)
        /\ AtRendezvous(f) <=> ~AwaitsStart(f) /\ step[f] >= Meeting(p)
        /\ ConstrainedStep(f) =
             IF AwaitsStart(f) THEN 0
             ELSE IF AtRendezvous(f) /\ ~rules[p].fulfilled THEN Back(step[f]) ELSE step[f]
  BY <1>1, <1>2, CoupleStep
<1>11. /\ IsAt(k) => step[e] \in Nat /\ length[e] \in Nat
       /\ IsAt(p) => step[f] \in Nat /\ length[f] \in Nat
  BY <1>1, AtFacts DEF Simple
<1>12. Status(k, p)'
  BY <1>4, <1>5, <1>7 DEF Duo, Status, Both
<1>13. Held(k, p)'
  <2> SUFFICES ASSUME IsAt(k), ~Both(k, p)' PROVE step'[e] <= Wait(k) - Had(e)'
    BY <1>4, <1>6 DEF Held
  <2>1. ~Both(k, p)
    BY <1>5 DEF Both
  <2>2. step[e] <= Wait(k) - Had(e)
    BY <2>1 DEF Duo, Held
  <2>3. CASE g = e
    <3>1. step[e] <= Wait(k) /\ Had(e)' = 1 /\ Key(g) = k /\ step[e] \in Nat
      BY <1>1, <1>3, <1>7, <1>8, <1>11, <2>2, <2>3
    <3>2. CASE AwaitsStart(e)
      BY <1>4, <1>8, <1>9, <2>3, <3>1, <3>2
    <3>3. CASE ~AwaitsStart(e) /\ AtRendezvous(e)
      <4>1. ~rules[k].fulfilled
        BY <1>5, <2>3, <3>1, <3>3 DEF Both
      <4>2. step'[e] = Back(step[e])
        BY <1>4, <1>9, <2>3, <3>3, <4>1
      <4> QED
        BY <1>8, <3>1, <4>2 DEF Back
    <3>4. CASE ~AwaitsStart(e) /\ ~AtRendezvous(e)
      <4>1. step'[e] = step[e] /\ ~(step[e] >= Meeting(k))
        BY <1>4, <1>9, <2>3, <3>4
      <4> QED
        BY <1>8, <3>1, <4>1
    <3> QED
      BY <3>2, <3>3, <3>4
  <2>4. CASE g # e
    BY <1>1, <1>3, <1>4, <2>2, <2>4
  <2> QED
    BY <2>3, <2>4
<1>14. Awaits(k, p)'
  <2> SUFFICES ASSUME rules'[p].fulfilled, ~rules'[k].fulfilled
               PROVE  /\ IsAt(k) /\ step'[e] = Wait(k) - Had(e)'
                      /\ rules[k].sync_start => IsAt(p)
    BY <1>4, <1>6 DEF Awaits
  <2>1. ~rules[k].fulfilled /\ ~Both(k, p)
    BY <1>5 DEF Both
  <2>2. CASE rules[p].fulfilled
    <3>1. /\ IsAt(k) /\ step[e] = Wait(k) - Had(e)
          /\ rules[k].sync_start => IsAt(p)
      BY <2>1, <2>2 DEF Duo, Awaits
    <3>2. CASE g = e
      <4>1. ~AwaitsStart(e) /\ step[e] = Wait(k)
        BY <1>3, <1>8, <1>9, <3>1, <3>2
      <4>2. step'[e] = Back(step[e])
        BY <1>4, <1>8, <1>9, <2>1, <3>1, <3>2, <4>1
      <4> QED
        BY <1>1, <1>3, <1>8, <3>1, <3>2, <4>1, <4>2 DEF Back
    <3>3. CASE g # e
      BY <1>1, <1>3, <1>4, <3>1, <3>3
    <3> QED
      BY <3>2, <3>3
  <2>3. CASE ~rules[p].fulfilled
    <3>1. AtRendezvous(e) /\ g = e /\ IsAt(k) /\ ~Passed(p)
      BY <1>5, <1>7, <2>1, <2>3 DEF Duo, Status, Both
    <3>2. ~AwaitsStart(e) /\ step[e] >= Meeting(k) /\ step[e] \in Nat
      BY <1>9, <1>11, <3>1
    <3>3. step[e] <= Wait(k)
      BY <1>3, <1>8, <2>1, <3>1, <3>2 DEF Duo, Held
    <3>4. step'[e] = Back(step[e])
      BY <1>4, <1>9, <2>1, <3>1, <3>2
    <3>5. rules[k].sync_start => IsAt(p)
      BY <1>9, <3>1, <3>2
    <3> QED
      BY <1>1, <1>3, <1>8, <3>1, <3>2, <3>3, <3>4, <3>5 DEF Back
  <2> QED
    BY <2>2, <2>3
<1>15. Started(k, p)'
  <2> SUFFICES ASSUME rules[k].sync_start, IsAt(k), step'[e] > 1 - Had(e)'
               PROVE  IsAt(p) \/ Passed(p)
    BY <1>4, <1>6 DEF Started
  <2>1. CASE g = e
    <3>1. step'[e] > 0
      BY <1>1, <1>3, <2>1
    <3>2. ~AwaitsStart(e)
      BY <1>4, <1>9, <2>1, <3>1
    <3> QED
      BY <1>9, <3>2
  <2>2. CASE g # e
    BY <1>1, <1>3, <1>4, <2>2 DEF Duo, Started
  <2> QED
    BY <2>1, <2>2
<1>16. ASSUME IsAt(k), IsAt(p), Meeting(p) = 0, ~rules'[k].fulfilled
       PROVE  /\ g # f /\ ~rules[k].fulfilled /\ step'[f] = step[f] /\ ~Constrained(f)
              /\ step[f] > 0 => step[e] = 0 /\ Planned(e)
  <2>1. ~rules[k].fulfilled
    BY <1>5, <1>16
  <2>2. ~Constrained(f) /\ (step[f] > 0 => step[e] = 0 /\ Planned(e))
    BY <1>16, <2>1 DEF Duo, Prompt
  <2>3. g # f
    <3>1. AtRendezvous(f)
      BY <1>10, <1>11, <1>16
    <3> QED
      BY <1>5, <1>7, <1>16, <3>1
  <2> QED
    BY <1>1, <1>4, <2>1, <2>2, <2>3
<1>17. Prompt(k, p)'
  <2> SUFFICES ASSUME IsAt(k), IsAt(p), Meeting(p) = 0, ~rules'[k].fulfilled
               PROVE  /\ ~Constrained(f)'
                      /\ step'[f] > 0 => step'[e] = 0 /\ pass' # "advance" /\ Planned(e)'
    BY <1>4, <1>6 DEF Prompt
  <2>1. /\ g # f /\ step'[f] = step[f] /\ ~Constrained(f)
        /\ step[f] > 0 => step[e] = 0 /\ Planned(e)
    BY <1>16
  <2>2. ~Constrained(f)' /\ Planned(e)'
    BY <1>1, <1>2, <2>1, ConstrainTurn
  <2>3. step[e] = 0 => step'[e] = 0
    BY <1>1, <1>4
  <2> QED
    BY <1>2, <2>1, <2>2, <2>3
<1>18. Fresh(k, p)'
  <2> SUFFICES ASSUME rules'[p].fulfilled, ~rules'[k].fulfilled, IsAt(p), Meeting(p) = 0,
                      Meeting(k) > 0
               PROVE  step'[f] = 0
    BY <1>4, <1>6 DEF Fresh
  <2>1. IsAt(k)
    BY <1>4, <1>14 DEF Awaits
  <2>2. /\ g # f /\ ~rules[k].fulfilled /\ step'[f] = step[f]
        /\ step[f] > 0 => step[e] = 0
    BY <1>16, <2>1
  <2>3. CASE rules[p].fulfilled
    BY <2>2, <2>3 DEF Duo, Fresh
  <2>4. CASE ~rules[p].fulfilled
    <3>1. AtRendezvous(e)
      BY <1>5, <1>7, <2>4
    <3>2. step[e] >= Meeting(k)
      BY <1>9, <2>1, <3>1
    <3> QED
      BY <1>8, <1>11, <2>1, <2>2, <3>2
  <2> QED
    BY <2>3, <2>4
<1>19. LastStep(k, p)'
  <2> SUFFICES ASSUME Passed(k), ~Passed(p),
                      mode = "plain" \/ (subtasks_done[e] /\ subtask[e] = k[2])
               PROVE  step'[f] = length[f] - 1
    BY <1>2, <1>4 DEF LastStep, inputs
  <2>1. IsAt(p) /\ rules[p].fulfilled /\ step[f] = length[f] - 1
    BY DEF Duo, Status, Both, LastStep
  <2>2. ~AwaitsStart(f)
    <3>1. ~(subtask[e] < k[2])
      <4>1. k[2] \in 0 .. NumSubtasks[e] - 1 /\ subtask[e] \in Int /\ NumSubtasks[e] \in Nat
        BY <1>1, KeysOnly DEF TypeOK
      <4>2. CASE subtasks_done[e] /\ subtask[e] = k[2]
        BY <4>1, <4>2
      <4>3. CASE mode = "plain" /\ subtasks_done[e]
        <5>1. subtask[e] = NumSubtasks[e] - 1
          BY <1>1, <4>3 DEF TInv, Places, Place
        <5> QED
          BY <4>1, <5>1
      <4>4. CASE mode = "plain" /\ ~subtasks_done[e]
        <5>1. resume[e] = NONE
          BY <1>1, <4>4 DEF Base, Direct
        <5>2. subtask[e] > k[2]
          BY <4>4, <5>1 DEF Passed, Position
        <5> QED
          BY <4>1, <5>2
      <4> QED
        BY <4>2, <4>3, <4>4
    <3>2. Key(f) = p
      BY <1>1, <2>1, AtFacts
    <3> QED
      BY <1>1, <3>1, <3>2 DEF AwaitsStart, Partner
  <2>3. g = f => step'[f] = step[f]
    BY <1>4, <1>10, <2>1, <2>2
  <2>4. g # f => step'[f] = step[f]
    BY <1>1, <1>4
  <2> QED
    BY <2>1, <2>3, <2>4
<1>20. SideBySide(k, p)'
  <2> SUFFICES ASSUME IsAt(k), IsAt(p), rules'[k].fulfilled, rules'[p].fulfilled,
                      Earlier(e, f)
               PROVE  Left(f)' <= Left(e)' /\ Left(e)' <= Left(f)' + 1
    BY <1>4 DEF SideBySide, Both, Earlier
  <2>1. /\ Left(e)' = length[e] - step'[e] + 0 /\ Left(f)' = length[f] - step'[f] + 0
        /\ Left(e) = length[e] - step[e] + 0 /\ Left(f) = length[f] - step[f] + 0
    BY <1>2 DEF Left
  <2>2. /\ length[e] = TrajectoryLength(k) /\ length[f] = TrajectoryLength(p)
        /\ TrajectoryLength(k) = Meeting(k) + Shared(k)
        /\ TrajectoryLength(p) = Meeting(p) + Shared(k)
        /\ Shared(k) \in Nat
    BY <1>1, CoupleFacts DEF Base, Lengths, Meeting
  <2>3. ~AwaitsStart(e) /\ ~AwaitsStart(f)
    BY <1>9, <1>10
  <2>4. step[e] \in Nat /\ step[f] \in Nat
    BY <1>11
  <2>5. CASE Both(k, p)
    <3>1. step'[e] = step[e] /\ step'[f] = step[f]
      BY <1>1, <1>4, <1>9, <1>10, <2>3, <2>5 DEF Both
    <3>2. Left(f) <= Left(e) /\ Left(e) <= Left(f) + 1
      BY <2>5 DEF Duo, SideBySide
    <3> QED
      BY <2>1, <3>1, <3>2
  <2>6. CASE ~rules[p].fulfilled
    <3>1. AtRendezvous(e) /\ g = e /\ rules[k].fulfilled
      BY <1>1, <1>5, <1>7, <2>6
    <3>2. step'[e] = step[e] /\ step'[f] = step[f] /\ step[e] >= Meeting(k)
      BY <1>1, <1>4, <1>9, <2>3, <3>1
    <3>3. Had(f) = 0 /\ Had(e) = 0
      BY <1>1, <1>2, <1>3, <3>1, TurnOrder
    <3>4. step[f] = Wait(p) - Had(f)
      BY <2>6, <3>1 DEF Duo, Awaits
    <3>5. step[e] <= Wait(k) - Had(e)
      BY <2>6 DEF Duo, Held, Both
    <3>6. Meeting(k) = 0 /\ Meeting(p) > 0 => step[e] = 0
      BY <2>6, <3>1 DEF Duo, Fresh
    <3> QED
      BY <1>8, <2>1, <2>2, <2>4, <3>2, <3>3, <3>4, <3>5, <3>6
  <2>7. CASE ~rules[k].fulfilled
    <3>1. AtRendezvous(f) /\ g = f /\ rules[p].fulfilled
      BY <1>1, <1>5, <1>7, <2>7
    <3>2. step'[f] = step[f] /\ step'[e] = step[e] /\ step[f] >= Meeting(p)
      BY <1>1, <1>4, <1>10, <2>3, <3>1
    <3>3. Had(e) = 1 /\ Had(f) = 0
      BY <1>1, <1>2, <1>3, <3>1, TurnOrder
    <3>4. step[e] = Wait(k) - Had(e)
      BY <2>7, <3>1 DEF Duo, Awaits
    <3>5. step[f] <= Wait(p) - Had(f)
      BY <2>7 DEF Duo, Held, Both
    <3>6. Meeting(p) = 0 /\ Meeting(k) > 0 => step[f] = 0
      BY <2>7, <3>1 DEF Duo, Fresh
    <3> QED
      BY <1>8, <2>1, <2>2, <2>4, <3>2, <3>3, <3>4, <3>5, <3>6
  <2> QED
    BY <2>5, <2>6, <2>7 DEF Both
<1> QED
  BY <1>12, <1>13, <1>14, <1>15, <1>17, <1>18, <1>19, <1>20 DEF Duo

\* The initial rules have nobody begun, released or through.
LEMMA TogetherInit == Init => Together
<1> SUFFICES ASSUME Init, NEW k \in Keys, NEW p \in Keys, Couple(k, p) PROVE Duo(k, p)
  BY DEF Together
<1>1. TypeOK /\ k \in DOMAIN rules /\ p \in DOMAIN rules
  BY TypesInit DEF TInv, TypeOK, Couple
<1>2. ~rules[k].fulfilled /\ ~rules[k].finished /\ ~rules[p].fulfilled
  BY <1>1, InitialRulesType DEF Init
<1>3. ASSUME NEW c \in Keys PROVE ~Passed(c) /\ ~IsAt(c)
  BY KeysOnly DEF Init, Passed, Position, IsAt
<1> QED
  BY <1>2, <1>3
  DEF Duo, Status, Held, Awaits, Started, Prompt, Fresh, SideBySide, LastStep, Both

\* A couple was one before the step.
LEMMA CoupleBefore ==
    ASSUME TypeOK, [Next]_vars, NEW k, NEW p, Couple(k, p)'
    PROVE  Couple(k, p)
<1>1. SameRules(rules, rules') /\ UNCHANGED inputs
  BY RulesSame
<1> QED
  BY <1>1 DEF Couple, SameRules, MayWait, TrajectoryLength, inputs

\* Every step keeps couples together.
LEMMA TogetherNext == Base /\ Together /\ [Next]_vars => Together'
<1> SUFFICES ASSUME Base, Together, [Next]_vars, Simple', NEW k \in Keys, NEW p \in Keys,
                    Couple(k, p)'
             PROVE  Duo(k, p)'
  BY DEF Together
<1>1. TypeOK /\ UNCHANGED inputs /\ Simple
  BY RulesSame, SimpleBefore DEF Base, TInv
<1>2. Couple(k, p) /\ Couple(p, k)
  BY <1>1, CoupleBefore, CoupleFacts
<1>3. Duo(k, p) /\ Duo(p, k)
  BY <1>1, <1>2 DEF Together
<1>4. ASSUME NEW g \in Eefs, BeginSubtask(g) \/ ResumeSubtask(g) PROVE Duo(k, p)'
  BY <1>1, <1>2, <1>3, <1>4, DuoStart
<1>5. ASSUME NEW g \in Eefs, Constrain(g) PROVE Duo(k, p)'
  BY <1>1, <1>2, <1>3, <1>5, DuoConstrain
<1>6. ASSUME NEW g \in Eefs, AdvanceWithin(g) PROVE Duo(k, p)'
  BY <1>1, <1>2, <1>3, <1>6, DuoWithin
<1>7. ASSUME NEW g \in Eefs, CompleteSubtask(g) PROVE Duo(k, p)'
  BY <1>1, <1>2, <1>3, <1>7, DuoComplete
<1>8. CASE PlanDone \/ Execute \/ AdvanceDone \/ UNCHANGED vars
           \/ \E g \in Eefs : StillExecuting(g)
  <2>1. UNCHANGED <<inputs, rules, eefVars>>
    BY <1>8 DEF PlanDone, Execute, AdvanceDone, vars, StillExecuting
  <2> QED
    BY <1>1, <1>2, <1>3, <1>8, <2>1, DuoQuiet
<1> QED
  BY <1>4, <1>5, <1>6, <1>7, <1>8
  DEF Next, BeginSubtaskFails, PlanningFails, AdvanceFails, Raise, Simple, Running

\* Either comes first.
LEMMA EarlierTotal ==
    ASSUME NEW e \in Eefs, NEW f \in Eefs, e # f
    PROVE  Earlier(e, f) \/ Earlier(f, e)
<1>1. /\ \E i \in 1 .. Len(SortedOrder) : SortedOrder[i] = e
      /\ \E i \in 1 .. Len(SortedOrder) : SortedOrder[i] = f
      /\ Len(SortedOrder) \in Nat
  BY OrderFacts
<1>2. PICK i \in 1 .. Len(SortedOrder), j \in 1 .. Len(SortedOrder) :
        SortedOrder[i] = e /\ SortedOrder[j] = f
  BY <1>1
<1>3. i < j \/ j < i
  BY <1>1, <1>2
<1> QED
  BY <1>2, <1>3 DEF Earlier

\* CoordinatedTogether, for any end effectors, subtasks, constraints and lengths:
\* coordinated subtasks run side by side to their end.
THEOREM AlwaysCoordinatedTogether == Spec => []CoordinatedTogether
<1>1. Init => Base /\ Together
  BY BaseInit, TogetherInit
<1>2. Base /\ Together /\ [Next]_vars => (Base /\ Together)'
  BY BaseNext, TogetherNext
<1>3. Base /\ Together => CoordinatedTogether
  <2> SUFFICES ASSUME Base, Together, OneConstraintPerSubtask, pass = "plan",
                      mode # "navigation", NEW k \in DOMAIN rules,
                      rules[k].type = "coordination", NEW p, p = rules[k].partner,
                      MayWait(k), MayWait(p)
               PROVE  /\ rules[k].sync_start /\ (Passed(k) \/ (IsAt(k) /\ step[k[1]] > 1)) =>
                            Position(p[1]) >= p[2]
                      /\ mode = "plain" =>
                            /\ IsAt(k) /\ IsAt(p) /\ rules[k].fulfilled /\ rules[p].fulfilled =>
                                  Remaining(k) - Remaining(p) \in {-1, 0, 1}
                            /\ Passed(k) => Passed(p) \/ (IsAt(p) /\ Remaining(p) <= 1)
    BY DEF CoordinatedTogether
  <2>1. Simple /\ TInv /\ TypeOK /\ k \in Keys /\ p \in Keys /\ Couple(k, p)
    BY DEF Simple, Running, Base, TInv, TypeOK, Couple
  <2>2. Couple(p, k) /\ k[1] \in Eefs /\ p[1] \in Eefs /\ k[1] # p[1]
    BY <2>1, CoupleFacts
  <2>3. Duo(k, p) /\ Duo(p, k)
    BY <2>1, <2>2 DEF Together
  <2>4. ASSUME rules[k].sync_start, Passed(k) \/ (IsAt(k) /\ step[k[1]] > 1)
        PROVE  Position(p[1]) >= p[2]
    <3>1. Had(k[1]) = 0
      BY DEF Had, Constrained
    <3>2. IsAt(p) \/ Passed(p)
      BY <2>3, <2>4, <3>1 DEF Duo, Status, Both, Started
    <3>3. p[2] \in 0 .. NumSubtasks[p[1]] - 1 /\ NumSubtasks[p[1]] \in Nat
      BY <2>1, KeysOnly
    <3>4. CASE IsAt(p)
      BY <2>1, <3>3, <3>4, AtFacts
    <3>5. CASE subtasks_done[p[1]]
      <4>1. subtask[p[1]] = NumSubtasks[p[1]] - 1 /\ resume[p[1]] = NONE
        BY <2>1, <2>2, <3>5 DEF TInv, Places, Place
      <4> QED
        BY <3>3, <4>1 DEF Position
    <3>6. CASE Position(p[1]) > p[2]
      <4>1. Position(p[1]) \in Int
        BY <2>1, <2>2 DEF TInv, TypeOK, Places, Place, Position
      <4> QED
        BY <3>3, <3>6, <4>1
    <3> QED
      BY <3>2, <3>4, <3>5, <3>6 DEF Passed
  <2>5. ASSUME IsAt(k), IsAt(p), rules[k].fulfilled, rules[p].fulfilled
        PROVE  Remaining(k) - Remaining(p) \in {-1, 0, 1}
    <3>1. /\ step[k[1]] \in Int /\ length[k[1]] \in Int
          /\ step[p[1]] \in Int /\ length[p[1]] \in Int
      BY <2>1, <2>5, AtFacts DEF Simple
    <3>2. Left(k[1]) = Remaining(k) + 0 /\ Left(p[1]) = Remaining(p) + 0
      BY DEF Left, Remaining
    <3>3. \/ Left(p[1]) <= Left(k[1]) /\ Left(k[1]) <= Left(p[1]) + 1
          \/ Left(k[1]) <= Left(p[1]) /\ Left(p[1]) <= Left(k[1]) + 1
      BY <2>2, <2>3, <2>5, EarlierTotal DEF Duo, SideBySide, Both
    <3> QED
      BY <3>1, <3>2, <3>3 DEF Remaining
  <2>6. ASSUME mode = "plain", Passed(k) PROVE Passed(p) \/ (IsAt(p) /\ Remaining(p) <= 1)
    <3>1. IsAt(p) \/ Passed(p)
      BY <2>3, <2>6 DEF Duo, Status, Both
    <3>2. ASSUME IsAt(p) PROVE Remaining(p) <= 1
      <4>1. step[p[1]] \in Int /\ length[p[1]] \in Int /\ ~Passed(p)
        BY <2>1, <3>2, AtFacts DEF Simple
      <4>2. step[p[1]] = length[p[1]] - 1
        BY <2>3, <2>6, <4>1 DEF Duo, LastStep
      <4> QED
        BY <4>1, <4>2 DEF Remaining
    <3> QED
      BY <3>1, <3>2
  <2> QED
    BY <2>4, <2>5, <2>6
<1> QED
  BY <1>1, <1>2, <1>3, PTL DEF Spec

(***************************************************************************)
(* Exceptions                                                              *)
(***************************************************************************)
\* What the constraints have to be like for an attempt not to fail.
Waitable == \A k \in DOMAIN rules : rules[k].type = "coordination" => MayWait(k)
Orderly ==
    OneConstraintPerSubtask /\ mode # "navigation" /\ key_order = SortedOrder /\ Waitable

NoCrash == Orderly => crash = "none"

\* The rules of partners are of one kind.
LEMMA NobodyLost ==
    ASSUME Base, OneConstraintPerSubtask, NEW e \in Eefs
    PROVE  ~PartnerLost(e)
  BY DEF Base, Paired, PartnerLost, HasRule, Opposite

\* Whoever completes a coordinated subtask finds the partner through or at its last step.
LEMMA NoCoordinationFailure ==
    ASSUME Base, Together, Orderly, NEW g \in Eefs, Turn("advance", key_order, g)
    PROVE  ~NavigationFails(g) /\ (SubtaskDone(g) => CoordinationFailure(g) = "none")
<1>1. Simple /\ TInv /\ TypeOK /\ pass = "advance"
  BY DEF Orderly, Simple, Running, Base, TInv, Turn
<1>2. /\ ~NavigationFails(g) /\ Advanced(g) = [step EXCEPT ![g] = step[g] + 1]
      /\ step[g] \in 0 .. length[g] - 1 /\ length[g] \in Nat
  BY <1>1, CountedAlone DEF Simple
<1> SUFFICES ASSUME SubtaskDone(g), PartnerUnfinished(g)
             PROVE  CoordinationFailure(g) = "none"
  BY <1>2 DEF CoordinationFailure
<1>3. step[g] = length[g] - 1 /\ step[g] # NONE
  BY <1>1, <1>2 DEF SubtaskDone, TypeOK, NONE
<1>4. PICK k : k = Key(g)
  OBVIOUS
<1>5. PICK p : p = Partner(g)
  OBVIOUS
<1>6. /\ k \in DOMAIN rules /\ rules[k].type = "coordination" /\ rules[k].partner = p
      /\ ~rules[p].finished /\ k[1] = g /\ subtask[g] = k[2]
  BY <1>4, <1>5 DEF PartnerUnfinished, Is, HasRule, Partner, Key
<1>7. k \in Keys /\ p \in Keys /\ p \in DOMAIN rules /\ rules[p].type = "coordination"
  BY <1>1, <1>6 DEF TypeOK, Base, Paired, Simple, Opposite
<1>8. Couple(k, p) /\ Couple(p, k) /\ p[1] \in Eefs /\ p[1] # g
      /\ Wait(k) \in 1 .. TrajectoryLength(k) - 1 /\ TrajectoryLength(k) \in Nat
  <2>1. Couple(k, p)
    BY <1>6, <1>7 DEF Couple, Orderly, Waitable
  <2> QED
    BY <1>1, <1>6, <1>7, <2>1, CoupleFacts
<1>9. Duo(k, p) /\ Duo(p, k) /\ ~Passed(p)
  <2>1. Duo(k, p) /\ Duo(p, k)
    BY <1>1, <1>7, <1>8 DEF Together
  <2> QED
    BY <1>6, <2>1 DEF Duo, Status
<1>10. step[p[1]] # NONE /\ step[p[1]] >= length[p[1]] - 1
  <2>1. CASE subtasks_done[g]
    <3>1. Passed(k)
      BY <1>6, <2>1 DEF Passed
    <3>2. IsAt(p) /\ step[p[1]] = length[p[1]] - 1
      BY <1>6, <1>9, <2>1, <3>1 DEF Duo, Status, Both, LastStep
    <3> QED
      BY <1>1, <1>8, <3>2 DEF IsAt, TypeOK
  <2>2. CASE ~subtasks_done[g]
    <3>1. IsAt(k)
      BY <1>3, <1>6, <2>2 DEF IsAt
    <3>2. length[g] = TrajectoryLength(k)
      BY <1>1, <1>6, <1>7, <3>1 DEF Base, Lengths, Simple
    <3>3. ~Past(key_order, turn, g)
      <4>1. key_order \in KeyOrders /\ turn \in 1 .. Len(key_order)
        BY <1>1, OrderFacts DEF TypeOK, Turn
      <4> QED
        BY <4>1, PastNext DEF Turn
    <3>4. Had(g) = 1
      BY <1>1, <3>3 DEF Had, Constrained
    <3>5. Both(k, p)
      <4>1. ASSUME ~Both(k, p) PROVE FALSE
        <5>1. step[g] <= Wait(k) - 1
          BY <1>6, <1>9, <3>1, <3>4, <4>1 DEF Duo, Held
        <5> QED
          BY <1>3, <1>8, <3>2, <5>1
      <4> QED
        BY <4>1
    <3>6. IsAt(p)
      BY <1>9, <3>5 DEF Duo, Status, Both
    <3>7. /\ step[p[1]] \in 0 .. length[p[1]] - 1 /\ length[p[1]] \in Nat
          /\ step[p[1]] # NONE
      BY <1>1, <1>7, <3>6, AtFacts DEF Simple, IsAt
    <3>8. Left(g) = 1
      BY <1>2, <1>3, <3>3 DEF Left
    <3>9. CASE Earlier(g, p[1])
      <4>1. Left(p[1]) <= 1
        BY <1>6, <1>9, <3>1, <3>5, <3>6, <3>8, <3>9 DEF Duo, SideBySide
      <4> QED
        BY <3>7, <4>1 DEF Left
    <3>10. CASE Earlier(p[1], g)
      <4>1. Both(p, k)
        BY <3>5 DEF Both
      <4>2. Left(p[1]) <= 1 + 1
        BY <1>6, <1>9, <3>1, <3>6, <3>8, <3>10, <4>1 DEF Duo, SideBySide
      <4>3. Past(key_order, turn, p[1])
        <5>1. PICK i, j \in 1 .. Len(SortedOrder) :
                i < j /\ SortedOrder[i] = p[1] /\ SortedOrder[j] = g
          BY <3>10 DEF Earlier
        <5>2. turn \in Nat /\ turn >= 1 /\ key_order = SortedOrder
          BY <1>1, OrderFacts DEF TypeOK, Orderly
        <5>3. turn = j
          BY <5>1, <5>2, OrderFacts DEF Turn
        <5> QED
          BY <5>1, <5>2, <5>3, OrderFacts DEF Past
      <4> QED
        BY <1>1, <3>7, <4>2, <4>3 DEF Left
    <3> QED
      BY <1>8, <3>7, <3>9, <3>10, EarlierTotal
  <2> QED
    BY <2>1, <2>2
<1>11. Advanced(g)[p[1]] = step[p[1]]
  BY <1>1, <1>2, <1>8 DEF TypeOK
<1>12. step[p[1]] \in Int /\ length[p[1]] \in Nat
  <2>1. length[p[1]] \in Nat /\ step[p[1]] \in Nat \cup {NONE, -1}
    BY <1>1, <1>8 DEF TypeOK
  <2> QED
    BY <2>1 DEF NONE
<1> QED
  BY <1>5, <1>10, <1>11, <1>12 DEF CoordinationFailure

\* Every step of an orderly attempt goes without an exception.
LEMMA NoCrashNext == Base /\ Together /\ NoCrash /\ [Next]_vars => NoCrash'
<1> SUFFICES ASSUME Base, Together, NoCrash, [Next]_vars, Orderly' PROVE crash' = "none"
  BY DEF NoCrash
<1>1. SameRules(rules, rules') /\ UNCHANGED inputs /\ TypeOK
  BY RulesSame DEF Base, TInv
<1>2. Orderly
  <2>1. OneConstraintPerSubtask /\ mode # "navigation" /\ key_order = SortedOrder
    BY <1>1 DEF Orderly, OneConstraintPerSubtask, inputs
  <2>2. Waitable
    BY <1>1 DEF Orderly, Waitable, SameRules, MayWait, TrajectoryLength, inputs
  <2> QED
    BY <2>1, <2>2 DEF Orderly
<1>3. crash = "none"
  BY <1>2 DEF NoCrash
<1>4. ASSUME NEW g \in Eefs, BeginSubtaskFails(g) PROVE FALSE
  BY <1>2, <1>4, NobodyLost DEF BeginSubtaskFails, Orderly
<1>5. ASSUME NEW g \in Eefs, AdvanceFails(g) PROVE FALSE
  BY <1>2, <1>5, NoCoordinationFailure DEF AdvanceFails
<1> QED
  BY <1>3, <1>4, <1>5
  DEF Next, StillExecuting, BeginSubtask, ResumeSubtask, PlanningFails, Constrain,
      AdvanceWithin, CompleteSubtask, PlanDone, Execute, AdvanceDone, vars

\* NoException, for any end effectors, subtasks, constraints and lengths: every waypoint
\* looked up exists, and an orderly attempt meets no Python exception.
THEOREM AttemptsRaiseNothing == Spec => []NoException
<1>1. Init => Base /\ Together /\ NoCrash
  BY BaseInit, TogetherInit DEF NoCrash, Init
<1>2. Base /\ Together /\ NoCrash /\ [Next]_vars => (Base /\ Together /\ NoCrash)'
  BY BaseNext, TogetherNext, NoCrashNext
<1>3. Base /\ NoCrash => NoException
  <2> SUFFICES ASSUME Base, NoCrash PROVE NoException
    OBVIOUS
  <2>1. TInv /\ TypeOK
    BY DEF Base, TInv
  <2>2. ASSUME pass = "constrain", NEW i \in 1 .. turn - 1
        PROVE  step[SortedOrder[i]] \in 0 .. length[SortedOrder[i]] - 1
    <3>1. SortedOrder[i] \in Eefs
      BY <2>1, OrderFacts DEF TypeOK
    <3>2. Planned(SortedOrder[i])
      BY <2>2 DEF Planned
    <3> QED
      BY <2>1, <2>2, <3>1, <3>2 DEF TInv, Waypoints, TypeOK
  <2>3. (/\ OneConstraintPerSubtask /\ mode # "navigation" /\ key_order = SortedOrder
         /\ \A k \in DOMAIN rules : rules[k].type = "coordination" => MayWait(k))
        => crash = "none"
    BY DEF NoCrash, Orderly, Waitable
  <2> QED
    BY <2>2, <2>3 DEF NoException
<1> QED
  BY <1>1, <1>2, <1>3, PTL DEF Spec
================================================================================
