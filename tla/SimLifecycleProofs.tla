--------------------------- MODULE SimLifecycleProofs ---------------------------
(* Proofs about SimLifecycle for a process that keeps to one backend: any number *)
(* of objects, contexts, resets, failures, GUI commands and late finalisers.     *)
EXTENDS SimLifecycle, FiniteSetTheorems, WellFoundedInduction, TLAPS

USE DEF contextVars, flagVars, nativeVars, tableVars, lifeVars, readyVars, objectVars,
        userVars

--------------------------------------------------------------------------------
(* The inductive invariant *)

\* the table's entry for a slot of an object
Entry(o, slot) == [id |-> ids[o][slot], owner |-> o, slot |-> slot]

\* every id in use was given out by the counter of the process's only backend
Issued ==
    /\ live \/ callbacks # {} => backend # "none"
    /\ \A c \in callbacks : c.id < NextId(backend)
    /\ \A o \in Objects, slot \in Slots :
         ids[o][slot] # NoId => backend # "none" /\ ids[o][slot] < NextId(backend)

\* the table holds callbacks of the live context only
OwnersHere == \A c \in callbacks : c.owner \in here \cup {Renderer}

\* every object still has the handle of each of its callbacks
Traced == \A c \in callbacks : c.owner \in Objects => c.id = ids[c.owner][c.slot]

\* what is gone with the context
NothingWithout == ~live => callbacks = {} /\ here = {} /\ ~view

Warmed == warmup_needed = ~view

\* the assets and sensors of the context will hear what invalidates them
Listening ==
    /\ \A o \in here \cap Scene :
         /\ Entry(o, "stop") \in callbacks
         /\ backend = "physx" => Entry(o, "prim") \in callbacks
    /\ \A c \in callbacks : c.slot = "prim" => backend = "physx"

\* the assets of Newton will be rebound
WillRebind ==
    /\ backend = "newton" =>
         \A o \in here \cap Scene \cap initialized :
           Kind[o] = "asset" => Entry(o, "rebind") \in callbacks
    /\ \A c \in callbacks : c.slot = "rebind" =>
         backend = "newton" /\ c.owner \in initialized

IInv ==
    /\ TypeOK /\ Issued /\ HandlesAreOwn /\ OwnersHere /\ Traced
    /\ NothingWithout /\ Warmed
    /\ Listening /\ WillRebind /\ ReadyIsCurrent /\ InvalidAfterClose

--------------------------------------------------------------------------------
(* The registry *)

LEMMA NextIdType ==
    ASSUME TypeOK, NEW class \in Backends
    PROVE  NextId(class) \in Nat
BY BackendsAssumption DEF TypeOK, NextId, NoId

\* After n registrations the counter is n further on.
LEMMA Counted ==
    ASSUME TypeOK, NEW class \in Backends, NEW new, NEW n \in Nat,
           Register(class, new, n)
    PROVE  /\ NextId(class)' = NextId(class) + n
           /\ callback_id' \in [{"physx", "ovphysx", "newton"} -> Nat \cup {NoId}]
           /\ callback_id'["newton"] # NoId
<1>1. NextId(class) \in Nat /\ class \in {"physx", "ovphysx", "newton"}
  BY NextIdType, BackendsAssumption
<1>2. callback_id' = [callback_id EXCEPT ![class] = NextId(class) + n]
  BY DEF Register
<1>3. callback_id'[class] = NextId(class) + n
  BY <1>1, <1>2 DEF TypeOK
<1> QED
  BY <1>1, <1>2, <1>3 DEF TypeOK, NextId, NoId

\* What one dispatch of READY does to the registry: no entry is lost, the new ones
\* are those of the assets of Newton that have just been initialised.
LEMMA Dispatched ==
    ASSUME IInv, live, NEW F, DispatchReady(F), backend' = backend
    PROVE  /\ callbacks \subseteq callbacks'
           /\ \A c \in callbacks' \ callbacks :
                /\ c.owner \in Rebinding(Succeeding(F)) /\ c.slot = "rebind"
                /\ c.id \in Nat /\ c.id >= NextId(backend) /\ c.id < NextId(backend)'
                /\ c = [id |-> c.id, owner |-> c.owner, slot |-> c.slot]
                /\ c.id = ids'[c.owner]["rebind"]
           /\ \A o \in Rebinding(Succeeding(F)) :
                /\ ids'[o]["rebind"] \in Nat /\ ids'[o]["rebind"] >= NextId(backend)
                /\ ids'[o]["rebind"] < NextId(backend)'
                /\ Entry(o, "rebind")' \in callbacks'
           /\ \A o, p \in Rebinding(Succeeding(F)) :
                ids'[o]["rebind"] = ids'[p]["rebind"] => o = p
           /\ \A o \in Objects, slot \in Slots :
                ids'[o][slot] = ids[o][slot]
                  \/ (slot = "rebind" /\ o \in Rebinding(Succeeding(F)))
           /\ \A o \in Objects \ Rebinding(Succeeding(F)) : ids'[o] = ids[o]
           /\ NextId(backend) \in Nat /\ NextId(backend)' \in Nat
           /\ NextId(backend)' >= NextId(backend)
           /\ ids' \in [Objects -> [Slots -> Nat \cup {NoId}]]
           /\ callback_id' \in [{"physx", "ovphysx", "newton"} -> Nat \cup {NoId}]
           /\ callback_id'["newton"] # NoId
<1> DEFINE more == Rebinding(Succeeding(F))
           first == NextId(backend)
           n == Cardinality(more)
<1>1. backend \in Backends /\ first \in Nat
  BY NextIdType DEF IInv, TypeOK, Issued
<1>2. more \subseteq Objects /\ IsFiniteSet(more) /\ n \in Nat
  <2>1. more \subseteq Objects
    BY DEF Rebinding, Succeeding, Attempted, Uninitialized
  <2> QED
    BY <2>1, ObjectsAssumption, FS_Subset, FS_CardinalityType
<1>3. PICK new \in [more -> first .. (first + n) - 1] :
        /\ \A o, p \in more : Precedes(p, o) => new[p] < new[o]
        /\ \A o, p \in more : o # p => new[o] # new[p]
        /\ ids' = [o \in Objects |->
                      IF o \in more THEN [ids[o] EXCEPT !.rebind = new[o]]
                                    ELSE ids[o]]
        /\ Register(backend,
                    {[id |-> new[o], owner |-> o, slot |-> "rebind"] : o \in more}, n)
  BY Zenon DEF DispatchReady
<1> DEFINE entries == {[id |-> new[o], owner |-> o, slot |-> "rebind"] : o \in more}
<1>4. \A o \in more : new[o] \in Nat /\ new[o] >= first /\ new[o] < first + n
  BY <1>1, <1>2, <1>3
<1>5. /\ NextId(backend)' = first + n
      /\ callback_id' \in [{"physx", "ovphysx", "newton"} -> Nat \cup {NoId}]
      /\ callback_id'["newton"] # NoId
  BY <1>1, <1>2, <1>3, Counted DEF IInv
<1>6. callbacks' = callbacks \cup entries
  <2>1. \A c \in callbacks : c.id < first
    BY DEF IInv, Issued
  <2>2. \A c \in callbacks, e \in entries : e.id # c.id
    BY <2>1, <1>4, <1>1 DEF IInv, TypeOK
  <2> QED
    BY <1>3, <2>2 DEF Register, Put
<1>7. \A o \in more : ids'[o]["rebind"] = new[o]
  BY <1>2, <1>3 DEF IInv, TypeOK, Slots
<1>8. \A o \in Objects, slot \in Slots :
        ids'[o][slot] = ids[o][slot] \/ (slot = "rebind" /\ o \in more)
  BY <1>2, <1>3 DEF IInv, TypeOK, Slots
<1>9. ids' \in [Objects -> [Slots -> Nat \cup {NoId}]]
  BY <1>2, <1>3, <1>4 DEF IInv, TypeOK, Slots
<1>10. \A c \in callbacks' \ callbacks :
         /\ c.owner \in more /\ c.slot = "rebind"
         /\ c.id \in Nat /\ c.id >= first /\ c.id < first + n
         /\ c = [id |-> c.id, owner |-> c.owner, slot |-> c.slot]
         /\ c.id = ids'[c.owner]["rebind"]
  BY <1>6, <1>4, <1>7
<1>11. \A o \in more : Entry(o, "rebind")' \in callbacks'
  BY <1>6, <1>7 DEF Entry
<1>12. /\ \A o \in more : /\ ids'[o]["rebind"] \in Nat
                          /\ ids'[o]["rebind"] >= first
                          /\ ids'[o]["rebind"] < first + n
       /\ \A o, p \in more : ids'[o]["rebind"] = ids'[p]["rebind"] => o = p
  BY <1>7, <1>4, <1>3
<1>13. \A o \in Objects \ more : ids'[o] = ids[o]
  BY <1>3
<1> HIDE DEF more, first, n, entries
<1>14. first + n \in Nat /\ first + n >= first
  BY <1>1, <1>2
<1> QED
  BY <1>1, <1>5, <1>6, <1>8, <1>9, <1>10, <1>11, <1>12, <1>13, <1>14 DEF more, first

--------------------------------------------------------------------------------
(* The parts of a step *)

\* the parts of TypeOK that no other conjunct of IInv refers to
ScalarsOK ==
    /\ timeline \in {"stopped", "playing", "paused"}
    /\ is_playing \in BOOLEAN /\ is_stopped \in BOOLEAN
    /\ pending \in Failures
    /\ returned \in Failures \cup {"reset", "soft_reset", "step"}
    /\ told \in BOOLEAN /\ gui \in Nat

\* A step that leaves the registry, the objects and the native simulation alone.
LEMMA Idle ==
    ASSUME IInv, ScalarsOK',
           UNCHANGED <<contextVars, nativeVars, tableVars, objectVars>>
    PROVE  IInv'
<1>1. TypeOK'
  BY DEF IInv, TypeOK, ScalarsOK
<1>2. Issued' /\ HandlesAreOwn' /\ OwnersHere' /\ Traced'
  BY DEF IInv, Issued, HandlesAreOwn, OwnersHere, Traced, NextId
<1>3. NothingWithout' /\ Warmed' /\ Listening' /\ WillRebind'
  BY DEF IInv, NothingWithout, Warmed, Listening, WillRebind, Entry
<1>4. ReadyIsCurrent' /\ InvalidAfterClose'
  BY DEF IInv, ReadyIsCurrent, InvalidAfterClose
<1> QED
  BY <1>1, <1>2, <1>3, <1>4 DEF IInv

\* An object with an entry for a slot is among the owners of that slot.
LEMMA Owning ==
    ASSUME NEW o, NEW slot, Entry(o, slot) \in callbacks
    PROVE  o \in Owners(slot)
<1> DEFINE e == Entry(o, slot)
<1>1. e \in {d \in callbacks : d.slot = slot} /\ e.owner = o
  BY DEF Entry
<1> HIDE DEF e
<1> QED
  BY <1>1 DEF Owners

\* Who is initialised by a dispatch, and who is bound again.
LEMMA Reached ==
    ASSUME IInv, NEW F
    PROVE  /\ Succeeding(F) \subseteq here \ initialized
           /\ Owners("rebind") \subseteq initialized
           /\ Rebinding(Succeeding(F)) \subseteq Succeeding(F) \cap Scene
           /\ Rebinding(Succeeding(F)) # {} => backend = "newton"
           /\ backend = "newton" =>
                \A o \in Succeeding(F) \cap Scene :
                  Kind[o] = "asset" => o \in Rebinding(Succeeding(F))
<1>1. Owners("ready") \cap Objects \subseteq here
  BY ObjectsAssumption DEF IInv, OwnersHere, Owners
<1>2. Succeeding(F) \subseteq here \ initialized
  BY <1>1 DEF Succeeding, Attempted, Uninitialized
<1>3. Owners("rebind") \subseteq initialized
  BY DEF IInv, WillRebind, Owners
<1>4. Succeeding(F) \subseteq Objects
  BY DEF Succeeding, Attempted, Uninitialized
<1>5. /\ Rebinding(Succeeding(F)) \subseteq Succeeding(F) \cap Scene
      /\ Rebinding(Succeeding(F)) # {} => backend = "newton"
      /\ backend = "newton" =>
           \A o \in Succeeding(F) \cap Scene :
             Kind[o] = "asset" => o \in Rebinding(Succeeding(F))
  BY <1>4 DEF Rebinding, Scene
<1> QED
  BY <1>2, <1>3, <1>5

\* A dispatch of READY keeps the registry and the handles in step; what it binds is
\* left to the two kinds of dispatch below.
LEMMA DispatchKeeps ==
    ASSUME IInv, live, NEW F, DispatchReady(F), UNCHANGED contextVars
    PROVE  /\ Issued' /\ HandlesAreOwn' /\ OwnersHere' /\ Traced'
           /\ Listening' /\ WillRebind' /\ InvalidAfterClose'
           /\ callbacks' \subseteq [id : Nat, owner : Objects \cup {Renderer},
                                   slot : Slots]
           /\ initialized' \subseteq held
<1> DEFINE done == Succeeding(F)
           more == Rebinding(done)
<1>1. /\ callbacks \subseteq callbacks'
      /\ \A c \in callbacks' \ callbacks :
           /\ c.owner \in more /\ c.slot = "rebind"
           /\ c.id \in Nat /\ c.id >= NextId(backend) /\ c.id < NextId(backend)'
           /\ c = [id |-> c.id, owner |-> c.owner, slot |-> c.slot]
           /\ c.id = ids'[c.owner]["rebind"]
  BY Dispatched
<1>2. /\ \A o \in more :
           /\ ids'[o]["rebind"] \in Nat /\ ids'[o]["rebind"] >= NextId(backend)
           /\ ids'[o]["rebind"] < NextId(backend)'
           /\ Entry(o, "rebind")' \in callbacks'
      /\ \A o, p \in more : ids'[o]["rebind"] = ids'[p]["rebind"] => o = p
  BY Dispatched
<1>3. /\ \A o \in Objects, slot \in Slots :
           ids'[o][slot] = ids[o][slot] \/ (slot = "rebind" /\ o \in more)
      /\ \A o \in Objects \ more : ids'[o] = ids[o]
  BY Dispatched
<1>4. /\ NextId(backend) \in Nat /\ NextId(backend)' \in Nat
      /\ NextId(backend)' >= NextId(backend)
      /\ ids' \in [Objects -> [Slots -> Nat \cup {NoId}]]
  BY Dispatched
<1>5. /\ done \subseteq here \ initialized /\ more \subseteq done \cap Scene
      /\ more # {} => backend = "newton"
      /\ backend = "newton" =>
           \A o \in done \cap Scene : Kind[o] = "asset" => o \in more
  BY Reached
<1>6. /\ initialized' = initialized \cup done
      /\ UNCHANGED <<live, backend, held, here>>
  BY DEF DispatchReady
<1>7. here \subseteq Objects /\ held \subseteq Objects /\ here \subseteq held
  BY DEF IInv, TypeOK
<1> HIDE DEF done, more
<1>8. Issued'
  <2>1. \A c \in callbacks : c.id \in Nat /\ c.id < NextId(backend)
    BY DEF IInv, TypeOK, Issued
  <2>2. \A c \in callbacks' : c.id < NextId(backend)'
    BY <2>1, <1>1, <1>4
  <2>3. ASSUME NEW o \in Objects, NEW slot \in Slots, ids'[o][slot] # NoId
        PROVE  ids'[o][slot] < NextId(backend)'
    <3>1. ids[o][slot] \in Nat \cup {NoId}
      BY DEF IInv, TypeOK
    <3>2. ids[o][slot] # NoId => ids[o][slot] < NextId(backend)
      BY DEF IInv, Issued
    <3> QED
      BY <2>3, <3>1, <3>2, <1>2, <1>3, <1>4
  <2>4. backend # "none"
    BY DEF IInv, Issued
  <2> QED
    BY <2>2, <2>3, <2>4, <1>6 DEF Issued, NoId
<1>9. HandlesAreOwn'
  <2> SUFFICES ASSUME NEW o \in Objects, NEW slot \in Slots, NEW c \in callbacks',
                      c.id = ids'[o][slot]
               PROVE  c.owner = o /\ c.slot = slot
    BY DEF HandlesAreOwn
  <2>1. /\ ids[o][slot] \in Nat \cup {NoId}
        /\ ids[o][slot] # NoId => ids[o][slot] < NextId(backend)
    BY DEF IInv, TypeOK, Issued
  <2>2. CASE c \in callbacks
    <3>1. c.id \in Nat /\ c.id < NextId(backend)
      BY <2>2 DEF IInv, TypeOK, Issued
    <3>2. ids'[o][slot] = ids[o][slot]
      BY <3>1, <1>2, <1>3, <1>4
    <3> QED
      BY <2>2, <3>2 DEF IInv, HandlesAreOwn
  <2>3. CASE c \notin callbacks
    <3>1. /\ c.owner \in more /\ c.slot = "rebind" /\ c.id >= NextId(backend)
          /\ c.id \in Nat /\ c.id = ids'[c.owner]["rebind"]
      BY <2>3, <1>1
    <3>2. ids'[o][slot] # ids[o][slot]
      BY <3>1, <2>1, <1>4 DEF NoId
    <3>3. slot = "rebind" /\ o \in more
      BY <3>2, <1>3
    <3> QED
      BY <3>1, <3>3, <1>2
  <2> QED
    BY <2>2, <2>3
<1>10. OwnersHere'
  BY <1>1, <1>5, <1>6 DEF IInv, OwnersHere
<1>11. Traced'
  <2> SUFFICES ASSUME NEW c \in callbacks', c.owner \in Objects
               PROVE  c.id = ids'[c.owner][c.slot]
    BY DEF Traced
  <2>1. CASE c \in callbacks
    <3>1. c.slot \in Slots /\ c.id = ids[c.owner][c.slot]
      BY <2>1 DEF IInv, TypeOK, Traced
    <3>2. c.slot = "rebind" => c.owner \in initialized
      BY <2>1 DEF IInv, WillRebind
    <3> QED
      BY <3>1, <3>2, <1>3, <1>5
  <2>2. CASE c \notin callbacks
    BY <2>2, <1>1
  <2> QED
    BY <2>1, <2>2
<1>12. Listening'
  <2>1. \A o \in here : /\ ids'[o]["stop"] = ids[o]["stop"]
                        /\ ids'[o]["prim"] = ids[o]["prim"]
    BY <1>3, <1>7 DEF Slots
  <2>2. \A o \in here \cap Scene :
          /\ Entry(o, "stop")' \in callbacks'
          /\ backend = "physx" => Entry(o, "prim")' \in callbacks'
    BY <2>1, <1>1 DEF IInv, Listening, Entry
  <2> QED
    BY <2>2, <1>1, <1>6 DEF IInv, Listening
<1>13. WillRebind'
  <2>1. ASSUME backend = "newton", NEW o \in here \cap Scene \cap initialized',
               Kind[o] = "asset"
        PROVE  Entry(o, "rebind")' \in callbacks'
    <3>1. CASE o \in done
      BY <2>1, <3>1, <1>2, <1>5
    <3>2. CASE o \in initialized
      <4>1. Entry(o, "rebind") \in callbacks
        BY <2>1, <3>2 DEF IInv, WillRebind
      <4>2. ids'[o]["rebind"] = ids[o]["rebind"]
        BY <3>2, <1>3, <1>5, <1>7
      <4> QED
        BY <4>1, <4>2, <1>1 DEF Entry
    <3> QED
      BY <3>1, <3>2, <1>6
  <2>2. \A c \in callbacks' : c.slot = "rebind" =>
          backend = "newton" /\ c.owner \in initialized'
    BY <1>1, <1>5, <1>6 DEF IInv, WillRebind
  <2> QED
    BY <2>1, <2>2, <1>6 DEF WillRebind
<1>14. InvalidAfterClose'
  BY <1>3, <1>5, <1>6, <1>7 DEF IInv, InvalidAfterClose, Scene
<1>15. callbacks' \subseteq [id : Nat, owner : Objects \cup {Renderer}, slot : Slots]
  <2>1. \A c \in callbacks' \ callbacks :
          c \in [id : Nat, owner : Objects \cup {Renderer}, slot : Slots]
    BY <1>1, <1>5, <1>7 DEF Slots
  <2> QED
    BY <2>1 DEF IInv, TypeOK
<1>16. initialized' \subseteq held
  BY <1>5, <1>6, <1>7 DEF IInv, TypeOK
<1> QED
  BY <1>8, <1>9, <1>10, <1>11, <1>12, <1>13, <1>14, <1>15, <1>16

\* READY for the native simulation there is keeps the invariant.
LEMMA Announcing ==
    ASSUME IInv, live, view, NEW F, Announce(F), UNCHANGED contextVars, ScalarsOK'
    PROVE  IInv'
<1>1. DispatchReady(F) /\ bound' = bound \cup Rebound(F)
  BY DEF Announce
<1>2. UNCHANGED <<live, backend, view, warmup_needed, seen, held, here>>
  BY <1>1 DEF Announce, DispatchReady
<1>3. /\ Issued' /\ HandlesAreOwn' /\ OwnersHere' /\ Traced'
      /\ Listening' /\ WillRebind' /\ InvalidAfterClose'
      /\ callbacks' \subseteq [id : Nat, owner : Objects \cup {Renderer},
                              slot : Slots]
      /\ initialized' \subseteq held
  BY <1>1, DispatchKeeps
<1>4. /\ ids' \in [Objects -> [Slots -> Nat \cup {NoId}]]
      /\ callback_id' \in [{"physx", "ovphysx", "newton"} -> Nat \cup {NoId}]
      /\ callback_id'["newton"] # NoId
  BY <1>1, Dispatched
<1>5. Rebound(F) \subseteq held
  BY Reached DEF Rebound, IInv, TypeOK
<1>6. TypeOK'
  BY <1>1, <1>2, <1>3, <1>4, <1>5 DEF IInv, TypeOK, ScalarsOK
<1>7. NothingWithout' /\ Warmed'
  BY <1>2 DEF IInv, NothingWithout, Warmed
<1>8. initialized' = initialized \cup Succeeding(F)
  BY <1>1 DEF DispatchReady
<1>9. ReadyIsCurrent'
  BY <1>1, <1>2, <1>8 DEF IInv, ReadyIsCurrent, Rebound
<1> QED
  BY <1>3, <1>6, <1>7, <1>9 DEF IInv

\* So does a native simulation made where there was none, and a model of Newton
\* that replaces another.
LEMMA Creating ==
    ASSUME IInv, live, ~view \/ backend = "newton", NEW F, CreateView(F),
           UNCHANGED contextVars, ScalarsOK'
    PROVE  IInv'
<1>1. DispatchReady(F) /\ bound' = Rebound(F)
  BY DEF CreateView
<1>2. /\ UNCHANGED <<live, backend, held, here>>
      /\ view' = TRUE /\ warmup_needed' = FALSE /\ seen' = held
  BY <1>1 DEF CreateView, DispatchReady
<1>3. /\ Issued' /\ HandlesAreOwn' /\ OwnersHere' /\ Traced'
      /\ Listening' /\ WillRebind' /\ InvalidAfterClose'
      /\ callbacks' \subseteq [id : Nat, owner : Objects \cup {Renderer},
                              slot : Slots]
      /\ initialized' \subseteq held
  BY <1>1, DispatchKeeps
<1>4. /\ ids' \in [Objects -> [Slots -> Nat \cup {NoId}]]
      /\ callback_id' \in [{"physx", "ovphysx", "newton"} -> Nat \cup {NoId}]
      /\ callback_id'["newton"] # NoId
  BY <1>1, Dispatched
<1>5. Rebound(F) \subseteq held
  BY Reached DEF Rebound, IInv, TypeOK
<1>6. TypeOK'
  BY <1>1, <1>2, <1>3, <1>4, <1>5 DEF IInv, TypeOK, ScalarsOK
<1>7. NothingWithout' /\ Warmed'
  <2>1. NothingWithout'
    BY <1>2 DEF NothingWithout
  <2>2. Warmed'
    BY <1>2 DEF Warmed
  <2> QED
    BY <2>1, <2>2
<1>8. initialized' = initialized \cup Succeeding(F)
  BY <1>1 DEF DispatchReady
<1>9. ReadyIsCurrent'
  <2> SUFFICES ASSUME NEW o \in here \cap Scene \cap initialized'
               PROVE  o \in bound' \/ (backend = "newton" /\ Kind[o] = "sensor")
    BY <1>2 DEF ReadyIsCurrent
  <2>1. CASE o \in Succeeding(F)
    BY <2>1, <1>1 DEF Rebound
  <2>2. CASE o \in initialized
    <3>1. backend = "newton"
      BY <2>2 DEF IInv, ReadyIsCurrent
    <3>2. Kind[o] = "asset" \/ Kind[o] = "sensor"
      BY ObjectsAssumption DEF Scene
    <3>3. Kind[o] = "asset" => o \in Owners("rebind")
      BY <2>2, <3>1, Owning DEF IInv, WillRebind
    <3> QED
      BY <3>1, <3>2, <3>3, <1>1 DEF Rebound
  <2> QED
    BY <2>1, <2>2, <1>8
<1> QED
  BY <1>3, <1>6, <1>7, <1>9 DEF IInv

\* Stopping Kit's timeline: the assets and sensors hear of it.
LEMMA Stopping ==
    ASSUME IInv, live, backend = "physx", StopTimeline, ScalarsOK',
           UNCHANGED <<contextVars, tableVars, lifeVars, seen, ids>>
    PROVE  IInv'
<1>1. CASE UNCHANGED <<nativeVars, initialized, bound>>
  BY <1>1, Idle
<1>2. CASE /\ view' = FALSE /\ warmup_needed' = TRUE
           /\ initialized' = initialized \ Owners("stop")
           /\ bound' = {}
  <2>1. TypeOK'
    BY <1>2 DEF IInv, TypeOK, ScalarsOK
  <2>2. Issued' /\ HandlesAreOwn' /\ OwnersHere' /\ Traced'
    BY DEF IInv, Issued, HandlesAreOwn, OwnersHere, Traced, NextId
  <2>3. NothingWithout' /\ Warmed' /\ Listening'
    BY <1>2 DEF IInv, NothingWithout, Warmed, Listening, Entry
  <2>4. WillRebind'
    BY DEF IInv, WillRebind
  <2>5. here \cap Scene \subseteq Owners("stop")
    BY Owning DEF IInv, Listening
  <2>6. ReadyIsCurrent' /\ InvalidAfterClose'
    BY <1>2, <2>5 DEF IInv, ReadyIsCurrent, InvalidAfterClose
  <2> QED
    BY <2>1, <2>2, <2>3, <2>4, <2>6 DEF IInv
<1> QED
  BY <1>1, <1>2 DEF StopTimeline, OnStop

\* Playing it, from the GUI or not.
LEMMA Playing ==
    ASSUME IInv, live, backend = "physx", NEW F, PlayTimeline(F),
           UNCHANGED contextVars, ScalarsOK'
    PROVE  IInv'
<1>1. CASE warmup_needed /\ CreateView(F)
  BY <1>1, Creating DEF IInv, Warmed
<1>2. CASE UNCHANGED <<nativeVars, tableVars, objectVars>>
  BY <1>2, Idle
<1> QED
  BY <1>1, <1>2 DEF PlayTimeline

--------------------------------------------------------------------------------
(* The actions *)

LEMMA CreateContextKeeps ==
    ASSUME IInv, ~Switch, NEW class \in Backends, CreateContext(class)
    PROVE  IInv'
<1> DEFINE entry == [id |-> NextId(class), owner |-> Renderer, slot |-> "ready"]
<1>1. /\ callbacks = {} /\ here = {} /\ ~view /\ ~live
      /\ backend = "none" \/ backend = class
  BY DEF CreateContext, IInv, NothingWithout
<1>2. /\ live' = TRUE /\ backend' = class /\ warmup_needed' = TRUE
      /\ UNCHANGED <<view, objectVars>>
      /\ Register(class, {entry}, 1)
  BY DEF CreateContext
<1>3. /\ NextId(class) \in Nat /\ NextId(class)' = NextId(class) + 1
      /\ callback_id' \in [{"physx", "ovphysx", "newton"} -> Nat \cup {NoId}]
      /\ callback_id'["newton"] # NoId
  BY <1>2, NextIdType, Counted DEF IInv
<1>4. callbacks' = {entry}
  BY <1>1, <1>2 DEF Register, Put
<1>5. class # "none"
  BY BackendsAssumption
<1>6. TypeOK'
  <2>1. entry \in [id : Nat, owner : Objects \cup {Renderer}, slot : Slots]
    BY <1>3 DEF Slots
  <2> HIDE DEF entry
  <2> QED
    BY <1>2, <1>3, <1>4, <2>1 DEF CreateContext, IInv, TypeOK, Failures
<1>7. Issued'
  <2>1. \A o \in Objects, slot \in Slots : ids[o][slot] # NoId =>
          ids[o][slot] < NextId(class) /\ ids[o][slot] \in Nat
    BY <1>1 DEF IInv, TypeOK, Issued
  <2>2. \A c \in callbacks' : c.id < NextId(class)'
    BY <1>3, <1>4
  <2>3. \A o \in Objects, slot \in Slots : ids'[o][slot] # NoId =>
          ids'[o][slot] < NextId(class)'
    BY <2>1, <1>2, <1>3
  <2> QED
    BY <2>2, <2>3, <1>2, <1>5 DEF Issued, NoId
<1>8. HandlesAreOwn'
  <2>1. \A o \in Objects, slot \in Slots : ids[o][slot] # NextId(class)
    BY <1>1, <1>3 DEF IInv, TypeOK, Issued, NoId
  <2> QED
    BY <2>1, <1>2, <1>4 DEF HandlesAreOwn
<1>9. OwnersHere' /\ Traced'
  BY <1>4, ObjectsAssumption DEF OwnersHere, Traced
<1>10. NothingWithout'
  BY <1>2 DEF NothingWithout
<1>11. Warmed'
  BY <1>1, <1>2 DEF Warmed
<1>12. Listening' /\ WillRebind'
  BY <1>1, <1>2, <1>4 DEF Listening, WillRebind
<1>13. ReadyIsCurrent'
  BY <1>1, <1>2 DEF ReadyIsCurrent
<1>14. InvalidAfterClose'
  BY <1>1, <1>2, <1>5 DEF IInv, InvalidAfterClose
<1> QED
  BY <1>6, <1>7, <1>8, <1>9, <1>10, <1>11, <1>12, <1>13, <1>14 DEF IInv

LEMMA ClearInstanceKeeps ==
    ASSUME IInv, ClearInstance
    PROVE  IInv'
<1> DEFINE forgetful == Owners("prim") \cap Objects
           gone == UNION {Handles(o) : o \in forgetful}
<1>1. /\ live /\ live' = FALSE
      /\ ids' = [o \in Objects |-> IF o \in forgetful THEN NoIds ELSE ids[o]]
      /\ initialized' = initialized \ Notified(gone)
      /\ here' = {} /\ bound' = {} /\ callbacks' = {}
      /\ view' = FALSE /\ warmup_needed' = TRUE
      /\ UNCHANGED <<callback_id, backend, held, seen>>
  BY DEF ClearInstance, CountersKept
<1>2. backend # "physx" => Notified(gone) = Owners("stop")
  <2> SUFFICES ASSUME backend # "physx"
               PROVE  Notified(gone) = Owners("stop")
    OBVIOUS
  <2>1. forgetful = {}
    BY DEF IInv, Listening, Owners
  <2>2. gone = {}
    BY <2>1
  <2> HIDE DEF gone
  <2> QED
    BY <2>2 DEF Notified, Without, Owners
<1>3. \A o \in here \cap Scene : o \in Owners("stop")
  BY Owning DEF IInv, Listening
<1>4. \A o \in here \cap Scene : backend = "physx" => o \in forgetful
  BY Owning DEF IInv, Listening, Scene
<1> HIDE DEF forgetful, gone
<1>5. NoIds \in [Slots -> Nat \cup {NoId}] /\ \A slot \in Slots : NoIds[slot] = NoId
  BY DEF NoIds
<1>6. TypeOK'
  <2> HIDE DEF NoIds
  <2>1. TypeOK
    BY DEF IInv
  <2>2. ids' \in [Objects -> [Slots -> Nat \cup {NoId}]]
    BY <2>1, <1>1, <1>5 DEF TypeOK
  <2>3. /\ held' \subseteq Objects /\ here' \subseteq held' /\ seen' \subseteq held'
        /\ initialized' \subseteq held' /\ bound' \subseteq held'
    BY <2>1, <1>1 DEF TypeOK
  <2>4. /\ callbacks' \subseteq
              [id : Nat, owner : Objects \cup {Renderer}, slot : Slots]
        /\ callback_id' \in [{"physx", "ovphysx", "newton"} -> Nat \cup {NoId}]
        /\ callback_id'["newton"] # NoId
    BY <2>1, <1>1 DEF TypeOK
  <2>5. /\ timeline' = "stopped" /\ is_playing' = FALSE /\ is_stopped' = TRUE
        /\ pending' = "none" /\ returned' = "none"
        /\ UNCHANGED <<told, gui>>
    BY DEF ClearInstance
  <2> QED
    BY <2>1, <2>2, <2>3, <2>4, <2>5, <1>1 DEF TypeOK, Failures
<1>7. Issued'
  <2>1. NextId(backend)' = NextId(backend)
    BY <1>1 DEF NextId
  <2> QED
    BY <2>1, <1>1, <1>5 DEF IInv, Issued
<1>8. HandlesAreOwn' /\ OwnersHere' /\ Traced'
  BY <1>1 DEF HandlesAreOwn, OwnersHere, Traced
<1>9. NothingWithout' /\ Listening' /\ WillRebind' /\ ReadyIsCurrent'
  BY <1>1 DEF NothingWithout, Listening, WillRebind, ReadyIsCurrent
<1>10. Warmed'
  BY <1>1 DEF Warmed
<1>11. InvalidAfterClose'
  <2> SUFFICES ASSUME NEW o \in initialized' \cap Scene
               PROVE  backend = "physx" /\ ids'[o] = NoIds
    BY <1>1 DEF InvalidAfterClose
  <2>1. o \in initialized /\ o \in Objects
    BY <1>1 DEF Scene
  <2>2. CASE o \in here
    BY <2>1, <2>2, <1>1, <1>2, <1>3, <1>4
  <2>3. CASE o \notin here
    BY <2>1, <2>3, <1>1 DEF IInv, InvalidAfterClose
  <2> QED
    BY <2>2, <2>3
<1> QED
  BY <1>6, <1>7, <1>8, <1>9, <1>10, <1>11 DEF IInv

LEMMA CreateObjectKeeps ==
    ASSUME IInv, NEW o \in Objects, CreateObject(o)
    PROVE  IInv'
<1> DEFINE place == Registered(o)
           first == NextId(backend)
           entries == {[id |-> first + place[slot], owner |-> o, slot |-> slot] :
                          slot \in DOMAIN place}
           n == Cardinality(DOMAIN place)
<1>1. /\ live /\ o \notin held
      /\ held' = held \cup {o} /\ here' = here \cup {o}
      /\ UNCHANGED <<contextVars, nativeVars, readyVars>>
      /\ ids' = [ids EXCEPT ![o] =
                    [slot \in Slots |->
                       IF slot \in DOMAIN place THEN first + place[slot] ELSE NoId]]
      /\ Register(backend, entries, n)
  BY DEF CreateObject, NewObject
<1>2. first \in Nat /\ backend \in Backends /\ backend # "none"
  BY <1>1, NextIdType DEF IInv, TypeOK, Issued
<1>3. /\ DOMAIN place \subseteq Slots \ {"rebind"}
      /\ \A slot \in DOMAIN place : place[slot] \in Nat /\ place[slot] < n
      /\ \A s, t \in DOMAIN place : place[s] = place[t] => s = t
      /\ o \in Scene => "stop" \in DOMAIN place
      /\ o \in Scene /\ backend = "physx" => "prim" \in DOMAIN place
      /\ "prim" \in DOMAIN place => backend = "physx"
      /\ n \in Nat
  <2>1. /\ Cardinality({"ready"}) = 1
        /\ Cardinality({"ready", "stop"}) = 2
        /\ Cardinality({"ready", "stop", "prim"}) = 3
    <3>1. IsFiniteSet({"ready"}) /\ Cardinality({"ready"}) = 1
      BY FS_Singleton
    <3>2. /\ IsFiniteSet({"ready"} \cup {"stop"})
          /\ Cardinality({"ready"} \cup {"stop"}) = 2
      BY <3>1, FS_AddElement
    <3>3. Cardinality(({"ready"} \cup {"stop"}) \cup {"prim"}) = 3
      BY <3>2, FS_AddElement
    <3>4. /\ {"ready"} \cup {"stop"} = {"ready", "stop"}
          /\ ({"ready"} \cup {"stop"}) \cup {"prim"} = {"ready", "stop", "prim"}
      OBVIOUS
    <3> QED
      BY <3>1, <3>2, <3>3, <3>4
  <2>2. CASE Kind[o] = "manager"
    <3>1. place = [ready |-> 0] /\ o \notin Scene
      BY <2>2 DEF Registered, Scene
    <3>2. DOMAIN place = {"ready"}
      BY <3>1
    <3>3. place["ready"] = 0
      BY <3>1
    <3> HIDE DEF place
    <3> QED
      BY <3>1, <3>2, <3>3, <2>1 DEF Slots
  <2>3. CASE Kind[o] # "manager" /\ backend = "physx"
    <3>1. place = [ready |-> 0, stop |-> 1, prim |-> 2]
      BY <2>3 DEF Registered
    <3>2. DOMAIN place = {"ready", "stop", "prim"}
      BY <3>1
    <3>3. place["ready"] = 0 /\ place["stop"] = 1 /\ place["prim"] = 2
      BY <3>1
    <3> HIDE DEF place
    <3> QED
      BY <2>3, <3>2, <3>3, <2>1 DEF Slots
  <2>4. CASE Kind[o] # "manager" /\ backend # "physx"
    <3>1. place = [ready |-> 0, stop |-> 1]
      BY <2>4 DEF Registered
    <3>2. DOMAIN place = {"ready", "stop"}
      BY <3>1
    <3>3. place["ready"] = 0 /\ place["stop"] = 1
      BY <3>1
    <3> HIDE DEF place
    <3> QED
      BY <2>4, <3>2, <3>3, <2>1 DEF Slots
  <2> QED
    BY <2>2, <2>3, <2>4
<1> HIDE DEF place, n
<1>4. /\ NextId(backend)' = first + n
      /\ callback_id' \in [{"physx", "ovphysx", "newton"} -> Nat \cup {NoId}]
      /\ callback_id'["newton"] # NoId
  BY <1>1, <1>2, <1>3, Counted DEF IInv
<1>5. \A e \in entries :
        /\ e.id \in Nat /\ e.id >= first /\ e.id < first + n
        /\ e.owner = o /\ e.slot \in DOMAIN place /\ e.id = first + place[e.slot]
        /\ e \in [id : Nat, owner : Objects \cup {Renderer}, slot : Slots]
  BY <1>2, <1>3
<1>6. callbacks' = callbacks \cup entries
  <2>1. \A c \in callbacks, e \in entries : e.id # c.id
    BY <1>5, <1>2 DEF IInv, TypeOK, Issued
  <2> HIDE DEF entries
  <2> QED
    BY <1>1, <2>1 DEF Register, Put
<1>7. /\ \A p \in Objects \ {o} : ids'[p] = ids[p]
      /\ \A slot \in Slots : ids'[o][slot] =
            IF slot \in DOMAIN place THEN first + place[slot] ELSE NoId
      /\ ids' \in [Objects -> [Slots -> Nat \cup {NoId}]]
  BY <1>1, <1>2, <1>3 DEF IInv, TypeOK
<1>8. \A slot \in DOMAIN place :
        [id |-> ids'[o][slot], owner |-> o, slot |-> slot] \in entries
  BY <1>3, <1>7
<1>9. \A c \in callbacks : c.owner # o /\ c.owner \in here \cup {Renderer}
  BY <1>1, ObjectsAssumption DEF IInv, TypeOK, OwnersHere
<1>10. o \notin here /\ o \notin initialized
  BY <1>1 DEF IInv, TypeOK
<1> HIDE DEF entries
<1>11. TypeOK'
  <2>1. callbacks' \subseteq [id : Nat, owner : Objects \cup {Renderer}, slot : Slots]
    BY <1>5, <1>6 DEF IInv, TypeOK
  <2> QED
    BY <1>1, <1>4, <1>7, <2>1 DEF CreateObject, NewObject, IInv, TypeOK, Failures
<1>12. Issued'
  <2>1. \A c \in callbacks' : c.id < first + n
    BY <1>2, <1>3, <1>5, <1>6 DEF IInv, TypeOK, Issued
  <2>2. ASSUME NEW p \in Objects, NEW slot \in Slots, ids'[p][slot] # NoId
        PROVE  ids'[p][slot] < first + n
    <3>1. CASE p = o
      BY <2>2, <3>1, <1>2, <1>3, <1>7
    <3>2. CASE p # o
      BY <2>2, <3>2, <1>2, <1>3, <1>7 DEF IInv, TypeOK, Issued
    <3> QED
      BY <3>1, <3>2
  <2> QED
    BY <2>1, <2>2, <1>1, <1>2, <1>4 DEF Issued, NoId
<1>13. HandlesAreOwn'
  <2> SUFFICES ASSUME NEW p \in Objects, NEW slot \in Slots, NEW c \in callbacks',
                      c.id = ids'[p][slot]
               PROVE  c.owner = p /\ c.slot = slot
    BY DEF HandlesAreOwn
  <2>1. CASE c \in callbacks /\ p # o
    BY <2>1, <1>7 DEF IInv, HandlesAreOwn
  <2>2. CASE c \in callbacks /\ p = o
    <3>1. c.id \in Nat /\ c.id < first
      BY <2>2 DEF IInv, TypeOK, Issued
    <3> QED
      BY <2>2, <3>1, <1>2, <1>3, <1>7 DEF NoId
  <2>3. CASE c \in entries /\ p # o
    <3>1. ids[p][slot] = NoId \/ ids[p][slot] < first
      BY DEF IInv, Issued
    <3>2. ids[p][slot] \in Nat \cup {NoId} /\ ids'[p][slot] = ids[p][slot]
      BY <2>3, <1>7 DEF IInv, TypeOK
    <3> QED
      BY <2>3, <3>1, <3>2, <1>2, <1>5 DEF NoId
  <2>4. CASE c \in entries /\ p = o
    <3>1. /\ c.owner = o /\ c.slot \in DOMAIN place /\ c.id \in Nat
          /\ c.id = first + place[c.slot]
      BY <2>4, <1>5
    <3>2. slot \in DOMAIN place /\ c.id = first + place[slot]
      BY <2>4, <3>1, <1>7 DEF NoId
    <3> QED
      BY <2>4, <3>1, <3>2, <1>2, <1>3
  <2> QED
    BY <2>1, <2>2, <2>3, <2>4, <1>6
<1>14. OwnersHere'
  BY <1>1, <1>5, <1>6 DEF IInv, OwnersHere
<1>15. Traced'
  <2>1. \A c \in callbacks : c.owner \in Objects => c.id = ids'[c.owner][c.slot]
    BY <1>7, <1>9 DEF IInv, Traced
  <2>2. \A c \in entries : c.id = ids'[c.owner][c.slot]
    BY <1>3, <1>5, <1>7
  <2> QED
    BY <2>1, <2>2, <1>6 DEF Traced
<1>16. NothingWithout'
  BY <1>1 DEF NothingWithout
<1>17. Warmed' /\ InvalidAfterClose'
  <2>1. Warmed'
    BY <1>1 DEF IInv, Warmed
  <2>2. InvalidAfterClose'
    BY <1>1, <1>7, <1>10 DEF IInv, InvalidAfterClose, Scene
  <2> QED
    BY <2>1, <2>2
<1>18. Listening'
  <2>1. ASSUME NEW p \in here' \cap Scene
        PROVE  /\ Entry(p, "stop")' \in callbacks'
               /\ backend = "physx" => Entry(p, "prim")' \in callbacks'
    <3>1. CASE p = o
      BY <2>1, <3>1, <1>3, <1>6, <1>8 DEF Entry
    <3>2. CASE p # o
      <4>1. p \in here \cap Scene /\ ids'[p] = ids[p]
        BY <2>1, <3>2, <1>1, <1>7 DEF Scene
      <4> QED
        BY <4>1, <1>6 DEF IInv, Listening, Entry
    <3> QED
      BY <3>1, <3>2
  <2>2. \A c \in callbacks' : c.slot = "prim" => backend = "physx"
    BY <1>3, <1>5, <1>6 DEF IInv, Listening
  <2> QED
    BY <2>1, <2>2, <1>1 DEF Listening
<1>19. WillRebind'
  <2>1. ASSUME NEW p \in here' \cap Scene \cap initialized', Kind[p] = "asset",
               backend = "newton"
        PROVE  Entry(p, "rebind")' \in callbacks'
    <3>1. p \in here \cap Scene \cap initialized /\ ids'[p] = ids[p]
      BY <2>1, <1>1, <1>7, <1>10 DEF Scene
    <3> QED
      BY <2>1, <3>1, <1>6 DEF IInv, WillRebind, Entry
  <2>2. \A c \in callbacks' : c.slot = "rebind" =>
          backend = "newton" /\ c.owner \in initialized'
    BY <1>1, <1>3, <1>5, <1>6 DEF IInv, WillRebind
  <2> QED
    BY <2>1, <2>2, <1>1 DEF WillRebind
<1>20. ReadyIsCurrent'
  BY <1>1, <1>10 DEF IInv, ReadyIsCurrent
<1> QED
  BY <1>11, <1>12, <1>13, <1>14, <1>15, <1>16, <1>17, <1>18, <1>19, <1>20 DEF IInv

LEMMA CreateResolvedManagerKeeps ==
    ASSUME IInv, NEW o \in Objects, CreateResolvedManager(o)
    PROVE  IInv'
<1>1. /\ live /\ o \notin held /\ o \notin Scene
      /\ held' = held \cup {o} /\ here' = here \cup {o}
      /\ initialized' = initialized \cup {o}
      /\ ids' = [ids EXCEPT ![o] = NoIds]
      /\ UNCHANGED <<contextVars, nativeVars, tableVars, seen, bound>>
  BY DEF CreateResolvedManager, NewObject, Scene
<1>2. /\ NoIds \in [Slots -> Nat \cup {NoId}]
      /\ \A slot \in Slots : NoIds[slot] = NoId
  BY DEF NoIds
<1>3. /\ \A p \in Objects \ {o} : ids'[p] = ids[p]
      /\ ids'[o] = NoIds
      /\ ids' \in [Objects -> [Slots -> Nat \cup {NoId}]]
  BY <1>1, <1>2 DEF IInv, TypeOK
<1>4. /\ \A c \in callbacks : c.owner # o
      /\ o \notin here /\ NextId(backend)' = NextId(backend)
  BY <1>1, ObjectsAssumption DEF IInv, TypeOK, OwnersHere, NextId
<1>5. TypeOK'
  BY <1>1, <1>3 DEF CreateResolvedManager, NewObject, IInv, TypeOK, Failures
<1>6. Issued'
  <2>1. \A p \in Objects, slot \in Slots : ids'[p][slot] # NoId =>
          backend # "none" /\ ids'[p][slot] < NextId(backend)
    BY <1>2, <1>3 DEF IInv, Issued
  <2> QED
    BY <2>1, <1>1, <1>4 DEF IInv, Issued
<1>7. HandlesAreOwn'
  <2> SUFFICES ASSUME NEW p \in Objects, NEW slot \in Slots, NEW c \in callbacks,
                      c.id = ids'[p][slot]
               PROVE  c.owner = p /\ c.slot = slot
    BY <1>1 DEF HandlesAreOwn
  <2>1. p # o
    BY <1>2, <1>3 DEF IInv, TypeOK, NoId
  <2> QED
    BY <2>1, <1>3 DEF IInv, HandlesAreOwn
<1>8. OwnersHere' /\ Traced'
  BY <1>1, <1>3, <1>4 DEF IInv, OwnersHere, Traced
<1>9. NothingWithout' /\ Warmed'
  BY <1>1 DEF IInv, NothingWithout, Warmed
<1>10. Listening' /\ WillRebind'
  <2>1. \A p \in here' \cap Scene : p \in here \cap Scene /\ ids'[p] = ids[p]
    BY <1>1, <1>3 DEF Scene
  <2> QED
    BY <2>1, <1>1 DEF IInv, Listening, WillRebind, Entry
<1>11. ReadyIsCurrent' /\ InvalidAfterClose'
  BY <1>1, <1>3 DEF IInv, ReadyIsCurrent, InvalidAfterClose, Scene
<1> QED
  BY <1>5, <1>6, <1>7, <1>8, <1>9, <1>10, <1>11 DEF IInv

LEMMA FinalizeKeeps ==
    ASSUME IInv, NEW o \in Objects, Finalize(o)
    PROVE  IInv'
<1>1. /\ \A c \in callbacks : c.owner = o => c.slot # "rebind"
      /\ held' = held \ {o} /\ here' = here \ {o} /\ seen' = seen \ {o}
      /\ bound' = bound \ {o} /\ initialized' = initialized \ {o}
      /\ callbacks' = {c \in callbacks : c.id \notin Handles(o)}
      /\ ids' = [ids EXCEPT ![o] = NoIds]
      /\ UNCHANGED <<contextVars, nativeVars, callback_id>>
  BY DEF Finalize, Without
<1>2. /\ NoIds \in [Slots -> Nat \cup {NoId}]
      /\ \A slot \in Slots : NoIds[slot] = NoId
  BY DEF NoIds
<1>3. /\ \A p \in Objects \ {o} : ids'[p] = ids[p]
      /\ ids'[o] = NoIds
      /\ ids' \in [Objects -> [Slots -> Nat \cup {NoId}]]
  BY <1>1, <1>2 DEF IInv, TypeOK
<1>4. /\ callbacks' \subseteq callbacks
      /\ \A c \in callbacks' : c.owner # o
      /\ \A c \in callbacks : c.owner # o => c \in callbacks'
  <2>1. \A c \in callbacks : c.owner = o => c.id \in Handles(o)
    BY DEF IInv, TypeOK, Traced, Handles
  <2>2. \A c \in callbacks : c.id \in Handles(o) => c.owner = o
    BY DEF IInv, HandlesAreOwn, Handles
  <2> QED
    BY <2>1, <2>2, <1>1
<1>5. TypeOK'
  BY <1>1, <1>3, <1>4 DEF Finalize, IInv, TypeOK, Failures
<1>6. Issued'
  <2>1. \A p \in Objects, slot \in Slots : ids'[p][slot] # NoId =>
          backend # "none" /\ ids'[p][slot] < NextId(backend)
    BY <1>2, <1>3 DEF IInv, Issued
  <2>2. NextId(backend)' = NextId(backend)
    BY <1>1 DEF NextId
  <2>3. live' \/ callbacks' # {} => backend' # "none"
    BY <1>1, <1>4 DEF IInv, Issued
  <2>4. \A c \in callbacks' : c.id < NextId(backend)
    BY <1>4 DEF IInv, Issued
  <2> QED
    BY <2>1, <2>2, <2>3, <2>4, <1>1 DEF Issued
<1>7. HandlesAreOwn'
  <2> SUFFICES ASSUME NEW p \in Objects, NEW slot \in Slots, NEW c \in callbacks',
                      c.id = ids'[p][slot]
               PROVE  c.owner = p /\ c.slot = slot
    BY DEF HandlesAreOwn
  <2>1. p # o
    BY <1>2, <1>3, <1>4 DEF IInv, TypeOK, NoId
  <2> QED
    BY <2>1, <1>3, <1>4 DEF IInv, HandlesAreOwn
<1>8. OwnersHere' /\ Traced'
  BY <1>1, <1>3, <1>4 DEF IInv, OwnersHere, Traced
<1>9. NothingWithout' /\ Warmed'
  BY <1>1, <1>4 DEF IInv, NothingWithout, Warmed
<1>10. Listening' /\ WillRebind'
  <2>1. \A p \in here' : p \in here /\ p # o /\ ids'[p] = ids[p]
    BY <1>1, <1>3 DEF IInv, TypeOK
  <2>2. \A p \in here', slot \in Slots :
          Entry(p, slot) \in callbacks => Entry(p, slot)' \in callbacks'
    BY <2>1, <1>4 DEF Entry
  <2> QED
    BY <2>1, <2>2, <1>1, <1>4 DEF IInv, Listening, WillRebind, Slots
<1>11. ReadyIsCurrent' /\ InvalidAfterClose'
  BY <1>1, <1>3 DEF IInv, ReadyIsCurrent, InvalidAfterClose, Scene
<1> QED
  BY <1>5, <1>6, <1>7, <1>8, <1>9, <1>10, <1>11 DEF IInv

LEMMA StoredType ==
    ASSUME TypeOK, NEW F
    PROVE  Stored(F) \in Failures
BY DEF TypeOK, Stored, Failure, Failures

LEMMA HardResetKeeps ==
    ASSUME IInv, NEW F, HardReset(F)
    PROVE  IInv'
<1>1. /\ live /\ UNCHANGED contextVars
      /\ IF NeedsView THEN CreateView(F) ELSE Announce(F)
  BY DEF HardReset
<1>2. ScalarsOK'
  BY DEF HardReset, Stored, Failure, MarkPlaying, ScalarsOK, IInv, TypeOK, Failures
<1>3. CASE NeedsView
  <2>1. ~view \/ backend = "newton"
    BY <1>1, <1>3, BackendsAssumption DEF NeedsView, IInv, Warmed, TypeOK, Issued
  <2> QED
    BY <1>1, <1>2, <1>3, <2>1, Creating
<1>4. CASE ~NeedsView
  <2>1. view
    BY <1>1, <1>4 DEF NeedsView, IInv, Warmed, TypeOK
  <2> QED
    BY <1>1, <1>2, <1>4, <2>1, Announcing
<1> QED
  BY <1>3, <1>4

LEMMA PlayKeeps ==
    ASSUME IInv, NEW F, SoftReset(F) \/ Play(F) \/ GuiPlay(F)
    PROVE  IInv'
<1>1. live /\ UNCHANGED contextVars
  BY DEF SoftReset, Play, GuiPlay, Gui
<1>2. ScalarsOK'
  <2>1. CASE SoftReset(F)
    BY <2>1 DEF SoftReset, PlayTimeline, RaisePending, MarkPlaying, Stored, Failure,
                ScalarsOK, IInv, TypeOK, Failures
  <2>2. CASE Play(F)
    BY <2>2 DEF Play, PlayTimeline, MarkPlaying, Stored, Failure, ScalarsOK, IInv,
                TypeOK, Failures
  <2>3. CASE GuiPlay(F)
    <3>1. /\ gui' = gui + 1 /\ returned' = "none"
          /\ UNCHANGED flagVars
          /\ timeline' = "playing"
      BY <2>3 DEF GuiPlay, Gui, PlayTimeline
    <3>2. \/ pending' = Stored(F) /\ told' = FALSE
          \/ UNCHANGED <<pending, told>>
      BY <2>3 DEF GuiPlay, PlayTimeline
    <3>3. gui' \in Nat /\ returned' \in Failures
      BY <3>1 DEF IInv, TypeOK, Failures
    <3>4. pending' \in Failures /\ told' \in BOOLEAN
      BY <3>2, StoredType DEF IInv, TypeOK
    <3> QED
      BY <3>1, <3>3, <3>4 DEF ScalarsOK, IInv, TypeOK
  <2> QED
    BY <2>1, <2>2, <2>3
<1>3. \/ UNCHANGED <<nativeVars, tableVars, objectVars>>
      \/ backend = "physx" /\ PlayTimeline(F)
  BY DEF SoftReset, Play, GuiPlay, Gui
<1> QED
  BY <1>1, <1>2, <1>3, Idle, Playing

LEMMA StopKeeps ==
    ASSUME IInv, Stop \/ GuiStop
    PROVE  IInv'
<1>1. live /\ UNCHANGED <<contextVars, tableVars, lifeVars, seen, ids>>
  BY DEF Stop, GuiStop, Gui
<1>2. ScalarsOK'
  <2>1. /\ timeline' \in {timeline, "stopped"} /\ returned' = "none"
        /\ UNCHANGED <<pending, told>>
        /\ gui' = gui \/ gui' = gui + 1
        /\ \/ UNCHANGED flagVars
           \/ is_playing' = FALSE /\ is_stopped' = TRUE
    BY DEF Stop, GuiStop, Gui, StopTimeline
  <2>2. gui' \in Nat
    BY <2>1 DEF IInv, TypeOK
  <2> QED
    BY <2>1, <2>2 DEF ScalarsOK, IInv, TypeOK, Failures
<1>3. \/ UNCHANGED <<nativeVars, initialized, bound>>
      \/ backend = "physx" /\ StopTimeline
  BY DEF Stop, GuiStop, Gui
<1> QED
  BY <1>1, <1>2, <1>3, Idle, Stopping

LEMMA OthersIdle ==
    ASSUME IInv, Step \/ Pause \/ GuiPause
    PROVE  IInv'
<1>1. UNCHANGED <<contextVars, nativeVars, tableVars, objectVars>>
  BY DEF Step, Pause, GuiPause, Gui
<1>2. ScalarsOK'
  <2>1. CASE Step
    BY <2>1 DEF Step, RaisePending, ScalarsOK, IInv, TypeOK, Failures
  <2>2. CASE Pause
    BY <2>2 DEF Pause, PauseTimeline, MarkPaused, ScalarsOK, IInv, TypeOK, Failures
  <2>3. CASE GuiPause
    <3>1. /\ timeline' \in {timeline, "paused"} /\ returned' = "none"
          /\ UNCHANGED <<pending, told, flagVars>> /\ gui' = gui + 1
      BY <2>3 DEF GuiPause, PauseTimeline, Gui
    <3>2. gui' \in Nat
      BY <3>1 DEF IInv, TypeOK
    <3> QED
      BY <3>1, <3>2 DEF ScalarsOK, IInv, TypeOK, Failures
  <2> QED
    BY <2>1, <2>2, <2>3
<1> QED
  BY <1>1, <1>2, Idle

--------------------------------------------------------------------------------
(* What a reset initialises, and what is told *)

\* Every object of the context will hear READY, but for a manager that was resolved
\* when it was made; and nothing ever makes that one unresolved again.
Awaiting ==
    /\ \A o \in here : \/ \E c \in callbacks : c.owner = o /\ c.slot = "ready"
                       \/ o \in initialized \ Scene
    /\ \A c \in callbacks : c.slot = "stop" => c.owner \in Scene

\* What is pending, and what was raised, is an object's own exception; and while none
\* is pending, either the user was told or every object older than the native
\* simulation is initialised.
Reporting ==
    /\ pending \in {"none", "own"} /\ returned # "unresolved"
    /\ returned = "step" => pending = "none"
    /\ view /\ pending = "none" => told \/ here \cap seen \subseteq initialized

\* A non-empty set of natural numbers has a least element.
LEMMA LeastNumber ==
    ASSUME NEW T, T \subseteq Nat, T # {}
    PROVE  \E n \in T : \A m \in T : n <= m
<1>1. PICK n \in T : \A m \in T : ~ (<<m, n>> \in OpToRel(<, Nat))
  BY NatLessThanWellFounded, WFMin
<1>2. \A m \in T : ~ (m < n)
  BY <1>1 DEF OpToRel
<1> QED
  BY <1>2

\* An object that is not initialised has the id of its READY callback.
LEMMA ReadyIds ==
    ASSUME IInv, NEW o \in Uninitialized
    PROVE  o \in Objects /\ ids[o]["ready"] \in Nat
<1>1. PICK c \in callbacks : c.slot = "ready" /\ c.owner = o /\ o \in Objects
  BY DEF Uninitialized, Owners
<1>2. c.id \in Nat /\ c.id = ids[o]["ready"]
  BY <1>1 DEF IInv, TypeOK, Traced
<1> QED
  BY <1>1, <1>2

\* An object of the context that is not initialised waits for READY.
LEMMA NotYet ==
    ASSUME IInv, Awaiting, NEW o \in here, o \notin initialized
    PROVE  o \in Uninitialized
<1>1. PICK c \in callbacks : c.owner = o /\ c.slot = "ready"
  BY DEF Awaiting
<1>2. o \in Objects
  BY DEF IInv, TypeOK
<1> QED
  BY <1>1, <1>2 DEF Uninitialized, Owners

\* Assets and sensors come before managers.
LEMMA SceneFirst ==
    ASSUME NEW p \in Scene, NEW m \in Objects \ Scene
    PROVE  Precedes(p, m)
  BY DEF Scene, Precedes, Order

\* A manager is unresolved only because an asset or sensor has failed before it: the
\* exception that reaches the user is then that object's own.
LEMMA NeverUnresolved ==
    ASSUME IInv, Awaiting, NEW F
    PROVE  Failure(F) \in {"none", "own"}
<1> SUFFICES ASSUME Unresolved(F) # {}
             PROVE  \E o \in Attempted(F) \cap F : \A m \in Unresolved(F) : Precedes(o, m)
  BY DEF Failure
<1>1. \A m \in Unresolved(F) : m \in Attempted(F) /\ m \in Objects \ Scene
  BY DEF Unresolved, Attempted, Uninitialized
<1>2. PICK m \in Unresolved(F) : TRUE
  OBVIOUS
<1>3. PICK p \in here \cap Scene :
        p \notin initialized /\ ~(p \in Attempted(F) \ F /\ Precedes(p, m))
  BY <1>2 DEF Unresolved, Resolvable
<1>4. p \in Uninitialized
  BY <1>3, NotYet
<1>5. Precedes(p, m)
  BY <1>1, <1>2, <1>3, SceneFirst
<1>6. CASE p \in Attempted(F)
  <2>1. p \in Attempted(F) \cap F
    BY <1>3, <1>5, <1>6
  <2>2. \A u \in Unresolved(F) : Precedes(p, u)
    BY <1>1, <1>3, SceneFirst
  <2> QED
    BY <2>1, <2>2
<1>7. CASE p \notin Attempted(F)
  <2>1. backend # "physx" /\ \E q \in Uninitialized \cap F : Precedes(q, p)
    BY <1>4, <1>7 DEF Attempted
  <2>2. PICK q \in Uninitialized \cap F : Precedes(q, p)
    BY <2>1
  <2>3. q \in Objects /\ q \in Scene
    <3>1. Order(q) <= Order(p)
      BY <2>2 DEF Precedes, Order
    <3>2. q \in Objects
      BY <2>2 DEF Uninitialized
    <3> QED
      BY <1>3, <3>1, <3>2 DEF Order, Scene
  <2>4. Precedes(q, m)
    BY <1>1, <1>2, <2>3, SceneFirst
  <2>5. ~Precedes(q, m)
    BY <1>1, <1>2, <2>1, <2>2 DEF Attempted
  <2> QED
    BY <2>4, <2>5
<1> QED
  BY <1>6, <1>7

\* Of the objects that wait for READY and would fail, one is the first.
LEMMA FirstFailure ==
    ASSUME IInv, NEW F, Uninitialized \cap F # {}
    PROVE  \E o \in Uninitialized \cap F : \A p \in Uninitialized \cap F : ~Precedes(p, o)
<1> DEFINE U == Uninitialized \cap F
           Level(n) == {o \in U : Order(o) = n}
           Ids(n) == {ids[o]["ready"] : o \in Level(n)}
<1>1. \A o \in U : o \in Objects /\ ids[o]["ready"] \in Nat
  BY ReadyIds
<1>2. ASSUME NEW n, Level(n) # {}
      PROVE  \E o \in Level(n) : \A p \in Level(n) : ids[o]["ready"] <= ids[p]["ready"]
  <2>1. Ids(n) \subseteq Nat /\ Ids(n) # {}
    BY <1>1, <1>2
  <2> HIDE DEF Ids
  <2>2. PICK i \in Ids(n) : \A j \in Ids(n) : i <= j
    BY <2>1, LeastNumber
  <2> USE DEF Ids
  <2>3. PICK o \in Level(n) : i = ids[o]["ready"]
    BY <2>2
  <2>4. \A p \in Level(n) : ids[p]["ready"] \in Ids(n)
    OBVIOUS
  <2> QED
    BY <2>2, <2>3, <2>4
<1>3. \A o \in U : Order(o) = 10 \/ Order(o) = 20
  BY DEF Order
<1>4. CASE Level(10) # {}
  <2>1. PICK o \in Level(10) : \A p \in Level(10) : ids[o]["ready"] <= ids[p]["ready"]
    BY <1>2, <1>4
  <2>2. \A p \in U : ~Precedes(p, o)
    <3> TAKE p \in U
    <3>1. CASE Order(p) = 10
      BY <1>1, <2>1, <3>1 DEF Precedes
    <3>2. CASE Order(p) = 20
      BY <1>1, <2>1, <3>2 DEF Precedes
    <3> QED
      BY <1>3, <3>1, <3>2
  <2> QED
    BY <2>1, <2>2
<1>5. CASE Level(10) = {}
  <2>1. \A o \in U : Order(o) = 20
    BY <1>3, <1>5
  <2>2. Level(20) # {}
    BY <2>1
  <2>3. PICK o \in Level(20) : \A p \in Level(20) : ids[o]["ready"] <= ids[p]["ready"]
    BY <1>2, <2>2
  <2>4. \A p \in U : ~Precedes(p, o)
    BY <1>1, <2>1, <2>3 DEF Precedes
  <2> QED
    BY <2>3, <2>4
<1> QED
  BY <1>4, <1>5

\* A dispatch that raises nothing leaves no object of the context uninitialised.
LEMMA AllSucceed ==
    ASSUME IInv, Awaiting, NEW F, Failure(F) = "none"
    PROVE  here \subseteq initialized \cup Succeeding(F)
<1>1. Unresolved(F) = {} /\ Attempted(F) \cap F = {}
  BY DEF Failure
<1>2. Uninitialized \cap F = {}
  <2> SUFFICES ASSUME Uninitialized \cap F # {} PROVE FALSE
    OBVIOUS
  <2>1. PICK o \in Uninitialized \cap F : \A p \in Uninitialized \cap F : ~Precedes(p, o)
    BY FirstFailure
  <2>2. o \in Attempted(F)
    BY <2>1 DEF Attempted
  <2> QED
    BY <1>1, <2>1, <2>2
<1>3. Attempted(F) = Uninitialized
  BY <1>2 DEF Attempted
<1>4. \A o \in here : o \in initialized \/ o \in Uninitialized
  BY NotYet
<1> QED
  BY <1>1, <1>2, <1>3, <1>4 DEF Succeeding

\* The exception that is kept is an object's own.
LEMMA StoredOwn ==
    ASSUME IInv, Awaiting, Reporting, NEW F
    PROVE  Stored(F) \in {"none", "own"}
  BY NeverUnresolved DEF Stored, Reporting

\* What a dispatch of READY does to the objects that wait for it.
LEMMA DispatchAwaits ==
    ASSUME IInv, live, Awaiting, NEW F, DispatchReady(F), backend' = backend
    PROVE  /\ Awaiting'
           /\ here' = here /\ initialized' = initialized \cup Succeeding(F)
<1>1. UNCHANGED <<held, here>> /\ initialized' = initialized \cup Succeeding(F)
  BY DEF DispatchReady
<1>2. callbacks \subseteq callbacks' /\ \A c \in callbacks' \ callbacks : c.slot = "rebind"
  BY Dispatched
<1> QED
  BY <1>1, <1>2 DEF Awaiting

\* Playing Kit's timeline dispatches READY or changes nothing.
LEMMA PlayReports ==
    ASSUME IInv, live, Awaiting, Reporting, NEW F, PlayTimeline(F), backend' = backend,
           returned' \notin {"unresolved", "step"}
    PROVE  Awaiting' /\ Reporting'
<1>1. CASE CreateView(F) /\ pending' = Stored(F) /\ told' = FALSE
  <2>1. Awaiting' /\ here' = here /\ initialized' = initialized \cup Succeeding(F)
    BY <1>1, DispatchAwaits DEF CreateView
  <2>2. pending' \in {"none", "own"}
    BY <1>1, StoredOwn
  <2>3. pending' = "none" => here' \subseteq initialized'
    BY <1>1, <2>1, AllSucceed DEF Stored
  <2> QED
    BY <2>1, <2>2, <2>3 DEF Reporting
<1>2. CASE UNCHANGED <<nativeVars, pending, tableVars, objectVars, told>>
  BY <1>2 DEF Awaiting, Reporting
<1> QED
  BY <1>1, <1>2 DEF PlayTimeline

\* reset(): it returns with everything initialised, or it raises.
LEMMA HardResetReports ==
    ASSUME IInv, Awaiting, Reporting, NEW F, HardReset(F)
    PROVE  Awaiting' /\ Reporting' /\ ResetLeavesAllReady'
<1>1. /\ live /\ DispatchReady(F) /\ pending' = "none" /\ backend' = backend
      /\ IF NeedsView THEN view' = TRUE ELSE UNCHANGED view
  BY DEF HardReset, CreateView, Announce
<1>2. Awaiting' /\ here' = here /\ initialized' = initialized \cup Succeeding(F)
  BY <1>1, DispatchAwaits
<1>3. Stored(F) \in {"none", "own"}
  BY StoredOwn
<1>4. view'
  BY <1>1, BackendsAssumption DEF NeedsView, IInv, Warmed, TypeOK
<1>5. CASE Stored(F) = "none"
  <2>1. here' \subseteq initialized' /\ returned' = "reset"
    BY <1>2, <1>5, AllSucceed DEF Stored, HardReset
  <2> QED
    BY <1>1, <1>2, <1>4, <2>1 DEF Reporting, ResetLeavesAllReady
<1>6. CASE Stored(F) # "none"
  <2>1. returned' = "own" /\ told'
    BY <1>3, <1>6 DEF HardReset
  <2> QED
    BY <1>1, <1>2, <2>1 DEF Reporting, ResetLeavesAllReady
<1> QED
  BY <1>5, <1>6

\* Creating an object: it will hear READY, and its entries displace no other.
LEMMA CreateObjectAwaits ==
    ASSUME IInv, Awaiting, NEW o \in Objects, CreateObject(o)
    PROVE  Awaiting'
<1> DEFINE place == Registered(o)
           first == NextId(backend)
           entries == {[id |-> first + place[slot], owner |-> o, slot |-> slot] :
                          slot \in DOMAIN place}
<1>1. /\ live /\ here' = here \cup {o} /\ UNCHANGED initialized
      /\ callbacks' = Put(entries)
  BY DEF CreateObject, NewObject, Register
<1>2. first \in Nat
  BY <1>1, NextIdType DEF IInv, TypeOK, Issued
<1>3. /\ "ready" \in DOMAIN place
      /\ \A slot \in DOMAIN place : place[slot] \in Nat
      /\ "stop" \in DOMAIN place => o \in Scene
  <2>1. CASE Kind[o] = "manager"
    <3>1. place = [ready |-> 0]
      BY <2>1 DEF Registered
    <3> HIDE DEF place
    <3> QED
      BY <3>1
  <2>2. CASE Kind[o] # "manager"
    <3>1. place = [ready |-> 0, stop |-> 1, prim |-> 2] \/ place = [ready |-> 0, stop |-> 1]
      BY <2>2 DEF Registered
    <3>2. o \in Scene
      BY <2>2 DEF Scene
    <3> HIDE DEF place
    <3> QED
      BY <3>1, <3>2
  <2> QED
    BY <2>1, <2>2
<1>4. \A c \in callbacks : c.id \in Nat /\ c.id < first
  BY DEF IInv, TypeOK, Issued
<1> HIDE DEF place, first
<1>5. \A e \in entries : e.id \in Nat /\ e.id >= first /\ e.owner = o /\ e.slot \in DOMAIN place
  BY <1>2, <1>3
<1>6. \E e \in entries : e.owner = o /\ e.slot = "ready"
  <2>1. [id |-> first + place["ready"], owner |-> o, slot |-> "ready"] \in entries
    BY <1>3
  <2> QED
    BY <2>1
<1>7. callbacks' = callbacks \cup entries
  BY <1>1, <1>2, <1>4, <1>5 DEF Put
<1> QED
  BY <1>1, <1>3, <1>5, <1>6, <1>7 DEF Awaiting

\* Finalising one takes only its own entries.
LEMMA FinalizeAwaits ==
    ASSUME IInv, Awaiting, NEW o \in Objects, Finalize(o)
    PROVE  Awaiting'
<1>1. /\ here' = here \ {o} /\ initialized' = initialized \ {o}
      /\ callbacks' = {c \in callbacks : c.id \notin Handles(o)}
  BY DEF Finalize, Without
<1>2. \A c \in callbacks : c.owner # o => c \in callbacks'
  BY <1>1 DEF IInv, HandlesAreOwn, Handles
<1> QED
  BY <1>1, <1>2 DEF Awaiting

\* Every step keeps what will be initialised and what is told.
LEMMA ReportingNext ==
    ~Switch /\ IInv /\ Awaiting /\ Reporting /\ [Next]_vars
       => Awaiting' /\ Reporting' /\ (ResetLeavesAllReady => ResetLeavesAllReady')
<1> SUFFICES ASSUME ~Switch, IInv, Awaiting, Reporting, [Next]_vars
             PROVE  Awaiting' /\ Reporting' /\ (ResetLeavesAllReady => ResetLeavesAllReady')
  OBVIOUS
<1>1. CASE UNCHANGED vars
  BY <1>1 DEF vars, Awaiting, Reporting, ResetLeavesAllReady
<1>2. ASSUME NEW class \in Backends, CreateContext(class)
      PROVE  Awaiting' /\ Reporting' /\ ResetLeavesAllReady'
  <2>1. callbacks = {} /\ here = {} /\ ~view /\ UNCHANGED <<view, here, pending>>
    BY <1>2 DEF CreateContext, IInv, NothingWithout
  <2>2. callbacks' = {[id |-> NextId(class), owner |-> Renderer, slot |-> "ready"]}
    BY <1>2, <2>1 DEF CreateContext, Register, Put
  <2>3. returned' = "none"
    BY <1>2 DEF CreateContext
  <2> QED
    BY <2>1, <2>2, <2>3 DEF Awaiting, Reporting, ResetLeavesAllReady
<1>3. ASSUME NEW F, HardReset(F) PROVE Awaiting' /\ Reporting' /\ ResetLeavesAllReady'
  BY <1>3, HardResetReports
<1>4. ASSUME NEW F, SoftReset(F) PROVE Awaiting' /\ Reporting' /\ ResetLeavesAllReady'
  <2>1. CASE pending # "none"
    <3>1. /\ UNCHANGED <<nativeVars, tableVars, objectVars>>
          /\ returned' = pending /\ told' = TRUE /\ pending' = "none"
      BY <1>4, <2>1 DEF SoftReset, RaisePending
    <3> QED
      BY <2>1, <3>1 DEF Awaiting, Reporting, ResetLeavesAllReady
  <2>2. CASE pending = "none"
    <3>1. live /\ returned' = "soft_reset" /\ backend' = backend
      BY <1>4, <2>2 DEF SoftReset
    <3>2. \/ PlayTimeline(F)
          \/ UNCHANGED <<nativeVars, pending, tableVars, objectVars, told>>
      BY <1>4, <2>2 DEF SoftReset
    <3>3. ASSUME UNCHANGED <<nativeVars, pending, tableVars, objectVars, told>>
          PROVE  Awaiting' /\ Reporting'
      BY <3>1, <3>3 DEF Awaiting, Reporting
    <3> QED
      BY <3>1, <3>2, <3>3, PlayReports DEF ResetLeavesAllReady
  <2> QED
    BY <2>1, <2>2
<1>5. ASSUME NEW F, Play(F) \/ GuiPlay(F) PROVE Awaiting' /\ Reporting' /\ ResetLeavesAllReady'
  <2>1. live /\ returned' = "none" /\ backend' = backend
    BY <1>5 DEF Play, GuiPlay, Gui
  <2>2. \/ PlayTimeline(F)
        \/ UNCHANGED <<nativeVars, pending, tableVars, objectVars, told>>
    BY <1>5 DEF Play, GuiPlay
  <2>3. ASSUME UNCHANGED <<nativeVars, pending, tableVars, objectVars, told>>
        PROVE  Awaiting' /\ Reporting'
    BY <2>1, <2>3 DEF Awaiting, Reporting
  <2> QED
    BY <2>1, <2>2, <2>3, PlayReports DEF ResetLeavesAllReady
<1>6. CASE Step
  <2>1. UNCHANGED <<nativeVars, tableVars, objectVars>>
    BY <1>6 DEF Step
  <2>2. \/ returned' = pending /\ told' = TRUE /\ pending' = "none" /\ pending # "none"
        \/ returned' = "step" /\ UNCHANGED <<told, pending>>
    BY <1>6 DEF Step, RaisePending
  <2>3. Awaiting'
    BY <2>1 DEF Awaiting
  <2>4. CASE returned' = pending /\ told' = TRUE /\ pending' = "none" /\ pending # "none"
    <3>1. told' /\ returned' = "own"
      BY <2>4 DEF Reporting
    <3> QED
      BY <2>3, <2>4, <3>1 DEF Reporting, ResetLeavesAllReady
  <2>5. CASE returned' = "step" /\ UNCHANGED <<told, pending>>
    <3>1. pending = "none"
      BY <1>6, <2>5 DEF Step, RaisePending, Reporting
    <3> QED
      BY <2>1, <2>3, <2>5, <3>1 DEF Reporting, ResetLeavesAllReady
  <2> QED
    BY <2>2, <2>4, <2>5
<1>7. CASE Pause \/ GuiPause
  <2>1. UNCHANGED <<nativeVars, pending, tableVars, objectVars, told>> /\ returned' = "none"
    BY <1>7 DEF Pause, GuiPause, Gui
  <2> QED
    BY <2>1 DEF Awaiting, Reporting, ResetLeavesAllReady
<1>8. CASE Stop \/ GuiStop
  <2>1. /\ UNCHANGED <<pending, tableVars, lifeVars, seen, told>> /\ returned' = "none"
        /\ \/ UNCHANGED <<nativeVars, initialized>>
           \/ view' = FALSE /\ initialized' = initialized \ Owners("stop")
    BY <1>8 DEF Stop, GuiStop, Gui, StopTimeline, OnStop
  <2>2. Owners("stop") \subseteq Scene
    BY DEF Awaiting, Owners
  <2>3. Awaiting'
    <3>1. initialized \ Scene \subseteq initialized' \ Scene
      BY <2>1, <2>2
    <3> QED
      BY <2>1, <3>1 DEF Awaiting
  <2>4. Reporting'
    <3>1. UNCHANGED <<nativeVars, initialized>> \/ ~view'
      BY <2>1
    <3> QED
      BY <2>1, <3>1 DEF Reporting
  <2> QED
    BY <2>1, <2>3, <2>4 DEF ResetLeavesAllReady
<1>9. CASE ClearInstance
  <2>1. /\ here' = {} /\ callbacks' = {} /\ view' = FALSE
        /\ pending' = "none" /\ returned' = "none"
    BY <1>9 DEF ClearInstance
  <2> QED
    BY <2>1 DEF Awaiting, Reporting, ResetLeavesAllReady
<1>10. ASSUME NEW o \in Objects, CreateObject(o)
       PROVE  Awaiting' /\ Reporting' /\ ResetLeavesAllReady'
  <2>1. /\ here' = here \cup {o} /\ o \notin held /\ returned' = "none"
        /\ UNCHANGED <<nativeVars, pending, seen, initialized, told>>
    BY <1>10 DEF CreateObject, NewObject
  <2>2. o \notin seen
    BY <2>1 DEF IInv, TypeOK
  <2> QED
    BY <1>10, <2>1, <2>2, CreateObjectAwaits DEF Reporting, ResetLeavesAllReady
<1>11. ASSUME NEW o \in Objects, CreateResolvedManager(o)
       PROVE  Awaiting' /\ Reporting' /\ ResetLeavesAllReady'
  <2>1. /\ here' = here \cup {o} /\ initialized' = initialized \cup {o} /\ o \notin Scene
        /\ returned' = "none" /\ UNCHANGED <<nativeVars, pending, seen, tableVars, told>>
    BY <1>11 DEF CreateResolvedManager, NewObject, Scene
  <2> QED
    BY <2>1 DEF Awaiting, Reporting, ResetLeavesAllReady
<1>12. ASSUME NEW o \in Objects, Finalize(o)
       PROVE  Awaiting' /\ Reporting' /\ ResetLeavesAllReady'
  <2>1. /\ here' = here \ {o} /\ seen' = seen \ {o} /\ initialized' = initialized \ {o}
        /\ returned' = "none" /\ UNCHANGED <<nativeVars, pending, told>>
    BY <1>12 DEF Finalize
  <2> QED
    BY <1>12, <2>1, FinalizeAwaits DEF Reporting, ResetLeavesAllReady
<1> QED
  BY <1>1, <1>2, <1>3, <1>4, <1>5, <1>6, <1>7, <1>8, <1>9, <1>10, <1>11, <1>12 DEF Next

--------------------------------------------------------------------------------
(* The theorems *)

\* The inductive invariant holds in every reachable state of a process that keeps
\* to one backend.
THEOREM Invariance == ~Switch => (Spec => []IInv)
<1> SUFFICES ASSUME ~Switch PROVE Spec => []IInv
  OBVIOUS
<1>1. Init => IInv
  <2> SUFFICES ASSUME Init PROVE IInv
    OBVIOUS
  <2>1. /\ NoIds \in [Slots -> Nat \cup {NoId}]
        /\ \A slot \in Slots : NoIds[slot] = NoId
    BY DEF NoIds
  <2>2. TypeOK
    <3>1. callback_id["newton"] = 0 /\ ids \in [Objects -> [Slots -> Nat \cup {NoId}]]
      BY <2>1 DEF Init
    <3>2. callback_id \in [{"physx", "ovphysx", "newton"} -> Nat \cup {NoId}]
      BY DEF Init
    <3>3. /\ live = FALSE /\ backend = "none"
          /\ timeline = "stopped" /\ is_playing = FALSE /\ is_stopped = TRUE
          /\ warmup_needed = TRUE /\ view = FALSE /\ pending = "none"
          /\ callbacks = {} /\ held = {} /\ here = {} /\ seen = {}
          /\ initialized = {} /\ bound = {}
          /\ returned = "none" /\ told = FALSE /\ gui = 0
      BY DEF Init
    <3>4. callback_id["newton"] # NoId
      BY <3>1 DEF NoId
    <3>5. callbacks \subseteq
            [id : Nat, owner : Objects \cup {Renderer}, slot : Slots]
      BY <3>3
    <3>6. /\ pending \in Failures
          /\ returned \in Failures \cup {"reset", "soft_reset", "step"}
      BY <3>3 DEF Failures
    <3>7. /\ held \subseteq Objects /\ here \subseteq held /\ seen \subseteq held
          /\ initialized \subseteq held /\ bound \subseteq held
      BY <3>3
    <3>8. live \in BOOLEAN /\ backend \in Backends \cup {"none"}
      BY <3>3
    <3>9. /\ timeline \in {"stopped", "playing", "paused"}
          /\ is_playing \in BOOLEAN /\ is_stopped \in BOOLEAN
          /\ warmup_needed \in BOOLEAN /\ view \in BOOLEAN
          /\ told \in BOOLEAN /\ gui \in Nat
      BY <3>3
    <3> QED
      BY <3>1, <3>2, <3>4, <3>5, <3>6, <3>7, <3>8, <3>9 DEF TypeOK
  <2>3. Issued /\ HandlesAreOwn /\ OwnersHere /\ Traced
    BY <2>1 DEF Init, Issued, HandlesAreOwn, OwnersHere, Traced
  <2>4. NothingWithout /\ Listening /\ WillRebind /\ ReadyIsCurrent
    BY DEF Init, NothingWithout, Listening, WillRebind, ReadyIsCurrent
  <2>5. Warmed /\ InvalidAfterClose
    BY DEF Init, Warmed, InvalidAfterClose
  <2> QED
    BY <2>2, <2>3, <2>4, <2>5 DEF IInv
<1>2. IInv /\ [Next]_vars => IInv'
  <2> SUFFICES ASSUME IInv, [Next]_vars PROVE IInv'
    OBVIOUS
  <2>1. CASE UNCHANGED vars
    <3>1. ScalarsOK'
      BY <2>1 DEF vars, ScalarsOK, IInv, TypeOK
    <3> QED
      BY <2>1, <3>1, Idle DEF vars
  <2>2. ASSUME NEW class \in Backends, CreateContext(class)
        PROVE  IInv'
    BY <2>2, CreateContextKeeps
  <2>3. ASSUME NEW F, HardReset(F) \/ SoftReset(F) \/ Play(F) \/ GuiPlay(F)
        PROVE  IInv'
    BY <2>3, HardResetKeeps, PlayKeeps
  <2>4. CASE Step \/ Pause \/ GuiPause
    BY <2>4, OthersIdle
  <2>5. CASE Stop \/ GuiStop
    BY <2>5, StopKeeps
  <2>6. CASE ClearInstance
    BY <2>6, ClearInstanceKeeps
  <2>7. ASSUME NEW o \in Objects,
               CreateObject(o) \/ CreateResolvedManager(o) \/ Finalize(o)
        PROVE  IInv'
    BY <2>7, CreateObjectKeeps, CreateResolvedManagerKeeps, FinalizeKeeps
  <2> QED
    BY <2>1, <2>2, <2>3, <2>4, <2>5, <2>6, <2>7 DEF Next
<1> QED
  BY <1>1, <1>2, PTL DEF Spec

\* TypeOK holds of any number of objects, contexts and resets.
THEOREM TypeCorrect == ~Switch => (Spec => []TypeOK)
<1>1. IInv => TypeOK
  BY DEF IInv
<1> QED
  BY <1>1, Invariance, PTL

\* However late an object is finalised, and whatever was created, reset, stopped or
\* closed in between, the handles it deregisters are its own callbacks.
THEOREM HandlesAlwaysOwn == ~Switch => (Spec => []HandlesAreOwn)
<1>1. IInv => HandlesAreOwn
  BY DEF IInv
<1> QED
  BY <1>1, Invariance, PTL

\* An initialised asset or sensor never refers to a native simulation that was
\* stopped or rebuilt (sensors of Newton excepted).
THEOREM ReadyAlwaysCurrent == ~Switch => (Spec => []ReadyIsCurrent)
<1>1. IInv => ReadyIsCurrent
  BY DEF IInv
<1> QED
  BY <1>1, Invariance, PTL

\* Closing the context invalidates its assets and sensors, except those of PhysX,
\* which have then dropped their handles.
THEOREM InvalidOnceClosed == ~Switch => (Spec => []InvalidAfterClose)
<1>1. IInv => InvalidAfterClose
  BY DEF IInv
<1> QED
  BY <1>1, Invariance, PTL

\* What a dispatch of READY initialises and what it raises, in every reachable state.
THEOREM ReportingInvariance ==
    ~Switch => (Spec => [](Awaiting /\ Reporting /\ ResetLeavesAllReady))
<1> SUFFICES ASSUME ~Switch
             PROVE  Spec => [](Awaiting /\ Reporting /\ ResetLeavesAllReady)
  OBVIOUS
<1>1. Init => Awaiting /\ Reporting /\ ResetLeavesAllReady
  BY DEF Init, Awaiting, Reporting, ResetLeavesAllReady
<1>2. IInv /\ (Awaiting /\ Reporting /\ ResetLeavesAllReady) /\ [Next]_vars
        => (Awaiting /\ Reporting /\ ResetLeavesAllReady)'
  BY ReportingNext
<1>3. Spec => []IInv
  BY Invariance
<1> QED
  BY <1>1, <1>2, <1>3, PTL DEF Spec

\* Whatever failed, stopped or was closed before: when a full reset() returns there is
\* a native simulation and everything in the context is initialised.
THEOREM ResetAlwaysLeavesAllReady == ~Switch => (Spec => []ResetLeavesAllReady)
<1>1. (Awaiting /\ Reporting /\ ResetLeavesAllReady) => ResetLeavesAllReady
  OBVIOUS
<1> QED
  BY <1>1, ReportingInvariance, PTL

\* No failed initialisation goes unnoticed, and none is blamed on a manager that was
\* resolved without the failed object.
THEOREM FailuresAlwaysReported == ~Switch => (Spec => []FailuresReported)
<1>1. (Awaiting /\ Reporting /\ ResetLeavesAllReady) => FailuresReported
  BY DEF Reporting, FailuresReported
<1> QED
  BY <1>1, ReportingInvariance, PTL
================================================================================
