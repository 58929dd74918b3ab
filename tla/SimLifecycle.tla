------------------------------ MODULE SimLifecycle ------------------------------
(* The life of simulation contexts in one process: the singleton                 *)
(* SimulationContext, the physics manager behind it with its registry of         *)
(* lifecycle callbacks, and the assets, sensors and managers of the environment  *)
(* that hold handles on registered callbacks.                                    *)
(*                                                                               *)
(* PhysX runs inside Kit: a timeline that the user may also operate from the     *)
(* GUI, event buses that swallow exceptions.  OvPhysX and Newton dispatch their  *)
(* events directly.  The native simulation (PhysX views, OvPhysX stage, Newton    *)
(* model) is what the objects are bound to.  An initialisation that fails leaves *)
(* its object as it was.  Opening another stage inside a context, cameras,       *)
(* markers and visualizers are left out.                                         *)
EXTENDS Integers, FiniteSets

CONSTANTS
    Objects,        \* places for assets, sensors and managers
    Kind,           \* "asset", "sensor" or "manager" of each
    Backends,       \* the backends a process may use
    Switch,         \* may a process use several of them?
    MayFail,        \* objects whose initialisation may raise
    MaxIds,         \* bound: nothing is created beyond this callback id
    MaxGui          \* bound: GUI commands; 0 is headless

Renderer == "renderer"      \* owner of the context's own callback

ASSUME ObjectsAssumption ==
    /\ IsFiniteSet(Objects) /\ Renderer \notin Objects
    /\ Kind \in [Objects -> {"asset", "sensor", "manager"}]
    /\ MayFail \subseteq Objects
ASSUME BackendsAssumption ==
    /\ Backends \subseteq {"physx", "ovphysx", "newton"}
    /\ Switch \in BOOLEAN
ASSUME LimitsAssumption == MaxIds \in Nat /\ MaxGui \in Nat

VARIABLES
    live, backend,        \* SimulationContext._instance and its manager class
    timeline,             \* of Kit
    is_playing, is_stopped,
    warmup_needed, view,  \* is there a native simulation, must one be made?
    pending,              \* PhysxManager._callback_exception
    callbacks,            \* PhysicsManager._callbacks: one table for all classes
    callback_id,          \* _callback_id of each manager class
    held,                 \* objects that exist
    here,                 \* those of the live context
    seen,                 \* those that were there when the native simulation was made
    initialized,          \* _is_initialized, or a manager's resolved terms
    bound,                \* objects that refer to the native simulation there is
    ids,                  \* their callback handles
    returned,             \* how the last reset() or step() ended
    told,                 \* was an exception raised since the simulation was made?
    gui                   \* GUI commands so far

contextVars == <<live, backend>>
flagVars    == <<is_playing, is_stopped>>
nativeVars  == <<warmup_needed, view>>
tableVars   == <<callbacks, callback_id>>
lifeVars    == <<held, here>>
readyVars   == <<seen, initialized, bound>>
objectVars  == <<lifeVars, readyVars, ids>>
userVars    == <<returned, told, gui>>
vars == <<contextVars, timeline, flagVars, nativeVars, pending, tableVars,
          objectVars, userVars>>

NoId == -1
Slots == {"ready", "stop", "prim", "rebind"}
NoIds == [slot \in Slots |-> NoId]

Scene == {o \in Objects : Kind[o] # "manager"}
Owners(slot) == {c.owner : c \in {d \in callbacks : d.slot = slot}}

Failures == {"none", "own", "unresolved"}

TypeOK ==
    /\ live \in BOOLEAN /\ backend \in Backends \cup {"none"}
    /\ timeline \in {"stopped", "playing", "paused"}
    /\ is_playing \in BOOLEAN /\ is_stopped \in BOOLEAN
    /\ warmup_needed \in BOOLEAN /\ view \in BOOLEAN
    /\ pending \in Failures
    /\ callbacks \subseteq
          [id : Nat, owner : Objects \cup {Renderer}, slot : Slots]
    /\ callback_id \in [{"physx", "ovphysx", "newton"} -> Nat \cup {NoId}]
    /\ callback_id["newton"] # NoId
    /\ held \subseteq Objects /\ here \subseteq held /\ seen \subseteq held
    /\ initialized \subseteq held /\ bound \subseteq held
    /\ ids \in [Objects -> [Slots -> Nat \cup {NoId}]]
    /\ returned \in Failures \cup {"reset", "soft_reset", "step"}
    /\ told \in BOOLEAN /\ gui \in Nat

Init ==
    /\ live = FALSE /\ backend = "none"
    /\ timeline = "stopped" /\ is_playing = FALSE /\ is_stopped = TRUE
    /\ warmup_needed = TRUE /\ view = FALSE
    /\ pending = "none"
    /\ callbacks = {}
    /\ callback_id = [class \in {"physx", "ovphysx", "newton"} |->
                         IF class = "newton" THEN 0 ELSE NoId]
    /\ held = {} /\ here = {} /\ seen = {} /\ initialized = {} /\ bound = {}
    /\ ids = [o \in Objects |-> NoIds]
    /\ returned = "none" /\ told = FALSE /\ gui = 0

--------------------------------------------------------------------------------
(* The registry *)

\* A manager class counts on from PhysicsManager's counter, then on its own; the
\* Newton managers register through PhysicsManager itself.
NextId(class) ==
    IF callback_id[class] = NoId THEN callback_id["newton"] ELSE callback_id[class]

\* entries of a dictionary keyed by id
Put(entries) ==
    {c \in callbacks : \A new \in entries : new.id # c.id} \cup entries

Register(class, entries, n) ==
    /\ callbacks' = Put(entries)
    /\ callback_id' = [callback_id EXCEPT ![class] = NextId(class) + n]

Handles(o) == {ids[o][slot] : slot \in Slots}
Without(some) == {c \in callbacks : c.id \notin some}

--------------------------------------------------------------------------------
(* PHYSICS_READY *)

Order(o) == IF Kind[o] = "manager" THEN 20 ELSE 10

\* order, then order of registration
Precedes(p, o) ==
    \/ Order(p) < Order(o)
    \/ Order(p) = Order(o) /\ ids[p].ready < ids[o].ready

Uninitialized == (Owners("ready") \cap Objects) \ initialized

\* the initialisations that are attempted when those of F raise: the event buses
\* of Kit go on after an exception, a direct dispatch does not
Attempted(F) ==
    {o \in Uninitialized :
        backend = "physx" \/ \A p \in Uninitialized \cap F : ~Precedes(p, o)}

\* a manager resolves its terms against the scene
Resolvable(o, F) ==
    \A p \in here \cap Scene :
      p \in initialized \/ (p \in Attempted(F) \ F /\ Precedes(p, o))

Unresolved(F) == {o \in Attempted(F) \ (F \cup Scene) : ~Resolvable(o, F)}
Succeeding(F) == (Attempted(F) \ F) \ Unresolved(F)

\* the exception raised first
Failure(F) ==
    IF \E o \in Attempted(F) \cap F : \A m \in Unresolved(F) : Precedes(o, m)
      THEN "own"
      ELSE IF Unresolved(F) # {} THEN "unresolved" ELSE "none"

\* Mutant: a callback's exception is left to the event bus.
StoredNever(F) == IF backend = "physx" THEN "none" ELSE Failure(F)

\* store_callback_exception keeps the first one
Stored(F) == IF pending # "none" THEN pending ELSE Failure(F)

\* Mutant: assets are not told when a model is built anew.
RebindingNever(done) == {}

\* an asset of Newton asks to be told when the model is built anew
Rebinding(done) ==
    {o \in done : backend = "newton" /\ Kind[o] = "asset"}

\* every callback runs once per dispatch; PhysX dispatches READY up to four times,
\* which changes nothing more
DispatchReady(F) ==
    LET done == Succeeding(F)
        more == Rebinding(done)
        first == NextId(backend)
        next == first + Cardinality(more)
    IN
    /\ initialized' = initialized \cup done
    /\ \E new \in [more -> first .. next - 1] :
         /\ \A o, p \in more : Precedes(p, o) => new[p] < new[o]
         /\ \A o, p \in more : o # p => new[o] # new[p]
         /\ ids' = [o \in Objects |->
                       IF o \in more THEN [ids[o] EXCEPT !.rebind = new[o]]
                                     ELSE ids[o]]
         /\ Register(backend,
                     {[id |-> new[o], owner |-> o, slot |-> "rebind"] : o \in more},
                     Cardinality(more))
    /\ UNCHANGED lifeVars

Rebound(F) == Succeeding(F) \cup Owners("rebind")

\* READY for the native simulation there is
Announce(F) ==
    /\ DispatchReady(F)
    /\ bound' = bound \cup Rebound(F)
    /\ UNCHANGED <<nativeVars, seen>>

\* a new native simulation is made, and READY for it
CreateView(F) ==
    /\ view' = TRUE
    /\ warmup_needed' = FALSE
    /\ DispatchReady(F)
    /\ bound' = Rebound(F)
    /\ seen' = held

--------------------------------------------------------------------------------
(* The timeline of Kit *)

\* _on_play: warm up and create the views unless that was done
PlayTimeline(F) ==
    /\ timeline' = "playing"
    /\ IF timeline # "playing" /\ warmup_needed
         THEN CreateView(F) /\ pending' = Stored(F) /\ told' = FALSE
         ELSE F = {} /\ UNCHANGED <<nativeVars, pending, tableVars, objectVars, told>>

PauseTimeline ==
    timeline' = IF timeline = "playing" THEN "paused" ELSE timeline

\* Mutant: the next reset does not warm up again.
OnStopWarm == view' = FALSE /\ UNCHANGED warmup_needed

OnStop == view' = FALSE /\ warmup_needed' = TRUE

\* _on_stop, and the STOP callbacks of the objects
StopTimeline ==
    IF timeline = "stopped"
      THEN UNCHANGED <<timeline, nativeVars, initialized, bound>>
      ELSE /\ timeline' = "stopped"
           /\ OnStop
           /\ initialized' = initialized \ Owners("stop")
           /\ bound' = {}

Gui(F) ==
    /\ live /\ backend = "physx" /\ gui < MaxGui
    /\ gui' = gui + 1
    /\ returned' = "none"
    /\ UNCHANGED <<contextVars, flagVars>>

GuiPlay(F) == Gui(F) /\ timeline # "playing" /\ PlayTimeline(F)

GuiPause ==
    /\ Gui({}) /\ timeline = "playing" /\ PauseTimeline
    /\ UNCHANGED <<nativeVars, pending, tableVars, objectVars, told>>

GuiStop ==
    /\ Gui({}) /\ timeline # "stopped" /\ StopTimeline
    /\ UNCHANGED <<pending, tableVars, lifeVars, seen, ids, told>>

--------------------------------------------------------------------------------
(* SimulationContext *)

\* SimulationContext(cfg): initialize the manager, register the renderer
CreateContext(class) ==
    /\ ~live /\ NextId(class) < MaxIds
    /\ Switch \/ backend \in {"none", class}
    /\ live' = TRUE /\ backend' = class
    /\ is_playing' = FALSE /\ is_stopped' = TRUE
    /\ warmup_needed' = TRUE
    /\ Register(class,
                {[id |-> NextId(class), owner |-> Renderer, slot |-> "ready"]}, 1)
    /\ returned' = "none"
    /\ UNCHANGED <<timeline, view, pending, objectVars, told, gui>>

MarkPlaying == is_playing' = TRUE /\ is_stopped' = FALSE

NeedsView ==
    CASE backend = "physx" -> ~view /\ warmup_needed
      [] backend = "ovphysx" -> warmup_needed
      [] OTHER -> TRUE

\* reset(): make the native simulation where needed and say it is ready; an
\* exception leaves before play() and before the flags are set
HardReset(F) ==
    /\ live
    /\ IF NeedsView THEN CreateView(F) ELSE Announce(F)
    /\ pending' = "none"
    /\ IF Stored(F) = "none"
         THEN /\ timeline' = IF backend = "physx" THEN "playing" ELSE timeline
              /\ MarkPlaying
              /\ returned' = "reset"
              /\ told' = (told /\ ~NeedsView)
         ELSE /\ returned' = Stored(F) /\ told' = TRUE
              /\ UNCHANGED <<timeline, flagVars>>
    /\ UNCHANGED <<contextVars, gui>>

RaisePending ==
    /\ returned' = pending /\ told' = TRUE
    /\ pending' = "none"

\* reset(soft=True) raises what is pending, or plays
SoftReset(F) ==
    /\ live
    /\ IF pending # "none"
         THEN /\ F = {} /\ RaisePending
              /\ UNCHANGED <<timeline, flagVars, nativeVars, tableVars, objectVars>>
         ELSE /\ IF backend = "physx"
                   THEN PlayTimeline(F)
                   ELSE F = {} /\ UNCHANGED <<timeline, nativeVars, pending,
                                             tableVars, objectVars, told>>
              /\ MarkPlaying
              /\ returned' = "soft_reset"
    /\ UNCHANGED <<contextVars, gui>>

\* step() waits while the timeline is paused
Step ==
    /\ live /\ timeline # "paused"
    /\ IF pending # "none"
         THEN RaisePending
         ELSE returned' = "step" /\ UNCHANGED <<told, pending>>
    /\ UNCHANGED <<contextVars, timeline, flagVars, nativeVars, tableVars,
                   objectVars, gui>>

Play(F) ==
    /\ live
    /\ IF backend = "physx"
         THEN PlayTimeline(F)
         ELSE F = {} /\ UNCHANGED <<timeline, nativeVars, pending, tableVars,
                                   objectVars, told>>
    /\ MarkPlaying
    /\ returned' = "none"
    /\ UNCHANGED <<contextVars, gui>>

MarkPaused == is_playing' = FALSE /\ UNCHANGED is_stopped

Pause ==
    /\ live
    /\ IF backend = "physx" THEN PauseTimeline ELSE UNCHANGED timeline
    /\ MarkPaused
    /\ returned' = "none"
    /\ UNCHANGED <<contextVars, nativeVars, pending, tableVars, objectVars, told, gui>>

Stop ==
    /\ live
    /\ IF backend = "physx"
         THEN StopTimeline
         ELSE UNCHANGED <<timeline, nativeVars, initialized, bound>>
    /\ is_playing' = FALSE /\ is_stopped' = TRUE
    /\ returned' = "none"
    /\ UNCHANGED <<contextVars, pending, tableVars, lifeVars, seen, ids, told, gui>>

\* Mutant: the table is emptied before the listeners are notified.
NotifiedNone(gone) == {}

\* the objects still in the table hear STOP
Notified(gone) == {c.owner : c \in {d \in Without(gone) : d.slot = "stop"}}

\* Mutant: the counter starts again with an empty table.
CountersReset == callback_id' = [callback_id EXCEPT ![backend] = 0]

\* handle ids stay unique across the lifetime of the process
CountersKept == UNCHANGED callback_id

\* clear_instance(): PhysX first tells its objects that their prims are deleted,
\* upon which they drop their handles; closing the stage stops Kit's timeline
ClearInstance ==
    LET forgetful == Owners("prim") \cap Objects
        gone == UNION {Handles(o) : o \in forgetful}
    IN
    /\ live /\ live' = FALSE
    /\ ids' = [o \in Objects |-> IF o \in forgetful THEN NoIds ELSE ids[o]]
    /\ initialized' = initialized \ Notified(gone)
    /\ here' = {} /\ bound' = {}
    /\ callbacks' = {}
    /\ CountersKept
    /\ view' = FALSE /\ warmup_needed' = TRUE
    /\ pending' = "none"
    /\ timeline' = "stopped" /\ is_playing' = FALSE /\ is_stopped' = TRUE
    /\ returned' = "none"
    /\ UNCHANGED <<backend, held, seen, told, gui>>

--------------------------------------------------------------------------------
(* Assets, sensors and managers *)

\* what an object registers for, in the order of the calls
Registered(o) ==
    CASE Kind[o] = "manager" -> [ready |-> 0]
      [] Kind[o] # "manager" /\ backend = "physx" ->
            [ready |-> 0, stop |-> 1, prim |-> 2]
      [] OTHER -> [ready |-> 0, stop |-> 1]

NewObject(o) ==
    /\ live /\ o \notin held /\ NextId(backend) < MaxIds
    /\ held' = held \cup {o}
    /\ here' = here \cup {o}
    /\ returned' = "none"
    /\ UNCHANGED <<contextVars, timeline, flagVars, nativeVars, pending, seen, bound,
                   told, gui>>

CreateObject(o) ==
    LET place == Registered(o)
        first == NextId(backend)
    IN
    /\ Kind[o] = "manager" => ~is_playing
    /\ NewObject(o)
    /\ UNCHANGED initialized
    /\ ids' = [ids EXCEPT ![o] =
                  [slot \in Slots |->
                     IF slot \in DOMAIN place THEN first + place[slot] ELSE NoId]]
    /\ Register(backend,
                {[id |-> first + place[slot], owner |-> o, slot |-> slot] :
                    slot \in DOMAIN place},
                Cardinality(DOMAIN place))

\* a manager made while the simulation plays resolves its terms at once; if it
\* cannot, its constructor raises and there is no manager
CreateResolvedManager(o) ==
    /\ Kind[o] = "manager" /\ is_playing
    /\ here \cap Scene \subseteq initialized
    /\ NewObject(o)
    /\ initialized' = initialized \cup {o}
    /\ ids' = [ids EXCEPT ![o] = NoIds]
    /\ UNCHANGED tableVars

\* __del__, at any time after the last use: the callbacks refer to the object
\* weakly, but for the one that rebinds an asset of Newton
Finalize(o) ==
    /\ o \in held
    /\ \A c \in callbacks : c.owner = o => c.slot # "rebind"
    /\ held' = held \ {o} /\ here' = here \ {o}
    /\ seen' = seen \ {o} /\ bound' = bound \ {o}
    /\ callbacks' = Without(Handles(o))
    /\ ids' = [ids EXCEPT ![o] = NoIds]
    /\ initialized' = initialized \ {o}
    /\ returned' = "none"
    /\ UNCHANGED <<contextVars, timeline, flagVars, nativeVars, pending, callback_id,
                   told, gui>>

FailingSets == SUBSET (Uninitialized \cap MayFail)

Next ==
    \/ \E class \in Backends : CreateContext(class)
    \/ \E F \in FailingSets :
          HardReset(F) \/ SoftReset(F) \/ Play(F) \/ GuiPlay(F)
    \/ Step \/ Pause \/ Stop \/ ClearInstance
    \/ GuiPause \/ GuiStop
    \/ \E o \in Objects :
          CreateObject(o) \/ CreateResolvedManager(o) \/ Finalize(o)

Spec == Init /\ [][Next]_vars

--------------------------------------------------------------------------------
(* Properties *)

\* A handle never names another object's callback: what an object deregisters when
\* it is finalised, however late, is its own (clear_callbacks, CallbackHandle).
HandlesAreOwn ==
    \A o \in Objects, slot \in Slots, c \in callbacks :
      c.id = ids[o][slot] => c.owner = o /\ c.slot = slot

\* An initialised asset or sensor refers to the native simulation there is, not to
\* one that was stopped or rebuilt; the sensors of Newton are not rebound.
ReadyIsCurrent ==
    \A o \in here \cap Scene \cap initialized :
      view /\ (o \in bound \/ (backend = "newton" /\ Kind[o] = "sensor"))

\* When a full reset() returns, everything in the context is initialised.
ResetLeavesAllReady ==
    returned = "reset" => view /\ here \subseteq initialized

\* No failed initialisation goes unnoticed: when step() returns while the
\* simulation plays, every object older than the native simulation is initialised,
\* or an exception has been raised to the user since; and that exception is the
\* object's own, never that of a manager that was resolved without it.
FailuresReported ==
    /\ returned = "step" /\ view /\ (backend = "physx" => timeline = "playing") =>
         told \/ here \cap seen \subseteq initialized
    /\ returned # "unresolved"

\* No object outlives its context initialised; PhysX promises that only to those
\* stopped before.
InvalidAfterClose ==
    \A o \in (initialized \ here) \cap Scene :
      backend = "physx" /\ ids[o] = NoIds
================================================================================
