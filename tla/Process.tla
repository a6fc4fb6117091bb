--------------------------------- MODULE Process ---------------------------------
(***************************************************************************)
(* One PHP worker process: the modules of its registry, of which runkit7   *)
(* is one, serve requests one after the other.  The module composes the    *)
(* function API and the superglobals of runkit7 with the order in which    *)
(* the engine shuts the modules down, which runkit7 changes when it takes  *)
(* an internal function away: other modules (session, with a save handler) *)
(* call user code while they shut down.                                    *)
(***************************************************************************)
EXTENDS Naturals, FiniteSets

CONSTANTS
    Name, Boot, Body, None, InternalOverride, Fpm, \* as in FunctionTable
    Builtin, Listable,                             \* as in Superglobals
    Module,          \* the modules of the registry
    Core, Runkit7,   \* two of them
    LoadOrder,       \* the rank of each module when the process started
    Callbacks        \* the modules that call user code from their RSHUTDOWN

Rank == 1..Cardinality(Module)

ASSUME ProcessAssumption ==
    /\ IsFiniteSet(Module)
    /\ {Core, Runkit7} \subseteq Module
    /\ Core # Runkit7
    /\ LoadOrder \in [Module -> Rank]
    /\ \A m1, m2 \in Module : LoadOrder[m1] = LoadOrder[m2] => m1 = m2
    /\ Callbacks \subseteq Module \ {Core, Runkit7}

VARIABLES
    function_table, replaced, misplaced, full_tables_cleanup, persistent,
    auto_globals, superglobals,
    stage,    \* "idle", "script" or "shutdown": where the request is
    position, \* the rank of each module in module_registry
    moved,    \* RUNKIT_G(module_moved_to_front)
    walk,     \* the ranks the current shutdown goes by, from the highest down
    open      \* the modules whose RSHUTDOWN of this request has not returned

tables  == <<function_table, replaced, misplaced, full_tables_cleanup, persistent>>
globals == <<auto_globals, superglobals>>
order   == <<position, moved>>
request == <<stage, walk, open>>
vars    == <<tables, globals, order, request>>

(* The module whose RSHUTDOWN runs or is the next to run.                  *)
Closing(m) == m \in open /\ \A other \in open : walk[other] <= walk[m]

(* User code runs in the script, the shutdown functions and the            *)
(* destructors after it, and in the shutdown of a module with callbacks.   *)
UserCode ==
    \/ stage = "script"
    \/ /\ stage = "shutdown"
       /\ \E m \in Callbacks : Closing(m)

(* The life of a request as the function table goes through it.            *)
ClosesAfterRunkit7 == { m \in Callbacks : walk[m] < walk[Runkit7] }
Phase ==
    IF stage = "idle" THEN "idle"
    ELSE IF Runkit7 \in open THEN "running"
    ELSE IF ClosesAfterRunkit7 # {} THEN "late" ELSE "down"

LateCallbacks == \E m \in Callbacks : LoadOrder[m] < LoadOrder[Runkit7]

FT == INSTANCE FunctionTable WITH phase <- Phase
INSTANCE Superglobals

ASSUME FunctionNamesAssumption ==
    /\ Boot \subseteq Name
    /\ None \notin FT!Fn
    /\ {InternalOverride, Fpm} \subseteq BOOLEAN

Init ==
    /\ stage = "idle"
    /\ walk = LoadOrder
    /\ open = Module
    /\ position = LoadOrder
    /\ moved = FALSE
    /\ SuperglobalsInit
    /\ FT!Init

TypeOK ==
    /\ FT!TypeOK
    /\ SuperglobalsTypeOK
    /\ stage \in {"idle", "script", "shutdown"}
    /\ position \in [Module -> Rank]
    /\ moved \in BOOLEAN
    /\ walk \in [Module -> Rank]
    /\ open \in SUBSET Module

-----------------------------------------------------------------------------
(* php_runkit_hash_move_runkit_to_front: runkit7 goes first, or second     *)
(* behind core, and what was in front of it moves one back.  The mutant    *)
(* forms move it to the other end, and move every module behind the front. *)
Front == IF position[Core] = 1 THEN 2 ELSE 1

MovedAllBack ==
    [m \in Module |->
        IF m = Runkit7 THEN Front
        ELSE IF position[m] >= Front THEN position[m] + 1 ELSE position[m]]
MovedToEnd ==
    [m \in Module |->
        IF m = Runkit7 THEN Cardinality(Module)
        ELSE IF position[m] > position[Runkit7] THEN position[m] - 1
        ELSE position[m]]
MovedToFront ==
    [m \in Module |->
        IF m = Runkit7 THEN Front
        ELSE IF position[m] \in Front..position[Runkit7] THEN position[m] + 1
        ELSE position[m]]

(* A call of the function API.  A fetch that takes an internal function    *)
(* away sets full_tables_cleanup, and moves runkit7 once in a request.     *)
ApiCall ==
    /\ UserCode
    /\ UNCHANGED <<request, globals>>
    /\ FT!ApiCall
    /\ moved' = (moved \/ full_tables_cleanup')
    /\ position' = IF moved' /\ ~moved THEN MovedToFront ELSE position

RequestStartup ==
    /\ stage = "idle"
    /\ stage' = "script"
    /\ open' = Module
    /\ moved' = FALSE
    /\ UNCHANGED <<walk, position>>
    /\ FT!RequestStartup
    /\ \E listed \in SUBSET Listable : RegisterSuperglobals(listed)

(* zend_deactivate_modules: the handlers collected when the process        *)
(* started, or the registry as it is now.                                  *)
BeginShutdown ==
    /\ stage = "script"
    /\ stage' = "shutdown"
    /\ walk' = IF full_tables_cleanup THEN position ELSE LoadOrder
    /\ UNCHANGED <<open, tables, globals, order>>

(* runkit7's own handler; the mutant form undoes a request only if the     *)
(* engine is told to clean up all tables.                                  *)
RshutdownIfChanged ==
    /\ IF full_tables_cleanup THEN FT!RequestShutdown ELSE UNCHANGED tables
    /\ UnregisterSuperglobals
Rshutdown == FT!RequestShutdown /\ UnregisterSuperglobals

(* The RSHUTDOWN of one module returns.                                    *)
ModuleShutdown ==
    \E m \in Module :
        /\ stage = "shutdown"
        /\ Closing(m)
        /\ open' = open \ {m}
        /\ UNCHANGED <<stage, walk, order>>
        /\ IF m = Runkit7 THEN Rshutdown ELSE UNCHANGED <<tables, globals>>

ShutdownExecutor ==
    /\ stage = "shutdown"
    /\ open = {}
    /\ stage' = "idle"
    /\ UNCHANGED <<walk, open, globals, order>>
    /\ FT!ShutdownExecutor

Next == ApiCall \/ RequestStartup \/ BeginShutdown \/ ModuleShutdown \/ ShutdownExecutor

(* A script ends, by itself or by max_execution_time, every handler        *)
(* returns, and the engine goes on to the end of the request.              *)
Fairness ==
    /\ WF_vars(BeginShutdown)
    /\ WF_vars(ModuleShutdown)
    /\ WF_vars(ShutdownExecutor)

Spec == Init /\ [][Next]_vars /\ Fairness

-----------------------------------------------------------------------------
(* Whatever the order of the modules, the worker does to its function      *)
(* table what FunctionTable says of a request.                             *)
FunctionTableSpec == FT!Spec

(* "If internal functions have been modified then runkit's request         *)
(* shutdown handler should be called after all other modules' ones"        *)
(* (runkit_functions.c:149): when a request that has taken an internal     *)
(* function away begins to shut down, runkit7 comes after every module     *)
(* that still calls user code.                                             *)
ChangedShutsDownLast ==
    [][BeginShutdown /\ FT!Present(replaced) # {} =>
          \A m \in Callbacks : walk'[m] > walk'[Runkit7]]_vars

(* Once a script has taken an internal function away, the worker gets to   *)
(* the end of the request with everything the request began with back in   *)
(* place, although modules call the API on the way there.                  *)
ModifiedIsRestored ==
    stage = "script" /\ full_tables_cleanup
        ~> stage = "idle" /\ \A n \in FT!Present(persistent) :
                                  function_table[n] = persistent[n]

(* Between requests the worker has the auto globals it started with.       *)
SuperglobalsUndone == stage = "idle" => auto_globals = Builtin
==================================================================================
