------------------------------ MODULE ProcessProofs ------------------------------
(* Theorems of Process, for every set of modules and every load order. *)
EXTENDS Process, FiniteSetTheorems, TLAPS

(* The function API changes the tables of the function API.  It records a  *)
(* replaced function only together with full_tables_cleanup.               *)
LEMMA ApiCallFacts ==
    ASSUME FT!ApiCall, full_tables_cleanup \in BOOLEAN
    PROVE  /\ full_tables_cleanup' \in BOOLEAN
           /\ full_tables_cleanup => full_tables_cleanup'
           /\ ~full_tables_cleanup' => replaced' = replaced
           /\ persistent' = persistent
<1>1. ASSUME NEW n \in Name, FT!FetchForRemoval(n)
      PROVE  /\ full_tables_cleanup' \in BOOLEAN
             /\ full_tables_cleanup => full_tables_cleanup'
             /\ ~full_tables_cleanup' => replaced' = replaced
    BY <1>1 DEF FT!FetchForRemoval, FT!Recorded, FT!IsInternal
<1>2. CASE \E n \in Name, bd \in Body :
              FT!FunctionAdd(n, bd) \/ FT!FunctionRedefine(n, bd) \/ FT!Declare(n, bd)
    BY <1>1, <1>2 DEF FT!FunctionAdd, FT!FunctionRedefine, FT!Declare
<1>3. CASE \E n \in Name : FT!FunctionRedefineFatal(n) \/ FT!FunctionRemove(n)
    BY <1>1, <1>3 DEF FT!FunctionRedefineFatal, FT!FunctionRemove
<1>4. CASE \E s, d \in Name : FT!FunctionRename(s, d) \/ FT!FunctionCopy(s, d)
    BY <1>1, <1>4 DEF FT!FunctionRename, FT!FunctionCopy
<1>5. QED
    BY <1>2, <1>3, <1>4 DEF FT!ApiCall

-----------------------------------------------------------------------------
(* The order of the registry.  Two modules never share a rank, and from    *)
(* the moment full_tables_cleanup is set until the next request starts,    *)
(* every module with callbacks ranks above runkit7.                        *)
Ordering == position \in [Module -> Nat \ {0}]

Distinct == \A m1, m2 \in Module : position[m1] = position[m2] => m1 = m2

MovedInFront ==
    moved => \A m \in Callbacks : position[m] > position[Runkit7]

ShortCleanupMeansUntouched ==
    /\ full_tables_cleanup \in BOOLEAN
    /\ moved \in BOOLEAN
    /\ stage # "idle" => moved = full_tables_cleanup
    /\ stage # "idle" /\ ~full_tables_cleanup => replaced = FT!Empty

OrderInv == Ordering /\ Distinct /\ MovedInFront /\ ShortCleanupMeansUntouched

LEMMA MoveToFrontOrder ==
    ASSUME Ordering, Distinct, position' = MovedToFront
    PROVE  /\ Ordering' /\ Distinct'
           /\ \A m \in Callbacks : position'[m] > position'[Runkit7]
<1> USE ProcessAssumption DEF Ordering
<1>1. /\ Front \in {1, 2}
      /\ Front <= position[Runkit7]
      /\ \A m \in Module \ {Core} : position[m] >= Front
      /\ Front = 2 => position[Core] = 1
    BY DEF Front, Distinct
<1>2. ASSUME NEW m \in Module
      PROVE  /\ m = Runkit7 => position'[m] = Front
             /\ m # Runkit7 /\ position[m] > position[Runkit7] => position'[m] = position[m]
             /\ m # Runkit7 /\ position[m] < Front => position'[m] = position[m]
             /\ m # Runkit7 /\ Front <= position[m] /\ position[m] < position[Runkit7]
                  => position'[m] = position[m] + 1
             /\ m # Runkit7 => position[m] # position[Runkit7]
    BY <1>1 DEF MovedToFront, Distinct
<1>3. Ordering'
    BY <1>1 DEF MovedToFront
<1>4. ASSUME NEW m \in Callbacks
      PROVE  position'[m] > position'[Runkit7]
  <2>1. m \in Module /\ m # Runkit7 /\ m # Core
      OBVIOUS
  <2>2. QED
      BY <2>1, <1>1, <1>2
<1>5. Distinct'
  <2>1. ASSUME NEW m1 \in Module, NEW m2 \in Module, position'[m1] = position'[m2]
        PROVE  m1 = m2
    <3>1. CASE m1 = Runkit7 \/ m2 = Runkit7
        BY <2>1, <3>1, <1>1, <1>2
    <3>2. CASE m1 # Runkit7 /\ m2 # Runkit7
      <4>1. position[m1] = position[m2]
          BY <2>1, <3>2, <1>1, <1>2
      <4>2. QED
          BY <4>1 DEF Distinct
    <3>3. QED
        BY <3>1, <3>2
  <2>2. QED
      BY <2>1 DEF Distinct
<1>6. QED
    BY <1>3, <1>4, <1>5

LEMMA InitOrderInv == Init => OrderInv
<1>1. Rank \subseteq Nat \ {0}
    BY DEF Rank
<1>2. QED
    BY <1>1, ProcessAssumption
    DEF Init, FT!Init, OrderInv, Ordering, Distinct, MovedInFront,
        ShortCleanupMeansUntouched

LEMMA NextOrderInv == OrderInv /\ [Next]_vars => OrderInv'
<1> SUFFICES ASSUME OrderInv, [Next]_vars
             PROVE  OrderInv'
    OBVIOUS
<1>1. CASE ApiCall
  <2>1. /\ full_tables_cleanup' \in BOOLEAN
        /\ full_tables_cleanup => full_tables_cleanup'
        /\ ~full_tables_cleanup' => replaced' = replaced
      BY <1>1, ApiCallFacts DEF ApiCall, OrderInv, ShortCleanupMeansUntouched
  <2>2. ShortCleanupMeansUntouched'
    <3>1. stage' = stage /\ moved' = (moved \/ full_tables_cleanup')
        BY <1>1 DEF ApiCall, request
    <3>2. QED
        BY <2>1, <3>1 DEF OrderInv, ShortCleanupMeansUntouched, FT!Empty
  <2>3. Ordering' /\ Distinct' /\ MovedInFront'
    <3>1. CASE moved' /\ ~moved
        BY <1>1, <3>1, MoveToFrontOrder DEF ApiCall, OrderInv, MovedInFront
    <3>2. CASE ~(moved' /\ ~moved)
      <4>1. position' = position /\ (moved' => moved)
          BY <1>1, <3>2, <2>1 DEF ApiCall, OrderInv, ShortCleanupMeansUntouched
      <4>2. QED
          BY <4>1 DEF OrderInv, MovedInFront, Ordering, Distinct
    <3>3. QED
        BY <3>1, <3>2
  <2>4. QED
      BY <2>2, <2>3 DEF OrderInv
<1>2. CASE RequestStartup
    BY <1>2
    DEF RequestStartup, FT!RequestStartup, OrderInv, Ordering, Distinct, MovedInFront,
        ShortCleanupMeansUntouched, FT!Empty
<1>3. CASE BeginShutdown
    BY <1>3
    DEF BeginShutdown, tables, order, OrderInv, Ordering, Distinct, MovedInFront,
        ShortCleanupMeansUntouched, FT!Empty
<1>4. CASE ModuleShutdown
  <2>1. /\ stage' = stage /\ position' = position /\ moved' = moved
        /\ full_tables_cleanup' = full_tables_cleanup
        /\ replaced' \in {replaced, FT!Empty}
      BY <1>4 DEF ModuleShutdown, order, tables, Rshutdown, FT!RequestShutdown
  <2>2. QED
      BY <2>1
      DEF OrderInv, Ordering, Distinct, MovedInFront, ShortCleanupMeansUntouched, FT!Empty
<1>5. CASE ShutdownExecutor
    BY <1>5
    DEF ShutdownExecutor, FT!ShutdownExecutor, order, OrderInv, Ordering, Distinct,
        MovedInFront, ShortCleanupMeansUntouched
<1>6. CASE UNCHANGED vars
    BY <1>6
    DEF vars, tables, order, request, OrderInv, Ordering, Distinct, MovedInFront,
        ShortCleanupMeansUntouched, FT!Empty
<1>7. QED
    BY <1>1, <1>2, <1>3, <1>4, <1>5, <1>6 DEF Next

(* Wherever runkit7 was loaded, and whichever modules have callbacks: a    *)
(* request that has taken an internal function away when it begins to shut *)
(* down shuts runkit7 down after all of them.                              *)
THEOREM ChangedAlwaysLast == Spec => ChangedShutsDownLast
<1>1. OrderInv /\ [Next]_vars =>
        [BeginShutdown /\ FT!Present(replaced) # {} =>
            \A m \in Callbacks : walk'[m] > walk'[Runkit7]]_vars
  <2> SUFFICES ASSUME OrderInv, BeginShutdown, FT!Present(replaced) # {}
               PROVE  \A m \in Callbacks : walk'[m] > walk'[Runkit7]
      OBVIOUS
  <2>1. full_tables_cleanup /\ moved
      BY DEF OrderInv, ShortCleanupMeansUntouched, BeginShutdown, FT!Present, FT!Empty
  <2>2. walk' = position
      BY <2>1 DEF BeginShutdown
  <2>3. QED
      BY <2>1, <2>2 DEF OrderInv, MovedInFront
<1>2. QED
    BY <1>1, InitOrderInv, NextOrderInv, PTL DEF Spec, ChangedShutsDownLast

-----------------------------------------------------------------------------
(* What a request registers is taken away again, for every ini setting.    *)
SuperglobalInv ==
    /\ OwnSuperglobalsOnly
    /\ stage = "idle" => superglobals = {}
    /\ stage = "script" => open = Module
    /\ stage = "shutdown" /\ Runkit7 \notin open => superglobals = {}

LEMMA NextSuperglobalInv == SuperglobalInv /\ [Next]_vars => SuperglobalInv'
<1> SUFFICES ASSUME SuperglobalInv, [Next]_vars
             PROVE  SuperglobalInv'
    OBVIOUS
<1> USE ProcessAssumption DEF SuperglobalInv, OwnSuperglobalsOnly
<1>1. CASE ApiCall
    BY <1>1 DEF ApiCall, globals, request
<1>2. CASE RequestStartup
    BY <1>2 DEF RequestStartup, RegisterSuperglobals, Registered
<1>3. CASE BeginShutdown
  <2>1. superglobals' = superglobals /\ auto_globals' = auto_globals
      BY <1>3 DEF BeginShutdown, globals
  <2>2. QED
      BY <1>3, <2>1 DEF BeginShutdown
<1>4. CASE ModuleShutdown
    BY <1>4 DEF ModuleShutdown, Rshutdown, UnregisterSuperglobals, globals
<1>5. CASE ShutdownExecutor
    BY <1>5 DEF ShutdownExecutor, globals
<1>6. CASE UNCHANGED vars
    BY <1>6 DEF vars, globals, request
<1>7. QED
    BY <1>1, <1>2, <1>3, <1>4, <1>5, <1>6 DEF Next
LEMMA InitSuperglobalInv == Init => SuperglobalInv
    BY DEF Init, SuperglobalsInit, SuperglobalInv, OwnSuperglobalsOnly

(* At every moment of a request the names it added are told apart from     *)
(* those it found. *)
THEOREM OnlyOwnSuperglobals == Spec => []OwnSuperglobalsOnly
<1>1. SuperglobalInv => OwnSuperglobalsOnly
    BY DEF SuperglobalInv
<1>2. QED
    BY <1>1, InitSuperglobalInv, NextSuperglobalInv, PTL DEF Spec

(* Between requests the worker has the auto globals it started with. *)
THEOREM SuperglobalsAlwaysUndone == Spec => []SuperglobalsUndone
<1>1. SuperglobalInv => SuperglobalsUndone
    BY DEF SuperglobalInv, OwnSuperglobalsOnly, SuperglobalsUndone
<1>2. QED
    BY <1>1, InitSuperglobalInv, NextSuperglobalInv, PTL DEF Spec

-----------------------------------------------------------------------------
(* Process implements FunctionTable.  A step of the registry that is not   *)
(* runkit7's must leave the request where FunctionTable has it.            *)
StageInv ==
    /\ stage \in {"idle", "script", "shutdown"}
    /\ stage = "script" => Runkit7 \in open

LEMMA NextStageInv == StageInv /\ [Next]_vars => StageInv'
    BY ProcessAssumption
    DEF StageInv, Next, vars, request, ApiCall, RequestStartup, BeginShutdown,
        ModuleShutdown, ShutdownExecutor

THEOREM ImplementsFunctionTable == Spec => FunctionTableSpec
<1>1. Init => StageInv /\ FT!Init
    BY DEF Init, StageInv
<1>2. StageInv /\ [Next]_vars => [FT!Next]_(FT!vars)
  <2> SUFFICES ASSUME StageInv, [Next]_vars
               PROVE  FT!Next \/ UNCHANGED FT!vars
      OBVIOUS
  <2>1. CASE ApiCall
      BY <2>1 DEF ApiCall, FT!Next
  <2>2. CASE RequestStartup
      BY <2>2 DEF RequestStartup, FT!Next
  <2>3. CASE BeginShutdown
    <3>1. Runkit7 \in open /\ Runkit7 \in open'
        BY <2>3 DEF BeginShutdown, StageInv
    <3>2. Phase = "running" /\ Phase' = "running"
        BY <2>3, <3>1 DEF BeginShutdown, Phase
    <3>3. QED
        BY <2>3, <3>2 DEF BeginShutdown, tables, FT!vars
  <2>4. CASE ModuleShutdown
    <3>1. PICK m \in Module :
             /\ stage = "shutdown"
             /\ open' = open \ {m}
             /\ stage' = stage /\ walk' = walk
             /\ IF m = Runkit7 THEN Rshutdown ELSE UNCHANGED <<tables, globals>>
        BY <2>4 DEF ModuleShutdown
    <3>2. CASE m = Runkit7
        BY <3>1, <3>2 DEF Rshutdown, FT!Next
    <3>3. CASE m # Runkit7
      <4>1. Phase' = Phase
          BY <3>1, <3>3 DEF Phase, ClosesAfterRunkit7
      <4>2. QED
          BY <3>1, <3>3, <4>1 DEF tables, FT!vars
    <3>4. QED
        BY <3>2, <3>3
  <2>5. CASE ShutdownExecutor
      BY <2>5 DEF ShutdownExecutor, FT!Next
  <2>6. CASE UNCHANGED vars
      BY <2>6 DEF vars, tables, request, Phase, ClosesAfterRunkit7, FT!vars
  <2>7. QED
      BY <2>1, <2>2, <2>3, <2>4, <2>5, <2>6 DEF Next
<1>3. QED
    BY <1>1, <1>2, NextStageInv, PTL DEF Spec, FunctionTableSpec, FT!Spec
-----------------------------------------------------------------------------
(* What is proved of FunctionTable holds of the worker, whose request      *)
(* shuts down in the order of the registry.                                *)
FTP == INSTANCE FunctionTableProofs WITH phase <- Phase

LEMMA SameFunctionTable ==
    /\ FT!Init => FTP!Init
    /\ [FT!Next]_(FT!vars) => [FTP!Next]_(FTP!vars)
    BY
    DEF FT!Native, FTP!Native, FT!UserFn, FTP!UserFn, FT!AliasFn, FTP!AliasFn,
        FT!IsInternal, FTP!IsInternal, FT!vars, FTP!vars, FT!Empty, FTP!Empty,
        FT!Present, FTP!Present, FT!BootTable, FTP!BootTable, FT!UserCodeRuns,
        FTP!UserCodeRuns, FT!Fetchable, FTP!Fetchable, FT!Recorded, FTP!Recorded,
        FT!FetchForRemoval, FTP!FetchForRemoval, FT!CloneUser, FTP!CloneUser,
        FT!DestroyMisplaced, FTP!DestroyMisplaced, FT!AddToMisplaced,
        FTP!AddToMisplaced, FT!FunctionAdd, FTP!FunctionAdd, FT!FunctionRedefine,
        FTP!FunctionRedefine, FT!FunctionRedefineFatal, FTP!FunctionRedefineFatal,
        FT!FunctionRemove, FTP!FunctionRemove, FT!Renamed, FTP!Renamed,
        FT!FunctionRename, FTP!FunctionRename, FT!Copied, FTP!Copied, FT!FunctionCopy,
        FTP!FunctionCopy, FT!Declare, FTP!Declare, FT!RequestStartup,
        FTP!RequestStartup, FT!Wiped, FTP!Wiped, FT!Restored, FTP!Restored,
        FT!RequestShutdown, FTP!RequestShutdown, FT!ShutdownExecutor,
        FTP!ShutdownExecutor, FT!ApiCall, FTP!ApiCall, FT!Next, FTP!Next, FT!Init,
        FTP!Init

LEMMA ImplementsProvedFunctionTable == Spec => FTP!Spec
    BY ImplementsFunctionTable, SameFunctionTable, PTL
    DEF FunctionTableSpec, FT!Spec, FTP!Spec

LEMMA FunctionTableAssumptionsHold ==
    FTP!Fn = FT!Fn /\ LateCallbacks \in BOOLEAN
    BY DEF FTP!Fn, FT!Fn, FTP!Internal, FT!Internal, FTP!Native, FT!Native, LateCallbacks

(* Until runkit7's own handler has run, in the script and in the handlers  *)
(* of the modules before it, every function the request began with can be  *)
(* given back. *)
THEOREM RequestsStayRecoverable == Spec => []FT!Recoverable
<1>1. FTP!Spec => []FTP!Recoverable
    BY FTP!AlwaysRecoverable, FunctionTableAssumptionsHold, FunctionNamesAssumption
<1>2. FTP!Recoverable => FT!Recoverable
    BY DEF FTP!Recoverable, FT!Recoverable, FTP!Present, FT!Present
<1>3. QED
    BY <1>1, <1>2, ImplementsProvedFunctionTable, PTL

(* FPM: a request in whose shutdown no module with callbacks came after    *)
(* runkit7 ends with everything it began with in place.  By                *)
(* ChangedAlwaysLast this is every request that had taken an internal      *)
(* function away when its shutdown began. *)
THEOREM LastShutdownUndoesAll ==
    Fpm => (Spec => [][ShutdownExecutor /\ ClosesAfterRunkit7 = {} =>
                          \A n \in FT!Present(persistent) :
                             function_table'[n] = persistent[n]]_vars)
<1> SUFFICES ASSUME Fpm
             PROVE  Spec => [][ShutdownExecutor /\ ClosesAfterRunkit7 = {} =>
                                  \A n \in FT!Present(persistent) :
                                     function_table'[n] = persistent[n]]_vars
    OBVIOUS
<1>1. FTP!Spec => FTP!RequestUndone
    BY FTP!RequestsAreUndone, FunctionTableAssumptionsHold, FunctionNamesAssumption
<1>2. [Phase = "down" =>
          \A n \in FTP!Present(persistent) : function_table'[n] = persistent[n]]_(FTP!vars)
      => [ShutdownExecutor /\ ClosesAfterRunkit7 = {} =>
             \A n \in FT!Present(persistent) : function_table'[n] = persistent[n]]_vars
  <2> SUFFICES ASSUME ShutdownExecutor, ClosesAfterRunkit7 = {},
                      [Phase = "down" => \A n \in FTP!Present(persistent) :
                                 function_table'[n] = persistent[n]]_(FTP!vars)
               PROVE  \A n \in FT!Present(persistent) : function_table'[n] = persistent[n]
      OBVIOUS
  <2>1. Phase = "down" /\ Phase' = "idle"
      BY DEF ShutdownExecutor, Phase
  <2>2. QED
      BY <2>1 DEF FTP!vars, FTP!Present, FT!Present
<1>3. QED
    BY <1>1, <1>2, ImplementsProvedFunctionTable, PTL DEF FTP!RequestUndone

(* The safety half of ModifiedIsRestored.  A request that has taken an     *)
(* internal function away is on course while its script runs, and while it *)
(* shuts down with every module with callbacks ahead of runkit7.           *)
OnCourse ==
    /\ full_tables_cleanup
    /\ \/ stage = "script"
       \/ stage = "shutdown" /\ ClosesAfterRunkit7 = {}

RestoredAtEnd ==
    stage = "idle" /\ \A n \in FT!Present(persistent) : function_table[n] = persistent[n]

LEMMA CourseSteps ==
    ASSUME OrderInv, Next, OnCourse, ~ShutdownExecutor
    PROVE  OnCourse'
<1>1. CASE ApiCall
  <2>1. full_tables_cleanup'
      BY <1>1, ApiCallFacts DEF ApiCall, OrderInv, ShortCleanupMeansUntouched, OnCourse
  <2>2. QED
      BY <1>1, <2>1 DEF ApiCall, request, OnCourse, ClosesAfterRunkit7
<1>2. CASE RequestStartup
    BY <1>2 DEF RequestStartup, OnCourse
<1>3. CASE BeginShutdown
  <2>1. stage = "script" /\ stage' = "shutdown" /\ full_tables_cleanup' = full_tables_cleanup
      BY <1>3 DEF BeginShutdown, tables
  <2>2. walk' = position /\ moved
      BY <1>3, <2>1 DEF BeginShutdown, OnCourse, OrderInv, ShortCleanupMeansUntouched
  <2>3. \A m \in Callbacks : position[m] > position[Runkit7]
      BY <2>2 DEF OrderInv, MovedInFront
  <2>4. \A m \in Callbacks \cup {Runkit7} : position[m] \in Nat
      BY ProcessAssumption DEF OrderInv, Ordering
  <2>5. ClosesAfterRunkit7' = {}
      BY <2>2, <2>3, <2>4 DEF ClosesAfterRunkit7
  <2>6. QED
      BY <2>1, <2>5 DEF OnCourse
<1>4. CASE ModuleShutdown
  <2>1. stage = "shutdown" /\ stage' = stage /\ walk' = walk
        /\ full_tables_cleanup' = full_tables_cleanup
      BY <1>4 DEF ModuleShutdown, tables, Rshutdown, FT!RequestShutdown
  <2>2. QED
      BY <2>1 DEF OnCourse, ClosesAfterRunkit7
<1>5. QED
    BY <1>1, <1>2, <1>3, <1>4 DEF Next

(* FPM: whatever the script, the shutdown functions, the destructors and   *)
(* the handlers of other modules go on to call, such a request leaves its  *)
(* course only to end, with everything it began with back in place.        *)
THEOREM CourseEndsRestored ==
    Fpm => (Spec => [][OnCourse /\ ~OnCourse' => RestoredAtEnd']_vars)
<1> SUFFICES ASSUME Fpm
             PROVE  Spec => [][OnCourse /\ ~OnCourse' => RestoredAtEnd']_vars
    OBVIOUS
<1>1. Spec => [][ShutdownExecutor /\ ClosesAfterRunkit7 = {} =>
                    \A n \in FT!Present(persistent) : function_table'[n] = persistent[n]]_vars
    BY LastShutdownUndoesAll
<1>2. OrderInv /\ [Next]_vars
      /\ [ShutdownExecutor /\ ClosesAfterRunkit7 = {} =>
            \A n \in FT!Present(persistent) : function_table'[n] = persistent[n]]_vars
      => [OnCourse /\ ~OnCourse' => RestoredAtEnd']_vars
  <2> SUFFICES ASSUME OrderInv, Next, OnCourse, ~OnCourse',
                      [ShutdownExecutor /\ ClosesAfterRunkit7 = {} =>
                         \A n \in FT!Present(persistent) :
                            function_table'[n] = persistent[n]]_vars
               PROVE  RestoredAtEnd'
      BY DEF OnCourse, vars, tables, request, ClosesAfterRunkit7
  <2>1. ShutdownExecutor
      BY CourseSteps
  <2>2. stage = "shutdown" /\ stage' = "idle" /\ persistent' = persistent
      BY <2>1 DEF ShutdownExecutor, FT!ShutdownExecutor
  <2>3. ClosesAfterRunkit7 = {}
      BY <2>2 DEF OnCourse
  <2>4. \A n \in FT!Present(persistent) : function_table'[n] = persistent[n]
      BY <2>1, <2>2, <2>3 DEF vars, request
  <2>5. QED
      BY <2>2, <2>4 DEF RestoredAtEnd, FT!Present
<1>3. QED
    BY <1>1, <1>2, InitOrderInv, NextOrderInv, PTL DEF Spec

(* Until runkit7's own handler has run, every internal function under a    *)
(* name the request did not begin with is in the list to be wiped, and     *)
(* what is to be wiped of the names the request began with will be put     *)
(* back.                                                                   *)
THEOREM StraysAndTargetsAreWiped == Spec => [](FT!StraysAreMisplaced /\ FT!WipeIsUndone)
<1>1. FTP!Spec => []FTP!StraysAreMisplaced
    BY FTP!StraysAreAlwaysMisplaced, FunctionTableAssumptionsHold, FunctionNamesAssumption
<1>2. FTP!Spec => []FTP!WipeIsUndone
    BY FTP!WipesAreUndone, FunctionTableAssumptionsHold, FunctionNamesAssumption
<1>3. FTP!StraysAreMisplaced /\ FTP!WipeIsUndone => FT!StraysAreMisplaced /\ FT!WipeIsUndone
    BY DEF FTP!StraysAreMisplaced, FT!StraysAreMisplaced, FTP!WipeIsUndone, FT!WipeIsUndone,
           FTP!Present, FT!Present, FTP!IsInternal, FT!IsInternal
<1>4. QED
    BY <1>1, <1>2, <1>3, ImplementsProvedFunctionTable, PTL

(* FPM, and no module with callbacks loaded before runkit7: every request  *)
(* of the worker finds the internal functions of the process in place.     *)
THEOREM WorkerKeepsBoot == Fpm /\ ~LateCallbacks => (Spec => []FT!BootRestored)
<1> SUFFICES ASSUME Fpm, ~LateCallbacks
             PROVE  Spec => []FT!BootRestored
    OBVIOUS
<1>1. FTP!Spec => []FTP!BootRestored
    BY FTP!BootAlwaysRestored, FunctionTableAssumptionsHold, FunctionNamesAssumption
<1>2. FTP!BootRestored => FT!BootRestored
    BY DEF FTP!BootRestored, FT!BootRestored, FTP!Native, FT!Native
<1>3. QED
    BY <1>1, <1>2, ImplementsProvedFunctionTable, PTL

(* runkit.internal_override off: no script and no module's callback        *)
(* changes an internal function, at any moment of any request.             *)
THEOREM WorkerRespectsOverride == ~InternalOverride => (Spec => []FT!OverrideRespected)
<1> SUFFICES ASSUME ~InternalOverride
             PROVE  Spec => []FT!OverrideRespected
    OBVIOUS
<1>1. FTP!Spec => []FTP!OverrideRespected
    BY FTP!OverrideAlwaysRespected, FunctionTableAssumptionsHold, FunctionNamesAssumption
<1>2. FTP!OverrideRespected => FT!OverrideRespected
    BY DEF FTP!OverrideRespected, FT!OverrideRespected, FTP!Native, FT!Native, FTP!Present,
           FT!Present, FTP!IsInternal, FT!IsInternal
<1>3. QED
    BY <1>1, <1>2, ImplementsProvedFunctionTable, PTL

-----------------------------------------------------------------------------
(* Types.  Those of the tables are carried over; the ranks stay a          *)
(* permutation's: what moves back moves no further than where runkit7 was. *)
RankInv ==
    /\ position \in [Module -> Rank]
    /\ walk \in [Module -> Rank]
    /\ open \in SUBSET Module
    /\ moved \in BOOLEAN
    /\ full_tables_cleanup \in BOOLEAN
    /\ SuperglobalsTypeOK

LEMMA MovedToFrontRanks ==
    ASSUME OrderInv, position \in [Module -> Rank]
    PROVE  MovedToFront \in [Module -> Rank]
<1>1. Cardinality(Module) \in Nat
    BY ProcessAssumption, FS_CardinalityType
<1>2. /\ Front \in Nat \ {0}
      /\ Front <= position[Runkit7]
      /\ Core \in Module /\ Runkit7 \in Module /\ Core # Runkit7
    BY ProcessAssumption DEF Front, OrderInv, Ordering, Distinct
<1>3. ASSUME NEW m \in Module
      PROVE  MovedToFront[m] \in Rank
  <2>1. /\ position[m] \in Nat /\ 1 <= position[m] /\ position[m] <= Cardinality(Module)
        /\ position[Runkit7] \in Nat /\ position[Runkit7] <= Cardinality(Module)
      BY <1>1, <1>2 DEF Rank
  <2>2. m # Runkit7 => position[m] # position[Runkit7]
      BY <1>2 DEF OrderInv, Distinct
  <2>3. MovedToFront[m] \in Nat /\ 1 <= MovedToFront[m]
          /\ MovedToFront[m] <= Cardinality(Module)
      BY <1>1, <1>2, <2>1, <2>2 DEF MovedToFront
  <2>4. QED
      BY <1>1, <2>3 DEF Rank
<1>4. QED
    BY <1>3 DEF MovedToFront

LEMMA NextRankInv == OrderInv /\ RankInv /\ [Next]_vars => RankInv'
<1> SUFFICES ASSUME OrderInv, RankInv, [Next]_vars
             PROVE  RankInv'
    OBVIOUS
<1> USE DEF RankInv, SuperglobalsTypeOK
<1>1. CASE ApiCall
  <2>1. full_tables_cleanup' \in BOOLEAN
      BY <1>1, ApiCallFacts DEF ApiCall
  <2>2. moved' \in BOOLEAN
      BY <1>1, <2>1 DEF ApiCall
  <2>3. position' \in [Module -> Rank]
      BY <1>1, MovedToFrontRanks DEF ApiCall
  <2>4. QED
      BY <1>1, <2>1, <2>2, <2>3 DEF ApiCall, request, globals
<1>2. CASE RequestStartup
    BY <1>2 DEF RequestStartup, FT!RequestStartup, RegisterSuperglobals, Registered
<1>3. CASE BeginShutdown
    BY <1>3, ProcessAssumption DEF BeginShutdown, tables, globals, order
<1>4. CASE ModuleShutdown
    BY <1>4
    DEF ModuleShutdown, Rshutdown, FT!RequestShutdown, UnregisterSuperglobals, tables,
        globals, order
<1>5. CASE ShutdownExecutor
    BY <1>5 DEF ShutdownExecutor, FT!ShutdownExecutor, globals, order
<1>6. CASE UNCHANGED vars
    BY <1>6 DEF vars, tables, globals, order, request
<1>7. QED
    BY <1>1, <1>2, <1>3, <1>4, <1>5, <1>6 DEF Next

(* Type correctness, for any number of modules, names and listed globals. *)
THEOREM TypeCorrect == Spec => []TypeOK
<1>1. Init => RankInv /\ StageInv
    BY ProcessAssumption
    DEF Init, RankInv, StageInv, SuperglobalsInit, SuperglobalsTypeOK, FT!Init
<1>2. FTP!Spec => []FTP!TypeOK
    BY FTP!TypeCorrect, FunctionTableAssumptionsHold, FunctionNamesAssumption
<1>3. FTP!TypeOK /\ RankInv /\ StageInv => TypeOK
  <2>1. FTP!Internal = FT!Internal /\ FTP!Fn = FT!Fn
      BY DEF FTP!Internal, FT!Internal, FTP!Fn, FT!Fn, FTP!Native, FT!Native
  <2>2. FTP!TypeOK => FT!TypeOK
      BY <2>1 DEF FTP!TypeOK, FT!TypeOK
  <2>3. QED
      BY <2>2 DEF RankInv, StageInv, TypeOK
<1>4. QED
    BY <1>1, <1>2, <1>3, InitOrderInv, NextOrderInv, NextRankInv, NextStageInv,
       ImplementsProvedFunctionTable, PTL DEF Spec

=================================================================================
