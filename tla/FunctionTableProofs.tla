--------------------------- MODULE FunctionTableProofs ---------------------------
(* Theorems of FunctionTable, for every set of names and bodies. *)
EXTENDS FunctionTable, TLAPS

(* What the helpers build is a function of the kind it should be. *)
LEMMA CloneUserType ==
    ASSUME NEW b \in Body, NEW n \in Name, NEW internal \in BOOLEAN
    PROVE  /\ CloneUser(b, n, internal) \in Fn
           /\ CloneUser(b, n, internal) # None
           /\ IsInternal(CloneUser(b, n, internal)) <=> internal
    BY FunctionTableAssumption DEF CloneUser, Fn, Internal, AliasFn, UserFn, IsInternal

LEMMA InternalIsInternal ==
    /\ \A fe \in Fn : IsInternal(fe) <=> fe \in Internal
    /\ \A n \in Boot : Native(n) \in Internal
    /\ Internal \subseteq Fn
    /\ None \notin Fn
    BY FunctionTableAssumption DEF Fn, Internal, IsInternal, Native

LEMMA RenamedType ==
    ASSUME TypeOK, NEW s \in Name, NEW d \in Name, function_table[s] # None
    PROVE  /\ Renamed(s, d) \in Fn
           /\ Copied(s, d) \in Fn
           /\ ~IsInternal(function_table[s]) /\ replaced[d] = None
                => ~IsInternal(Renamed(s, d))
           /\ ~IsInternal(function_table[s]) => ~IsInternal(Copied(s, d))
<1> DEFINE fe == function_table[s]
<1>1. fe \in Fn /\ fe.kind \in {"native", "alias", "user"}
    BY DEF TypeOK, Fn, Internal, Native
<1>2. ASSUME fe.kind = "user"
      PROVE  fe.body \in Body /\ fe.name \in Name
    BY <1>1, <1>2 DEF Fn, Internal, Native
<1>3. ASSUME fe.kind = "alias"
      PROVE  fe.body \in Body /\ fe.name \in Name
    BY <1>1, <1>3 DEF Fn, Internal, Native
<1>4. Renamed(s, d) \in Fn
  <2>1. CASE fe.kind = "user"
      BY <1>2, <2>1, CloneUserType DEF Renamed
  <2>2. CASE fe.kind = "alias" /\ replaced[d] = None
      BY <1>3, <2>2 DEF Renamed, UserFn, Fn
  <2>3. CASE fe.kind # "user" /\ ~(fe.kind = "alias" /\ replaced[d] = None)
      BY <1>1, <2>3 DEF Renamed
  <2>4. QED
      BY <2>1, <2>2, <2>3
<1>5. Copied(s, d) \in Fn
    BY <1>1, <1>2 DEF Copied, IsInternal, UserFn, Fn
<1>6. ~IsInternal(fe) /\ replaced[d] = None => ~IsInternal(Renamed(s, d))
    BY <1>1, <1>2, CloneUserType DEF Renamed, IsInternal
<1>7. ~IsInternal(fe) => ~IsInternal(Copied(s, d))
    BY DEF Copied, IsInternal, UserFn
<1>8. QED
    BY <1>4, <1>5, <1>6, <1>7

-----------------------------------------------------------------------------
(* The inductive invariant that holds for every SAPI and module order.     *)
(* Between requests only internal functions are left; and as long as       *)
(* full_tables_cleanup is off nothing the request began with was touched,  *)
(* which is what makes the engine's short cleanup enough.                  *)
OnlyInternalsStay ==
    phase = "idle" => function_table \in [Name -> Internal \cup {None}]

ShortCleanupIsEnough ==
    phase # "idle" /\ ~full_tables_cleanup =>
        /\ replaced = Empty
        /\ \A n \in Present(persistent) : function_table[n] = persistent[n]

RequestInv ==
    /\ TypeOK
    /\ OnlyInternalsStay
    /\ ShortCleanupIsEnough
    /\ Recoverable
    /\ WipeIsUndone

LEMMA InitRequestInv == Init => RequestInv
    BY InternalIsInternal
    DEF Init, RequestInv, TypeOK, OnlyInternalsStay, ShortCleanupIsEnough, Recoverable,
        WipeIsUndone, BootTable, Empty

(* What a fetch for removal does to the tables that remember. *)
LEMMA FetchFacts ==
    ASSUME TypeOK, NEW n \in Name, FetchForRemoval(n)
    PROVE  /\ phase \in {"running", "late"}
           /\ function_table[n] \in Fn
           /\ replaced' \in [Name -> Internal \cup {None}]
           /\ full_tables_cleanup' \in BOOLEAN
           /\ \A m \in Name : replaced[m] # None => replaced'[m] = replaced[m]
           /\ \A m \in Name \ {n} : replaced'[m] = replaced[m]
           /\ IsInternal(function_table[n]) =>
                /\ full_tables_cleanup'
                /\ replaced'[n] = IF replaced[n] = None THEN function_table[n] ELSE replaced[n]
           /\ ~IsInternal(function_table[n]) =>
                /\ full_tables_cleanup' = full_tables_cleanup
                /\ replaced' = replaced
    BY InternalIsInternal DEF FetchForRemoval, UserCodeRuns, Fetchable, Recorded, TypeOK

(* A step of the API or of the compiler changes the table at the fetched   *)
(* name and fills one that was free.  Nothing a request began with is out  *)
(* of reach after it.                                                      *)
LEMMA UserStepRequestInv ==
    ASSUME RequestInv,
           UserCodeRuns, phase' = phase, persistent' = persistent,
           function_table' \in [Name -> Fn \cup {None}],
           replaced' \in [Name -> Internal \cup {None}],
           misplaced' \in SUBSET Name,
           full_tables_cleanup' \in BOOLEAN,
           full_tables_cleanup => full_tables_cleanup',
           ~full_tables_cleanup' => replaced' = replaced,
           \A m \in Name : replaced[m] # None => replaced'[m] = replaced[m],
           \A m \in Name : function_table[m] # None /\ function_table'[m] # function_table[m]
               /\ IsInternal(function_table[m]) =>
                   /\ full_tables_cleanup'
                   /\ replaced'[m] = IF replaced[m] = None THEN function_table[m]
                                                           ELSE replaced[m],
           \A m \in Name : function_table[m] # None /\ replaced'[m] # replaced[m] =>
                   replaced'[m] = function_table[m],
           \A m \in Name : function_table[m] = None => replaced'[m] = replaced[m],
           \A m \in misplaced' \ misplaced : function_table[m] = None
    PROVE  RequestInv'
<1>1. TypeOK' /\ OnlyInternalsStay'
    BY DEF RequestInv, TypeOK, UserCodeRuns, OnlyInternalsStay
<1>2. ShortCleanupIsEnough'
    BY InternalIsInternal DEF RequestInv, TypeOK, UserCodeRuns, ShortCleanupIsEnough, Present
<1>3. Recoverable'
    BY InternalIsInternal DEF RequestInv, TypeOK, UserCodeRuns, Recoverable, Present
<1>4. WipeIsUndone'
    BY InternalIsInternal
    DEF RequestInv, TypeOK, UserCodeRuns, Recoverable, WipeIsUndone, Present
<1>5. QED
    BY <1>1, <1>2, <1>3, <1>4 DEF RequestInv

(* Request startup and shutdown, and the engine's cleanup. *)
LEMMA LifecycleRequestInv ==
    ASSUME RequestInv, RequestStartup \/ RequestShutdown \/ ShutdownExecutor
    PROVE  RequestInv'
<1>1. CASE RequestStartup
    BY <1>1, InternalIsInternal
    DEF RequestStartup, RequestInv, TypeOK, OnlyInternalsStay, ShortCleanupIsEnough,
        Recoverable, WipeIsUndone, Empty, Present
<1>2. CASE RequestShutdown
  <2>1. TypeOK' /\ OnlyInternalsStay'
      BY <1>2, InternalIsInternal
      DEF RequestShutdown, RequestInv, TypeOK, OnlyInternalsStay, Restored, Wiped, Empty
  <2>2. ShortCleanupIsEnough'
      BY <1>2
      DEF RequestShutdown, RequestInv, TypeOK, ShortCleanupIsEnough, WipeIsUndone,
          Restored, Wiped, Empty, Present
  <2>3. Recoverable' /\ WipeIsUndone'
      BY <1>2 DEF RequestShutdown, Recoverable, WipeIsUndone
  <2>4. QED
      BY <2>1, <2>2, <2>3 DEF RequestInv
<1>3. CASE ShutdownExecutor
  <2>1. function_table' \in [Name -> Internal \cup {None}]
    <3>1. function_table' = [n \in Name |-> function_table'[n]]
        BY <1>3 DEF ShutdownExecutor
    <3>2. ASSUME NEW n \in Name
          PROVE  function_table'[n] \in Internal \cup {None}
      <4>1. CASE full_tables_cleanup
          BY <1>3, <4>1, InternalIsInternal DEF ShutdownExecutor, RequestInv, TypeOK
      <4>2. CASE ~full_tables_cleanup
          BY <1>3, <4>2
          DEF ShutdownExecutor, RequestInv, TypeOK, ShortCleanupIsEnough, Present
      <4>3. QED
          BY <4>1, <4>2
    <3>3. QED
        BY <3>1, <3>2
  <2>2. QED
      BY <1>3, <2>1, InternalIsInternal
      DEF ShutdownExecutor, RequestInv, TypeOK, OnlyInternalsStay, ShortCleanupIsEnough,
          Recoverable, WipeIsUndone
<1>4. QED
    BY <1>1, <1>2, <1>3

LEMMA NextRequestInv == RequestInv /\ [Next]_vars => RequestInv'
<1> SUFFICES ASSUME RequestInv, [Next]_vars
             PROVE  RequestInv'
    OBVIOUS
<1>t. TypeOK
    BY DEF RequestInv
<1>1. ASSUME NEW n \in Name, NEW b \in Body, FunctionAdd(n, b)
      PROVE  RequestInv'
  <2>1. CloneUser(b, n, replaced[n] # None) \in Fn
      BY CloneUserType
  <2>2. QED
      BY <1>1, <1>t, <2>1, UserStepRequestInv DEF FunctionAdd, TypeOK
<1>2. ASSUME NEW n \in Name, NEW b \in Body, FunctionRedefine(n, b)
      PROVE  RequestInv'
  <2>1. CloneUser(b, n, IsInternal(function_table[n])) \in Fn
      BY CloneUserType DEF IsInternal
  <2>2. FetchForRemoval(n) /\ function_table[n] # None
      BY <1>2 DEF FunctionRedefine, FetchForRemoval, Fetchable
  <2>3. QED
      BY <1>2, <1>t, <2>1, <2>2, FetchFacts, UserStepRequestInv
      DEF FunctionRedefine, TypeOK, UserCodeRuns, DestroyMisplaced
<1>3. ASSUME NEW n \in Name, NEW b \in Body, Declare(n, b)
      PROVE  RequestInv'
  <2>1. UserFn(b, n) \in Fn
      BY DEF UserFn, Fn
  <2>2. QED
      BY <1>3, <1>t, <2>1, UserStepRequestInv DEF Declare, TypeOK
<1>4. ASSUME NEW n \in Name, FunctionRedefineFatal(n)
      PROVE  RequestInv'
  <2>1. FetchForRemoval(n) /\ function_table[n] # None
      BY <1>4 DEF FunctionRedefineFatal, FetchForRemoval, Fetchable
  <2>2. QED
      BY <1>4, <1>t, <2>1, FetchFacts, UserStepRequestInv
      DEF FunctionRedefineFatal, TypeOK, UserCodeRuns
<1>5. ASSUME NEW n \in Name, FunctionRemove(n)
      PROVE  RequestInv'
  <2>1. FetchForRemoval(n) /\ function_table[n] # None
      BY <1>5 DEF FunctionRemove, FetchForRemoval, Fetchable
  <2>2. QED
      BY <1>5, <1>t, <2>1, FetchFacts, UserStepRequestInv
      DEF FunctionRemove, TypeOK, UserCodeRuns, DestroyMisplaced
<1>6. ASSUME NEW s \in Name, NEW d \in Name, FunctionRename(s, d)
      PROVE  RequestInv'
  <2>1. FetchForRemoval(s) /\ function_table[s] # None /\ function_table[d] = None
      BY <1>6 DEF FunctionRename, FetchForRemoval, Fetchable
  <2>2. Renamed(s, d) \in Fn
      BY <1>t, <2>1, RenamedType
  <2>3. /\ misplaced' \in SUBSET Name
        /\ misplaced' \ misplaced \subseteq {d}
      BY <1>6, <1>t DEF FunctionRename, TypeOK, AddToMisplaced, DestroyMisplaced
  <2>4. QED
      BY <1>6, <1>t, <2>1, <2>2, <2>3, FetchFacts, UserStepRequestInv
      DEF FunctionRename, TypeOK, UserCodeRuns
<1>7. ASSUME NEW s \in Name, NEW d \in Name, FunctionCopy(s, d)
      PROVE  RequestInv'
  <2>1. Copied(s, d) \in Fn
      BY <1>7, <1>t, RenamedType DEF FunctionCopy, Fetchable
  <2>2. /\ misplaced' \in SUBSET Name
        /\ misplaced' \ misplaced \subseteq {d}
      BY <1>7, <1>t DEF FunctionCopy, TypeOK, AddToMisplaced
  <2>3. QED
      BY <1>7, <1>t, <2>1, <2>2, UserStepRequestInv DEF FunctionCopy, TypeOK
<1>8. CASE UNCHANGED vars
    BY <1>8
    DEF vars, RequestInv, TypeOK, OnlyInternalsStay, ShortCleanupIsEnough, Recoverable,
        WipeIsUndone, Present
<1>9. QED
    BY <1>1, <1>2, <1>3, <1>4, <1>5, <1>6, <1>7, <1>8, LifecycleRequestInv
    DEF Next, ApiCall

(* The tables of the worker keep their types, for every SAPI, setting and  *)
(* order of the modules. *)
THEOREM TypeCorrect == Spec => []TypeOK
<1>1. RequestInv => TypeOK
    BY DEF RequestInv
<1>2. QED
    BY <1>1, InitRequestInv, NextRequestInv, PTL DEF Spec

(* While a request runs, what it began with can be given back. *)
THEOREM AlwaysRecoverable == Spec => []Recoverable
<1>1. RequestInv => Recoverable
    BY DEF RequestInv
<1>2. QED
    BY <1>1, InitRequestInv, NextRequestInv, PTL DEF Spec

(* The wipe at shutdown takes nothing that the restore does not put back. *)
THEOREM WipesAreUndone == Spec => []WipeIsUndone
<1>1. RequestInv => WipeIsUndone
    BY DEF RequestInv
<1>2. QED
    BY <1>1, InitRequestInv, NextRequestInv, PTL DEF Spec

-----------------------------------------------------------------------------
(* FPM: after runkit7's shutdown everything the request began with is in   *)
(* place, and with it the functions the process booted with.               *)
DownIsRestored ==
    phase = "down" =>
        \A n \in Present(persistent) : function_table[n] = persistent[n]

LEMMA StepDownIsRestored ==
    ASSUME Fpm, RequestInv, DownIsRestored, [Next]_vars
    PROVE  DownIsRestored'
<1>1. CASE RequestShutdown
    BY <1>1
    DEF RequestShutdown, RequestInv, TypeOK, Recoverable, WipeIsUndone, DownIsRestored,
        Restored, Wiped, Present
<1>2. CASE RequestStartup \/ ShutdownExecutor
    BY <1>2 DEF RequestStartup, ShutdownExecutor, DownIsRestored
<1>3. CASE UNCHANGED vars
    BY <1>3 DEF vars, DownIsRestored, Present
<1>4. ASSUME UserCodeRuns, phase' = phase
      PROVE  DownIsRestored'
    BY <1>4 DEF UserCodeRuns, DownIsRestored
<1>5. CASE \E n \in Name, b \in Body :
              FunctionAdd(n, b) \/ FunctionRedefine(n, b) \/ Declare(n, b)
    BY <1>4, <1>5 DEF FunctionAdd, FunctionRedefine, FetchForRemoval, Declare
<1>6. CASE \E n \in Name : FunctionRedefineFatal(n) \/ FunctionRemove(n)
    BY <1>4, <1>6 DEF FunctionRedefineFatal, FunctionRemove, FetchForRemoval
<1>7. CASE \E s, d \in Name : FunctionRename(s, d) \/ FunctionCopy(s, d)
    BY <1>4, <1>7 DEF FunctionRename, FetchForRemoval, FunctionCopy
<1>8. QED
    BY <1>1, <1>2, <1>3, <1>5, <1>6, <1>7 DEF Next, ApiCall

LEMMA CleanupKeepsPersistent ==
    ASSUME RequestInv, DownIsRestored, phase = "down", ShutdownExecutor,
           NEW n \in Present(persistent)
    PROVE  function_table'[n] = persistent[n]
<1>1. /\ n \in Name
      /\ function_table[n] = persistent[n]
      /\ persistent[n] # None
      /\ persistent[n] \in Internal
    BY DEF DownIsRestored, Present, RequestInv, TypeOK
<1>2. IsInternal(function_table[n])
    BY <1>1, InternalIsInternal
<1>3. QED
    BY <1>1, <1>2 DEF ShutdownExecutor

(* A worker under FPM never loses or changes, between two requests, what   *)
(* the first of them began with. *)
THEOREM RequestsAreUndone == Fpm => (Spec => RequestUndone)
<1> SUFFICES ASSUME Fpm
             PROVE  Spec => RequestUndone
    OBVIOUS
<1>1. Init => DownIsRestored
    BY DEF Init, DownIsRestored
<1>2. RequestInv /\ DownIsRestored /\ [Next]_vars => DownIsRestored'
    BY StepDownIsRestored
<1>3. RequestInv /\ DownIsRestored /\ [Next]_vars =>
         [phase = "down" =>
            \A n \in Present(persistent) : function_table'[n] = persistent[n]]_vars
  <2> SUFFICES ASSUME RequestInv, DownIsRestored, Next, phase = "down"
               PROVE  \A n \in Present(persistent) : function_table'[n] = persistent[n]
      OBVIOUS
  <2>1. ShutdownExecutor
      BY DEF Next, ApiCall, FunctionAdd, FunctionRedefine, Declare, FunctionRedefineFatal,
             FunctionRemove, FunctionRename, FunctionCopy, FetchForRemoval, UserCodeRuns,
             RequestStartup, RequestShutdown
  <2>2. QED
      BY <2>1, CleanupKeepsPersistent
<1>4. QED
    BY <1>1, <1>2, <1>3, InitRequestInv, NextRequestInv, PTL DEF Spec, RequestUndone

BootInv ==
    /\ phase # "late"
    /\ phase = "idle" => \A n \in Boot : function_table[n] = Native(n)
    /\ phase # "idle" => \A n \in Boot : persistent[n] = Native(n)

(* Every request of an FPM worker starts with the functions the process    *)
(* booted with, when no other module calls user code after runkit7 is      *)
(* down. *)
THEOREM BootAlwaysRestored == Fpm /\ ~LateCallbacks => (Spec => []BootRestored)
<1> SUFFICES ASSUME Fpm, ~LateCallbacks
             PROVE  Spec => []BootRestored
    OBVIOUS
<1>1. Init => DownIsRestored /\ BootInv
    BY FunctionTableAssumption DEF Init, DownIsRestored, BootInv, BootTable
<1>2. RequestInv /\ DownIsRestored /\ [Next]_vars => DownIsRestored'
    BY StepDownIsRestored
<1>3. RequestInv /\ DownIsRestored /\ BootInv /\ [Next]_vars => BootInv'
  <2> SUFFICES ASSUME RequestInv, DownIsRestored, BootInv, [Next]_vars
               PROVE  BootInv'
      OBVIOUS
  <2>1. CASE RequestStartup
      BY <2>1 DEF RequestStartup, BootInv
  <2>2. CASE RequestShutdown
      BY <2>2 DEF RequestShutdown, BootInv
  <2>3. CASE ShutdownExecutor
    <3>1. phase = "down"
        BY <2>3 DEF ShutdownExecutor, BootInv
    <3>2. \A n \in Boot : n \in Present(persistent)
        BY <3>1, FunctionTableAssumption, InternalIsInternal DEF BootInv, Present
    <3>3. QED
        BY <2>3, <3>1, <3>2, CleanupKeepsPersistent DEF ShutdownExecutor, BootInv
  <2>4. CASE UNCHANGED vars
      BY <2>4 DEF vars, BootInv
  <2>5. ASSUME UserCodeRuns, phase' = phase, persistent' = persistent
        PROVE  BootInv'
      BY <2>5 DEF UserCodeRuns, BootInv
  <2>6. CASE \E n \in Name, b \in Body :
                FunctionAdd(n, b) \/ FunctionRedefine(n, b) \/ Declare(n, b)
      BY <2>5, <2>6 DEF FunctionAdd, FunctionRedefine, FetchForRemoval, Declare
  <2>7. CASE \E n \in Name : FunctionRedefineFatal(n) \/ FunctionRemove(n)
      BY <2>5, <2>7 DEF FunctionRedefineFatal, FunctionRemove, FetchForRemoval
  <2>8. CASE \E s, d \in Name : FunctionRename(s, d) \/ FunctionCopy(s, d)
      BY <2>5, <2>8 DEF FunctionRename, FetchForRemoval, FunctionCopy
  <2>9. QED
      BY <2>1, <2>2, <2>3, <2>4, <2>6, <2>7, <2>8 DEF Next, ApiCall
<1>4. BootInv => BootRestored
    BY DEF BootInv, BootRestored
<1>5. QED
    BY <1>1, <1>2, <1>3, <1>4, InitRequestInv, NextRequestInv, PTL DEF Spec

-----------------------------------------------------------------------------
(* StraysAreMisplaced is inductive with this about the clones: one is taken *)
(* of an internal function where it stands, and an alias is only made      *)
(* where there is one or a clone of one.                                   *)
StrayInv ==
    /\ StraysAreMisplaced
    /\ phase = "running" => Present(replaced) \ Present(persistent) \subseteq misplaced

(* A call that fills one name, or changes one it has fetched, and keeps    *)
(* every name in the list.                                                 *)
LEMMA UserStepStrayInv ==
    ASSUME TypeOK, StrayInv, UserCodeRuns, phase' = phase, persistent' = persistent,
           misplaced \subseteq misplaced', misplaced' \subseteq Name,
           NEW n \in Name, NEW d \in Name,
           \A m \in Name \ {n} : replaced'[m] = replaced[m],
           replaced'[n] # replaced[n] =>
              function_table[n] # None /\ IsInternal(function_table[n]),
           \A m \in Name \ {d} : function_table'[m] \in {function_table[m], None},
           function_table'[d] # None /\ IsInternal(function_table'[d]) =>
              \/ d \in misplaced'
              \/ replaced[d] # None
              \/ function_table[d] # None /\ IsInternal(function_table[d])
    PROVE  StrayInv'
<1>1. Present(persistent)' = Present(persistent)
    BY DEF Present
<1>2. ASSUME phase = "running", NEW m \in Name, m \notin Present(persistent),
             replaced[m] # None \/ (function_table[m] # None /\ IsInternal(function_table[m]))
      PROVE  m \in misplaced'
    BY <1>2 DEF StrayInv, StraysAreMisplaced, Present
<1>3. ASSUME phase = "running", NEW m \in Name, m \notin Present(persistent),
             replaced'[m] # None
      PROVE  m \in misplaced'
    BY <1>2, <1>3
<1>4. ASSUME phase = "running", NEW m \in Name, m \notin Present(persistent),
             function_table'[m] # None, IsInternal(function_table'[m])
      PROVE  m \in misplaced'
  <2>1. CASE m = d
      BY <1>2, <1>4, <2>1
  <2>2. CASE m # d
      BY <1>2, <1>4, <2>2
  <2> QED
      BY <2>1, <2>2
<1> QED
    BY <1>1, <1>3, <1>4 DEF StrayInv, StraysAreMisplaced, Present

LEMMA NextStrayInv == RequestInv /\ StrayInv /\ [Next]_vars => StrayInv'
<1> SUFFICES ASSUME RequestInv, StrayInv, [Next]_vars
             PROVE  StrayInv'
    OBVIOUS
<1>t. TypeOK
    BY DEF RequestInv
<1>1. ASSUME NEW n \in Name, NEW b \in Body, FunctionAdd(n, b) \/ Declare(n, b)
      PROVE  StrayInv'
  <2>1. IsInternal(function_table'[n]) => replaced[n] # None
    <3>1. CASE FunctionAdd(n, b)
        BY <1>t, <3>1, CloneUserType DEF FunctionAdd, TypeOK
    <3>2. CASE Declare(n, b)
        BY <1>t, <3>2 DEF Declare, TypeOK, UserFn, IsInternal
    <3> QED
        BY <1>1, <3>1, <3>2
  <2>2. /\ UNCHANGED <<phase, replaced, misplaced, persistent>> /\ UserCodeRuns
        /\ \A m \in Name \ {n} : function_table'[m] = function_table[m]
      BY <1>1, <1>t DEF FunctionAdd, Declare, TypeOK
  <2> QED
      BY <1>t, <2>1, <2>2, UserStepStrayInv DEF TypeOK
<1>2. ASSUME NEW n \in Name, NEW b \in Body, FunctionRedefine(n, b)
      PROVE  StrayInv'
  <2>1. FetchForRemoval(n) /\ function_table[n] # None
      BY <1>2 DEF FunctionRedefine, FetchForRemoval, Fetchable
  <2>2. IsInternal(function_table'[n]) => IsInternal(function_table[n])
      BY <1>t, <1>2, CloneUserType DEF FunctionRedefine, TypeOK, IsInternal
  <2>3. /\ UNCHANGED <<phase, misplaced, persistent>> /\ UserCodeRuns
        /\ \A m \in Name \ {n} : function_table'[m] = function_table[m]
      BY <1>2, <1>t, <2>1 DEF FunctionRedefine, DestroyMisplaced, FetchForRemoval, TypeOK
  <2> QED
      BY <1>t, <2>1, <2>2, <2>3, FetchFacts, UserStepStrayInv DEF TypeOK
<1>3. ASSUME NEW n \in Name, FunctionRedefineFatal(n) \/ FunctionRemove(n)
      PROVE  StrayInv'
  <2>1. FetchForRemoval(n) /\ function_table[n] # None
      BY <1>3 DEF FunctionRedefineFatal, FunctionRemove, FetchForRemoval, Fetchable
  <2>2. /\ UNCHANGED <<phase, misplaced, persistent>> /\ UserCodeRuns
        /\ \A m \in Name : function_table'[m] \in {function_table[m], None}
      BY <1>3, <1>t, <2>1
      DEF FunctionRedefineFatal, FunctionRemove, DestroyMisplaced, FetchForRemoval, TypeOK
  <2> QED
      BY <1>t, <2>1, <2>2, FetchFacts, UserStepStrayInv DEF TypeOK
<1>4. ASSUME NEW s \in Name, NEW d \in Name, FunctionRename(s, d)
      PROVE  StrayInv'
  <2>1. FetchForRemoval(s) /\ function_table[s] # None
      BY <1>4 DEF FunctionRename, FetchForRemoval, Fetchable
  <2>2. /\ UNCHANGED <<phase, persistent>> /\ UserCodeRuns
        /\ \A m \in Name \ {d} : function_table'[m] \in {function_table[m], None}
        /\ d # s /\ function_table'[d] = Renamed(s, d)
        /\ misplaced \subseteq misplaced' /\ misplaced' \subseteq Name
        /\ IsInternal(Renamed(s, d)) => d \in misplaced'
      BY <1>4, <1>t, <2>1
      DEF FunctionRename, DestroyMisplaced, AddToMisplaced, FetchForRemoval, TypeOK
  <2> QED
      BY <1>t, <2>1, <2>2, FetchFacts, UserStepStrayInv
<1>5. ASSUME NEW s \in Name, NEW d \in Name, FunctionCopy(s, d)
      PROVE  StrayInv'
  <2>1. /\ UNCHANGED <<phase, persistent, replaced>> /\ UserCodeRuns
        /\ \A m \in Name \ {d} : function_table'[m] = function_table[m]
        /\ misplaced \subseteq misplaced' /\ misplaced' \subseteq Name
        /\ IsInternal(function_table'[d]) => d \in misplaced'
      BY <1>5, <1>t DEF FunctionCopy, AddToMisplaced, TypeOK
  <2> QED
      BY <1>t, <2>1, UserStepStrayInv DEF TypeOK
<1>6. CASE RequestStartup \/ RequestShutdown \/ ShutdownExecutor
  <2>1. phase' = "running" => RequestStartup
      BY <1>6 DEF RequestShutdown, ShutdownExecutor
  <2> QED
      BY <2>1 DEF RequestStartup, StrayInv, StraysAreMisplaced, Present, Empty
<1>7. CASE UNCHANGED vars
    BY <1>7 DEF vars, StrayInv, StraysAreMisplaced, Present
<1> QED
    BY <1>1, <1>2, <1>3, <1>4, <1>5, <1>6, <1>7 DEF Next, ApiCall

LEMMA InitStrayInv == Init => StrayInv
    BY DEF Init, StrayInv, StraysAreMisplaced

(* Whatever is done to a copy or a renamed function after it was made, an  *)
(* internal function under a name the request did not begin with is in the *)
(* list to be wiped.                                                       *)
THEOREM StraysAreAlwaysMisplaced == Spec => []StraysAreMisplaced
<1>1. StrayInv => StraysAreMisplaced
    BY DEF StrayInv
<1> QED
    BY <1>1, InitRequestInv, NextRequestInv, InitStrayInv, NextStrayInv, PTL DEF Spec

(* What runkit7's handler leaves internal under a name the request did not *)
(* begin with is what it has itself put back there: a clone, taken of a    *)
(* function that was misplaced.                                            *)
StraysAreRestored ==
    [][RequestShutdown =>
          \A n \in Name \ Present(persistent) :
             function_table'[n] # None /\ IsInternal(function_table'[n]) =>
                Fpm /\ n \in misplaced /\ function_table'[n] = replaced[n]]_vars

LEMMA ShutdownStrays ==
    ASSUME RequestInv, StrayInv, RequestShutdown,
           NEW n \in Name, n \notin Present(persistent),
           function_table'[n] # None, IsInternal(function_table'[n])
    PROVE  Fpm /\ n \in misplaced /\ function_table'[n] = replaced[n]
<1>1. phase = "running" /\ function_table'[n] = Restored(Wiped)[n]
    BY DEF RequestShutdown
<1>2. CASE Fpm /\ replaced[n] # None
    BY <1>1, <1>2 DEF Restored, StrayInv, Present
<1>3. CASE ~(Fpm /\ replaced[n] # None)
  <2>1. n \notin misplaced /\ function_table'[n] = function_table[n]
      BY <1>1, <1>3 DEF Restored, Wiped
  <2> QED
      BY <1>1, <2>1 DEF StrayInv, StraysAreMisplaced, Present
<1> QED
    BY <1>2, <1>3

(* The handler's restore is the only thing that leaves a stray.            *)
THEOREM OnlyTheRestoreLeavesStrays == Spec => StraysAreRestored
<1>1. RequestInv /\ StrayInv /\ [Next]_vars =>
         [RequestShutdown =>
            \A n \in Name \ Present(persistent) :
               function_table'[n] # None /\ IsInternal(function_table'[n]) =>
                  Fpm /\ n \in misplaced /\ function_table'[n] = replaced[n]]_vars
    BY ShutdownStrays
<1> QED
    BY <1>1, InitRequestInv, NextRequestInv, InitStrayInv, NextStrayInv, PTL
    DEF Spec, StraysAreRestored

(* A SAPI that does not restore leaves none.                               *)
THEOREM NoStrayWithoutRestore == ~Fpm => (Spec => []NoStrayInternal)
<1> SUFFICES ASSUME ~Fpm
             PROVE  Spec => []NoStrayInternal
    OBVIOUS
<1>1. Init => NoStrayInternal
    BY DEF Init, NoStrayInternal
<1>2. RequestInv /\ StrayInv /\ NoStrayInternal /\ [Next]_vars => NoStrayInternal'
  <2> SUFFICES ASSUME RequestInv, StrayInv, NoStrayInternal, [Next]_vars
               PROVE  NoStrayInternal'
      OBVIOUS
  <2>1. CASE RequestShutdown
    <3>1. UNCHANGED persistent
        BY <2>1 DEF RequestShutdown
    <3> QED
        BY <2>1, <3>1, ShutdownStrays DEF NoStrayInternal, Present
  <2>2. CASE RequestStartup \/ ShutdownExecutor
      BY <2>2 DEF RequestStartup, ShutdownExecutor, NoStrayInternal
  <2>3. CASE ApiCall
    <3>1. phase' = phase /\ phase \in {"running", "late"}
        BY <2>3
        DEF ApiCall, FunctionAdd, FunctionRedefine, Declare, FunctionRedefineFatal,
            FunctionRemove, FunctionRename, FunctionCopy, FetchForRemoval, UserCodeRuns
    <3> QED
        BY <3>1 DEF NoStrayInternal
  <2>4. CASE UNCHANGED vars
      BY <2>4 DEF vars, NoStrayInternal, Present
  <2> QED
      BY <2>1, <2>2, <2>3, <2>4 DEF Next
<1> QED
    BY <1>1, <1>2, InitRequestInv, NextRequestInv, InitStrayInv, NextStrayInv, PTL DEF Spec

-----------------------------------------------------------------------------
(* With runkit.internal_override off nothing is ever replaced or misplaced, *)
(* so the shutdown handler has nothing to do and the engine's cleanup stays *)
(* the short one.                                                           *)
OnlyUserFunctionsChange ==
    /\ \A n \in Boot : function_table[n] = Native(n)
    /\ \A n \in Name \ Boot : function_table[n] # None => ~IsInternal(function_table[n])

OffInv ==
    /\ OnlyUserFunctionsChange
    /\ replaced = Empty
    /\ misplaced = {}
    /\ ~full_tables_cleanup
    /\ \A n \in Name : persistent[n] # None <=> n \in Boot
    /\ phase = "idle" => Present(function_table) \subseteq Boot

LEMMA OnlyUserFunctionsFetchable ==
    ASSUME ~InternalOverride, OffInv, NEW n \in Name, Fetchable(n)
    PROVE  n \notin Boot /\ ~IsInternal(function_table[n])
<1>1. function_table[n] # None /\ ~IsInternal(function_table[n])
    BY Zenon DEF Fetchable
<1>2. \A x \in Boot : IsInternal(Native(x))
    BY DEF IsInternal, Native
<1> QED
    BY <1>1, <1>2 DEF OffInv, OnlyUserFunctionsChange

(* A call that goes by the permission check writes only entries that are    *)
(* not internal, and those no internal function.                            *)
LEMMA UserStepOffInv ==
    ASSUME OffInv, UserCodeRuns,
           \A n \in Name :
              \/ function_table'[n] = function_table[n]
              \/ /\ n \notin Boot
                 /\ function_table'[n] # None => ~IsInternal(function_table'[n]),
           replaced' = replaced, misplaced' = misplaced, persistent' = persistent,
           full_tables_cleanup' = full_tables_cleanup, phase' = phase
    PROVE  OffInv'
<1>1. OnlyUserFunctionsChange'
    BY FunctionTableAssumption DEF OffInv, OnlyUserFunctionsChange
<1>2. phase' # "idle"
    BY DEF UserCodeRuns
<1> QED
    BY <1>1, <1>2 DEF OffInv

LEMMA FetchChangesNothing ==
    ASSUME ~InternalOverride, TypeOK, OffInv, NEW n \in Name, FetchForRemoval(n)
    PROVE  /\ UserCodeRuns /\ n \notin Boot /\ ~IsInternal(function_table[n])
           /\ replaced' = replaced /\ full_tables_cleanup' = full_tables_cleanup
<1>1. n \notin Boot /\ ~IsInternal(function_table[n]) /\ UserCodeRuns
    BY OnlyUserFunctionsFetchable DEF FetchForRemoval
<1>2. replaced' = replaced
    BY <1>1 DEF FetchForRemoval, Recorded
<1>3. full_tables_cleanup = FALSE
    BY DEF OffInv, TypeOK
<1>4. full_tables_cleanup' = FALSE
    BY <1>1, <1>3, Zenon DEF FetchForRemoval
<1> QED
    BY <1>1, <1>2, <1>3, <1>4

LEMMA NextOffInv ==
    ASSUME ~InternalOverride, RequestInv, OffInv, [Next]_vars
    PROVE  OffInv'
<1>t. TypeOK
    BY DEF RequestInv
<1>0. \A n \in Boot : n \in Name /\ Native(n) # None /\ IsInternal(Native(n))
    BY FunctionTableAssumption, InternalIsInternal DEF IsInternal, Native
<1>f. \A n \in Name : replaced[n] = None
    BY DEF OffInv, Empty
<1>1. ASSUME NEW n \in Name, NEW b \in Body, FunctionAdd(n, b) \/ Declare(n, b)
      PROVE  OffInv'
  <2>1. n \notin Boot
      BY <1>0, <1>1 DEF FunctionAdd, Declare, OffInv, OnlyUserFunctionsChange
  <2>2. function_table' = [function_table EXCEPT ![n] = UserFn(b, n)]
      BY <1>1, <1>f DEF FunctionAdd, Declare, CloneUser
  <2>3. ~IsInternal(UserFn(b, n))
      BY DEF UserFn, IsInternal
  <2> QED
      BY <1>1, <1>t, <2>1, <2>2, <2>3, UserStepOffInv DEF FunctionAdd, Declare, TypeOK
<1>2. ASSUME NEW n \in Name, NEW b \in Body, FunctionRedefine(n, b)
      PROVE  OffInv'
  <2>1. FetchForRemoval(n)
      BY <1>2 DEF FunctionRedefine
  <2>2. function_table' = [function_table EXCEPT ![n] = UserFn(b, n)]
      BY <1>2, <1>t, <2>1, FetchChangesNothing DEF FunctionRedefine, CloneUser
  <2>3. ~IsInternal(UserFn(b, n))
      BY DEF UserFn, IsInternal
  <2> QED
      BY <1>2, <1>t, <2>1, <2>2, <2>3, FetchChangesNothing, UserStepOffInv
      DEF FunctionRedefine, DestroyMisplaced, TypeOK
<1>3. ASSUME NEW n \in Name, FunctionRedefineFatal(n) \/ FunctionRemove(n)
      PROVE  OffInv'
  <2>1. FetchForRemoval(n)
      BY <1>3 DEF FunctionRedefineFatal, FunctionRemove
  <2> QED
      BY <1>3, <1>t, <2>1, FetchChangesNothing, UserStepOffInv
      DEF FunctionRedefineFatal, FunctionRemove, DestroyMisplaced, TypeOK
<1>4. ASSUME NEW s \in Name, NEW d \in Name, FunctionRename(s, d)
      PROVE  OffInv'
  <2>1. FetchForRemoval(s) /\ function_table[d] = None /\ function_table[s] # None
      BY <1>4 DEF FunctionRename, FetchForRemoval, Fetchable
  <2>2. d \notin Boot
      BY <1>0, <2>1 DEF OffInv, OnlyUserFunctionsChange
  <2>3. ~IsInternal(Renamed(s, d))
      BY <1>t, <1>f, <2>1, RenamedType, FetchChangesNothing
  <2>4. misplaced' = misplaced
      BY <1>4, <2>3 DEF FunctionRename, AddToMisplaced, DestroyMisplaced
  <2> QED
      BY <1>4, <1>t, <2>1, <2>2, <2>3, <2>4, FetchChangesNothing, UserStepOffInv
      DEF FunctionRename, TypeOK
<1>5. ASSUME NEW s \in Name, NEW d \in Name, FunctionCopy(s, d)
      PROVE  OffInv'
  <2>1. d \notin Boot /\ function_table[s] # None
      BY <1>0, <1>5 DEF FunctionCopy, Fetchable, OffInv, OnlyUserFunctionsChange
  <2>2. ~IsInternal(Copied(s, d))
      BY <1>5, <1>t, <2>1, RenamedType, OnlyUserFunctionsFetchable DEF FunctionCopy
  <2>3. misplaced' = misplaced
      BY <1>5, <2>2 DEF FunctionCopy, AddToMisplaced
  <2> QED
      BY <1>5, <1>t, <2>1, <2>2, <2>3, UserStepOffInv DEF FunctionCopy, TypeOK
<1>6. CASE RequestStartup
  <2>1. \A n \in Name : function_table[n] # None <=> n \in Boot
      BY <1>0, <1>6 DEF RequestStartup, OffInv, OnlyUserFunctionsChange, Present
  <2> QED
      BY <1>6, <2>1 DEF RequestStartup, OffInv, OnlyUserFunctionsChange
<1>7. CASE RequestShutdown
  <2>1. function_table' = function_table
      BY <1>7, <1>f, <1>t DEF RequestShutdown, Restored, Wiped, OffInv, TypeOK
  <2> QED
      BY <1>7, <2>1 DEF RequestShutdown, OffInv, OnlyUserFunctionsChange
<1>8. CASE ShutdownExecutor
  <2>1. \A n \in Name : function_table'[n] =
            IF n \in Boot THEN function_table[n] ELSE None
      BY <1>0, <1>8 DEF ShutdownExecutor, OffInv, OnlyUserFunctionsChange
  <2> QED
      BY <1>0, <1>8, <2>1 DEF ShutdownExecutor, OffInv, OnlyUserFunctionsChange, Present
<1>9. CASE UNCHANGED vars
    BY <1>9 DEF vars, OffInv, OnlyUserFunctionsChange, Present
<1> QED
    BY <1>1, <1>2, <1>3, <1>4, <1>5, <1>6, <1>7, <1>8, <1>9 DEF Next, ApiCall

(* With runkit.internal_override off no call of the API touches an internal *)
(* function or makes one, whatever modules shut down after runkit7.         *)
THEOREM OverrideAlwaysRespected == ~InternalOverride => (Spec => []OverrideRespected)
<1> SUFFICES ASSUME ~InternalOverride
             PROVE  Spec => []OverrideRespected
    OBVIOUS
<1>1. Init => RequestInv /\ OffInv
  <2>1. \A n \in Boot : n \in Name /\ Native(n) # None
      BY FunctionTableAssumption, InternalIsInternal
  <2> QED
      BY <2>1, InitRequestInv
      DEF Init, OffInv, OnlyUserFunctionsChange, BootTable, Present
<1>2. RequestInv /\ OffInv /\ [Next]_vars => (RequestInv /\ OffInv)'
    BY NextOffInv, NextRequestInv
<1>3. OffInv => OverrideRespected
    BY DEF OffInv, OnlyUserFunctionsChange, OverrideRespected, Present
<1> QED
    BY <1>1, <1>2, <1>3, PTL DEF Spec

=============================================================================
