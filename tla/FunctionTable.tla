---------------------------- MODULE FunctionTable ----------------------------
(***************************************************************************)
(* The global function table of one PHP worker process, as runkit7's       *)
(* function API manipulates it during a request, and the request startup   *)
(* and shutdown that must give the next request its functions back.        *)
(*                                                                         *)
(* A PHP_FUNCTION of the extension runs to its return or to a fatal error  *)
(* without running user code, so one call is one action.  A call that      *)
(* fails before it has changed anything is a stuttering step.              *)
(***************************************************************************)

CONSTANTS
    Name,             \* lowercased function names
    Boot,             \* the names of the internal functions the process boots with
    Body,             \* bodies of user functions
    None,             \* "no entry" in a hash table
    InternalOverride, \* the ini setting runkit.internal_override
    Fpm,              \* the SAPI is "fpm-fcgi": the only one that restores
    LateCallbacks     \* a module loaded before runkit7 calls user code from its
                      \* own RSHUTDOWN (session, with a save handler or __sleep)

(***************************************************************************)
(* A zend_function.  "native": an internal function of the engine, whose   *)
(* body is named after it.  "user": an op_array.  "alias": an internal     *)
(* function made by runkit7 whose handler calls an inner user function by  *)
(* its function_name: that is the name here, a copy of an alias shares it. *)
(* The function_name an internal function has itself is left out.          *)
(***************************************************************************)
Native(n)     == [kind |-> "native", body |-> n]
UserFn(b, n)  == [kind |-> "user",   body |-> b, name |-> n]
AliasFn(b, n) == [kind |-> "alias",  body |-> b, name |-> n]

Internal == { Native(n) : n \in Boot } \cup
            [kind : {"alias"}, body : Body, name : Name]
Fn       == Internal \cup [kind : {"user"}, body : Body, name : Name]

IsInternal(fe) == fe.kind # "user"

ASSUME FunctionTableAssumption ==
    /\ Boot \subseteq Name
    /\ None \notin Fn
    /\ {InternalOverride, Fpm, LateCallbacks} \subseteq BOOLEAN

VARIABLES
    phase,               \* where the worker is in the life of a request
    function_table,      \* EG(function_table)
    replaced,            \* RUNKIT_G(replaced_internal_functions): name -> clone
    misplaced,           \* the names in the list RUNKIT_G(misplaced_internal_functions)
    full_tables_cleanup, \* EG(full_tables_cleanup)
    persistent           \* the table when the request began: what precedes
                         \* EG(persistent_functions_count)

vars == <<phase, function_table, replaced, misplaced, full_tables_cleanup, persistent>>

Empty      == [n \in Name |-> None]
Present(t) == { n \in Name : t[n] # None }
BootTable  == [n \in Name |-> IF n \in Boot THEN Native(n) ELSE None]

TypeOK ==
    /\ phase \in {"idle", "running", "late", "down"}
    /\ function_table \in [Name -> Fn \cup {None}]
    /\ replaced \in [Name -> Internal \cup {None}]
    /\ misplaced \in SUBSET Name
    /\ full_tables_cleanup \in BOOLEAN
    /\ persistent \in [Name -> Internal \cup {None}]

Init ==
    /\ phase = "idle"
    /\ function_table = BootTable
    /\ replaced = Empty
    /\ misplaced = {}
    /\ full_tables_cleanup = FALSE
    /\ persistent = BootTable

-----------------------------------------------------------------------------
(* Helpers of the API functions.                                           *)

UserCodeRuns == phase \in {"running", "late"}

(* php_runkit_fetch_function finds an entry it may work on.                *)
FetchableUnchecked(n) == function_table[n] # None
Fetchable(n) ==
    /\ function_table[n] # None
    /\ IsInternal(function_table[n]) => InternalOverride

(* The clone the fetch keeps of an internal function about to be taken     *)
(* away: the first one recorded under a name stays.                        *)
RecordedUser(n) ==
    IF replaced[n] = None THEN [replaced EXCEPT ![n] = function_table[n]] ELSE replaced
RecordedAgain(n) ==
    IF IsInternal(function_table[n]) THEN [replaced EXCEPT ![n] = function_table[n]]
    ELSE replaced
RecordedNowhere(n) == replaced
Recorded(n) ==
    IF IsInternal(function_table[n]) /\ replaced[n] = None
    THEN [replaced EXCEPT ![n] = function_table[n]]
    ELSE replaced

(* A fetch for removal, redefinition or renaming.                          *)
FetchForRemoval(n) ==
    /\ UserCodeRuns
    /\ Fetchable(n)
    /\ replaced' = Recorded(n)
    /\ full_tables_cleanup' = (full_tables_cleanup \/ IsInternal(function_table[n]))

(* A new entry from user code: where the target must be internal, an alias *)
(* around the user function.                                               *)
CloneUser(b, n, internal) == IF internal THEN AliasFn(b, n) ELSE UserFn(b, n)

(* The list has numeric keys, and this looks a name up as a key: no entry  *)
(* is ever found, none removed.                                            *)
DestroyMisplacedByName(list, n) == list \ {n}
DestroyMisplaced(list, n) == list

AddToMisplaced(list, fe, n) == IF IsInternal(fe) THEN list \cup {n} ELSE list

-----------------------------------------------------------------------------
(* The function API.                                                       *)

FunctionAdd(n, b) ==
    /\ UserCodeRuns
    /\ function_table[n] = None
    /\ function_table' = [function_table EXCEPT ![n] = CloneUser(b, n, replaced[n] # None)]
    /\ UNCHANGED <<phase, replaced, misplaced, full_tables_cleanup, persistent>>

FunctionRedefine(n, b) ==
    /\ FetchForRemoval(n)
    /\ misplaced' = DestroyMisplaced(misplaced, n)
    /\ function_table' =
          [function_table EXCEPT ![n] = CloneUser(b, n, IsInternal(function_table[n]))]
    /\ UNCHANGED <<phase, persistent>>

(* The new code does not compile: a fatal error after the fetch.  What     *)
(* runs next are the shutdown functions and destructors, still user code.  *)
FunctionRedefineFatal(n) ==
    /\ FetchForRemoval(n)
    /\ UNCHANGED <<phase, function_table, misplaced, persistent>>

FunctionRemove(n) ==
    /\ FetchForRemoval(n)
    /\ misplaced' = DestroyMisplaced(misplaced, n)
    /\ function_table' = [function_table EXCEPT ![n] = None]
    /\ UNCHANGED <<phase, persistent>>

(* The function that arrives under the new name: user code is cloned to    *)
(* the type its new name had, the inner function of an alias moves out to  *)
(* a name that was not internal, any other internal function moves as is.  *)
Renamed(s, d) ==
    LET fe == function_table[s]
        was_internal_function == replaced[d] # None
    IN  CASE fe.kind = "user" -> CloneUser(fe.body, d, was_internal_function)
          [] fe.kind = "alias" /\ ~was_internal_function -> UserFn(fe.body, fe.name)
          [] OTHER -> fe

FunctionRename(s, d) ==
    /\ function_table[d] = None
    /\ FetchForRemoval(s)
    /\ function_table' = [function_table EXCEPT ![s] = None, ![d] = Renamed(s, d)]
    /\ misplaced' = AddToMisplaced(DestroyMisplaced(misplaced, s), Renamed(s, d), d)
    /\ UNCHANGED <<phase, persistent>>

(* An internal clone shares its handler, and the inner function of an      *)
(* alias, with the original.                                               *)
Copied(s, d) ==
    LET fe == function_table[s]
    IN  IF IsInternal(fe) THEN fe ELSE UserFn(fe.body, d)

FunctionCopy(s, d) ==
    /\ UserCodeRuns
    /\ function_table[d] = None
    /\ Fetchable(s)
    /\ function_table' = [function_table EXCEPT ![d] = Copied(s, d)]
    /\ misplaced' = AddToMisplaced(misplaced, Copied(s, d), d)
    /\ UNCHANGED <<phase, replaced, full_tables_cleanup, persistent>>

-----------------------------------------------------------------------------
(* The engine and the life of a request.                                   *)

(* The engine compiles a function declaration of the script.               *)
Declare(n, b) ==
    /\ UserCodeRuns
    /\ function_table[n] = None
    /\ function_table' = [function_table EXCEPT ![n] = UserFn(b, n)]
    /\ UNCHANGED <<phase, replaced, misplaced, full_tables_cleanup, persistent>>

(* Request startup: the engine notes where its persistent functions end,   *)
(* then runkit7's RINIT forgets the tables of the request before.          *)
RequestStartup ==
    /\ phase = "idle"
    /\ phase' = "running"
    /\ persistent' = function_table
    /\ full_tables_cleanup' = FALSE
    /\ replaced' = Empty
    /\ misplaced' = {}
    /\ UNCHANGED function_table

Wiped == [n \in Name |-> IF n \in misplaced THEN None ELSE function_table[n]]

RestoredWhereAbsent(t) ==
    [n \in Name |-> IF Fpm /\ replaced[n] # None /\ t[n] = None THEN replaced[n] ELSE t[n]]
Restored(t) == [n \in Name |-> IF Fpm /\ replaced[n] # None THEN replaced[n] ELSE t[n]]

(* runkit7's RSHUTDOWN.  A module loaded earlier may shut down later, with *)
(* its callbacks, or may have done so before: module Process says when.    *)
RequestShutdownWipesLast ==
    /\ phase = "running"
    /\ phase' \in IF LateCallbacks THEN {"late", "down"} ELSE {"down"}
    /\ function_table' =
          [n \in Name |-> IF n \in misplaced THEN None ELSE Restored(function_table)[n]]
    /\ misplaced' = {}
    /\ replaced' = IF Fpm THEN Empty ELSE replaced
    /\ UNCHANGED <<full_tables_cleanup, persistent>>
RequestShutdown ==
    /\ phase = "running"
    /\ phase' \in IF LateCallbacks THEN {"late", "down"} ELSE {"down"}
    /\ function_table' = Restored(Wiped)
    /\ misplaced' = {}
    /\ replaced' = IF Fpm THEN Empty ELSE replaced
    /\ UNCHANGED <<full_tables_cleanup, persistent>>

(* The engine drops the functions of the request: every user function if   *)
(* full_tables_cleanup is set, what was added since startup otherwise.     *)
ShutdownExecutor ==
    /\ phase \in {"late", "down"}
    /\ phase' = "idle"
    /\ function_table' =
          [n \in Name |->
              IF /\ function_table[n] # None
                 /\ IF full_tables_cleanup THEN IsInternal(function_table[n])
                                           ELSE persistent[n] # None
              THEN function_table[n] ELSE None]
    /\ UNCHANGED <<replaced, misplaced, full_tables_cleanup, persistent>>

-----------------------------------------------------------------------------
(* One call of user code: of the API, or a declaration the engine compiles. *)
ApiCall ==
    \/ \E n \in Name, b \in Body :
          FunctionAdd(n, b) \/ FunctionRedefine(n, b) \/ Declare(n, b)
    \/ \E n \in Name : FunctionRedefineFatal(n) \/ FunctionRemove(n)
    \/ \E s, d \in Name : FunctionRename(s, d) \/ FunctionCopy(s, d)

Next ==
    \/ ApiCall
    \/ RequestStartup \/ RequestShutdown \/ ShutdownExecutor

Spec == Init /\ [][Next]_vars

-----------------------------------------------------------------------------
(* Properties.                                                             *)

(* While a request runs, every function it began with can be given back:   *)
(* it is in place untouched, or its clone is in replaced.  The shutdown    *)
(* handler has nothing else to restore from.                               *)
Recoverable ==
    phase = "running" =>
        \A n \in Present(persistent) :
            IF replaced[n] = None THEN function_table[n] = persistent[n]
                                  ELSE replaced[n] = persistent[n]

(* Wiping the rename targets may take away a function the request began    *)
(* with only if the restore that follows puts it back.                     *)
WipeIsUndone ==
    phase = "running" => misplaced \cap Present(persistent) \subseteq Present(replaced)

(* Every request of an FPM worker starts with each internal function of    *)
(* the process under its own name, whatever the requests before it did.    *)
BootRestored ==
    phase = "idle" => \A n \in Boot : function_table[n] = Native(n)

(* An internal function that a request put under a name it did not begin   *)
(* with, by a copy, a rename or as an alias of whatever an earlier call    *)
(* put there, is going to be wiped.  The engine's own cleanup keeps every  *)
(* internal function it finds.                                             *)
StraysAreMisplaced ==
    phase = "running" =>
        \A n \in Present(function_table) \ Present(persistent) :
            IsInternal(function_table[n]) => n \in misplaced

(* runkit7's handler leaves no internal function under a name the request  *)
(* did not begin with: it wipes the "rename-to targets before restoring    *)
(* originals" (runkit.c:424), and what it restores "was originally         *)
(* internal" under its name (runkit_functions.c:124).                      *)
NoStrayInternal ==
    phase = "down" =>
        \A n \in Present(function_table) \ Present(persistent) :
            ~IsInternal(function_table[n])

(* With runkit.internal_override off no call of the API touches an         *)
(* internal function or creates one.                                       *)
OverrideRespected ==
    ~InternalOverride =>
        /\ \A n \in Boot : function_table[n] = Native(n)
        /\ \A n \in Present(function_table) \ Boot : ~IsInternal(function_table[n])

(* A worker never loses or changes a function between requests: whatever   *)
(* a request began with is in the table, unchanged, when it is over.       *)
RequestUndone ==
    [][phase = "down" =>
          \A n \in Present(persistent) : function_table'[n] = persistent[n]]_vars

(* An alias is a function "which will call the duplicated user function    *)
(* instead" (runkit_functions.c:270).  Its handler refuses the call unless *)
(* some function has the inner function's name.                            *)
AliasesCall ==
    UserCodeRuns =>
        \A n \in Present(function_table) :
            function_table[n].kind = "alias" => function_table[function_table[n].name] # None

=============================================================================
